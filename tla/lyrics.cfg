SPECIFICATION FairSpec
CONSTANTS
  Libraries <- MCLibraries
  Requests <- MCRequests
  ILike <- MCILike
  SearchLimit = 2
  Texts <- MCTexts
  Answers <- MCAnswers
  None = None
  Broken = Broken
INVARIANTS BestSource AllLines FirstFit
PROPERTY LookupEnds
CHECK_DEADLOCK FALSE
