SPECIFICATION FairSpec
CONSTANTS
  Tags <- MCDuo
  Files = {1, 3, 4}
  Audio = {1, 3, 4}
  Present = {1, 3}
  None = None
  MaxFaults = 1
  ReadsMayFail = TRUE
  ListMayFail = FALSE
  MaxCrashes = 1
INVARIANT FullCredits
 
