SPECIFICATION Spec
CONSTANTS
  c1 = c1
  c2 = c2
  Clients = {c1, c2}
  Requests <- MCEdits
  Songs = {"a", "b", "c", "d", "e", "f"}
  InitialSongs <- MCInitialSongs
  Owner = "alice"
  None = None
  Bad = Bad
  Width = 8
  MaxRequests = 3
  MaxFaults = 1
INVARIANTS AppliedGapless InOrder ShownHad
CHECK_DEADLOCK FALSE
