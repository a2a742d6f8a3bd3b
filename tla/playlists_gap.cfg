SPECIFICATION Spec
CONSTANTS
  c1 = c1
  c2 = c2
  Clients = {c1, c2}
  Requests <- MCAddAndRemove
  Songs = {"a", "b", "c", "d", "e", "f"}
  InitialSongs <- MCInitialSongs
  Owner = "alice"
  None = None
  Bad = Bad
  Width = 8
  MaxRequests = 4
  MaxFaults = 0
INVARIANTS Applied
CHECK_DEADLOCK FALSE
