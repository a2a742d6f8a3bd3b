SPECIFICATION Spec
CONSTANTS
  c1 = c1
  c2 = c2
  Clients = {c1, c2}
  Requests <- MCAdds
  Songs = {"a", "b", "c", "d", "e", "f"}
  InitialSongs <- MCInitialSongs
  Owner = "alice"
  None = None
  Bad = Bad
  Width = 8
  MaxRequests = 4
  MaxFaults = 1
INVARIANTS Dense AddsKept
CHECK_DEADLOCK FALSE
