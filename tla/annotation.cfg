SPECIFICATION Spec
CONSTANTS
  c1 = c1
  c2 = c2
  Users = {"alice", "bob"}
  Rows <- MCRows
  Items <- MCItems
  Clients = {c1, c2}
  Requests <- MCRequests
  Bad = Bad
  None = None
  MaxRequests = 3
  MaxFaults = 1
SYMMETRY ClientSymmetry
INVARIANTS AckedKept StarsShown
CHECK_DEADLOCK FALSE
