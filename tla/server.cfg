SPECIFICATION FairSpec
CONSTANTS
  Settings <- MCSettings
  Migrations = 2
  UsersAt = 1
  Commands = {k1, k2}
  CommandSettings <- MCCommandSettings
  Accounts <- MCAccounts
  TooLong = TooLong
  Clients = {c1}
  Requests <- MCRequests
  None = None
  Bad = Bad
  MaxStarts = 2
  MaxRequests = 2
  MaxFaults = 1
INVARIANTS ServesMigrated CreatedKept Admitted
PROPERTIES StartsServingClean
CHECK_DEADLOCK FALSE
