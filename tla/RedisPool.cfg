SPECIFICATION FairSpec
CONSTANTS
  Users = {u1, u2}
  Clients = {c1, c2}
  First = c1
  NoClient = NoClient
  MaxBatch = 3
  MaxOps = 2
  MaxFaults = 3
INVARIANTS OneUser InStep RepeatedOnlyIfLost PoolWithinPeak
PROPERTIES OperationsEnd
CHECK_DEADLOCK FALSE
