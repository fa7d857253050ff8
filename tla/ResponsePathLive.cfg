SPECIFICATION FairSpec
CONSTANTS
  Clients = {c1, c2}
  Calls <- WaitingCalls
  BatchSizes = {1, 2}
  SplitSizes = {0, 1}
  R = 3
  Threads = 2
  MaxCalls = 1
CHECK_DEADLOCK FALSE
INVARIANTS
  PoolServes
PROPERTIES
  ResponseDelivered
