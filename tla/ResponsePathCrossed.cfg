SPECIFICATION Spec
CONSTANTS
  Clients = {c1, c2}
  Calls <- BatchCalls
  BatchSizes = {1}
  SplitSizes = {1}
  R = 1
  Threads = 2
  MaxCalls = 2
CHECK_DEADLOCK FALSE
INVARIANTS
  OwnAnswers
