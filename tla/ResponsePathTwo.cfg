SPECIFICATION Spec
CONSTANTS
  Clients = {c1, c2}
  Calls <- MixedCalls
  BatchSizes = {1}
  SplitSizes = {0, 1}
  R = 2
  Threads = 2
  MaxCalls = 2
SYMMETRY ClientSymmetry
CHECK_DEADLOCK FALSE
INVARIANTS
  TypeOK
  AnsweredInOrder
  ReadYourWrites
