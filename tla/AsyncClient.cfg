SPECIFICATION FairSpec
CONSTANTS
  Callers = {t1, t2, t3}
  Limit = 2
  MaxSent = 5
CHECK_DEADLOCK FALSE
INVARIANTS
  TypeOK
  InFlightBounded
  Accounted
PROPERTIES
  WaiterWoken
  FinishReturns
