SPECIFICATION FairSpec
CONSTANTS
  Callers = {t1}
  Limit = 2
  MaxSent = 4
CHECK_DEADLOCK FALSE
PROPERTIES
  CallReturns
