SPECIFICATION FairSpec
CONSTANTS
  no_items = 3
  N = 7
  batch_size = 1
  client_batch_size = 2
  Programs <- AllPrograms
  IdStarts <- ZeroOrMinusOne
  in_flight_limit_ = 2
  MaxRounds = 3
  MaxSearches = 1
CHECK_DEADLOCK FALSE
INVARIANTS
  TypeOK
  TraceArrives
  PutsInTimeOrder
  MessagesUnderstood
  AnswersMatch
  Conserved
PROPERTIES
  CallsAnswered
  MainReturns
