SPECIFICATION Spec
CONSTANTS
  Items <- FourItems
  Stamps = {1, 2}
  Ranges <- PointAfter
  Versions = {1}
  HasNul = {}
  InitKeys <- FourByOne
  InitVersion = 0
  B = 3
  R = 1
  F = 1
  D = 2
  CacheSize = 1
  RePut = FALSE
  SizeMax = 1024
  MaxBatches = 5
  MaxRequests = 5
INVARIANTS
  AlphaBounded
  NeverCrashes
