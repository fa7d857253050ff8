SPECIFICATION FairSpec
CONSTANTS
  Items <- TwoItems
  Stamps = {1, 2, 3}
  Ranges <- RangesPair
  Versions = {1}
  HasNul = {}
  InitKeys <- TwoByTwo
  InitVersion = 0
  B = 4
  R = 2
  F = 1
  D = 2
  CacheSize = 1
  RePut = FALSE
  SizeMax = 1024
  MaxBatches = 2
  MaxRequests = 4
PROPERTIES
  GetAnswered
  IdsReclaimed
