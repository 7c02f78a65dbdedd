SPECIFICATION Spec
CONSTANTS
  MaxBufs = 3
  MaxChain = 3
  MaxLen = 3
  MaxAsk = 5
  ReleaseFirst = TRUE
INVARIANTS
  TypeOK
  ReadsInOrderInside
  ReportsLength
  BuffersAccountedFor
  RestIsAnnounced
CHECK_DEADLOCK FALSE
