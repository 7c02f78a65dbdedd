SPECIFICATION Spec
CONSTANTS
  MaxBufs = 3
  MaxChain = 3
  MaxLen = 2
  MaxAsk = 3
  ReleaseFirst = TRUE
INVARIANTS
  ReadsInOrder
CHECK_DEADLOCK FALSE
