SPECIFICATION FairSpec
CONSTANTS
  Conns = {c1, c2}
  NSlots = 2
  MaxPending = 1
INVARIANTS
  TypeOK
  ListsConsistent
  HeldWhileListed
  DanglingOnlyByReset
PROPERTIES
  StaleOnlyByReset
  ResetIsReported
CHECK_DEADLOCK FALSE
