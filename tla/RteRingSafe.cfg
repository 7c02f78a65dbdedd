SPECIFICATION Spec
CONSTANTS
  Producers = {p1, p2}
  Consumers = {k1, k2}
  Size = 4
  Modulus = 8
  Start = 6
  MaxBurst = 2
  MaxObjs = 2
  MaxDeaths = 1
  TakeTurns = TRUE
SYMMETRY Symmetry
INVARIANTS
  TypeOK
  IndicesInOrder
PROPERTIES
  ImplementsQueue
  FailuresAreTrue
CHECK_DEADLOCK FALSE
