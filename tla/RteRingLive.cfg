SPECIFICATION FairSpec
CONSTANTS
  Producers = {p1, p2}
  Consumers = {k1}
  Size = 4
  Modulus = 8
  Start = 6
  MaxBurst = 2
  MaxObjs = 2
  MaxDeaths = 1
  TakeTurns = TRUE
PROPERTIES
  ReservedReturns
CHECK_DEADLOCK FALSE
