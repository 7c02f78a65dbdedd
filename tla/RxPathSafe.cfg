SPECIFICATION Spec
CONSTANTS
  Conns = {c1}
  Mixes = {{}, {c1}}
  MaxData = 4
  MaxDatagrams = 4
  MaxLives = 2
  RxRingSize = 4
  CacheSize = 3
  Burst = 3
  ReadyRingSize = 4
  CommandBound = 3
  Blocking = FALSE
  KicksMayFail = TRUE
  PeerFins = TRUE
INVARIANTS
  TypeOK
  StreamIntact
PROPERTIES
  ImplementsStream
