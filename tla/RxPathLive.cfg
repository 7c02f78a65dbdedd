SPECIFICATION FairSpec
CONSTANTS
  Conns = {c1, c2}
  Mixes = {{c2}}
  MaxData = 3
  MaxDatagrams = 1
  MaxLives = 1
  RxRingSize = 2
  CacheSize = 2
  Burst = 1
  ReadyRingSize = 8
  CommandBound = 1
  Blocking = FALSE
  KicksMayFail = FALSE
  PeerFins = TRUE
INVARIANTS
  ReadableIsAnnounced
PROPERTIES
  DataIsReceived
