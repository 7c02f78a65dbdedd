SPECIFICATION FairSpec
CONSTANTS
  Apps = {a1}
  Bufs = {b1, b2}
  Socks = {s1, s2}
  PoolSize = 3
  CommandRingSize = 2
  RxRingSize = 2
  CtlOps = {"LISTEN", "SELECT", "KICK", "RXKICK", "CTL"}
  TermSignals = FALSE
  SelectOnListener = TRUE
  Resets = TRUE
  NULL = NULL
INVARIANTS
  SocketsNotShared
PROPERTIES
  QueuedCommandReturns
CHECK_DEADLOCK FALSE
