SPECIFICATION Spec
CONSTANTS
  Apps = {a1, a2}
  Bufs = {b1, b2, b3}
  Socks = {s1, s2, s3}
  PoolSize = 3
  CommandRingSize = 3
  RxRingSize = 2
  CtlOps = {"LISTEN", "RXKICK"}
  TermSignals = FALSE
  SelectOnListener = FALSE
  Resets = FALSE
  NULL = NULL
SYMMETRY Symmetry
INVARIANTS
  TypeOK
  SocketsNotShared
  AttachesToEmptyEntry
  FreeConnectionIsQuiet
  OneOwner
  RxKickLeakBounded
CHECK_DEADLOCK FALSE
