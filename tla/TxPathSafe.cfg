SPECIFICATION Spec
CONSTANTS
  Conns = {c1}
  Kinds = {"accepted", "datagram"}
  Short = {c1}
  MaxData = 3
  MaxDrains = 1
  SndBuf = 2
  ShortRoom = 1
  SizeGoals = {0, 2}
  GiveBacks = {0, 1, 2}
  LowMark = 2
  TxRingSize = 3
  ReadyRingSize = 2
  CommandBound = 3
  KicksMayFail = TRUE
  PeerFins = TRUE
  SendsMayFail = TRUE
  MayClose = TRUE
INVARIANTS
  TypeOK
  TxStreamIntact
  TxSpaceAccurate
CHECK_DEADLOCK FALSE
PROPERTIES
  ImplementsStream
