SPECIFICATION FairSpec
CONSTANTS
  Conns = {c1}
  Kinds = {"connected", "datagram"}
  Short = {c1}
  MaxData = 3
  MaxDrains = 0
  SndBuf = 2
  ShortRoom = 1
  SizeGoals = {1, 2}
  GiveBacks = {0, 1, 2}
  LowMark = 2
  TxRingSize = 3
  ReadyRingSize = 4
  CommandBound = 3
  KicksMayFail = FALSE
  PeerFins = TRUE
  SendsMayFail = FALSE
  MayClose = FALSE
INVARIANTS
  BacklogIsNoticed
PROPERTIES
  EverythingIsSent
CHECK_DEADLOCK FALSE
