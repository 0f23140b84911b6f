SPECIFICATION Spec
CONSTANTS
  Tcp = {t}
  Udp = {u}
  SegLen = 2
  SndBuf = 3
  ReadMax = 1
  Arrival = {1}
  Dirty = {u}
  ShortSend = FALSE
  AllocFails = {"b2f"}
  Failure = {"fin", "reset", "broken"}
  RxRoom = 2
  TxRoom = 1
  MaxMessage = 2
  MaxArrived = 2
INVARIANTS F2bInOrder B2fInOrder LinkStateTrue VisitsLiveSessions NothingForgotten
CHECK_DEADLOCK FALSE
