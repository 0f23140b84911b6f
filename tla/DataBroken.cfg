SPECIFICATION Spec
CONSTANTS
  Tcp = {t}
  Udp = {}
  SegLen = 2
  SndBuf = 3
  ReadMax = 1
  Arrival = {1}
  Dirty = {}
  ShortSend = FALSE
  AllocFails = {}
  Failure = {"fin", "broken"}
  RxRoom = 2
  TxRoom = 1
  MaxMessage = 1
  MaxArrived = 1
INVARIANT EngineSurvives
CHECK_DEADLOCK FALSE
