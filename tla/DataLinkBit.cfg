SPECIFICATION Spec
CONSTANTS
  Tcp = {t}
  Udp = {}
  SegLen = 2
  SndBuf = 3
  ReadMax = 1
  Arrival = {1}
  Dirty = {t}
  ShortSend = FALSE
  AllocFails = {}
  Failure = {}
  RxRoom = 2
  TxRoom = 1
  MaxMessage = 1
  MaxArrived = 0
INVARIANT AllSessionsServed
