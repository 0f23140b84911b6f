SPECIFICATION Spec
CONSTANTS
  Tcp = {t}
  Udp = {}
  SegLen = 2
  SndBuf = 3
  ReadMax = 1
  Arrival = {1}
  Dirty = {}
  ShortSend = TRUE
  AllocFails = {}
  Failure = {}
  RxRoom = 2
  TxRoom = 1
  MaxMessage = 2
  MaxArrived = 0
INVARIANT F2bInOrder
