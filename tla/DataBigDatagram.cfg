SPECIFICATION Spec
CONSTANTS
  Tcp = {}
  Udp = {u}
  SegLen = 2
  SndBuf = 3
  ReadMax = 1
  Arrival = {2}
  Dirty = {}
  ShortSend = FALSE
  AllocFails = {}
  Failure = {}
  RxRoom = 2
  TxRoom = 1
  MaxMessage = 0
  MaxArrived = 2
INVARIANT NothingForgotten
