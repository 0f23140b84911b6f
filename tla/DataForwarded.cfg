SPECIFICATION Spec
CONSTANTS
  Tcp = {t}
  Udp = {u}
  SegLen = 2
  SndBuf = 3
  ReadMax = 1
  Arrival = {1}
  Dirty = {}
  ShortSend = FALSE
  AllocFails = {}
  Failure = {}
  RxRoom = 2
  TxRoom = 1
  MaxMessage = 3
  MaxArrived = 2
PROPERTIES F2bForwarded B2fForwarded
