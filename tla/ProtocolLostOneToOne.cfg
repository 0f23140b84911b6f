SPECIFICATION ProtoSpec
CONSTANTS
  DevNum = 1
  Active = {0}
  NodeNum = 2
  IdNum = 3
  FrontId = {1, 2}
  Want = {0}
  HeapDev = {0}
  TxRoom = 1
  RxRoom = 2
INVARIANT AlwaysOneToOne
CHECK_DEADLOCK FALSE
