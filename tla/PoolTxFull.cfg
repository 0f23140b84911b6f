SPECIFICATION Spec
CONSTANTS
  DevNum = 2
  Active = {0}
  NodeNum = 1
  IdNum = 2
  FrontId = {1}
  Want = {0}
  HeapDev = {0}
  TxRoom = 1
INVARIANT FailedCreateReclaimed
CHECK_DEADLOCK FALSE
