SPECIFICATION Spec
CONSTANTS
  DevNum = 3
  Active = {0, 1}
  NodeNum = 1
  IdNum = 2
  FrontId = {1, 2}
  Want = {0, 2, 255}
  HeapDev = {0, 1, 5, 99}
  TxRoom = 1
INVARIANTS IdsConserved SessionsReachable NodesBounded
CHECK_DEADLOCK FALSE
