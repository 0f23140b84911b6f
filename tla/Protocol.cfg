SPECIFICATION ProtoSpec
CONSTANTS
  DevNum = 1
  Active = {0}
  NodeNum = 2
  IdNum = 4
  FrontId = {1, 2}
  Want = {0, 255}
  HeapDev = {0}
  TxRoom = 1
  RxRoom = 2
INVARIANTS OneToOne MessagesHitOwnSession OneSessionPerFrontend
PROPERTY CommandsAnswered
CHECK_DEADLOCK FALSE
