SPECIFICATION Spec
CONSTANTS
  Configs <- ServerConfigs
  Messages <- LimitMessages
  TxRoom = 1
  MaxSent = 1
  MaxArrived = 1
PROPERTY EngineReturns
