SPECIFICATION Spec
CONSTANTS
  Configs <- MixedConfigs
  Messages <- LimitMessages
  TxRoom = 1
  MaxSent = 2
  MaxArrived = 2
INVARIANT UplinkInOrder
INVARIANT DownlinkSound
INVARIANT OneAnswerPerRequest
PROPERTY RequestAnswered
PROPERTY LoopReturns
PROPERTY UplinkForwarded
