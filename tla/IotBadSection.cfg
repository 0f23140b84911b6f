SPECIFICATION Spec
CONSTANTS
  Configs <- BadConfigs
  Messages <- LimitMessages
  TxRoom = 1
  MaxSent = 1
  MaxArrived = 1
INVARIANT BadSectionSkipped
