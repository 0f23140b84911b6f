CONSTANTS
  Capacity = 3
  BlockSize = 2
  Exclusive = FALSE
  Window = 3
SPECIFICATION Spec
PROPERTIES
  RxIsFifo
  TxIsFifo
