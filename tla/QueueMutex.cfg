CONSTANTS
  Zone = {0, 1}
  Producer = {0, 1}
  Consumer = {0, 1}
  Message <- MCMessage
  Size <- MCSize
  BlockSize = 2
  Capacity = 3
  Exclusive = TRUE
SPECIFICATION Spec
INVARIANTS
  SlotsWhole
PROPERTY
  ImplementsFifo
