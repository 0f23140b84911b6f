CONSTANTS
  Capacity = 3
  BlockSize = 1
  Exclusive = TRUE
  Window = 3
SPECIFICATION DataSpec
INVARIANT
  BackendReadsFrontendMessages
