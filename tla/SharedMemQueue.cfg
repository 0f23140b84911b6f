SPECIFICATION Spec
CONSTANTS
  Capacity = 4
  Message = {"m1", "m2"}
  Attempt = {"m1", "m2", "bad"}
  Overlap = FALSE
INVARIANTS HeldIntact
PROPERTIES SharedFifo
