SPECIFICATION Spec
CONSTANTS
  Capacity = 3
  Memory = {"zero", "old"}
  Early = {"zero", "old"}
  SendBound = 4
  CrashBound = 2
INVARIANT ReadsThisBoot
CHECK_DEADLOCK FALSE
