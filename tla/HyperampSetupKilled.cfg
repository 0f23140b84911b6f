SPECIFICATION Spec
CONSTANTS
  Capacity = 3
  Memory = {"zero", "old"}
  Early = {"zero"}
  SendBound = 4
  CrashBound = 2
INVARIANT KilledCleanly
CHECK_DEADLOCK FALSE
