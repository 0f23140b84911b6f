SPECIFICATION Spec
CONSTANTS
  Capacity = 3
  Memory = {"zero", "old"}
  Early = {"zero"}
  SendBound = 4
  CrashBound = 2
INVARIANTS ProcessedInOrder MessagesAccountedFor LockHasHolder
PROPERTIES AllProcessed
CHECK_DEADLOCK FALSE
