SPECIFICATION Spec
CONSTANTS
  Files <- MCSwapped
  MinSize = 4
  MaxDev = 3
  NodeNum = 2
  FailBound = 1
  HeapDev = {"own"}
INVARIANT ChosenDeviceActive
\* The process ends, or crashes.
CHECK_DEADLOCK FALSE
