SPECIFICATION Spec
CONSTANTS
  Files <- MCOneActive
  MinSize = 4
  MaxDev = 3
  NodeNum = 2
  FailBound = 1
  HeapDev = {"own"}
INVARIANT FailsOnlyWithoutActive
\* The process ends, or crashes.
CHECK_DEADLOCK FALSE
