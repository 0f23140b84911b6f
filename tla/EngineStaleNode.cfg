SPECIFICATION Spec
CONSTANTS
  Files <- MCThree
  MinSize = 4
  MaxDev = 3
  NodeNum = 2
  FailBound = 0
  HeapDev = {"own", "invalid"}
INVARIANT NodesOwned
\* The process ends, or crashes.
CHECK_DEADLOCK FALSE
