SPECIFICATION Spec
CONSTANTS
  Files <- MCFiles
  MinSize = 4
  MaxDev = 3
  NodeNum = 2
  FailBound = 2
  HeapDev = {"own"}
INVARIANTS DevicesAsConfigured NodesOwned LoopReady ShutdownReleases ChosenDeviceActive
PROPERTIES EveryDeviceServed
\* The process ends, or crashes.
CHECK_DEADLOCK FALSE
