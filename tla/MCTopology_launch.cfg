SPECIFICATION Spec
CONSTANTS
  Programs <- LaunchPrograms
  Cap = 60
  NoLoop = NoLoop
  MaxThreads = 4
  MaxDepth = 4
  MaxLaps = 2
  Values <- MCValues
  Cores <- MCCores
INVARIANT CountedThreads
CHECK_DEADLOCK FALSE
