SPECIFICATION Spec
CONSTANTS
  Programs <- MCPrograms
  Cap = 60
  NoLoop = NoLoop
  MaxThreads = 4
  MaxDepth = 4
  MaxLaps = 2
  Values <- MCValues
  Cores <- MCCores
INVARIANTS
  TagHolds OperationKnowsQueue StartupHolds OnceIsOnce CountedThreads ExclusiveNeverBoth WalkIsBounded
CHECK_DEADLOCK FALSE
