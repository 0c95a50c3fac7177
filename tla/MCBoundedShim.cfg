SPECIFICATION Spec
CONSTANTS
  Threads <- MCThreads
  Programs <- MCPrograms
INVARIANTS NobodyInsideFreed FinishedMeansAll
PROPERTY EveryCallReturns
