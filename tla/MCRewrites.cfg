SPECIFICATION RewritesSpec
CONSTANTS
  Word = 16
  Units <- MCUnits
  Values <- MCValues
  BatchUnits <- MCBatchUnits
  BatchK = 2
  MaxDepth = 14
  BorrowUnits <- LendingUnits
  MaxPops = 4
  MaxNest = 14
  CUnits <- CQueueUnits
INVARIANTS
  SameResults
  SameWaits
  NobodyAsleep
  NeverAborts
  NobodyStuck
  SectionsExclude
  LockFreeHolds
  LentWhileHeld
CHECK_DEADLOCK FALSE
