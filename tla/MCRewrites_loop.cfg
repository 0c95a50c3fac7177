SPECIFICATION RewritesSpec
CONSTANTS
  Word = 16
  Units <- MCUnits
  Values <- MCValues
  BatchUnits <- MCBatchUnits
  BatchK = 2
  MaxDepth = 14
  BorrowUnits <- CarryingUnits
  MaxPops = 4
  MaxNest = 14
  CUnits <- CQueueUnits
INVARIANT AlwaysAnswers
CHECK_DEADLOCK FALSE
