SPECIFICATION Spec
CONSTANTS
  Producers <- MCProducers
  Consumers <- MCConsumers
  Records <- MCRecords
  Elements <- MCElements
  Program <- MCSegments
  MaxAddr = 3
  ScanAt = 1
  Cells = 2
  Slots = 2
  MaxBlocks = 5
  SlipMax = 2
  ProbeEvery = 1
  ProbeMax = 2
  StayOpen = 2
  BatchK = 2
INVARIANTS NoUseAfterFree DestroysTheRest
PROPERTY KeepsPromise
