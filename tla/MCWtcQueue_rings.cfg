SPECIFICATION FairSpec
CONSTANTS
  Producers <- MCProducers
  Consumers <- MCConsumers
  Records <- MCRecords
  Elements <- MCElements
  Program <- MCRings
  MaxAddr = 3
  ScanAt = 1
  Cells = 3
  Slots = 2
  MaxBlocks = 5
  SlipMax = 2
  ProbeEvery = 1
  ProbeMax = 2
  StayOpen = 2
  BatchK = 2
INVARIANTS SlotsFree WaitsWithElement
PROPERTIES KeepsPromise AllReturn
