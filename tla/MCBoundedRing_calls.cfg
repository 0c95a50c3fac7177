CONSTANTS
  Threads = {a, b, c}
  Producers = {a, b, c}
  Consumers = {a, b, c}
  Sizers = {a, b, c}
  Builds <- AllBuilds
  Cap = 2
  R = 2
  Mod = 16
  Start = 15
  BatchSizes = {1, 2}
  MaxCalls = 4
  NoElem = NoElem
  NoThread = NoThread
SPECIFICATION Spec
INVARIANTS ExactCapacity CellExclusive HandsOutOldest QuiescentCells WaitsOnInProgress OverrunCount
PROPERTY Linearisable
SYMMETRY Interchangeable
CHECK_DEADLOCK FALSE
