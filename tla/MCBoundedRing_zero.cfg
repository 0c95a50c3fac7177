CONSTANTS
  Threads = {a, b}
  Producers = {a, b}
  Consumers = {a, b}
  Sizers = {a, b}
  Builds <- AllBuilds
  Cap = 0
  R = 2
  Mod = 16
  Start = 15
  BatchSizes = {0, 1, 2}
  MaxCalls = 4
  NoElem = NoElem
  NoThread = NoThread
SPECIFICATION Spec
PROPERTY Linearisable
SYMMETRY Interchangeable
CHECK_DEADLOCK FALSE
