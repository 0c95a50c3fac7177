CONSTANTS
  Threads = {a, b}
  Producers = {a, b}
  Consumers = {a, b}
  Sizers = {}
  Builds <- LiveBuilds
  Cap = 2
  R = 2
  Mod = 16
  Start = 15
  BatchSizes = {1, 2}
  MaxCalls = 4
  NoElem = NoElem
  NoThread = NoThread
SPECIFICATION FairSpec
PROPERTY CallsReturn
CHECK_DEADLOCK FALSE
