CONSTANTS
  Consumers = {c1, c2}
  Producers = {p1, p2}
  Policies = {"spin_then_park"}
  Batches = {1, 2}
  MaxPublish = 2
  MaxWaits = 2
  Epochs = 8
  Epoch0 = 7
SPECIFICATION Spec
INVARIANTS NoLostWakeup SleepersCounted
PROPERTY NeverEndsEarly
SYMMETRY Interchangeable
CHECK_DEADLOCK FALSE
