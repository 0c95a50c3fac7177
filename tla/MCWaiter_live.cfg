CONSTANTS
  Consumers = {c1, c2}
  Producers = {p1}
  Policies = {"spin", "park"}
  Batches = {2}
  MaxPublish = 1
  MaxWaits = 2
  Epochs = 8
  Epoch0 = 7
SPECIFICATION FairSpec
PROPERTIES CloseReleases Served LimitHolds
CHECK_DEADLOCK FALSE
