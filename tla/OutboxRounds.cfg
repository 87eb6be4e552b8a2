SPECIFICATION FairSpec
CONSTANTS
  i1 = i1  i2 = i2  w1 = w1  w2 = w2  NoId = NoId
  Ids <- OneId
  Workers <- TwoWorkers
  BatchSize = 1
  MaxAttempts = 2
  MaxRequeues = 1
  MaxSeen = 1
  MaxFaults = 1
INVARIANTS
  NoSilentLoss
PROPERTY
  QueueDrains
CHECK_DEADLOCK FALSE
