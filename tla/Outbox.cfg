SPECIFICATION Spec
CONSTANTS
  i1 = i1  i2 = i2  w1 = w1  w2 = w2  NoId = NoId
  Ids <- TwoIds
  Workers <- TwoWorkers
  BatchSize = 2
  MaxAttempts = 1
  MaxRequeues = 0
  MaxSeen = 1
  MaxFaults = 1
SYMMETRY IdAndWorkerSymmetry
INVARIANTS
  TypeOK
  LooksExactlyOnce
CHECK_DEADLOCK FALSE
