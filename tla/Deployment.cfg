SPECIFICATION FairSpec
CONSTANTS
  Files = 1
  Tables = 2
  MaxKills = 1
  TTL = 3
  MaxBatch = 4
  Checks = {c1, c2}
  StatusSettles = 3
  WorkerSettles = 6
SYMMETRY CheckSymmetry
CHECK_DEADLOCK FALSE
INVARIANTS
  TypeOK
  ReadyMeansMigrated
  StatusIsTrue
  WorkerIsTrue
PROPERTIES
  EventuallyReady
