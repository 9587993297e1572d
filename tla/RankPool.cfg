SPECIFICATION FairSpec
CONSTANTS
  Impls <- AllImpls
  NumPPS = 2
  PairCounts = {0, 3, 4}
  Cores = 1
  EnvWorkers <- MCEnvWorkers
  CallerWorkers = {0, 2}
  PairsPerPod = 4
  NumWorkers = 2
  Tables = 2
  Beyond = {1, 2}
  Readers = {r1}
  MaxCycles = 2
INVARIANTS TasksDisjoint MatrixUpdated PublishedComplete
PROPERTIES BoardImplemented CycleEnds
CHECK_DEADLOCK FALSE
