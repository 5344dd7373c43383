CONSTANTS
  NumInputs = 3
  NumWorkers = 3
  MayDie = TRUE
  MayFailToFork = TRUE
SPECIFICATION FairSpec
INVARIANTS
  AllRunOnce
  FailuresSurface
PROPERTY PoolEnds
