CONSTANTS
  NumTasks = 3
  MaxParallel = 2
  HaltOnError = TRUE
  MayCrash = TRUE
  MayFailToFork = TRUE
SPECIFICATION FairSpec
INVARIANTS
  NoOrphans
  ReportHonoured
PROPERTIES
  KeepsPromise
  Termination
