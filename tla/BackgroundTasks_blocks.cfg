CONSTANTS
  NumTasks = 2
  MaxParallel = 1
  HaltOnError = FALSE
  MayCrash = FALSE
  MayFailToFork = FALSE
SPECIFICATION Spec
INVARIANT BlocksUntilCompleted
