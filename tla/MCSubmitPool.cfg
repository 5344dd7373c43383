SPECIFICATION Spec
CONSTANTS
  NumChanges = 3
  Graphs <- MCGraphs
  Resolve <- MCResolve
  MayThrottle = TRUE
  MaxAsks = 3
INVARIANTS
  ParentsMergeFirst
  EveryoneAnswered
  MissingDependencyReported
PROPERTY AskedInOneGo
