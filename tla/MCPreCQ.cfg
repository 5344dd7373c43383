CONSTANTS
  c1 = c1
  c2 = c2
  Changes <- MCChanges
  Needs <- MCNeeds
  MaxPatchSets = 2
  Trybots = {t1, t2}
  Disturbances = 3
SPECIFICATION MCSpec
INVARIANTS
  PassedWasTested
  DuplicatesExcused
PROPERTIES
  LaunchedTwice
  Settles
