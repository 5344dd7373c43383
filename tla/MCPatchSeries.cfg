SPECIFICATION Spec
CONSTANTS
  r1 = r1
  r2 = r2
  NumChanges = 4
  Repos = {r1, r2}
  RepoOf <- MCRepoOf
  Parents <- MCParents
  Resolutions <- MCResolutions
  HonorOrdering = FALSE
INVARIANTS
  CacheMatchesCheckout
  AppliedInOrder
  EveryoneAnswered
PROPERTY
  KeepsPromise
