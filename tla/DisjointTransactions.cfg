SPECIFICATION DTSpec
CONSTANTS
  NumPatches = 3
  MaxGerritDeps = 2
  MaxCQDeps = 1
  Statuses = {"free", "committed", "neither"}
  MaxTxnLength = 2
INVARIANTS
  TransactionsComplete
  ParentsLandFirst
  Independent
  Accounted
