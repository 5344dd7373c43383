CONSTANTS
  NumPackages = 3
  Jobs = 2
SPECIFICATION MCSpec
INVARIANTS
  NoDeadlockDeclared
PROPERTIES
  KeepsOrder
  Termination
