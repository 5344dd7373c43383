SPECIFICATION Spec
CONSTANTS
  first = first
  second = second
  canary = canary
  slave = slave
  Builders = {first, second}
  Names = {canary, slave}
  Fleets <- MCFleets
  Retries = 1
  MaxTree = 1
  MaxVersion = 5
INVARIANTS
  ClaimIsExclusive
  StatusHasLink
PROPERTIES
  SpecsOnlyGrow
\* The runs of the builders end.
CHECK_DEADLOCK FALSE
