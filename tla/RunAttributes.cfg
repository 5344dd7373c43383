CHECK_DEADLOCK FALSE
SPECIFICATION AttrSpec
CONSTANTS
  Users = {p1, p2, p3}
  MaxUses = 2
INVARIANT OneValue
PROPERTY EveryCallEnds
