\* The processes make only so many calls.
CHECK_DEADLOCK FALSE
SPECIFICATION CacheSpec
CONSTANTS
  Processes = {p1, p2, p3}
  MaxCalls = 4
INVARIANT StableWhileRead
PROPERTIES
  DefaultsYield
  CallsEnd
