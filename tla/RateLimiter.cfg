\* Three clients, room for two buckets, a clock that may be set back; one second
\* is two units and the wait for a token three, so that both the rounding to
\* whole seconds and the slips at the boundary matter.
SPECIFICATION Spec
CONSTANTS
  Key = {a, b, c}
  Capacity = 2
  Window = 6
  Second = 2
  Grain = 6
  Slip = 1
  MaxBuckets = 2
  MaxClock = 4
  MaxRequests = 5
INVARIANTS
  RateBound
  MemoryBounded
  RetryAfterHonest
PROPERTIES
  EvictsLeastRecentlyUsed
CHECK_DEADLOCK FALSE
