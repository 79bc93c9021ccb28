SPECIFICATION WorldsSpec
CONSTANTS
  h1 = h1
  h2 = h2
  i1 = i1
  i2 = i2
  Handler = {h1, h2}
  MaxSessions = 2
  Lifetime = 3
  Overlap = FALSE
  SameSecond = FALSE
  Faults = TRUE
  MaxTime = 4
  NoInstance = NoInstance
  Caller = {h1, h2}
  Instance = {i1}
  TTL = 2
  CacheOverlap = FALSE
  ClockEnd = 5
SYMMETRY Symmetry
INVARIANTS SessionsBounded RevocationHolds PromiseIsKept BoundedStaleness ChangeShowsAtOnce
CHECK_DEADLOCK FALSE
