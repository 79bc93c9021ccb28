SPECIFICATION WorldsSpec
CONSTANTS
  s1 = s1
  Socket = {s1, s2, s3}
  Timeout = 2
  Overlap = FALSE
  MayRevoke = TRUE
  maxEvents = 2
  windowMs = 3
INVARIANTS StoreIsConsistent GoneMeansOffline WindowIsFair PoliteIsKept
PROPERTIES HeardIsKept SilentAreDropped
