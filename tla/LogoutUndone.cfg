SPECIFICATION Spec
CONSTANTS
  Handler = {h1, h2}
  MaxSessions = 2
  Lifetime = 3
  Overlap = TRUE
  SameSecond = FALSE
  Faults = FALSE
  MaxTime = 3
INVARIANT RevokedRefused
CHECK_DEADLOCK FALSE
