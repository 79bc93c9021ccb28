SPECIFICATION RaceSpec
CONSTANTS
  h1 = h1
  h2 = h2
  r1 = r1
  r2 = r2
  r3 = r3
  p1 = p1
  p2 = p2
  NoRequest = NoRequest
  NoProvider = NoProvider
  Handler <- TwoHandlers
  Request <- OneRequest
  Provider <- OneProvider
  SeededProvider <- NoSeed
  Ops <- NoAdminStatus
  KycInput <- Decisions
  Overlap = TRUE
  Faults = TRUE
  MaxCompleted = 1
INVARIANTS TypeOK MilestonesRecorded NoServiceBeforeFirstVerification StatusIsAccountedFor
PROPERTIES CreatedIsLeft CancelIsFinal AssignmentNeverWithdrawn
CHECK_DEADLOCK FALSE
