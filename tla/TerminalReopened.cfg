SPECIFICATION Spec
CONSTANTS
  h1 = h1
  h2 = h2
  r1 = r1
  r2 = r2
  r3 = r3
  p1 = p1
  p2 = p2
  NoRequest = NoRequest
  NoProvider = NoProvider
  Handler <- TwoHandlers
  Request <- OneRequest
  Provider <- OneProvider
  SeededProvider <- OneProvider
  Ops <- DispatchOps
  KycInput <- Decisions
  Overlap = TRUE
  Faults = FALSE
  MaxCompleted = 1
PROPERTY TerminalIsFinal
CHECK_DEADLOCK FALSE
