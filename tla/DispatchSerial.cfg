SPECIFICATION SerialSpec
CONSTANTS
  h1 = h1
  h2 = h2
  r1 = r1
  r2 = r2
  r3 = r3
  p1 = p1
  p2 = p2
  p3 = p3
  NoRequest = NoRequest
  NoProvider = NoProvider
  Handler <- OneSlot
  Request <- ThreeRequests
  Provider <- ThreeProviders
  SeededProvider <- TwoSeeded
  Ops <- AllOps
  KycInput <- Decisions
  Overlap = FALSE
  Faults = TRUE
  MaxCompleted = 2
SYMMETRY SerialSymmetry
INVARIANTS ProviderAgrees CalmIsConsistent
PROPERTY ImplementsLifecycle
CHECK_DEADLOCK FALSE
