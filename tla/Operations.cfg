\* The process may exit.
CHECK_DEADLOCK FALSE
SPECIFICATION WorldsSpec
CONSTANTS
  Request = {r1, r2, r3}
  Socket = {s1, s2}
  SocketEnabled = FALSE
  RedisEnabled = TRUE
  MaxRetries = 5
  Faults = FALSE
  Slow = FALSE
  SeedFaults = TRUE
  MaxResets = 1
  Deletable = {"priya"}
INVARIANTS ShutdownIsOrderly PromptClosesFirst ReferencesResolve DemoIsWhole
PROPERTY SignalEndsIt
