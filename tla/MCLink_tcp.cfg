SPECIFICATION Spec
CONSTANTS
  Sid = {s1, s2}
  NoSession = NoSession
  StoreOpen = TRUE
  Refusals = {{}}
  Transport = "tcp"
  HotspotAutoStart = TRUE
  DeferReceives = FALSE
  FullReinitOnTimeout = FALSE
  FullReinitAfter = 2
  Commands = {"launch", "connect", "disconnect"}
  MaxTimers = 1
SYMMETRY Symmetry
INVARIANTS OneOpenSession RecoveryFlagBacked
PROPERTIES ImplementsLedger
