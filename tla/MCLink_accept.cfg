SPECIFICATION Spec
CONSTANTS
  Sid = {s1, s2}
  NoSession = NoSession
  StoreOpen = TRUE
  Refusals = {{}}
  Transport = "tcp"
  HotspotAutoStart = TRUE
  DeferReceives = TRUE
  FullReinitOnTimeout = FALSE
  FullReinitAfter = 2
  Commands = {"launch", "connect", "disconnect"}
  MaxTimers = 2
INVARIANTS ConnectedSessionActive
