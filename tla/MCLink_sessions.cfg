SPECIFICATION Spec
CONSTANTS
  Sid = {s1, s2}
  NoSession = NoSession
  StoreOpen = TRUE
  Refusals = {{},{"active","ended","endSession"}}
  Transport = "usb"
  HotspotAutoStart = FALSE
  DeferReceives = TRUE
  FullReinitOnTimeout = FALSE
  FullReinitAfter = 1
  Commands = {"connect","disconnect"}
  MaxTimers = 1
SYMMETRY Symmetry
INVARIANTS TypeOK SessionMirrorsConnection OneOpenSession
PROPERTIES EndedStaysEnded ImplementsLedger
