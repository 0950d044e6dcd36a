SPECIFICATION FairSpec
CONSTANTS
  Sid = {s1}
  NoSession = NoSession
  StoreOpen = FALSE
  Refusals = {{}}
  Transport = "usb"
  HotspotAutoStart = FALSE
  DeferReceives = TRUE
  FullReinitOnTimeout = FALSE
  FullReinitAfter = 2
  Commands = {"launch","disconnect"}
  MaxTimers = 2
INVARIANTS RecoveryFlagBacked TeardownHasNoChannel
PROPERTIES NoUnannouncedConnection NoRecoveryDuringTeardown RecoveryEnds RecoverySearches SearchDetects
