SPECIFICATION Spec
CONSTANTS
  Sid = {s1, s2}
  NoSession = NoSession
  StoreOpen = TRUE
  Refusals = {{}}
  Transport = "usb"
  HotspotAutoStart = FALSE
  DeferReceives = TRUE
  FullReinitOnTimeout = FALSE
  FullReinitAfter = 2
  Commands = {"launch", "disconnect"}
  MaxTimers = 2
PROPERTIES ArmedOnConnect
