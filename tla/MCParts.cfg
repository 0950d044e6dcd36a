SPECIFICATION PartsSpec
CHECK_DEADLOCK FALSE
CONSTANTS
  MaxAttempts = 2
  Threshold = 2
  MaxRetries = 1
  MaxPending = 3
  ChurnLimit = 2
  MaxCommands = 2
  MaxPhones = 2
  Client = {c1, c2}
  RequireHello = TRUE
  MaxEvents = 3
  Device = {d1, d2}
  MaxManagers = 2
  MaxReplies = 2
  MaxHals = 2
  MaxProfiles = 4
  MaxScans = 2
  AllowList = {"maker"}
  DenyList = {}
  MaxAoapAttempts = 2
  MaxQueries = 3
  Frames <- MCFrames
  Percents <- MCPercents
  Degrees <- MCDegrees
  MaxBuffered = 4
  Extension = {e1, e2}
  MaxProcesses = 3
INVARIANTS
  TypeOK AwaitingIsWatched WatchdogIsOwn PartsTypeOK
  CopiesAreCurrent SubscribersKnowState FramesDecodable DiscoveryIsTimed
  HotspotsAreKnown SearchGoesOn SettingsConsistent HeardAtOnce RunningIsRecorded
PROPERTIES WaitEnds ConnectedIsSpared RenegotiationSearches
