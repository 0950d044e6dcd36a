SPECIFICATION Spec
CONSTANTS
  Policies <- MCPolicies
  Configs <- MCConfigs
  Modes <- MCModes
  MaxFailures = 2
  MaxConnections = 2
  MaxChanges = 1
INVARIANTS
  TypeOK
  NotReadyIsWatched
  AnnouncedIsReady
  AdvertisedIsHeard
