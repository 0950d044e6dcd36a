SPECIFICATION Spec
CONSTANTS
  Policies <- MCPolicies
  Configs <- MCConfigs
  Modes <- MCModes
  MaxFailures = 0
  MaxConnections = 1
  MaxChanges = 0
INVARIANTS
  ReadinessAnnounced
