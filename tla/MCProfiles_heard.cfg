SPECIFICATION Spec
CONSTANTS
  Hosts = 2
  Vehicles = 1
  Lists <- MCLists
  DefaultDevices <- MCDefault
  Unsafe = {}
INVARIANTS ServiceIsHeard
