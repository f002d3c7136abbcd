\* A check finds a new version while one map is downloaded and another is queued.
CONSTANTS
  a = a
  b = b
  group = group
  none = none
  Leaves <- MCLeaves
  Subtree <- MCSingleMaps
  NoCountry = none
  Bundled = 1
  MaxVersion = 2
  Events = {"download", "check", "update"}
  MaxEvents = 4
SPECIFICATION Spec
CHECK_DEADLOCK FALSE
INVARIANT RequestsHaveServers
