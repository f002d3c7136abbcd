\* A check runs while one map is downloaded, and another is asked for.
CONSTANTS
  a = a
  b = b
  group = group
  none = none
  Leaves <- MCLeaves
  Subtree <- MCSingleMaps
  NoCountry = none
  Bundled = 1
  MaxVersion = 2
  Events = {"download", "check", "update"}
  MaxEvents = 4
SPECIFICATION FairSpec
CHECK_DEADLOCK FALSE
PROPERTIES DownloadsWithServersEnd
