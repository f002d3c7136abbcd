\* A text file of a check cannot be downloaded.
CONSTANTS
  a = a
  b = b
  group = group
  none = none
  Leaves <- MCLeaves
  Subtree <- MCSingleMaps
  NoCountry = none
  Bundled = 1
  MaxVersion = 2
  Events = {"check", "update", "offline"}
  MaxEvents = 4
SPECIFICATION Spec
CHECK_DEADLOCK FALSE
PROPERTY ErrorsSkipTheCallback
