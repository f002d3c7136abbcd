\* A group is cancelled while one of its maps is downloaded.
CONSTANTS
  a = a
  b = b
  group = group
  none = none
  Leaves <- MCLeaves
  Subtree <- MCSubtree
  NoCountry = none
  Bundled = 1
  MaxVersion = 2
  Events = {"download", "cancel"}
  MaxEvents = 3
SPECIFICATION Spec
CHECK_DEADLOCK FALSE
INVARIANTS DownloadingIsQueued
