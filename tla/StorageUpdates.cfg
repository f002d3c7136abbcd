\* A new version comes while maps are downloaded and in use.
CONSTANTS
  a = a
  b = b
  group = group
  none = none
  Leaves <- MCLeaves
  Subtree <- MCSubtree
  NoCountry = none
  Bundled = 1
  MaxVersion = 3
  Events = {"download", "check", "update", "offline", "failure", "hold", "corrupt"}
  MaxEvents = 6
SPECIFICATION Spec
CHECK_DEADLOCK FALSE
INVARIANTS FilesAreKnown InstalledMapsAreVerified ShownMapsHaveFiles
