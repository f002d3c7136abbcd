\* The application is killed at any moment, and downloads end all the same.
CONSTANTS
  a = a
  b = b
  group = group
  none = none
  Leaves <- MCLeaves
  Subtree <- MCSubtree
  NoCountry = none
  Bundled = 1
  MaxVersion = 3
  Events = {"download", "failure", "crash", "delete", "update", "cellular",
            "retry", "nodirectory"}
  MaxEvents = 6
SPECIFICATION FairSpec
CHECK_DEADLOCK FALSE
INVARIANTS QueueIsSaved ShownMapsHaveFiles
PROPERTIES RestartFindsMaps DownloadsEnd ChecksEnd
