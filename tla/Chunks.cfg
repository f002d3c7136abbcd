\* Three servers, four chunks; servers, disk and application fail four times.
CONSTANTS
  ServersCount = 3
  ChunksCount = 4
  NoFile = NoFile
  Cleans = {TRUE, FALSE}
  Events = {"failure", "nospace", "cancel", "crash"}
  MaxEvents = 4
SPECIFICATION FairSpec
INVARIANTS ResumeIsTrue TargetIsWhole
PROPERTY DownloadsEnd
CHECK_DEADLOCK FALSE
