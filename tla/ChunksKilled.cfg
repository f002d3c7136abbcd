\* A cancelled download is killed between the removals of its two files.
CONSTANTS
  ServersCount = 1
  ChunksCount = 2
  NoFile = NoFile
  Cleans = {TRUE}
  Events = {"cancel", "crashInCancel"}
  MaxEvents = 2
SPECIFICATION FairSpec
PROPERTY DownloadsEnd
CHECK_DEADLOCK FALSE
