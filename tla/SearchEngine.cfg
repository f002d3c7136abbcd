\* One thread or two; searches on the map and elsewhere, and broadcasts.
SPECIFICATION FairSpec
CONSTANTS
  Threads = {t1, t2}
  Modes = {"viewport", "everywhere"}
  Viewport = "viewport"
  MaxCalls = 3
  MaxBatches = 1
CHECK_DEADLOCK FALSE
INVARIANTS SearchesSeeTheirBroadcasts CancelReachesItsSearch OneSearchPerMode MapShowsTheLastSearch
PROPERTY RequestsAreServed
