\* Two tiles and two readers; the view moves, is forced, invalidated and restarted.
CONSTANTS
  t1 = t1
  t2 = t2
  Tiles = {t1, t2}
  Views <- MCViews
  Readers = 2
  Events = {"move", "force", "invalidate", "restart"}
  MaxEvents = 2
SPECIFICATION FairSpec
INVARIANTS CounterMatchesTasks ActiveTilesAreRead OverlaysAreSent RestartedShapesAreGone
PROPERTY TilesFinish
CHECK_DEADLOCK FALSE
