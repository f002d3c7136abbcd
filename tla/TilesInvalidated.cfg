\* What was read before a tile was invalidated is drawn after.
CONSTANTS
  t1 = t1
  t2 = t2
  Tiles = {t1, t2}
  Views <- MCViews
  Readers = 2
  Events = {"move", "invalidate"}
  MaxEvents = 2
SPECIFICATION FairSpec
INVARIANT InvalidatedShapesAreGone
CHECK_DEADLOCK FALSE
