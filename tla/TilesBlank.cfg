\* A tile that left the view and came back stays blank.
CONSTANTS
  t1 = t1
  t2 = t2
  Tiles = {t1, t2}
  Views <- MCViews
  Readers = 1
  Events = {"move"}
  MaxEvents = 3
SPECIFICATION FairSpec
PROPERTY TilesAreDrawn
CHECK_DEADLOCK FALSE
