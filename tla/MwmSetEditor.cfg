\* Two countries with saved edits and two versions: maps are registered, upgraded,
\* corrupted and revived, the observers use the set themselves, and the maps may all
\* be cleared.  Threads may block for ever on the observers' mutex.
CONSTANTS
  Countries = {c1, c2}
  Versions = {1, 2}
  Infos = {i1, i2, i3}
  NoInfo = NoInfo
  NoFile = NoFile
  Threads = {main, worker}
  Registrars = {main}
  NoThread = NoThread
  Handles = {h1, h2}
  Guard = Guard
  Edited = {c1, c2}
  CacheSize = 2
  ClearsMaps = TRUE
SYMMETRY Symmetry
SPECIFICATION Spec
INVARIANTS TypeOK RefsMatchHandles HeldMapsAreAlive RegistryOrdered
PROPERTY DeregisteredForGood
CHECK_DEADLOCK FALSE
