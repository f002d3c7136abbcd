\* The editor drops the last handle of a marked map inside a callback.
CONSTANTS
  Countries = {c1, c2}
  Versions = {1}
  Infos = {i1, i2}
  NoInfo = NoInfo
  NoFile = NoFile
  Threads = {main, worker}
  Registrars = {main}
  NoThread = NoThread
  Handles = {h1}
  Guard = Guard
  Edited = {c1, c2}
  CacheSize = 1
  ClearsMaps = FALSE
SYMMETRY Symmetry
SPECIFICATION Spec
INVARIANT ObserversMayUseTheSet
CHECK_DEADLOCK FALSE
