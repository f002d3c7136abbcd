\* Expected to fail: the worker takes a request without clearing what it was told to.
SPECIFICATION Spec
CONSTANTS
  Outcomes <- NoException
  AutoReroute <- BothSettings
  MaxEvents = 8
CHECK_DEADLOCK FALSE
INVARIANTS
  CachesAreFresh
