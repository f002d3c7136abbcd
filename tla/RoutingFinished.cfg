\* Expected to fail: a rebuild that ends after the finish revives the session.
SPECIFICATION Spec
CONSTANTS
  Outcomes <- NoException
  AutoReroute <- BothSettings
  MaxEvents = 6
CHECK_DEADLOCK FALSE
INVARIANTS
  ChecksHold
