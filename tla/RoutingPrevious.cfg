\* Expected to fail: another route is built while the user moves along one.
SPECIFICATION Spec
CONSTANTS
  Outcomes <- NoException
  AutoReroute <- BothSettings
  MaxEvents = 3
CHECK_DEADLOCK FALSE
PROPERTIES
  PreviousRouteStays
