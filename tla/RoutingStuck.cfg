\* Expected to fail: a build that finds no route leaves the session building.
SPECIFICATION Spec
CONSTANTS
  Outcomes <- NoException
  AutoReroute <- BothSettings
  MaxEvents = 3
CHECK_DEADLOCK FALSE
INVARIANTS
  BuildingIsAnswered
