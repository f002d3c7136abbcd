\* Four calls of the GUI thread.  The user stops after them, so nothing may be left to do.
SPECIFICATION FairSpec
CONSTANTS
  Outcomes <- AllOutcomes
  AutoReroute <- BothSettings
  MaxEvents = 4
CHECK_DEADLOCK FALSE
INVARIANTS
  TypeOK
  StateMatchesRoute
  DrawnRouteIsTheRoute
PROPERTIES
  AnswersAreCurrent
  RequestsEnd
