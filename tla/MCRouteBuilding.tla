-------------------------- MODULE MCRouteBuilding --------------------------
(* RouteBuilding for TLC.  The user may forbid rerouting or allow it; a         *)
(* calculation finds a route, finds none, or throws.                            *)
EXTENDS RouteBuilding

BothSettings == BOOLEAN
AllOutcomes == {"NoError", "RouteNotFound", "exception"}
NoException == {"NoError", "RouteNotFound"}
=============================================================================
