---------------------------- MODULE RouteBuilding ----------------------------
(***************************************************************************)
(* How a route is built: RoutingManager and RoutingSession on the GUI      *)
(* thread, AsyncRouter with its worker thread, and the GUI queue that      *)
(* carries the worker's answers.  libs/routing/async_router.cpp,           *)
(* libs/routing/routing_session.cpp, libs/map/routing_manager.cpp.         *)
(*                                                                         *)
(* The session asks the worker for a route and goes on: it may ask again,  *)
(* be reset, or reach the finish of the former route before the answer     *)
(* comes.  Whoever asked has a delegate, cancelled by the next request, and *)
(* an answer checks it.  A route is the number of the request that it      *)
(* answers (the code's routeId counts the same requests); 0 is no route.   *)
(***************************************************************************)
EXTENDS Integers, Sequences

CONSTANTS
  Outcomes,    \* what a calculation that is not cancelled may end with
  AutoReroute, \* what the user may set m_autoReroute to
  MaxEvents    \* how many calls the GUI thread makes

ASSUME OutcomesAssumption == Outcomes \subseteq {"NoError", "RouteNotFound", "exception"}
ASSUME AutoRerouteAssumption == AutoReroute \subseteq BOOLEAN
ASSUME BoundAssumption == MaxEvents \in Nat

VARIABLES
  state,       \* m_state of the session, or "aborted": a CHECK failed
  route,       \* m_route of the session
  following,   \* m_isFollowing
  autoReroute, \* m_autoReroute
  finished,    \* m_checkpoints.IsFinished()
  drawn,       \* the route whose subroutes are in m_drapeSubroutes
  hasRequest, clearState,
  delegate,    \* m_delegateProxy: the number of the request it belongs to, or 0
  cancelled,   \* the requests whose delegates are cancelled
  asked,       \* each request: [callbacks, finished], of its delegate and its checkpoints
  worker,      \* [at, request, code, ours]; ours: m_router is the one that calculates
  cache,       \* what m_router keeps of the maps: nothing, or of maps of today or before
  queue,       \* the GUI tasks: [type, request, code]
  left

sessionVars == <<state, route, following, autoReroute, finished>>
requestVars == <<hasRequest, clearState, delegate, cancelled, asked>>
vars == <<sessionVars, drawn, requestVars, worker, cache, queue, left>>

Built == {"RouteNotStarted", "OnRoute", "RouteFinished", "OffRoute", "RouteNeedsRebuild"}
IsActive == state # "NoValidRoute"
Idle == [at |-> "waiting", request |-> 0, code |-> "none", ours |-> TRUE]
Requests == DOMAIN asked

Event == state # "aborted" /\ left > 0 /\ left' = left - 1

-----------------------------------------------------------------------------
(* AsyncRouter, as the GUI thread calls it. *)

\* Mutant: the delegate is forgotten, and not cancelled.
Forgotten == cancelled

\* ResetDelegate.
WithDelegate == IF delegate = 0 THEN cancelled ELSE cancelled \union {delegate}

\* ClearState.
ClearState ==
  /\ clearState' = TRUE
  /\ cancelled' = WithDelegate /\ delegate' = 0
  /\ UNCHANGED <<hasRequest, asked>>

\* CalculateRoute, with ClearState before it or not.
CalculateRoute(callbacks, clears) ==
  /\ clearState' = (clearState \/ clears)
  /\ cancelled' = WithDelegate
  /\ delegate' = Len(asked) + 1
  /\ asked' = Append(asked, [callbacks |-> callbacks, finished |-> finished'])
  /\ hasRequest' = TRUE

-----------------------------------------------------------------------------
(* RoutingManager and RoutingSession: the calls of the user and of the system. *)

\* BuildRoute.  A session that is active is closed first, so RemoveRoute and Reset
\* are the first part of every build.
BuildRoute ==
  /\ Event
  /\ state' = "RouteBuilding" /\ route' = IF IsActive THEN 0 ELSE route
  /\ following' = FALSE /\ finished' = FALSE
  /\ drawn' = IF IsActive THEN 0 ELSE drawn
  /\ CalculateRoute("build", TRUE)
  /\ UNCHANGED <<autoReroute, worker, cache, queue>>

\* RebuildRouteOnTrafficUpdate.  In some states it starts at GetPointFrom, which
\* CHECKs that the checkpoints are not finished.
RebuildRouteOnTrafficUpdate ==
  /\ Event
  /\ state \notin {"NoValidRoute", "RouteFinished"}
  /\ UNCHANGED finished
  /\ IF finished /\ state \in {"RouteNotStarted", "RouteNoFollowing", "RouteRebuilding"}
       THEN state' = "aborted" /\ UNCHANGED requestVars
       ELSE state' = "RouteRebuilding" /\ CalculateRoute("rebuild", TRUE)
  /\ UNCHANGED <<route, following, autoReroute, drawn, worker, cache, queue>>

\* The states in which OnLocationPositionChanged follows the route.
Tracks ==
  /\ state \notin {"NoValidRoute", "RouteFinished", "RouteBuilding", "RouteNoFollowing"}
  /\ route # 0

\* A location that is on the route: MoveIterator, PassCheckpoints.  The finish is
\* a GUI task of its own.
MoveAlong ==
  /\ Event /\ Tracks
  /\ \E passed \in {finished, TRUE} :
       /\ finished' = passed
       /\ state' = IF passed THEN "RouteFinished" ELSE "OnRoute"
       /\ queue' = IF passed /\ ~finished
                     THEN Append(queue, [type |-> "finish", request |-> 0, code |-> "none"])
                     ELSE queue
  /\ UNCHANGED <<route, following, autoReroute, drawn, requestVars, worker, cache>>

\* A location away from the route, often enough: CheckLocationForRouting asks for
\* another route at once, from here.
MoveAway ==
  /\ Event /\ Tracks /\ state # "RouteRebuilding"
  /\ UNCHANGED finished
  /\ IF autoReroute \/ state = "RouteNeedsRebuild"
       THEN /\ state' = "RouteRebuilding"
            /\ CalculateRoute("rebuild", FALSE)
       ELSE state' = "OffRoute" /\ UNCHANGED requestVars
  /\ UNCHANGED <<route, following, autoReroute, drawn, worker, cache, queue>>

SetAutoReroute ==
  /\ Event
  /\ autoReroute' \in AutoReroute
  /\ state' = IF autoReroute' /\ state = "OffRoute" THEN "RouteNeedsRebuild" ELSE state
  /\ UNCHANGED <<route, following, finished, drawn, requestVars, worker, cache, queue>>

\* EnableFollowMode.
FollowRoute ==
  /\ Event /\ state \in {"RouteNotStarted", "OnRoute", "OffRoute"}
  /\ state' = IF state = "OffRoute" THEN state ELSE "OnRoute"
  /\ following' = TRUE
  /\ UNCHANGED <<route, autoReroute, finished, drawn, requestVars, worker, cache, queue>>

DisableFollowMode ==
  /\ Event /\ state \in {"RouteNotStarted", "OnRoute", "OffRoute"}
  /\ state' = "RouteNoFollowing"
  /\ following' = FALSE
  /\ UNCHANGED <<route, autoReroute, finished, drawn, requestVars, worker, cache, queue>>

\* RoutingSession::Reset.
Reset ==
  /\ route' = 0 /\ state' = "NoValidRoute" /\ following' = FALSE
  /\ ClearState
  /\ UNCHANGED <<autoReroute, finished>>

CloseRouting ==
  /\ Event /\ Reset /\ drawn' = 0
  /\ UNCHANGED <<worker, cache, queue>>

\* A map is downloaded or deleted: ResetRoutingSession, then the change of the maps.
OnCountryFileChanged ==
  /\ Event /\ Reset
  /\ cache' = IF cache = "empty" THEN "empty" ELSE "old"
  /\ UNCHANGED <<drawn, worker, queue>>

\* SetRouter: Reset, and another IRouter for the worker to take.
SetRouter ==
  /\ Event /\ Reset
  /\ cache' = "empty"
  /\ worker' = [worker EXCEPT !.ours = worker.at \in {"waiting", "taking"}]
  /\ UNCHANGED <<drawn, queue>>

\* MatchLocationToRoadGraph: FindClosestProjectionToRoad, on the GUI thread and
\* without m_guard, fills the same caches.
MatchLocationToRoadGraph ==
  /\ Event /\ state = "OnRoute"
  /\ cache = "empty" /\ cache' = "fresh"
  /\ UNCHANGED <<sessionVars, drawn, requestVars, worker, queue>>

-----------------------------------------------------------------------------
(* The worker: AsyncRouter::ThreadFunc and CalculateRoute. *)

\* The wait ends; m_guard is released before the request is taken.
Wake ==
  /\ worker.at = "waiting" /\ (hasRequest \/ clearState)
  /\ cache' = IF clearState THEN "empty" ELSE cache
  /\ clearState' = FALSE
  /\ worker' = [worker EXCEPT !.at = IF hasRequest THEN "taking" ELSE "waiting"]
  /\ UNCHANGED <<sessionVars, drawn, hasRequest, delegate, cancelled, asked, queue, left>>

\* Mutant: the request stays.
RequestKept == TRUE

\* m_hasRequest when it is taken.
RequestAfter == FALSE

\* Mutant: the delegate is not tested.
NeverCancelled == FALSE

\* Nobody waits for the answer any more.
NobodyAsks == delegate = 0

TakeRequest ==
  /\ worker.at = "taking"
  /\ hasRequest' = RequestAfter
  /\ IF NobodyAsks
       THEN worker' = Idle /\ UNCHANGED cache
       ELSE /\ worker' = [at |-> "calculating", request |-> delegate, code |-> "none",
                          ours |-> TRUE]
            /\ cache' = IF cache = "empty" THEN "fresh" ELSE cache
  /\ UNCHANGED <<sessionVars, drawn, clearState, delegate, cancelled, asked, queue, left>>

Answer(type, code) == Append(queue, [type |-> type, request |-> worker.request, code |-> code])

\* IRouter::CalculateRoute returns and clears its caches; a route is drawn without
\* waiting for the absent regions.
Calculate ==
  /\ worker.at = "calculating"
  /\ \E code \in Outcomes \union {"Cancelled"} :
       /\ code = "NoError" => ~asked[worker.request].finished
       /\ code = "Cancelled" => worker.request \in cancelled
       /\ worker' = IF code = "exception" THEN Idle
                    ELSE [worker EXCEPT !.at = "absent", !.code = code]
       /\ queue' = IF code \in {"NoError", "exception"} THEN Answer("ready", code) ELSE queue
  /\ cache' = IF worker.ours THEN "empty" ELSE cache
  /\ UNCHANGED <<sessionVars, drawn, requestVars, left>>

\* Finished checkpoints leave nothing to calculate: unless it ends with an error before,
\* the CHECK of GetPointFrom, or of CheckValidRoute, fails.
CalculateNothing ==
  /\ worker.at = "calculating" /\ asked[worker.request].finished
  /\ state' = "aborted"
  /\ UNCHANGED <<route, following, autoReroute, finished, drawn, requestVars, worker, cache,
                 queue, left>>

\* The regions finder has joined its thread.
FindAbsent ==
  /\ worker.at = "absent"
  /\ \E absent \in IF worker.code = "Cancelled" THEN {FALSE} ELSE BOOLEAN :
       queue' = CASE absent -> Answer("needMoreMaps", "NeedMoreMaps")
                  [] ~absent -> IF worker.code = "NoError" THEN queue
                                ELSE Answer("removeRoute", worker.code)
  /\ worker' = Idle
  /\ UNCHANGED <<sessionVars, drawn, requestVars, cache, left>>

Worker ==
  /\ state # "aborted"
  /\ Wake \/ TakeRequest \/ Calculate \/ CalculateNothing \/ FindAbsent

-----------------------------------------------------------------------------
(* The GUI queue: RouterDelegateProxy and the callbacks. *)

IsDropped(task) == task.request \in cancelled

\* Mutant: the session goes on as if there were a route.
GoesOn == "OnRoute"

\* AssignRoute, of an error.
StateAfterError == IF route = 0 THEN "NoValidRoute" ELSE "OnRoute"

\* Mutant: a route that answers a rebuild is not drawn.
DrawnIfBuilt(task) == IF asked[task.request].callbacks = "build" THEN task.request ELSE drawn

\* InsertRoute.
DrawnAfter(task) == task.request

\* AssignRoute, then OnBuildRouteReady or OnRebuildRouteReady; the former CHECKs that
\* there is no error.
OnReady(task) ==
  IF task.code = "NoError"
    THEN /\ route' = task.request /\ drawn' = DrawnAfter(task)
         /\ state' = "RouteNotStarted"
    ELSE /\ state' = IF asked[task.request].callbacks = "build" THEN "aborted" ELSE StateAfterError
         /\ UNCHANGED <<route, drawn>>

\* OnRemoveRoute: the session keeps its state.  A rebuild has no such callback.
OnRemoveRoute(task) ==
  /\ drawn' = IF asked[task.request].callbacks = "build" THEN 0 ELSE drawn
  /\ UNCHANGED <<state, route>>

\* OnRoutePointPassed: the finish mark goes, and the route from the map.
OnFinishPassed == drawn' = 0 /\ UNCHANGED <<state, route>>

Deliver ==
  /\ state # "aborted" /\ queue # <<>>
  /\ queue' = Tail(queue)
  /\ LET task == Head(queue) IN
     IF task.type = "needMoreMaps" \/ IsDropped(task)
       THEN UNCHANGED <<state, route, drawn>>
       ELSE \/ task.type = "ready" /\ OnReady(task)
            \/ task.type = "removeRoute" /\ OnRemoveRoute(task)
            \/ task.type = "finish" /\ OnFinishPassed
  /\ UNCHANGED <<following, autoReroute, finished, requestVars, worker, cache, left>>

-----------------------------------------------------------------------------
Init ==
  /\ state = "NoValidRoute" /\ route = 0 /\ following = FALSE
  /\ autoReroute \in AutoReroute /\ finished = FALSE
  /\ drawn = 0
  /\ hasRequest = FALSE /\ clearState = FALSE
  /\ delegate = 0 /\ cancelled = {} /\ asked = <<>>
  /\ worker = Idle /\ cache = "empty" /\ queue = <<>>
  /\ left = MaxEvents

User ==
  \/ BuildRoute \/ RebuildRouteOnTrafficUpdate \/ MoveAlong \/ MoveAway
  \/ SetAutoReroute \/ FollowRoute \/ DisableFollowMode \/ CloseRouting
  \/ OnCountryFileChanged \/ SetRouter \/ MatchLocationToRoadGraph

Next == User \/ Worker \/ Deliver

Spec == Init /\ [][Next]_vars

\* The worker and the GUI thread's loop run on; a calculation ends.
FairSpec == Spec /\ WF_vars(Worker) /\ WF_vars(Deliver)

-----------------------------------------------------------------------------
(* Properties. *)

States == Built \union {"NoValidRoute", "RouteBuilding", "RouteNoFollowing", "RouteRebuilding",
                       "aborted"}
Codes == {"none", "NoError", "RouteNotFound", "exception", "Cancelled", "NeedMoreMaps"}
RequestOrNone == Requests \union {0}
Task == [type : {"ready", "needMoreMaps", "removeRoute", "finish"}, request : Nat, code : Codes]

\* The types of the variables; whoever calculates does so for a request.
TypeOK ==
  /\ state \in States /\ route \in RequestOrNone /\ drawn \in RequestOrNone
  /\ following \in BOOLEAN /\ autoReroute \in BOOLEAN /\ finished \in BOOLEAN
  /\ hasRequest \in BOOLEAN /\ clearState \in BOOLEAN
  /\ asked \in Seq([callbacks : {"build", "rebuild"}, finished : BOOLEAN])
  /\ delegate \in RequestOrNone /\ cancelled \subseteq Requests
  /\ worker \in [at : {"waiting", "taking", "calculating", "absent"}, request : RequestOrNone,
                 code : Codes, ours : BOOLEAN]
  /\ worker.at \in {"calculating", "absent"} => worker.request # 0
  /\ cache \in {"empty", "fresh", "old"}
  /\ queue \in Seq(Task)
  /\ \A n \in DOMAIN queue : queue[n].type # "finish" => queue[n].request \in Requests
  /\ left \in 0..MaxEvents

\* The state of a session and its route agree: it navigates only a route that it has,
\* a session without a valid route has none, nor has one that builds a route, since
\* the manager closes an active session first; and only a route can be followed.
StateMatchesRoute ==
  /\ state \in Built \union {"RouteNoFollowing"} => route # 0
  /\ state \in {"NoValidRoute", "RouteBuilding"} => route = 0
  /\ following => route # 0 /\ state # "RouteNoFollowing"

\* The map never shows another route than the one the session has.
DrawnRouteIsTheRoute == drawn # 0 /\ route # 0 => drawn = route

\* A route that reaches the session is the answer to its last request, and nobody has
\* closed or reset the session since.
AnswersAreCurrent == [][route' \notin {0, route} => route' = delegate']_vars

Pending(r) ==
  \/ hasRequest /\ delegate = r
  \/ worker.request = r
  \/ \E n \in DOMAIN queue : queue[n].request = r

\* Every request ends: it is taken, calculated and answered, or dropped.
RequestsEnd == \A r \in 1..MaxEvents : Pending(r) ~> ~Pending(r) \/ state = "aborted"

\* A calculation that somebody waits for does not use what the router kept of maps that
\* were replaced: "Soft reset to signal that mwm file may be out of date in routing
\* caches." (framework.cpp).
CachesAreFresh ==
  worker.at = "calculating" /\ worker.request \notin cancelled => cache # "old"

\* No CHECK fails: a session whose checkpoints are finished asks for no route,
\* "CHECK(!IsFinished(), ())" (checkpoints.cpp).
ChecksHold == state # "aborted"

\* Who builds another route while moving along one keeps it until the answer comes: "User
\* may be following the previous route." of RouteBuilding, and "OnRoute -> RouteBuilding,
\* while moving along a route user makes a new route" (routing_callbacks.hpp).
PreviousRouteStays ==
  [][state = "OnRoute" /\ state' = "RouteBuilding" => route' = route]_vars

\* A session that builds a route has an answer to wait for: "We requested a route and
\* wait when it will be built." (routing_callbacks.hpp).
BuildingIsAnswered == state = "RouteBuilding" => \E r \in Requests : Pending(r)
=============================================================================
