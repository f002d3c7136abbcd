------------------------ MODULE RouteBuildingProofs ------------------------
(***************************************************************************)
(* What holds of route building for any outcomes, settings and number of   *)
(* calls: its types, that the state of the session agrees with its route,  *)
(* that the map shows no other route, and that only the answer to the last *)
(* request becomes the route.                                              *)
(*                                                                         *)
(* The last one needs OthersAreCancelled: whoever replaces the delegate    *)
(* cancels the former one, so that an answer that is not dropped is the    *)
(* delegate's own.                                                         *)
(***************************************************************************)
EXTENDS RouteBuilding, SequenceTheorems, TLAPS

Request == [callbacks : {"build", "rebuild"}, finished : BOOLEAN]

\* Every request but the last one that is still wanted is cancelled.
OthersAreCancelled == Requests \ {delegate} \subseteq cancelled

\* The part of the types that requests are about.
RequestsOK ==
  /\ hasRequest \in BOOLEAN /\ clearState \in BOOLEAN
  /\ asked \in Seq(Request)
  /\ delegate \in RequestOrNone /\ cancelled \subseteq Requests
  /\ OthersAreCancelled

\* The part that the GUI queue is about.
QueueOK ==
  /\ queue \in Seq(Task)
  /\ \A n \in DOMAIN queue : queue[n].type # "finish" => queue[n].request \in Requests

\* The part that the session, the map and the worker are about.
SessionOK ==
  /\ state \in States /\ route \in RequestOrNone /\ drawn \in RequestOrNone
  /\ following \in BOOLEAN /\ autoReroute \in BOOLEAN /\ finished \in BOOLEAN

Workers == [at : {"waiting", "taking", "calculating", "absent"}, request : RequestOrNone,
            code : Codes, ours : BOOLEAN]

WorkerOK ==
  /\ worker \in Workers
  /\ worker.at \in {"calculating", "absent"} => worker.request # 0
  /\ cache \in {"empty", "fresh", "old"}
  /\ left \in 0..MaxEvents

\* The inductive invariant.
IInv ==
  /\ RequestsOK /\ QueueOK /\ SessionOK /\ WorkerOK
  /\ StateMatchesRoute /\ DrawnRouteIsTheRoute

\* The inductive invariant says what the properties say.
LEMMA InvariantMeaning == IInv => TypeOK
BY DEF IInv, RequestsOK, QueueOK, SessionOK, WorkerOK, Workers, TypeOK, Request

-----------------------------------------------------------------------------
(* Requests. *)

\* Requests are numbers, and 0 is none of them.
LEMMA RequestsAreNumbers ==
  ASSUME RequestsOK
  PROVE  Requests = 1..Len(asked) /\ Len(asked) \in Nat /\ 0 \notin Requests
BY LenProperties DEF RequestsOK, Requests

\* While the requests stay, everything that names them stays well typed.
LEMMA SameRequests ==
  ASSUME IInv, asked' = asked
  PROVE  Requests' = Requests /\ RequestOrNone' = RequestOrNone
BY DEF Requests, RequestOrNone

\* A new request is one more; the former ones are cancelled.
LEMMA NewRequest ==
  ASSUME IInv, NEW callbacks \in {"build", "rebuild"}, NEW clears \in BOOLEAN,
         finished' \in BOOLEAN, CalculateRoute(callbacks, clears)
  PROVE  RequestsOK' /\ Requests \subseteq Requests'
<1>1. /\ Len(asked) \in Nat /\ asked \in Seq(Request) /\ Requests = 1..Len(asked)
  BY RequestsAreNumbers DEF IInv, RequestsOK
<1> DEFINE r == [callbacks |-> callbacks, finished |-> finished']
<1>2. r \in Request
  BY DEF Request
<1>3. asked' = Append(asked, r)
  BY DEF CalculateRoute
<1>4. asked' \in Seq(Request) /\ Len(asked') = Len(asked) + 1
  <2> HIDE DEF r
  <2> QED BY <1>1, <1>2, <1>3, AppendProperties
<1>5. Requests' = 1..(Len(asked) + 1)
  BY <1>1, <1>4, LenProperties DEF Requests
<1>6. delegate' = Len(asked) + 1 /\ delegate' \in Requests'
  BY <1>1, <1>5 DEF CalculateRoute
<1>7. Requests \subseteq cancelled'
  BY <1>1 DEF IInv, RequestsOK, OthersAreCancelled, CalculateRoute, WithDelegate, RequestOrNone
<1>8. cancelled' \subseteq Requests'
  BY <1>1, <1>5 DEF IInv, RequestsOK, CalculateRoute, WithDelegate, RequestOrNone
<1>9. OthersAreCancelled'
  BY <1>1, <1>5, <1>6, <1>7 DEF OthersAreCancelled
<1>10. hasRequest' \in BOOLEAN /\ clearState' \in BOOLEAN
  BY DEF IInv, RequestsOK, CalculateRoute
<1> QED
  BY <1>1, <1>4, <1>5, <1>6, <1>8, <1>9, <1>10 DEF RequestsOK, RequestOrNone

\* ClearState cancels the last request, too.
LEMMA Cleared ==
  ASSUME IInv, ClearState
  PROVE  RequestsOK' /\ Requests' = Requests
BY DEF IInv, RequestsOK, OthersAreCancelled, ClearState, WithDelegate, Requests, RequestOrNone

\* What names requests stays well typed when there are more of them.
LEMMA MoreRequests ==
  ASSUME IInv, Requests \subseteq Requests'
  PROVE  /\ UNCHANGED queue => QueueOK'
         /\ UNCHANGED <<worker, cache>> /\ left' \in 0..MaxEvents => WorkerOK'
         /\ route \in RequestOrNone' /\ drawn \in RequestOrNone'
BY DEF IInv, QueueOK, WorkerOK, Workers, SessionOK, RequestOrNone, Task

\* One call less is left.
LEMMA OneEventLess ==
  ASSUME IInv, Event
  PROVE  left' \in 0..MaxEvents
BY BoundAssumption DEF IInv, WorkerOK, Workers, Event

-----------------------------------------------------------------------------
(* The GUI queue. *)

\* Answers are queued for requests.
LEMMA Queued ==
  ASSUME IInv, UNCHANGED asked, NEW task \in Task,
         task.type # "finish" => task.request \in Requests, queue' = Append(queue, task)
  PROVE  QueueOK'
<1>1. queue' \in Seq(Task) /\ Len(queue') = Len(queue) + 1 /\ Len(queue) \in Nat
  BY AppendProperties, LenProperties DEF IInv, QueueOK
<1>2. ASSUME NEW n \in DOMAIN queue', queue'[n].type # "finish"
      PROVE  queue'[n].request \in Requests'
  <2>1. n \in 1..Len(queue) + 1 /\ DOMAIN queue = 1..Len(queue)
    BY <1>1, <1>2, LenProperties DEF IInv, QueueOK
  <2>2. CASE n = Len(queue) + 1
    BY <2>2, <1>2, AppendProperties, SameRequests DEF IInv, QueueOK
  <2>3. CASE n \in 1..Len(queue)
    BY <2>1, <2>3, <1>2, AppendProperties, SameRequests DEF IInv, QueueOK
  <2> QED BY <2>1, <2>2, <2>3, <1>1
<1> QED BY <1>1, <1>2 DEF QueueOK, Task

\* The first task is taken out.
LEMMA Dequeued ==
  ASSUME IInv, UNCHANGED asked, queue # <<>>, queue' = Tail(queue)
  PROVE  /\ QueueOK'
         /\ Head(queue) \in Task
         /\ Head(queue).type # "finish" => Head(queue).request \in Requests
<1>1. queue \in Seq(Task) /\ Len(queue) \in Nat /\ Len(queue) > 0 /\ DOMAIN queue = 1..Len(queue)
  BY LenProperties, EmptySeq DEF IInv, QueueOK
<1>2. /\ queue' \in Seq(Task) /\ DOMAIN queue' = 1..Len(queue) - 1
      /\ \A n \in 1..Len(queue) - 1 : queue'[n] = queue[n + 1]
  <2>1. Tail(queue) \in Seq(Task) /\ Len(Tail(queue)) = Len(queue) - 1
        /\ \A n \in 1..Len(Tail(queue)) : Tail(queue)[n] = queue[n + 1]
    BY <1>1, HeadTailProperties
  <2> QED BY <1>1, <2>1, LenProperties
<1>3. Head(queue) = queue[1] /\ 1 \in DOMAIN queue
  BY <1>1, HeadTailProperties
<1>4. ASSUME NEW n \in DOMAIN queue', queue'[n].type # "finish"
      PROVE  queue'[n].request \in Requests'
  <2>1. n + 1 \in DOMAIN queue /\ queue'[n] = queue[n + 1]
    BY <1>1, <1>2
  <2> QED BY <2>1, <1>4, SameRequests DEF IInv, QueueOK
<1>5. Head(queue) \in Task
  BY <1>1, <1>3, ElementOfSeq
<1> QED
  BY <1>2, <1>3, <1>4, <1>5 DEF IInv, QueueOK, Task

-----------------------------------------------------------------------------
(* The steps of the user. *)

\* What the session does not touch while it changes its state only.
LEMMA OnlySession ==
  ASSUME IInv, Event, UNCHANGED <<requestVars, worker, cache>>
  PROVE  RequestsOK' /\ WorkerOK' /\ (UNCHANGED queue => QueueOK')
BY OneEventLess
   DEF IInv, RequestsOK, OthersAreCancelled, WorkerOK, Workers, QueueOK, requestVars, Requests,
       RequestOrNone

\* Reset, whatever becomes of the map and of the worker.
LEMMA ResetKeepsIInv ==
  ASSUME IInv, Event, Reset, drawn' \in {0, drawn}, UNCHANGED queue,
         WorkerOK'
  PROVE  IInv'
<1>1. RequestsOK' /\ Requests' = Requests
  BY Cleared DEF Reset
<1>2. QueueOK'
  BY <1>1, MoreRequests
<1>3. SessionOK'
  BY <1>1 DEF IInv, SessionOK, Reset, RequestOrNone, States
<1>4. StateMatchesRoute' /\ DrawnRouteIsTheRoute'
  BY DEF StateMatchesRoute, DrawnRouteIsTheRoute, Reset, Built
<1> QED BY <1>1, <1>2, <1>3, <1>4 DEF IInv

\* A build asks for a route after the session is closed.
LEMMA BuildRouteStep ==
  ASSUME IInv, BuildRoute
  PROVE  IInv'
<1>1. RequestsOK' /\ Requests \subseteq Requests'
  BY NewRequest DEF BuildRoute
<1>2. QueueOK' /\ WorkerOK'
  BY <1>1, MoreRequests, OneEventLess DEF BuildRoute
<1>3. SessionOK'
  BY <1>1 DEF IInv, SessionOK, BuildRoute, RequestOrNone, States
<1>4. StateMatchesRoute' /\ DrawnRouteIsTheRoute'
  BY DEF IInv, StateMatchesRoute, DrawnRouteIsTheRoute, BuildRoute, Built, IsActive
<1> QED BY <1>1, <1>2, <1>3, <1>4 DEF IInv

\* A rebuild on a traffic update keeps the route until its answer comes.
LEMMA TrafficStep ==
  ASSUME IInv, RebuildRouteOnTrafficUpdate
  PROVE  IInv'
<1>1. /\ RequestsOK' /\ Requests \subseteq Requests'
      /\ state' \in {"aborted", "RouteRebuilding"}
  <2>1. CASE UNCHANGED requestVars /\ state' = "aborted"
    BY <2>1, OnlySession, SameRequests DEF RebuildRouteOnTrafficUpdate, requestVars
  <2>2. CASE state' = "RouteRebuilding" /\ CalculateRoute("rebuild", TRUE)
    BY <2>2, NewRequest DEF RebuildRouteOnTrafficUpdate, IInv, SessionOK
  <2> QED BY <2>1, <2>2 DEF RebuildRouteOnTrafficUpdate
<1>2. QueueOK' /\ WorkerOK'
  BY <1>1, MoreRequests, OneEventLess DEF RebuildRouteOnTrafficUpdate
<1>3. SessionOK'
  BY <1>1, MoreRequests DEF IInv, SessionOK, RebuildRouteOnTrafficUpdate, RequestOrNone, States
<1>4. StateMatchesRoute' /\ DrawnRouteIsTheRoute'
  BY <1>1 DEF IInv, StateMatchesRoute, DrawnRouteIsTheRoute, RebuildRouteOnTrafficUpdate, Built
<1> QED BY <1>1, <1>2, <1>3, <1>4 DEF IInv

\* A location off the route may ask for a rebuild.
LEMMA MoveAwayStep ==
  ASSUME IInv, MoveAway
  PROVE  IInv'
<1>1. /\ RequestsOK' /\ Requests \subseteq Requests'
      /\ state' \in {"OffRoute", "RouteRebuilding"}
  <2>1. CASE UNCHANGED requestVars /\ state' = "OffRoute"
    BY <2>1, OnlySession, SameRequests DEF MoveAway, requestVars
  <2>2. CASE state' = "RouteRebuilding" /\ CalculateRoute("rebuild", FALSE)
    BY <2>2, NewRequest DEF MoveAway, IInv, SessionOK
  <2> QED BY <2>1, <2>2 DEF MoveAway
<1>2. QueueOK' /\ WorkerOK'
  BY <1>1, MoreRequests, OneEventLess DEF MoveAway
<1>3. SessionOK'
  BY <1>1, MoreRequests DEF IInv, SessionOK, MoveAway, RequestOrNone, States, Built
<1>4. StateMatchesRoute' /\ DrawnRouteIsTheRoute'
  BY <1>1 DEF IInv, StateMatchesRoute, DrawnRouteIsTheRoute, MoveAway, Tracks, Built
<1> QED BY <1>1, <1>2, <1>3, <1>4 DEF IInv

\* A location on the route may reach the finish, which becomes a GUI task.
LEMMA MoveAlongStep ==
  ASSUME IInv, MoveAlong
  PROVE  IInv'
<1> DEFINE task == [type |-> "finish", request |-> 0, code |-> "none"]
<1>1. RequestsOK' /\ WorkerOK'
  BY OnlySession DEF MoveAlong
<1>2. QueueOK'
  <2>1. CASE queue' = Append(queue, task)
    <3>1. task \in Task /\ task.type = "finish"
      BY DEF Task, Codes
    <3>2. UNCHANGED asked
      BY DEF MoveAlong, requestVars
    <3> HIDE DEF task
    <3> QED BY <2>1, <3>1, <3>2, Queued
  <2>2. CASE queue' = queue
    BY <2>2, OnlySession DEF MoveAlong
  <2> QED BY <2>1, <2>2 DEF MoveAlong
<1>3. SessionOK'
  BY SameRequests DEF IInv, SessionOK, MoveAlong, requestVars, States, Built
<1>4. StateMatchesRoute' /\ DrawnRouteIsTheRoute'
  BY DEF IInv, StateMatchesRoute, DrawnRouteIsTheRoute, MoveAlong, Tracks, Built
<1> QED BY <1>1, <1>2, <1>3, <1>4 DEF IInv

\* The calls that change nothing but the session.
LEMMA ModeSteps ==
  ASSUME IInv, SetAutoReroute \/ FollowRoute \/ DisableFollowMode
  PROVE  IInv'
<1>1. Event /\ UNCHANGED <<requestVars, worker, cache, queue, drawn>>
  BY DEF SetAutoReroute, FollowRoute, DisableFollowMode
<1>2. RequestsOK' /\ WorkerOK' /\ QueueOK'
  BY <1>1, OnlySession
<1>3. SessionOK'
  BY <1>1, SameRequests, AutoRerouteAssumption
     DEF IInv, SessionOK, SetAutoReroute, FollowRoute, DisableFollowMode, requestVars, States,
         Built
<1>4. StateMatchesRoute' /\ DrawnRouteIsTheRoute'
  BY DEF IInv, StateMatchesRoute, DrawnRouteIsTheRoute, SetAutoReroute, FollowRoute,
         DisableFollowMode, Built
<1> QED BY <1>2, <1>3, <1>4 DEF IInv

\* The calls that reset the session.
LEMMA ResetSteps ==
  ASSUME IInv, CloseRouting \/ OnCountryFileChanged \/ SetRouter
  PROVE  IInv'
<1>1. Event /\ Reset /\ drawn' \in {0, drawn} /\ UNCHANGED queue
  BY DEF CloseRouting, OnCountryFileChanged, SetRouter
<1>2. Requests' = Requests
  BY <1>1, Cleared DEF Reset
<1>3. left' \in 0..MaxEvents /\ cache' \in {"empty", "fresh", "old"}
  BY <1>1, OneEventLess
     DEF IInv, WorkerOK, CloseRouting, OnCountryFileChanged, SetRouter
<1>4. WorkerOK'
  <2>1. CASE worker' = worker
    BY <1>2, <1>3, <2>1 DEF IInv, WorkerOK, Workers, RequestOrNone
  <2>2. CASE worker' = [worker EXCEPT !.ours = worker.at \in {"waiting", "taking"}]
    <3> DEFINE ours == worker.at \in {"waiting", "taking"}
    <3>1. ours \in BOOLEAN /\ worker' = [worker EXCEPT !.ours = ours]
      BY <2>2
    <3> HIDE DEF ours
    <3>2. worker' \in Workers' /\ worker'.at = worker.at /\ worker'.request = worker.request
      BY <1>2, <3>1 DEF IInv, WorkerOK, Workers, RequestOrNone
    <3> QED BY <1>3, <3>2 DEF IInv, WorkerOK
  <2> QED BY <2>1, <2>2 DEF CloseRouting, OnCountryFileChanged, SetRouter
<1> QED BY <1>1, <1>4, ResetKeepsIInv

\* Matching a location fills the caches and touches nothing else.
LEMMA MatchStep ==
  ASSUME IInv, MatchLocationToRoadGraph
  PROVE  IInv'
<1>1. RequestsOK' /\ SessionOK' /\ QueueOK'
  BY SameRequests
     DEF IInv, RequestsOK, OthersAreCancelled, SessionOK, QueueOK, MatchLocationToRoadGraph,
         requestVars, sessionVars
<1>2. WorkerOK'
  BY SameRequests, OneEventLess DEF IInv, WorkerOK, Workers, MatchLocationToRoadGraph, requestVars
<1>3. StateMatchesRoute' /\ DrawnRouteIsTheRoute'
  BY DEF IInv, StateMatchesRoute, DrawnRouteIsTheRoute, MatchLocationToRoadGraph, sessionVars
<1> QED BY <1>1, <1>2, <1>3 DEF IInv

-----------------------------------------------------------------------------
(* The steps of the worker. *)

\* The worker leaves the session alone, unless a CHECK fails.
LEMMA WorkerLeavesTheSession ==
  ASSUME IInv, UNCHANGED <<route, following, autoReroute, finished, drawn, asked>>,
         state' \in {state, "aborted"}
  PROVE  SessionOK' /\ StateMatchesRoute' /\ DrawnRouteIsTheRoute'
<1>1. SessionOK'
  BY SameRequests DEF IInv, SessionOK, States
<1> QED BY <1>1 DEF IInv, StateMatchesRoute, DrawnRouteIsTheRoute, Built

\* A worker that waits has no request.
LEMMA IdleIsTyped == Idle \in Workers
BY DEF Workers, Idle, RequestOrNone, Codes

\* The worker leaves its wait.
LEMMA WakeStep ==
  ASSUME IInv, Wake
  PROVE  IInv'
<1>1. SessionOK' /\ StateMatchesRoute' /\ DrawnRouteIsTheRoute'
  BY WorkerLeavesTheSession DEF Wake, sessionVars
<1>2. RequestsOK' /\ QueueOK'
  BY SameRequests DEF IInv, RequestsOK, OthersAreCancelled, QueueOK, Wake
<1>3. WorkerOK'
  BY SameRequests DEF IInv, WorkerOK, Workers, Wake
<1> QED BY <1>1, <1>2, <1>3 DEF IInv

\* The worker takes the request of the delegate, or finds that nobody asks.
LEMMA TakeRequestStep ==
  ASSUME IInv, TakeRequest
  PROVE  IInv'
<1>1. SessionOK' /\ StateMatchesRoute' /\ DrawnRouteIsTheRoute'
  BY WorkerLeavesTheSession DEF TakeRequest, sessionVars
<1>2. RequestsOK' /\ QueueOK'
  BY SameRequests
     DEF IInv, RequestsOK, OthersAreCancelled, QueueOK, TakeRequest, RequestAfter
<1>3. WorkerOK'
  <2>1. UNCHANGED left /\ RequestOrNone' = RequestOrNone /\ cache' \in {cache, "fresh"}
    BY SameRequests DEF TakeRequest
  <2>2. CASE worker' = Idle
    BY <2>1, <2>2, IdleIsTyped DEF IInv, WorkerOK, Workers, Idle
  <2>3. CASE worker' = [at |-> "calculating", request |-> delegate, code |-> "none",
                        ours |-> TRUE] /\ delegate # 0
    <3>1. worker' \in Workers'
      BY <2>1, <2>3 DEF IInv, RequestsOK, Workers, Codes
    <3> QED BY <2>1, <2>3, <3>1 DEF IInv, WorkerOK, Workers
  <2> QED BY <2>2, <2>3 DEF TakeRequest, NobodyAsks
<1> QED BY <1>1, <1>2, <1>3 DEF IInv

\* An answer is a task for the request that the worker has.
LEMMA AnswerIsQueued ==
  ASSUME IInv, UNCHANGED asked, worker.at \in {"calculating", "absent"},
         NEW type \in {"ready", "needMoreMaps", "removeRoute"}, NEW code \in Codes,
         queue' = Answer(type, code)
  PROVE  QueueOK'
<1> DEFINE task == [type |-> type, request |-> worker.request, code |-> code]
<1>1. worker.request \in Requests
  BY DEF IInv, WorkerOK, Workers, RequestOrNone
<1>2. task \in Task /\ task.request \in Requests
  BY <1>1, RequestsAreNumbers DEF Task, IInv
<1>3. queue' = Append(queue, task)
  BY DEF Answer
<1> HIDE DEF task
<1> QED BY <1>2, <1>3, Queued

\* A calculation ends, and its answer is queued for a request that was made.
LEMMA CalculateStep ==
  ASSUME IInv, Calculate
  PROVE  IInv'
<1>1. SessionOK' /\ StateMatchesRoute' /\ DrawnRouteIsTheRoute'
  BY WorkerLeavesTheSession DEF Calculate, sessionVars, requestVars
<1>2. RequestsOK'
  BY DEF IInv, RequestsOK, OthersAreCancelled, Calculate, requestVars, Requests, RequestOrNone
<1>3. PICK code \in Outcomes \union {"Cancelled"} :
        /\ worker' = IF code = "exception" THEN Idle
                     ELSE [worker EXCEPT !.at = "absent", !.code = code]
        /\ queue' = IF code \in {"NoError", "exception"} THEN Answer("ready", code) ELSE queue
  BY DEF Calculate
<1>4. code \in Codes
  BY OutcomesAssumption DEF Codes
<1>5. QueueOK'
  <2>1. CASE queue' = Answer("ready", code)
    BY <1>4, <2>1, AnswerIsQueued DEF Calculate, requestVars
  <2>2. CASE queue' = queue
    BY <2>2, SameRequests DEF IInv, QueueOK, Calculate, requestVars
  <2> QED BY <1>3, <2>1, <2>2
<1>6. WorkerOK'
  <2>1. UNCHANGED left /\ RequestOrNone' = RequestOrNone /\ cache' \in {cache, "empty"}
    BY SameRequests DEF Calculate, requestVars
  <2>2. CASE worker' = Idle
    BY <2>1, <2>2, IdleIsTyped DEF IInv, WorkerOK, Workers, Idle
  <2>3. CASE worker' = [worker EXCEPT !.at = "absent", !.code = code]
    BY <1>4, <2>1, <2>3 DEF IInv, WorkerOK, Workers, Calculate
  <2> QED BY <1>3, <2>2, <2>3
<1> QED BY <1>1, <1>2, <1>5, <1>6 DEF IInv

\* A calculation for finished checkpoints aborts.
LEMMA CalculateNothingStep ==
  ASSUME IInv, CalculateNothing
  PROVE  IInv'
<1>1. SessionOK' /\ StateMatchesRoute' /\ DrawnRouteIsTheRoute'
  BY WorkerLeavesTheSession DEF CalculateNothing, requestVars
<1>2. RequestsOK' /\ QueueOK' /\ WorkerOK'
  BY SameRequests
     DEF IInv, RequestsOK, OthersAreCancelled, QueueOK, WorkerOK, Workers, CalculateNothing,
         requestVars
<1> QED BY <1>1, <1>2 DEF IInv

\* The absent regions are found, and reported for the same request.
LEMMA FindAbsentStep ==
  ASSUME IInv, FindAbsent
  PROVE  IInv'
<1>1. SessionOK' /\ StateMatchesRoute' /\ DrawnRouteIsTheRoute'
  BY WorkerLeavesTheSession DEF FindAbsent, sessionVars, requestVars
<1>2. RequestsOK'
  BY DEF IInv, RequestsOK, OthersAreCancelled, FindAbsent, requestVars, Requests, RequestOrNone
<1>3. QueueOK'
  <2>1. CASE queue' = Answer("needMoreMaps", "NeedMoreMaps")
    BY <2>1, AnswerIsQueued DEF FindAbsent, requestVars, Codes
  <2>2. CASE queue' = Answer("removeRoute", worker.code)
    BY <2>2, AnswerIsQueued DEF FindAbsent, requestVars, IInv, WorkerOK, Workers
  <2>3. CASE queue' = queue
    BY <2>3, SameRequests DEF IInv, QueueOK, FindAbsent, requestVars
  <2> QED BY <2>1, <2>2, <2>3 DEF FindAbsent
<1>4. WorkerOK'
  BY SameRequests
     DEF IInv, WorkerOK, Workers, FindAbsent, requestVars, Idle, RequestOrNone, Codes
<1> QED BY <1>1, <1>2, <1>3, <1>4 DEF IInv

-----------------------------------------------------------------------------
(* The GUI queue, delivered. *)

\* An answer that is not dropped is the delegate's.
LEMMA AnswerOfTheDelegate ==
  ASSUME IInv, NEW task, task.request \in Requests, ~IsDropped(task)
  PROVE  task.request = delegate /\ task.request # 0
BY RequestsAreNumbers DEF IInv, RequestsOK, OthersAreCancelled, IsDropped

\* An answer that is not dropped is that of the delegate; session and map take it together.
LEMMA OnReadyStep ==
  ASSUME IInv, NEW task, task.request \in Requests, OnReady(task),
         UNCHANGED <<following, autoReroute, finished, asked>>
  PROVE  SessionOK' /\ StateMatchesRoute' /\ DrawnRouteIsTheRoute'
<1>1. task.request # 0
  BY RequestsAreNumbers DEF IInv
<1>2. CASE route' = task.request /\ drawn' = DrawnAfter(task) /\ state' = "RouteNotStarted"
  <2>1. SessionOK'
    BY <1>2, SameRequests DEF IInv, SessionOK, DrawnAfter, RequestOrNone, States, Built
  <2> QED BY <1>1, <1>2, <2>1
         DEF IInv, StateMatchesRoute, DrawnRouteIsTheRoute, DrawnAfter, Built
<1>3. CASE state' \in {"aborted", StateAfterError} /\ UNCHANGED <<route, drawn>>
  <2>1. SessionOK'
    BY <1>3, SameRequests DEF IInv, SessionOK, StateAfterError, States, Built
  <2> QED BY <1>3, <2>1
         DEF IInv, StateMatchesRoute, DrawnRouteIsTheRoute, StateAfterError, Built
<1> QED BY <1>2, <1>3 DEF OnReady

\* Each GUI task keeps the invariant, dropped or not.
LEMMA DeliverStep ==
  ASSUME IInv, Deliver
  PROVE  IInv'
<1> DEFINE task == Head(queue)
<1>1. UNCHANGED <<following, autoReroute, finished, requestVars, worker, cache, left, asked>>
  BY DEF Deliver, requestVars
<1>2. /\ QueueOK' /\ task \in Task
      /\ task.type # "finish" => task.request \in Requests
  BY <1>1, Dequeued DEF Deliver
<1>3. RequestsOK' /\ WorkerOK'
  BY <1>1, SameRequests DEF IInv, RequestsOK, OthersAreCancelled, WorkerOK, Workers, requestVars
<1>4. SessionOK' /\ StateMatchesRoute' /\ DrawnRouteIsTheRoute'
  <2>1. CASE UNCHANGED <<state, route>> /\ drawn' \in {0, drawn}
    <3>1. SessionOK'
      BY <1>1, <2>1, SameRequests DEF IInv, SessionOK, RequestOrNone
    <3> QED BY <1>1, <2>1, <3>1 DEF IInv, StateMatchesRoute, DrawnRouteIsTheRoute
  <2>2. CASE task.type = "ready" /\ OnReady(task)
    BY <1>1, <1>2, <2>2, OnReadyStep
  <2> QED BY <2>1, <2>2 DEF Deliver, OnRemoveRoute, OnFinishPassed
<1> QED BY <1>2, <1>3, <1>4 DEF IInv

-----------------------------------------------------------------------------
(* The theorems. *)

\* A new session satisfies the invariant.
LEMMA InitIInv == Init => IInv
<1> SUFFICES ASSUME Init PROVE IInv
  OBVIOUS
<1>1. asked = <<>> /\ Requests = {} /\ asked \in Seq(Request)
  BY EmptySeq DEF Init, Requests
<1>2. RequestsOK
  BY <1>1 DEF Init, RequestsOK, OthersAreCancelled, RequestOrNone
<1>3. QueueOK
  BY EmptySeq DEF Init, QueueOK
<1>4. SessionOK
  BY AutoRerouteAssumption DEF Init, SessionOK, RequestOrNone, States
<1>6. WorkerOK
  <2>1. worker.at = "waiting"
    BY DEF Init, Idle
  <2> QED BY <2>1, BoundAssumption, IdleIsTyped DEF Init, WorkerOK, Workers
<1>5. StateMatchesRoute /\ DrawnRouteIsTheRoute
  BY DEF Init, StateMatchesRoute, DrawnRouteIsTheRoute, Built
<1> QED BY <1>2, <1>3, <1>4, <1>5, <1>6 DEF IInv

\* Every step keeps the invariant.
LEMMA NextIInv == IInv /\ [Next]_vars => IInv'
<1> SUFFICES ASSUME IInv, [Next]_vars PROVE IInv'
  OBVIOUS
<1>1. CASE User
  BY <1>1, BuildRouteStep, TrafficStep, MoveAlongStep, MoveAwayStep, ModeSteps, ResetSteps,
     MatchStep DEF User
<1>2. CASE Worker
  BY <1>2, WakeStep, TakeRequestStep, CalculateStep, CalculateNothingStep, FindAbsentStep
     DEF Worker
<1>3. CASE Deliver
  BY <1>3, DeliverStep
<1>4. CASE UNCHANGED vars
  BY <1>4, SameRequests
     DEF IInv, RequestsOK, OthersAreCancelled, QueueOK, SessionOK, WorkerOK, Workers,
         StateMatchesRoute, DrawnRouteIsTheRoute, vars, sessionVars, requestVars
<1> QED BY <1>1, <1>2, <1>3, <1>4 DEF Next

\* Types, the agreement of session, route and map, and that every request but the one
\* whose answer is wanted is cancelled, hold together in every state.
THEOREM Invariance == Spec => []IInv
BY InitIInv, NextIInv, PTL DEF Spec

\* The variables keep their types, and whoever calculates does so for a request that
\* was made (AsyncRouter::CalculateRoute).
THEOREM TypeCorrect == Spec => []TypeOK
BY Invariance, InvariantMeaning, PTL

\* RoutingSession navigates only a route that it has, and a session without a valid
\* route has none.
THEOREM SessionIsConsistent == Spec => []StateMatchesRoute
<1>1. IInv => StateMatchesRoute
  BY DEF IInv
<1> QED BY <1>1, Invariance, PTL

\* The subroutes on the map are those of the session's route (InsertRoute, RemoveRoute).
THEOREM MapShowsTheRoute == Spec => []DrawnRouteIsTheRoute
<1>1. IInv => DrawnRouteIsTheRoute
  BY DEF IInv
<1> QED BY <1>1, Invariance, PTL

\* A step that gives the session another route takes it from the answer to the last
\* request: the delegates of the others are cancelled (ResetDelegate, OnReady).
LEMMA RouteOfTheDelegate ==
  ASSUME IInv, Next, route' \notin {0, route}
  PROVE  route' = delegate'
<1>1. Deliver
  BY DEF Next, User, Worker, BuildRoute, RebuildRouteOnTrafficUpdate, MoveAlong, MoveAway,
         SetAutoReroute, FollowRoute, DisableFollowMode, CloseRouting, OnCountryFileChanged,
         SetRouter, Reset, MatchLocationToRoadGraph, Wake, TakeRequest, Calculate,
         CalculateNothing, FindAbsent, sessionVars
<1> DEFINE task == Head(queue)
<1>2. /\ task.type = "ready" /\ OnReady(task) /\ ~IsDropped(task)
      /\ route' = task.request /\ UNCHANGED <<asked, delegate>>
  BY <1>1 DEF Deliver, OnReady, OnRemoveRoute, OnFinishPassed, requestVars
<1>3. task.request \in Requests
  BY <1>1, <1>2, Dequeued DEF Deliver
<1> QED BY <1>2, <1>3, AnswerOfTheDelegate

\* Answers of former requests never become the route, whatever the order in which the
\* worker, the GUI queue and the user go on.
THEOREM OnlyCurrentAnswers == Spec => AnswersAreCurrent
<1>1. IInv /\ [Next]_vars => [route' \notin {0, route} => route' = delegate']_vars
  BY RouteOfTheDelegate
<1> QED BY <1>1, Invariance, PTL DEF Spec, AnswersAreCurrent
=============================================================================
