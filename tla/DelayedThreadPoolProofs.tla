---------------------- MODULE DelayedThreadPoolProofs ----------------------
(***************************************************************************)
(* What holds of the task pool for any workers, tasks, delays and clocks:  *)
(* its types, that a task is in one place only, and that each step of the  *)
(* pool is a step of TaskLoop or a stutter.                                *)
(*                                                                         *)
(* A task that is pushed must not be anywhere yet: NewTasksAreNowhere goes *)
(* with OnePlace.  For the refinement the status of each task must change  *)
(* as TaskLoop says, which needs NoTaskIsLost too.  That immediate tasks   *)
(* start in the order of their pushes needs IdsAreOrdered (the ids of      *)
(* immediate tasks are given out once and ascend), KindsAreKept (each      *)
(* queue holds tasks of its kind) and PendingIsAlone (of the workers that  *)
(* leave after Shutdown, one alone has all the tasks that still wait).     *)
(***************************************************************************)
EXTENDS DelayedThreadPool, TLAPS

Queued == immediate \cup delayed

\* A task that was not pushed is in no queue and with no worker.
NewTasksAreNowhere ==
  \A t \in Tasks : id[t] = kNoId =>
    /\ t \notin Queued \cup done \cup cancelled
    /\ \A w \in Workers : t \notin held[w] /\ t \notin Pending(w)

\* A task that was pushed is somewhere.
NoTaskIsLost ==
  \A t \in Tasks : id[t] # kNoId =>
    \/ t \in Queued \cup done \cup cancelled
    \/ \E w \in Workers : t \in held[w] \/ t \in Pending(w)

\* The ids of immediate tasks ascend, and an immediate task is due at once.
IdsAreOrdered ==
  /\ \A t \in Tasks : IsImmediate(t) => id[t] <= immediateLastId /\ when[t] = 0
  /\ \A t, u \in Tasks : IsImmediate(t) /\ id[t] # kNoId /\ id[t] = id[u] => t = u

\* Each queue holds tasks of its kind.
KindsAreKept ==
  /\ \A t \in immediate : IsImmediate(t)
  /\ \A t \in delayed : ~IsImmediate(t)
  /\ \A w \in Workers : /\ \A t \in pendingImmediate[w] : IsImmediate(t)
                        /\ \A t \in pendingDelayed[w] : ~IsImmediate(t)

\* The worker that took the pending tasks took all of them, after Shutdown.
PendingIsAlone ==
  \A w \in Workers : Pending(w) # {} =>
    /\ shutdown /\ exit = "ExecPending" /\ state[w] = "drain"
    /\ Queued = {}
    /\ \A v \in Workers \ {w} : Pending(v) = {}

\* The inductive invariant.
IInv ==
  /\ TypeOK /\ OnePlace
  /\ NewTasksAreNowhere /\ NoTaskIsLost
  /\ IdsAreOrdered /\ KindsAreKept /\ PendingIsAlone

-----------------------------------------------------------------------------
(* What the helpers return. *)

\* What a queue yields is in it.
LEMMA YieldsAreQueued ==
  ASSUME NEW queue
  PROVE  Front(queue) \subseteq queue /\ Due(queue) \subseteq queue
BY DEF Front, Due, GetFirstValue

\* A worker takes queued tasks only.
LEMMA TakenAreQueued == Taken \subseteq Queued
BY YieldsAreQueued DEF Taken, Queued

\* A worker that stops waiting was not busy.
LEMMA AwakeIsWaiting ==
  ASSUME NEW w \in Workers, Awake(w)
  PROVE  state[w] \in {"loop", "asleep"}
BY DEF Awake

-----------------------------------------------------------------------------
(* Types. *)

\* Notifying one sleeper or all of them notifies sleepers only.
LEMMA NotifiedSleep ==
  ASSUME TypeOK, NotifyOne \/ NotifyAll, state' = state
  PROVE  notified' \subseteq Asleep'
BY DEF TypeOK, NotifyOne, NotifyAll, Asleep

\* Each step keeps every variable within its type ...
LEMMA TypeStep ==
  ASSUME TypeOK, [Next]_vars
  PROVE  TypeOK'
<1> USE DEF TypeOK, queueVars, taskVars, exitVars, sleepVars, pendingVars
<1>1. ASSUME NEW t \in Tasks, Push(t)
      PROVE  TypeOK'
  <2>1. notified' \subseteq Asleep'
    BY <1>1, NotifiedSleep DEF Push
  <2>2. immediateLastId' \in 0..kImmediateMaxId
    BY <1>1, BoundsAssumption DEF Push
  <2> QED BY <1>1, <2>1, <2>2 DEF Push
<1>2. ASSUME NEW t \in Tasks, PushDelayed(t)
      PROVE  TypeOK'
  <2>1. notified' \subseteq Asleep'
    BY <1>2, NotifiedSleep DEF PushDelayed
  <2>2. delayedLastId' \in kImmediateMaxId..2 * kImmediateMaxId
    BY <1>2, BoundsAssumption DEF PushDelayed
  <2>3. when' \in [Tasks -> Times] /\ id' \in [Tasks -> Nat]
    BY <1>2, <2>2, BoundsAssumption DEF PushDelayed
  <2> QED BY <1>2, <2>1, <2>2, <2>3 DEF PushDelayed
<1>3. ASSUME NEW t \in Tasks, Cancel(t)
      PROVE  TypeOK'
  <2>1. notified' \subseteq Asleep'
    BY <1>3, NotifiedSleep DEF Cancel
  <2> QED BY <1>3, <2>1 DEF Cancel
<1>4. ASSUME NEW e \in Exits, Shutdown(e)
      PROVE  TypeOK'
  <2>1. notified' \subseteq Asleep'
    BY <1>4, NotifiedSleep DEF Shutdown
  <2> QED BY <1>4, <2>1, ExitsAssumption DEF Shutdown
<1>5. ASSUME NEW w \in Workers, Sleep(w)
      PROVE  TypeOK'
  <2>1. Deadlines \subseteq Times \cup {Never}
    BY DEF Deadlines, GetFirstValue
  <2> QED BY <1>5, <2>1 DEF Sleep, Asleep
<1>6. ASSUME NEW w \in Workers, SleepAgain(w)
      PROVE  TypeOK'
  BY <1>6 DEF SleepAgain, Asleep
<1>7. ASSUME NEW w \in Workers, Take(w)
      PROVE  TypeOK'
  <2>1. Taken \subseteq Tasks
    BY TakenAreQueued DEF Queued
  <2> QED BY <1>7, <2>1 DEF Take, Asleep
<1>8. ASSUME NEW w \in Workers, LeaveLoop(w)
      PROVE  TypeOK'
  BY <1>8 DEF LeaveLoop, SwapPending, Asleep
<1>9. ASSUME NEW w \in Workers, ExecPending(w)
      PROVE  TypeOK'
  <2> DEFINE next == IF pendingImmediate[w] # {} THEN Front(pendingImmediate[w])
                                                 ELSE Due(pendingDelayed[w])
  <2>1. next \subseteq Tasks
    BY YieldsAreQueued
  <2> HIDE DEF next
  <2>2. /\ state[w] = "drain" /\ UNCHANGED state
        /\ held' = [held EXCEPT ![w] = next]
        /\ pendingImmediate' = [pendingImmediate EXCEPT ![w] = @ \ next]
        /\ pendingDelayed' = [pendingDelayed EXCEPT ![w] = @ \ next]
        /\ UNCHANGED <<queueVars, taskVars, exitVars, sleepVars, done, clock>>
    BY <1>9 DEF ExecPending, next
  <2> QED BY <2>1, <2>2 DEF Asleep
<1>10. ASSUME NEW w \in Workers, Leave(w)
       PROVE  TypeOK'
  BY <1>10 DEF Leave, Asleep
<1>11. ASSUME NEW w \in Workers, NEW t \in Tasks, Finish(w, t)
       PROVE  TypeOK'
  <2>1. t \in held[w] /\ state[w] \in {"busy", "drain"}
    BY <1>11 DEF Finish, Running
  <2> QED BY <1>11, <2>1 DEF Finish, Asleep
<1>12. CASE Tick
  BY <1>12, BoundsAssumption DEF Tick, Times, Asleep
<1>13. CASE UNCHANGED vars
  BY <1>13 DEF vars, Asleep
<1> QED
  BY <1>1, <1>2, <1>3, <1>4, <1>5, <1>6, <1>7, <1>8, <1>9, <1>10, <1>11, <1>12, <1>13
     DEF Next, ProcessTasks

\* ... and has it at first.
LEMMA TypeOfInit == Init => TypeOK
<1>1. 0 \in Times /\ kNoId \in 0..kImmediateMaxId /\ kNoId \in Nat
  BY BoundsAssumption DEF Times, kNoId
<1>2. kImmediateMaxId \in kImmediateMaxId..2 * kImmediateMaxId
  BY BoundsAssumption
<1> SUFFICES ASSUME Init PROVE TypeOK
  OBVIOUS
<1>3. id \in [Tasks -> Nat] /\ when \in [Tasks -> Times]
  BY <1>1 DEF Init
<1>4. /\ state \in [Workers -> {"loop", "asleep", "busy", "drain", "exited"}]
      /\ until \in [Workers -> Times \cup {Never}]
  BY DEF Init
<1>5. /\ held \in [Workers -> SUBSET Tasks]
      /\ pendingImmediate \in [Workers -> SUBSET Tasks]
      /\ pendingDelayed \in [Workers -> SUBSET Tasks]
      /\ \A w \in Workers : held[w] = {}
  BY DEF Init
<1> QED BY <1>1, <1>2, <1>3, <1>4, <1>5 DEF Init, TypeOK

\* Every variable keeps its type; who waits or left holds no task; only sleepers
\* are notified.
THEOREM TypeCorrect == Spec => []TypeOK
<1>1. Init => TypeOK
  BY TypeOfInit
<1>2. TypeOK /\ [Next]_vars => TypeOK'
  BY TypeStep
<1> QED BY <1>1, <1>2, PTL DEF Spec

-----------------------------------------------------------------------------
(* A task is in one place. *)

\* Nothing moves when only waiting, counting and time go on.
LEMMA PlacesUnchanged ==
  ASSUME OnePlace, NewTasksAreNowhere,
         UNCHANGED <<queueVars, held, pendingVars, done, cancelled, id>>
  PROVE  OnePlace' /\ NewTasksAreNowhere'
BY DEF OnePlace, NewTasksAreNowhere, Queued, Pending, queueVars, pendingVars

\* A task that a step moves leaves the place where it was.
LEMMA PlaceStep ==
  ASSUME TypeOK, OnePlace, NewTasksAreNowhere, [Next]_vars
  PROVE  OnePlace' /\ NewTasksAreNowhere'
<1> USE DEF queueVars, taskVars, exitVars, sleepVars, pendingVars
<1>1. ASSUME NEW t \in Tasks, Push(t)
      PROVE  OnePlace' /\ NewTasksAreNowhere'
  <2>1. /\ id[t] = kNoId /\ immediate' = immediate \cup {t}
        /\ UNCHANGED <<delayed, held, pendingVars, done, cancelled>>
        /\ id' = [id EXCEPT ![t] = immediateLastId + 1]
        /\ immediateLastId + 1 # kNoId
    BY <1>1, BoundsAssumption DEF Push, TypeOK, kNoId
  <2> QED BY <2>1 DEF OnePlace, NewTasksAreNowhere, Queued, Pending, TypeOK
<1>2. ASSUME NEW t \in Tasks, PushDelayed(t)
      PROVE  OnePlace' /\ NewTasksAreNowhere'
  <2>1. /\ id[t] = kNoId /\ delayed' = delayed \cup {t}
        /\ UNCHANGED <<immediate, held, pendingVars, done, cancelled>>
        /\ id' = [id EXCEPT ![t] = delayedLastId + 1]
        /\ delayedLastId + 1 # kNoId
    BY <1>2, BoundsAssumption DEF PushDelayed, TypeOK, kNoId
  <2> QED BY <2>1 DEF OnePlace, NewTasksAreNowhere, Queued, Pending, TypeOK
<1>3. ASSUME NEW t \in Tasks, Cancel(t)
      PROVE  OnePlace' /\ NewTasksAreNowhere'
  <2>1. /\ id[t] # kNoId /\ t \in immediate \cup delayed
        /\ immediate' = immediate \ {t} /\ delayed' = delayed \ {t}
        /\ cancelled' = cancelled \cup {t}
        /\ UNCHANGED <<held, pendingVars, done, id>>
    BY <1>3 DEF Cancel
  <2> QED BY <2>1 DEF OnePlace, NewTasksAreNowhere, Queued, Pending
<1>4. ASSUME NEW w \in Workers, Take(w)
      PROVE  OnePlace' /\ NewTasksAreNowhere'
  <2>1. /\ immediate' = immediate \ Taken /\ delayed' = delayed \ Taken
        /\ held' = [held EXCEPT ![w] = Taken]
        /\ UNCHANGED <<pendingVars, done, cancelled, id>>
    BY <1>4 DEF Take
  <2>2. Taken \subseteq Queued
    BY TakenAreQueued
  <2>3. OnePlace'
    BY <2>1, <2>2 DEF OnePlace, Queued, Pending, TypeOK
  <2>4. NewTasksAreNowhere'
    BY <2>1, <2>2 DEF NewTasksAreNowhere, Queued, Pending, TypeOK
  <2> QED BY <2>3, <2>4
<1>5. ASSUME NEW w \in Workers, LeaveLoop(w)
      PROVE  OnePlace' /\ NewTasksAreNowhere'
  <2>1. CASE exit = "ExecPending"
    <3>1. /\ SwapPending(w) /\ UNCHANGED <<held, done, cancelled, id>>
      BY <1>5, <2>1 DEF LeaveLoop
    <3>2. Pending(w)' = Queued /\ Queued' = {}
      BY <3>1 DEF SwapPending, Pending, Queued, TypeOK
    <3>3. \A v \in Workers \ {w} : Pending(v)' = Pending(v)
      BY <3>1 DEF SwapPending, Pending, TypeOK
    <3>4. OnePlace'
      BY <3>1, <3>2, <3>3 DEF OnePlace, Queued
    <3>5. NewTasksAreNowhere'
      BY <3>1, <3>2, <3>3 DEF NewTasksAreNowhere
    <3> QED BY <3>4, <3>5
  <2>2. CASE exit # "ExecPending"
    BY <1>5, <2>2, PlacesUnchanged DEF LeaveLoop
  <2> QED BY <2>1, <2>2
<1>6. ASSUME NEW w \in Workers, ExecPending(w)
      PROVE  OnePlace' /\ NewTasksAreNowhere'
  <2> DEFINE next == IF pendingImmediate[w] # {} THEN Front(pendingImmediate[w])
                                                 ELSE Due(pendingDelayed[w])
  <2>1. next \subseteq Pending(w)
    BY YieldsAreQueued DEF Pending
  <2> HIDE DEF next
  <2>2. /\ state[w] = "drain" /\ UNCHANGED state
        /\ held' = [held EXCEPT ![w] = next]
        /\ pendingImmediate' = [pendingImmediate EXCEPT ![w] = @ \ next]
        /\ pendingDelayed' = [pendingDelayed EXCEPT ![w] = @ \ next]
        /\ UNCHANGED <<queueVars, taskVars, exitVars, sleepVars, done, clock>>
    BY <1>6 DEF ExecPending, next
  <2>3. /\ Pending(w)' = Pending(w) \ next
        /\ \A v \in Workers \ {w} : Pending(v)' = Pending(v)
    BY <2>2 DEF Pending, TypeOK
  <2>4. /\ held'[w] = next
        /\ \A v \in Workers \ {w} : held'[v] = held[v]
    BY <2>2 DEF TypeOK
  <2>5. OnePlace'
    BY <2>1, <2>2, <2>3, <2>4 DEF OnePlace
  <2>6. NewTasksAreNowhere'
    BY <2>1, <2>2, <2>3, <2>4 DEF NewTasksAreNowhere, Queued
  <2> QED BY <2>5, <2>6
<1>7. ASSUME NEW w \in Workers, NEW t \in Tasks, Finish(w, t)
      PROVE  OnePlace' /\ NewTasksAreNowhere'
  <2>1. /\ t \in held[w] /\ done' = done \cup {t}
        /\ held' = [held EXCEPT ![w] = @ \ {t}]
        /\ UNCHANGED <<queueVars, pendingVars, cancelled, id>>
    BY <1>7 DEF Finish, Running
  <2>2. OnePlace'
    BY <2>1 DEF OnePlace, Pending, TypeOK
  <2>3. NewTasksAreNowhere'
    BY <2>1 DEF NewTasksAreNowhere, Queued, Pending, TypeOK
  <2> QED BY <2>2, <2>3
<1> QED
  BY <1>1, <1>2, <1>3, <1>4, <1>5, <1>6, <1>7, PlacesUnchanged
     DEF Next, ProcessTasks, Shutdown, Sleep, SleepAgain, Leave, Tick, vars

\* No task is run twice, or run although Cancel took it back: whatever the workers
\* and the callers do, a task is in one place.
THEOREM TasksRunOnce == Spec => []OnePlace
<1>1. Init => OnePlace /\ NewTasksAreNowhere
  BY DEF Init, OnePlace, NewTasksAreNowhere, Queued, Pending
<1>2. TypeOK /\ OnePlace /\ NewTasksAreNowhere /\ [Next]_vars
        => OnePlace' /\ NewTasksAreNowhere'
  BY PlaceStep
<1> QED BY <1>1, <1>2, TypeCorrect, PTL DEF Spec

-----------------------------------------------------------------------------
(* The inductive invariant. *)

\* A task that a step takes away from somewhere is elsewhere then.
LEMMA LostStep ==
  ASSUME IInv, [Next]_vars
  PROVE  NoTaskIsLost'
<1> USE DEF queueVars, taskVars, exitVars, sleepVars, pendingVars
<1> SUFFICES ASSUME NEW t \in Tasks, id'[t] # kNoId
             PROVE  \/ t \in Queued' \cup done' \cup cancelled'
                    \/ \E w \in Workers : t \in held'[w] \/ t \in Pending(w)'
  BY DEF NoTaskIsLost
<1> DEFINE Somewhere == \/ t \in Queued \cup done \cup cancelled
                        \/ \E w \in Workers : t \in held[w] \/ t \in Pending(w)
<1>1. id[t] # kNoId => Somewhere
  BY DEF IInv, NoTaskIsLost
<1>2. ASSUME NEW u \in Tasks, Push(u) \/ PushDelayed(u) \/ Cancel(u)
      PROVE  Somewhere'
  BY <1>1, <1>2 DEF Push, PushDelayed, Cancel, Queued, Pending, IInv, TypeOK
<1>3. ASSUME NEW v \in Workers, Take(v)
      PROVE  Somewhere'
  <2>1. held[v] = {}
    BY <1>3, AwakeIsWaiting DEF Take, IInv, TypeOK
  <2>2. /\ Queued' = Queued \ Taken /\ held' = [held EXCEPT ![v] = Taken]
        /\ UNCHANGED <<pendingVars, done, cancelled, id>>
    BY <1>3 DEF Take, Queued
  <2> QED BY <1>1, <2>1, <2>2 DEF Pending, IInv, TypeOK
<1>4. ASSUME NEW v \in Workers, LeaveLoop(v)
      PROVE  Somewhere'
  <2>1. CASE exit = "ExecPending"
    <3>1. SwapPending(v) /\ UNCHANGED <<held, done, cancelled, id>>
      BY <1>4, <2>1 DEF LeaveLoop
    <3>2. /\ Pending(v)' = Queued
          /\ \A w \in Workers \ {v} : Pending(w)' = Pending(w)
      BY <3>1 DEF SwapPending, Pending, Queued, IInv, TypeOK
    <3>3. Pending(v) = {}
      BY <1>4, AwakeIsWaiting DEF LeaveLoop, IInv, PendingIsAlone
    <3> QED BY <1>1, <3>1, <3>2, <3>3
  <2>2. CASE exit # "ExecPending"
    BY <1>1, <1>4, <2>2 DEF LeaveLoop, Queued, Pending
  <2> QED BY <2>1, <2>2
<1>5. ASSUME NEW v \in Workers, ExecPending(v)
      PROVE  Somewhere'
  <2> DEFINE next == IF pendingImmediate[v] # {} THEN Front(pendingImmediate[v])
                                                 ELSE Due(pendingDelayed[v])
  <2>1. /\ held[v] = {} /\ held' = [held EXCEPT ![v] = next]
        /\ pendingImmediate' = [pendingImmediate EXCEPT ![v] = @ \ next]
        /\ pendingDelayed' = [pendingDelayed EXCEPT ![v] = @ \ next]
        /\ UNCHANGED <<queueVars, taskVars, done>>
    BY <1>5 DEF ExecPending
  <2> HIDE DEF next
  <2>2. /\ Pending(v)' = Pending(v) \ next
        /\ \A w \in Workers \ {v} : Pending(w)' = Pending(w)
    BY <2>1 DEF Pending, IInv, TypeOK
  <2>3. held'[v] = next /\ \A w \in Workers \ {v} : held'[w] = held[w]
    BY <2>1 DEF IInv, TypeOK
  <2> QED BY <1>1, <2>1, <2>2, <2>3 DEF Queued
<1>6. ASSUME NEW v \in Workers, NEW u \in Tasks, Finish(v, u)
      PROVE  Somewhere'
  BY <1>1, <1>6 DEF Finish, Queued, Pending, IInv, TypeOK
<1>7. UNCHANGED <<queueVars, held, pendingVars, done, cancelled, id>> => Somewhere'
  BY <1>1 DEF Queued, Pending
<1> QED
  BY <1>2, <1>3, <1>4, <1>5, <1>6, <1>7
     DEF Next, ProcessTasks, Shutdown, Sleep, SleepAgain, Leave, Tick, vars

\* A push gives the next id.
LEMMA OrderStep ==
  ASSUME IInv, [Next]_vars
  PROVE  IdsAreOrdered'
<1> USE DEF queueVars, taskVars, exitVars, sleepVars, pendingVars
<1>1. ASSUME NEW t \in Tasks, Push(t)
      PROVE  IdsAreOrdered'
  <2>1. /\ id[t] = kNoId /\ id' = [id EXCEPT ![t] = immediateLastId + 1]
        /\ immediateLastId' = immediateLastId + 1
        /\ when' = when
    BY <1>1 DEF Push
  <2>2. /\ IsImmediate(t) /\ when[t] = 0
        /\ immediateLastId \in Nat /\ id \in [Tasks -> Nat]
    BY <2>1, BoundsAssumption DEF IInv, IdsAreOrdered, IsImmediate, TypeOK, kNoId
  <2>3. \A u \in Tasks \ {t} : /\ id'[u] = id[u] /\ IsImmediate(u)' = IsImmediate(u)
                               /\ IsImmediate(u) => id[u] <= immediateLastId
    BY <2>1, <2>2 DEF IsImmediate, IInv, IdsAreOrdered
  <2>4. id'[t] = immediateLastId + 1
    BY <2>1, <2>2
  <2>5. \A u \in Tasks : IsImmediate(u)' => id'[u] <= immediateLastId' /\ when'[u] = 0
    BY <2>1, <2>2, <2>3, <2>4 DEF IInv, IdsAreOrdered
  <2>6. \A u, v \in Tasks : IsImmediate(u)' /\ id'[u] # kNoId /\ id'[u] = id'[v] => u = v
    BY <2>1, <2>2, <2>3, <2>4, <1>1 DEF IInv, IdsAreOrdered, IsImmediate, Push
  <2> QED BY <2>5, <2>6 DEF IdsAreOrdered
<1>2. ASSUME NEW t \in Tasks, PushDelayed(t)
      PROVE  IdsAreOrdered'
  <2>1. /\ id' = [id EXCEPT ![t] = delayedLastId + 1]
        /\ UNCHANGED immediateLastId
        /\ \A u \in Tasks \ {t} : when'[u] = when[u]
    BY <1>2 DEF PushDelayed, IInv, TypeOK
  <2>2. id \in [Tasks -> Nat] /\ delayedLastId + 1 > kImmediateMaxId
    BY BoundsAssumption DEF IInv, TypeOK
  <2>3. /\ ~IsImmediate(t)'
        /\ \A u \in Tasks \ {t} : id'[u] = id[u] /\ IsImmediate(u)' = IsImmediate(u)
    BY <2>1, <2>2, BoundsAssumption DEF IsImmediate, IInv, TypeOK
  <2> QED BY <2>1, <2>3 DEF IInv, IdsAreOrdered, IsImmediate
<1>3. UNCHANGED <<id, when, immediateLastId>> => IdsAreOrdered'
  BY DEF IInv, IdsAreOrdered, IsImmediate
<1> QED
  BY <1>1, <1>2, <1>3
     DEF Next, ProcessTasks, Cancel, Shutdown, Sleep, SleepAgain, Take, LeaveLoop,
         ExecPending, Leave, Finish, Tick, vars

\* Tasks enter the queue of their kind, and move to the local queue of it.
LEMMA KindStep ==
  ASSUME IInv, [Next]_vars
  PROVE  KindsAreKept'
<1> USE DEF queueVars, taskVars, exitVars, sleepVars, pendingVars
<1> DEFINE Fewer == /\ UNCHANGED id
                    /\ immediate' \subseteq immediate /\ delayed' \subseteq delayed
                    /\ \A w \in Workers :
                         /\ pendingImmediate'[w] \subseteq pendingImmediate[w] \cup immediate
                         /\ pendingDelayed'[w] \subseteq pendingDelayed[w] \cup delayed
<1>1. Fewer => KindsAreKept'
  BY DEF IInv, KindsAreKept, IsImmediate
<1>2. ASSUME NEW t \in Tasks, Push(t)
      PROVE  KindsAreKept'
  <2>1. /\ id[t] = kNoId /\ id' = [id EXCEPT ![t] = immediateLastId + 1]
        /\ immediateLastId + 1 <= kImmediateMaxId
        /\ immediate' = immediate \cup {t} /\ UNCHANGED <<delayed, pendingVars>>
    BY <1>2, BoundsAssumption DEF Push, IInv, TypeOK
  <2>2. /\ IsImmediate(t)'
        /\ \A u \in Tasks \ {t} : IsImmediate(u)' = IsImmediate(u)
    BY <2>1 DEF IsImmediate, IInv, TypeOK
  <2>3. t \notin delayed /\ \A w \in Workers : t \notin Pending(w)
    BY <2>1 DEF IInv, NewTasksAreNowhere, Queued
  <2> QED BY <2>1, <2>2, <2>3 DEF IInv, TypeOK, KindsAreKept, Pending
<1>3. ASSUME NEW t \in Tasks, PushDelayed(t)
      PROVE  KindsAreKept'
  <2>1. /\ id[t] = kNoId /\ id' = [id EXCEPT ![t] = delayedLastId + 1]
        /\ ~(delayedLastId + 1 <= kImmediateMaxId)
        /\ delayed' = delayed \cup {t} /\ UNCHANGED <<immediate, pendingVars>>
    BY <1>3, BoundsAssumption DEF PushDelayed, IInv, TypeOK
  <2>2. /\ ~IsImmediate(t)'
        /\ \A u \in Tasks \ {t} : IsImmediate(u)' = IsImmediate(u)
    BY <2>1 DEF IsImmediate, IInv, TypeOK
  <2>3. t \notin immediate /\ \A w \in Workers : t \notin Pending(w)
    BY <2>1 DEF IInv, NewTasksAreNowhere, Queued
  <2> QED BY <2>1, <2>2, <2>3 DEF IInv, TypeOK, KindsAreKept, Pending
<1>4. ASSUME NEW w \in Workers, LeaveLoop(w)
      PROVE  Fewer
  BY <1>4 DEF LeaveLoop, SwapPending, IInv, TypeOK
<1>5. ASSUME NEW w \in Workers, ExecPending(w)
      PROVE  Fewer
  BY <1>5 DEF ExecPending, IInv, TypeOK
<1>6. ASSUME NEW t \in Tasks, Cancel(t)
      PROVE  Fewer
  BY <1>6 DEF Cancel
<1>7. ASSUME NEW w \in Workers, Take(w)
      PROVE  Fewer
  BY <1>7 DEF Take
<1>8. UNCHANGED <<queueVars, pendingVars, id>> => Fewer
  OBVIOUS
<1> QED
  BY <1>1, <1>2, <1>3, <1>4, <1>5, <1>6, <1>7, <1>8
     DEF Next, ProcessTasks, Shutdown, Sleep, SleepAgain, Leave, Finish, Tick, vars

\* Nothing is queued once a worker took what was pending.
LEMMA PendingStep ==
  ASSUME IInv, [Next]_vars
  PROVE  PendingIsAlone'
<1> USE DEF queueVars, taskVars, exitVars, sleepVars, pendingVars
<1> DEFINE Same ==
      /\ UNCHANGED <<pendingVars, exit>>
      /\ shutdown => shutdown' /\ immediate' \subseteq immediate /\ delayed' \subseteq delayed
      /\ \A w \in Workers : state[w] = "drain" /\ Pending(w) # {} => state'[w] = "drain"
<1>1. Same => PendingIsAlone'
  BY DEF IInv, PendingIsAlone, Pending, Queued
<1>2. ASSUME NEW t \in Tasks, Push(t) \/ PushDelayed(t) \/ Cancel(t)
      PROVE  Same
  BY <1>2 DEF Push, PushDelayed, Cancel
<1>3. ASSUME NEW e \in Exits, Shutdown(e)
      PROVE  PendingIsAlone'
  BY <1>3 DEF Shutdown, IInv, PendingIsAlone, Pending
<1>4. ASSUME NEW w \in Workers, Sleep(w) \/ SleepAgain(w) \/ Take(w)
      PROVE  Same
  BY <1>4, AwakeIsWaiting DEF Sleep, SleepAgain, Take, IInv, TypeOK
<1>5. ASSUME NEW w \in Workers, LeaveLoop(w)
      PROVE  PendingIsAlone'
  <2>1. /\ shutdown /\ UNCHANGED <<shutdown, exit>>
        /\ state' = [state EXCEPT ![w] = "drain"]
        /\ IF exit = "ExecPending" THEN SwapPending(w) ELSE UNCHANGED <<queueVars, pendingVars>>
    BY <1>5 DEF LeaveLoop
  <2>2. CASE exit = "ExecPending"
    <3>1. /\ Pending(w)' = Queued /\ Queued' = {}
          /\ \A v \in Workers \ {w} : Pending(v)' = Pending(v)
      BY <2>1, <2>2 DEF SwapPending, Pending, Queued, IInv, TypeOK
    <3>2. Pending(w) = {}
      BY <1>5, AwakeIsWaiting DEF LeaveLoop, IInv, PendingIsAlone
    <3>3. /\ state'[w] = "drain"
          /\ \A v \in Workers \ {w} : state'[v] = state[v]
      BY <2>1 DEF IInv, TypeOK
    <3> QED BY <2>1, <2>2, <3>1, <3>2, <3>3 DEF IInv, PendingIsAlone
  <2>3. CASE exit # "ExecPending"
    BY <1>1, <2>1, <2>3 DEF IInv, TypeOK
  <2> QED BY <2>2, <2>3
<1>6. ASSUME NEW w \in Workers, ExecPending(w)
      PROVE  PendingIsAlone'
  <2>1. /\ \A v \in Workers : Pending(v)' \subseteq Pending(v)
        /\ UNCHANGED <<queueVars, exitVars, state>>
    BY <1>6 DEF ExecPending, Pending, IInv, TypeOK
  <2> QED BY <2>1 DEF IInv, PendingIsAlone, Queued
<1>7. ASSUME NEW w \in Workers, Leave(w)
      PROVE  Same
  BY <1>7 DEF Leave, Pending, IInv, TypeOK
<1>8. ASSUME NEW w \in Workers, NEW t \in Tasks, Finish(w, t)
      PROVE  Same
  BY <1>8 DEF Finish, IInv, TypeOK
<1>9. Tick \/ UNCHANGED vars => Same
  BY DEF Tick, vars
<1> QED
  BY <1>1, <1>2, <1>3, <1>4, <1>5, <1>6, <1>7, <1>8, <1>9 DEF Next, ProcessTasks

\* It holds at first.
LEMMA InvariantOfInit == Init => IInv
<1> SUFFICES ASSUME Init PROVE IInv
  OBVIOUS
<1>1. TypeOK
  BY TypeOfInit
<1>2. OnePlace /\ NewTasksAreNowhere /\ NoTaskIsLost /\ KindsAreKept /\ PendingIsAlone
  BY DEF Init, OnePlace, NewTasksAreNowhere, NoTaskIsLost, KindsAreKept, PendingIsAlone,
         Queued, Pending
<1>3. IdsAreOrdered
  BY DEF Init, IdsAreOrdered, kNoId
<1> QED BY <1>1, <1>2, <1>3 DEF IInv

\* The inductive invariant holds for any workers and tasks: where each task is, and
\* that the queues are in order.
THEOREM Invariance == Spec => []IInv
<1>1. Init => IInv
  BY InvariantOfInit
<1>2. IInv /\ [Next]_vars => IInv'
  BY TypeStep, PlaceStep, LostStep, OrderStep, KindStep, PendingStep DEF IInv
<1> QED BY <1>1, <1>2, PTL DEF Spec

-----------------------------------------------------------------------------
(* The pool implements TaskLoop. *)

\* The status and the rank of each task, as the refinement maps them.
Statuses == [t \in Tasks |-> Status(t)]
RankOf == [t \in Tasks |-> IF IsImmediate(t) THEN id[t] ELSE 0]

\* What the status of a task says about where it is.
StatusShows(t) ==
  /\ id[t] = kNoId => Status(t) = "new"
  /\ t \in done => Status(t) = "done"
  /\ t \in cancelled => Status(t) = "cancelled"
  /\ \A w \in Workers : /\ t \in held[w] => Status(t) = "started"
                        /\ t \in Pending(w) => Status(t) = "waiting"
  /\ t \in Queued => Status(t) = IF shutdown /\ exit = "SkipPending" THEN "skipped"
                                                                   ELSE "waiting"

\* Where a task is decides its status, before a step ...
LEMMA StatusMeaning ==
  ASSUME IInv, NEW t \in Tasks
  PROVE  StatusShows(t)
BY DEF IInv, OnePlace, NewTasksAreNowhere, PendingIsAlone, StatusShows, Status, Queued

\* ... and after it.
LEMMA StatusMeaningNext ==
  ASSUME IInv', NEW t \in Tasks
  PROVE  StatusShows(t)'
BY DEF IInv, OnePlace, NewTasksAreNowhere, PendingIsAlone, StatusShows, Status, Queued

\* A task that waits is queued, or pending at a worker.
LEMMA WaitingIsSomewhere ==
  ASSUME IInv, NEW t \in Tasks, Status(t) = "waiting"
  PROVE  t \in Queued \/ \E w \in Workers : t \in Pending(w)
<1>1. StatusShows(t)
  BY StatusMeaning
<1> QED BY <1>1 DEF StatusShows, IInv, NoTaskIsLost

\* The status of a task depends on where it is alone.
LEMMA StatusKept ==
  ASSUME IInv, IInv', NEW t \in Tasks,
         UNCHANGED exit, shutdown' = shutdown,
         id[t] = kNoId <=> id'[t] = kNoId,
         t \in Queued => t \in Queued' \/ \E w \in Workers : t \in Pending(w)',
         t \in done => t \in done',
         t \in cancelled => t \in cancelled',
         \A w \in Workers : /\ t \in held[w] => t \in held'[w]
                            /\ t \in Pending(w) => t \in Pending(w)'
  PROVE  Status(t)' = Status(t)
<1>1. StatusShows(t) /\ StatusShows(t)'
  BY StatusMeaning, StatusMeaningNext
<1>2. CASE t \in Queued /\ t \notin Queued'
  <2>1. PICK w \in Workers : t \in Pending(w)'
    BY <1>2
  <2>2. shutdown /\ exit = "ExecPending"
    BY <2>1 DEF IInv, PendingIsAlone
  <2> QED BY <1>1, <1>2, <2>1, <2>2 DEF StatusShows
<1>3. CASE t \in Queued /\ t \in Queued'
  BY <1>1, <1>3 DEF StatusShows
<1>4. CASE t \notin Queued
  BY <1>1, <1>4 DEF StatusShows, IInv, NoTaskIsLost
<1> QED BY <1>2, <1>3, <1>4

\* Pushing an immediate task: it gets a place after all others.
LEMMA PushStep ==
  ASSUME IInv, IInv', NEW t \in Tasks, Push(t)
  PROVE  Promised!Push(t)
<1> USE DEF queueVars, taskVars, exitVars, sleepVars, pendingVars
<1>1. /\ ~shutdown /\ id[t] = kNoId
      /\ immediateLastId + 1 \in 1..kImmediateMaxId
      /\ id' = [id EXCEPT ![t] = immediateLastId + 1]
      /\ Queued' = Queued \cup {t}
      /\ UNCHANGED <<when, held, pendingVars, done, cancelled, exitVars, clock>>
  BY BoundsAssumption DEF Push, IInv, TypeOK, Queued
<1>2. Status(t) = "new" /\ Status(t)' = "waiting"
  BY <1>1, StatusMeaning, StatusMeaningNext DEF StatusShows
<1>3. \A u \in Tasks \ {t} : Status(u)' = Status(u)
  <2> SUFFICES ASSUME NEW u \in Tasks \ {t} PROVE Status(u)' = Status(u)
    OBVIOUS
  <2> QED BY <1>1, StatusKept DEF Pending, IInv, TypeOK
<1>4. Statuses' = [Statuses EXCEPT ![t] = "waiting"]
  BY <1>2, <1>3 DEF Statuses
<1>5. RankOf' = [RankOf EXCEPT ![t] = immediateLastId + 1]
  <2>1. /\ IsImmediate(t)' /\ id'[t] = immediateLastId + 1
        /\ \A u \in Tasks \ {t} : id'[u] = id[u] /\ (IsImmediate(u)' <=> IsImmediate(u))
    BY <1>1, BoundsAssumption DEF IsImmediate, IInv, TypeOK
  <2> QED BY <2>1 DEF RankOf
<1>6. \A u \in Tasks : RankOf[u] < immediateLastId + 1
  BY <1>1, BoundsAssumption DEF RankOf, IInv, IdsAreOrdered, TypeOK
<1> QED
  BY <1>1, <1>2, <1>4, <1>5, <1>6 DEF Promised!Push, Statuses, RankOf

\* Pushing a delayed task.
LEMMA PushDelayedStep ==
  ASSUME IInv, IInv', NEW t \in Tasks, PushDelayed(t)
  PROVE  Promised!PushDelayed(t)
<1> USE DEF queueVars, taskVars, exitVars, sleepVars, pendingVars
<1>1. /\ ~shutdown /\ id[t] = kNoId
      /\ delayedLastId + 1 \in Nat /\ delayedLastId + 1 > kImmediateMaxId
      /\ id' = [id EXCEPT ![t] = delayedLastId + 1]
      /\ \E time \in Times : when' = [when EXCEPT ![t] = time]
      /\ Queued' = Queued \cup {t}
      /\ UNCHANGED <<held, pendingVars, done, cancelled, exitVars, clock>>
  <2>1. delayedLastId + 1 \in Nat /\ delayedLastId + 1 > kImmediateMaxId
    BY BoundsAssumption DEF IInv, TypeOK
  <2>2. \E time \in Times : when' = [when EXCEPT ![t] = time]
    BY DEF PushDelayed
  <2> QED BY <2>1, <2>2 DEF PushDelayed, Queued
<1>2. Status(t) = "new" /\ Status(t)' = "waiting"
  BY <1>1, BoundsAssumption, StatusMeaning, StatusMeaningNext DEF StatusShows, kNoId
<1>3. \A u \in Tasks \ {t} : Status(u)' = Status(u)
  <2> SUFFICES ASSUME NEW u \in Tasks \ {t} PROVE Status(u)' = Status(u)
    OBVIOUS
  <2> QED BY <1>1, StatusKept DEF Pending, IInv, TypeOK
<1>4. Statuses' = [Statuses EXCEPT ![t] = "waiting"]
  BY <1>2, <1>3 DEF Statuses
<1>5. RankOf' = RankOf
  BY <1>1, BoundsAssumption DEF RankOf, IsImmediate, IInv, TypeOK, kNoId
<1> QED
  BY <1>1, <1>2, <1>4, <1>5 DEF Promised!PushDelayed, Statuses, RankOf

\* Cancelling a queued task.
LEMMA CancelStep ==
  ASSUME IInv, IInv', NEW t \in Tasks, Cancel(t)
  PROVE  Promised!Cancel(t)
<1> USE DEF queueVars, taskVars, exitVars, sleepVars, pendingVars
<1>1. /\ ~shutdown /\ t \in Queued
      /\ Queued' = Queued \ {t} /\ cancelled' = cancelled \cup {t}
      /\ UNCHANGED <<id, when, held, pendingVars, done, exitVars, clock>>
  BY DEF Cancel, Queued
<1>2. Status(t) = "waiting" /\ Status(t)' = "cancelled"
  BY <1>1, StatusMeaning, StatusMeaningNext DEF StatusShows
<1>3. \A u \in Tasks \ {t} : Status(u)' = Status(u)
  <2> SUFFICES ASSUME NEW u \in Tasks \ {t} PROVE Status(u)' = Status(u)
    OBVIOUS
  <2> QED BY <1>1, StatusKept DEF Pending
<1>4. Statuses' = [Statuses EXCEPT ![t] = "cancelled"]
  BY <1>2, <1>3 DEF Statuses
<1>5. RankOf' = RankOf
  BY <1>1 DEF RankOf, IsImmediate
<1> QED
  BY <1>1, <1>2, <1>4, <1>5 DEF Promised!Cancel, Statuses, RankOf

\* A task ends.
LEMMA FinishStep ==
  ASSUME IInv, IInv', NEW w \in Workers, NEW t \in Tasks, Finish(w, t)
  PROVE  Promised!Finish(t)
<1> USE DEF queueVars, taskVars, exitVars, sleepVars, pendingVars
<1>1. /\ t \in held[w] /\ done' = done \cup {t}
      /\ held' = [held EXCEPT ![w] = @ \ {t}]
      /\ UNCHANGED <<id, when, queueVars, pendingVars, cancelled, exitVars, clock>>
  BY DEF Finish, Running
<1>2. Status(t) = "started" /\ Status(t)' = "done"
  BY <1>1, StatusMeaning, StatusMeaningNext DEF StatusShows
<1>3. \A u \in Tasks \ {t} : Status(u)' = Status(u)
  <2> SUFFICES ASSUME NEW u \in Tasks \ {t} PROVE Status(u)' = Status(u)
    OBVIOUS
  <2> QED BY <1>1, StatusKept DEF Pending, Queued, IInv, TypeOK
<1>4. Statuses' = [Statuses EXCEPT ![t] = "done"]
  BY <1>2, <1>3 DEF Statuses
<1>5. RankOf' = RankOf
  BY <1>1 DEF RankOf, IsImmediate
<1> QED
  BY <1>1, <1>2, <1>4, <1>5 DEF Promised!Finish, Statuses, RankOf

\* Shutting down decides about the tasks that wait.
LEMMA ShutdownStep ==
  ASSUME IInv, IInv', NEW e \in Exits, Shutdown(e)
  PROVE  \E skip \in BOOLEAN : Promised!Shutdown(skip)
<1> USE DEF queueVars, taskVars, exitVars, sleepVars, pendingVars
<1> DEFINE skip == e = "SkipPending"
<1>1. /\ ~shutdown /\ shutdown' /\ exit' = e
      /\ UNCHANGED <<id, when, queueVars, held, pendingVars, done, cancelled, clock>>
  BY DEF Shutdown
<1>2. \A t \in Tasks : Status(t)' = IF skip /\ Status(t) = "waiting" THEN "skipped" ELSE Status(t)
  <2> SUFFICES ASSUME NEW t \in Tasks
               PROVE  Status(t)' = IF skip /\ Status(t) = "waiting" THEN "skipped" ELSE Status(t)
    OBVIOUS
  <2>1. StatusShows(t) /\ StatusShows(t)'
    BY StatusMeaning, StatusMeaningNext
  <2>2. \A w \in Workers : t \notin Pending(w)
    BY <1>1 DEF IInv, PendingIsAlone
  <2> QED
    BY <1>1, <2>1, <2>2 DEF StatusShows, IInv, NoTaskIsLost, Queued, Pending
<1>3. Statuses' = [t \in Tasks |-> IF skip /\ t \in {u \in Tasks : Statuses[u] = "waiting"}
                                     THEN "skipped" ELSE Statuses[t]]
  BY <1>2 DEF Statuses
<1>4. RankOf' = RankOf
  BY <1>1 DEF RankOf, IsImmediate
<1>5. Promised!Shutdown(skip)
  BY <1>1, <1>3, <1>4 DEF Promised!Shutdown, Promised!Waiting, Statuses, RankOf
<1> QED BY <1>5

\* A worker that takes tasks which wait starts them, if they are due and those that
\* are immediate were pushed before the others that wait.
LEMMA StartStep ==
  ASSUME IInv, IInv', NEW w \in Workers, NEW next \in SUBSET Tasks,
         UNCHANGED <<id, when, exitVars, done, cancelled, clock>>,
         held[w] = {}, held' = [held EXCEPT ![w] = next],
         Queued' = Queued \ next,
         \A v \in Workers : Pending(v)' = Pending(v) \ next,
         \A t \in next : Status(t) = "waiting" /\ when[t] <= clock,
         \A t \in next, u \in Tasks \ next :
           Status(u) = "waiting" /\ RankOf[t] # 0 /\ RankOf[u] # 0 => RankOf[t] < RankOf[u]
  PROVE  [Promised!Next]_Promised!vars
<1> USE DEF exitVars
<1>1. \A t \in next : Status(t)' = "started"
  <2> SUFFICES ASSUME NEW t \in next PROVE Status(t)' = "started"
    OBVIOUS
  <2>1. t \in held'[w]
    BY DEF IInv, TypeOK
  <2> QED BY <2>1, StatusMeaningNext DEF StatusShows
<1>2. \A u \in Tasks \ next : Status(u)' = Status(u)
  <2> SUFFICES ASSUME NEW u \in Tasks \ next PROVE Status(u)' = Status(u)
    OBVIOUS
  <2>1. \A v \in Workers : u \in held[v] => u \in held'[v]
    BY DEF IInv, TypeOK
  <2> QED BY <2>1, StatusKept
<1>3. Statuses' = [t \in Tasks |-> IF t \in next THEN "started" ELSE Statuses[t]]
  BY <1>1, <1>2 DEF Statuses
<1>4. RankOf' = RankOf
  BY DEF RankOf, IsImmediate
<1>5. CASE next = {}
  <2>1. Statuses' = Statuses
    BY <1>3, <1>5 DEF Statuses
  <2> QED BY <2>1, <1>4 DEF Promised!vars, Statuses, RankOf
<1>6. CASE next # {}
  <2>1. next \subseteq Promised!Waiting
    BY DEF Promised!Waiting
  <2>2. \A t \in next, u \in Promised!Waiting \ next :
          RankOf[t] # 0 /\ RankOf[u] # 0 => RankOf[t] < RankOf[u]
    BY DEF Promised!Waiting
  <2>3. Promised!Start(next)
    BY <1>3, <1>4, <1>6, <2>1, <2>2 DEF Promised!Start, Statuses, RankOf
  <2> QED BY <2>3 DEF Promised!Next
<1> QED BY <1>5, <1>6

\* Of a queue of immediate tasks the first was pushed before the others.
LEMMA FrontIsFirst ==
  ASSUME IInv, NEW queue \in SUBSET Tasks, NEW t \in Front(queue), NEW u \in queue,
         t # u, IsImmediate(t), id[t] # kNoId
  PROVE  id[t] < id[u]
<1>1. t \in Tasks /\ id[t] <= id[u] /\ id[t] \in Nat /\ id[u] \in Nat
  BY DEF Front, IInv, TypeOK
<1>2. id[t] # id[u]
  BY <1>1 DEF IInv, IdsAreOrdered
<1> QED BY <1>1, <1>2

\* Taking the first immediate task, and the first delayed one if it is due.
LEMMA TakeStep ==
  ASSUME IInv, IInv', NEW w \in Workers, Take(w)
  PROVE  [Promised!Next]_Promised!vars
<1> USE DEF queueVars, taskVars, exitVars, sleepVars, pendingVars
<1>1. /\ ~shutdown /\ held[w] = {} /\ held' = [held EXCEPT ![w] = Taken]
      /\ UNCHANGED <<id, when, exitVars, pendingVars, done, cancelled, clock>>
      /\ Queued' = Queued \ Taken
  BY AwakeIsWaiting DEF Take, Queued, IInv, TypeOK
<1>2. Taken \subseteq Queued /\ Taken \in SUBSET Tasks
  BY TakenAreQueued DEF Queued, IInv, TypeOK
<1>3. \A v \in Workers : Pending(v) = {} /\ Pending(v)' = Pending(v) \ Taken
  BY <1>1 DEF IInv, PendingIsAlone, Pending
<1>4. ASSUME NEW t \in Taken
      PROVE  Status(t) = "waiting" /\ when[t] <= clock
  <2>1. Status(t) = "waiting"
    BY <1>1, <1>2, StatusMeaning DEF StatusShows
  <2>2. CASE t \in Front(immediate)
    <3>1. t \in Tasks /\ when[t] = 0
      BY <2>2, YieldsAreQueued DEF IInv, TypeOK, KindsAreKept, IdsAreOrdered
    <3>2. clock \in Nat
      BY BoundsAssumption DEF IInv, TypeOK, Times
    <3> QED BY <2>1, <3>1, <3>2
  <2>3. CASE t \in Due(delayed)
    BY <2>1, <2>3 DEF Due
  <2> QED BY <2>2, <2>3 DEF Taken
<1>5. ASSUME NEW t \in Taken, NEW u \in Tasks \ Taken,
             Status(u) = "waiting", RankOf[t] # 0, RankOf[u] # 0
      PROVE  RankOf[t] < RankOf[u]
  <2>1. u \in Queued
    BY <1>3, <1>5, WaitingIsSomewhere
  <2>2. /\ t \in Tasks /\ IsImmediate(t) /\ IsImmediate(u)
        /\ RankOf[t] = id[t] /\ RankOf[u] = id[u] /\ id[t] # kNoId
    BY <1>2, <1>5 DEF RankOf, kNoId
  <2>3. u \in immediate /\ t \in Front(immediate)
    BY <2>1, <2>2, YieldsAreQueued DEF Taken, Queued, IInv, KindsAreKept
  <2>4. id[t] < id[u]
    BY <2>2, <2>3, <1>5, FrontIsFirst DEF IInv, TypeOK
  <2> QED BY <2>2, <2>4
<1> QED BY <1>1, <1>2, <1>3, <1>4, <1>5, StartStep

\* A worker that leaves takes the pending tasks, first the immediate ones.
LEMMA ExecStep ==
  ASSUME IInv, IInv', NEW w \in Workers, ExecPending(w)
  PROVE  [Promised!Next]_Promised!vars
<1> USE DEF queueVars, taskVars, exitVars, sleepVars, pendingVars
<1> DEFINE next == IF pendingImmediate[w] # {} THEN Front(pendingImmediate[w])
                                               ELSE Due(pendingDelayed[w])
<1>1. /\ next # {} /\ held[w] = {} /\ held' = [held EXCEPT ![w] = next]
      /\ pendingImmediate' = [pendingImmediate EXCEPT ![w] = @ \ next]
      /\ pendingDelayed' = [pendingDelayed EXCEPT ![w] = @ \ next]
      /\ UNCHANGED <<id, when, queueVars, exitVars, done, cancelled, clock>>
  BY DEF ExecPending
<1>2. next \subseteq Pending(w) /\ next \in SUBSET Tasks
  BY YieldsAreQueued DEF Pending, IInv, TypeOK
<1>3. /\ Queued = {} /\ Queued' = {}
      /\ \A v \in Workers \ {w} : Pending(v) = {}
  BY <1>1, <1>2 DEF IInv, PendingIsAlone, Queued
<1>4. \A v \in Workers : Pending(v)' = Pending(v) \ next
  <2> HIDE DEF next
  <2>1. Pending(w)' = Pending(w) \ next
    BY <1>1 DEF Pending, IInv, TypeOK
  <2>2. \A v \in Workers \ {w} : Pending(v)' = Pending(v)
    BY <1>1 DEF Pending, IInv, TypeOK
  <2> QED BY <1>3, <2>1, <2>2
<1>5. ASSUME NEW t \in next
      PROVE  Status(t) = "waiting" /\ when[t] <= clock
  <2>1. Status(t) = "waiting"
    BY <1>2, StatusMeaning DEF StatusShows
  <2>2. CASE pendingImmediate[w] # {}
    <3>1. t \in Tasks /\ when[t] = 0
      BY <2>2, YieldsAreQueued DEF IInv, TypeOK, KindsAreKept, IdsAreOrdered
    <3>2. clock \in Nat
      BY BoundsAssumption DEF IInv, TypeOK, Times
    <3> QED BY <2>1, <3>1, <3>2
  <2>3. CASE pendingImmediate[w] = {}
    BY <2>1, <2>3 DEF Due
  <2> QED BY <2>2, <2>3
<1>6. ASSUME NEW t \in next, NEW u \in Tasks \ next,
             Status(u) = "waiting", RankOf[t] # 0, RankOf[u] # 0
      PROVE  RankOf[t] < RankOf[u]
  <2>1. u \in Pending(w)
    BY <1>3, <1>6, WaitingIsSomewhere
  <2>2. /\ t \in Tasks /\ IsImmediate(t) /\ IsImmediate(u)
        /\ RankOf[t] = id[t] /\ RankOf[u] = id[u] /\ id[t] # kNoId
    BY <1>2, <1>6 DEF RankOf, kNoId
  <2>3. u \in pendingImmediate[w]
    BY <2>1, <2>2 DEF Pending, IInv, KindsAreKept
  <2>4. t \in Front(pendingImmediate[w])
    BY <2>3
  <2>5. id[t] < id[u]
    BY <2>2, <2>3, <2>4, <1>6, FrontIsFirst DEF IInv, TypeOK
  <2> QED BY <2>2, <2>5
<1> HIDE DEF next
<1> QED BY <1>1, <1>2, <1>3, <1>4, <1>5, <1>6, StartStep

\* Waiting, waking up and leaving change the status of no task.
LEMMA StutterStep ==
  ASSUME IInv, IInv', NEW w \in Workers,
         Sleep(w) \/ SleepAgain(w) \/ LeaveLoop(w) \/ Leave(w)
  PROVE  UNCHANGED Promised!vars
<1> USE DEF queueVars, taskVars, exitVars, sleepVars, pendingVars
<1>1. UNCHANGED <<id, when, exitVars, held, done, cancelled, clock>>
  BY DEF Sleep, SleepAgain, LeaveLoop, Leave
<1>2. /\ \A v \in Workers : Pending(v) \subseteq Pending(v)'
      /\ Queued \subseteq Queued' \cup Pending(w)'
  <2>1. CASE LeaveLoop(w) /\ exit = "ExecPending"
    <3>1. /\ Pending(w)' = Queued
          /\ \A v \in Workers \ {w} : Pending(v)' = Pending(v)
      BY <2>1 DEF LeaveLoop, SwapPending, Pending, Queued, IInv, TypeOK
    <3>2. Pending(w) = {}
      BY <2>1, AwakeIsWaiting DEF LeaveLoop, IInv, PendingIsAlone
    <3> QED BY <3>1, <3>2
  <2>2. CASE UNCHANGED <<queueVars, pendingVars>>
    BY <2>2 DEF Pending, Queued
  <2> QED BY <2>1, <2>2 DEF Sleep, SleepAgain, LeaveLoop, Leave
<1>3. \A t \in Tasks : Status(t)' = Status(t)
  <2> SUFFICES ASSUME NEW t \in Tasks PROVE Status(t)' = Status(t)
    OBVIOUS
  <2> QED BY <1>1, <1>2, StatusKept
<1>4. Statuses' = Statuses
  BY <1>3 DEF Statuses
<1>5. RankOf' = RankOf
  BY <1>1 DEF RankOf, IsImmediate
<1> QED BY <1>1, <1>4, <1>5 DEF Promised!vars, Statuses, RankOf

\* Whatever workers and callers do, and however notifications are lost, the pool does
\* what TaskLoop says: no task runs early, twice, out of its turn or once cancelled.
THEOREM PromiseIsKept == Spec => KeepsPromise
<1>1. Init => Promised!Init
  <2> SUFFICES ASSUME Init PROVE Promised!Init
    OBVIOUS
  <2>1. \A t \in Tasks : Status(t) = "new" /\ IsImmediate(t) /\ id[t] = 0
    <3> SUFFICES ASSUME NEW t \in Tasks PROVE Status(t) = "new" /\ IsImmediate(t) /\ id[t] = 0
      OBVIOUS
    <3>1. id[t] = kNoId
      BY DEF Init
    <3>2. Status(t) = "new"
      BY <3>1, InvariantOfInit, StatusMeaning DEF StatusShows
    <3> QED BY <3>1, <3>2, BoundsAssumption DEF IsImmediate, kNoId
  <2> QED BY <2>1 DEF Init, Promised!Init
<1>2. IInv /\ IInv' /\ [Next]_vars => [Promised!Next]_Promised!vars
  <2> SUFFICES ASSUME IInv, IInv', [Next]_vars PROVE [Promised!Next]_Promised!vars
    OBVIOUS
  <2>1. ASSUME NEW t \in Tasks, Push(t) \/ PushDelayed(t) \/ Cancel(t)
        PROVE  Promised!Next
    BY <2>1, PushStep, PushDelayedStep, CancelStep DEF Promised!Next
  <2>2. ASSUME NEW e \in Exits, Shutdown(e)
        PROVE  Promised!Next
    BY <2>2, ShutdownStep DEF Promised!Next
  <2>3. ASSUME NEW w \in Workers, NEW t \in Tasks, Finish(w, t)
        PROVE  Promised!Next
    BY <2>3, FinishStep DEF Promised!Next
  <2>4. ASSUME NEW w \in Workers, ProcessTasks(w)
        PROVE  [Promised!Next]_Promised!vars
    BY <2>4, TakeStep, ExecStep, StutterStep DEF ProcessTasks
  <2>5. CASE Tick
    <3>1. \A t \in Tasks : Status(t)' = Status(t)
      BY <2>5 DEF Tick, Status, Pending, queueVars, taskVars, exitVars, pendingVars
    <3>2. Statuses' = Statuses /\ RankOf' = RankOf
      BY <2>5, <3>1 DEF Statuses, RankOf, IsImmediate, Tick, taskVars
    <3>3. Promised!Tick
      BY <2>5, <3>2 DEF Tick, Promised!Tick, Statuses, RankOf, taskVars, exitVars, IInv, TypeOK
    <3> QED BY <3>3 DEF Promised!Next
  <2>6. CASE UNCHANGED vars
    <3>1. \A t \in Tasks : Status(t)' = Status(t)
      BY <2>6 DEF vars, Status, Pending, queueVars, taskVars, exitVars, pendingVars
    <3>2. Statuses' = Statuses /\ RankOf' = RankOf
      BY <2>6, <3>1 DEF Statuses, RankOf, IsImmediate, vars, taskVars
    <3> QED
      BY <2>6, <3>2 DEF Promised!vars, Statuses, RankOf, vars, taskVars, exitVars
  <2> QED BY <2>1, <2>2, <2>3, <2>4, <2>5, <2>6 DEF Next
<1> QED BY <1>1, <1>2, Invariance, PTL DEF Spec, KeepsPromise, Promised!Spec
====
