------------------------- MODULE DelayedThreadPool -------------------------
(***************************************************************************)
(* The pools that run tasks now or later: libs/base/thread_pool_delayed.cpp*)
(* Platform's network, file and background threads are pools of one worker,*)
(* drape has a pool of four, the pinger one worker per server.             *)
(*                                                                         *)
(* Each critical section of m_mu is one step.  A worker that waits on m_cv *)
(* is "asleep"; notify_one chooses any of the sleepers, and a sleeper may  *)
(* also wake up for no reason.  Where the code goes on under the lock after*)
(* waiting, so does the step here.                                         *)
(***************************************************************************)
EXTENDS Integers

CONSTANTS
  Workers,         \* m_threads
  Tasks,           \* the tasks; each is pushed once at most
  Delays,          \* delays of PushDelayed
  Exits,           \* how Shutdown may be called
  MaxTime,         \* bounds the clock, and the times that tasks wait for
  kImmediateMaxId  \* bounds the pushes of each kind, as ids do in the code

ASSUME DelaysAssumption == Delays \subseteq Nat
ASSUME ExitsAssumption == Exits \subseteq {"ExecPending", "SkipPending"}
ASSUME BoundsAssumption == MaxTime \in Nat /\ kImmediateMaxId \in Nat

VARIABLES
  immediate,         \* m_immediate
  delayed,           \* m_delayed
  id,                \* task -> its id, kNoId before it is pushed
  when,              \* task -> DelayedTask::m_when, 0 for an immediate one
  immediateLastId,
  delayedLastId,
  shutdown,
  exit,              \* m_exit
  state,             \* worker -> where it is in ProcessTasks
  until,             \* worker -> the time it sleeps until, Never outside wait_until
  notified,          \* the sleepers that were notified
  held,              \* worker -> the tasks it took and has not finished
  pendingImmediate,  \* worker -> its pendingImmediate
  pendingDelayed,    \* worker -> its pendingDelayed
  done,              \* the tasks that were executed
  cancelled,         \* the tasks that Cancel removed
  clock

queueVars == <<immediate, delayed>>
taskVars == <<id, when, immediateLastId, delayedLastId, cancelled>>
exitVars == <<shutdown, exit>>
sleepVars == <<until, notified>>
pendingVars == <<pendingImmediate, pendingDelayed>>

vars == <<queueVars, taskVars, exitVars, state, sleepVars, held, pendingVars, done, clock>>

kNoId == 0
Times == 0..MaxTime
Never == MaxTime + 1

IsImmediate(t) == id[t] <= kImmediateMaxId

-----------------------------------------------------------------------------
(* The queues: LinkedMap and DelayedQueue.  Each yields its first task, if any. *)

Front(queue) == {t \in queue : \A u \in queue : id[t] <= id[u]}

Before(t, u) == when[t] < when[u] \/ (when[t] = when[u] /\ id[t] < id[u])
GetFirstValue(queue) == {t \in queue : \A u \in queue : ~Before(u, t)}

\* Mutant: the clock is not looked at.
DueOrNot(queue) == GetFirstValue(queue)

Due(queue) == {t \in GetFirstValue(queue) : when[t] <= clock}

-----------------------------------------------------------------------------
(* Pushing, cancelling and shutting down, on any thread. *)

Asleep == {w \in Workers : state[w] = "asleep"}

\* Mutant: nobody is told.
NotifyNobody == UNCHANGED notified

\* m_cv.notify_one(): a sleeper that was notified already is none any more.
NotifyOne ==
  IF Asleep \subseteq notified
    THEN UNCHANGED notified
    ELSE \E w \in Asleep \ notified : notified' = notified \cup {w}

\* m_cv.notify_all().
NotifyAll == notified' = Asleep

Push(t) ==
  /\ ~shutdown /\ id[t] = kNoId
  /\ immediateLastId < kImmediateMaxId
  /\ immediateLastId' = immediateLastId + 1
  /\ id' = [id EXCEPT ![t] = immediateLastId']
  /\ immediate' = immediate \cup {t}
  /\ NotifyOne
  /\ UNCHANGED <<delayed, when, delayedLastId, cancelled, exitVars, state, until, held,
                 pendingVars, done, clock>>

\* The caller asked for the time before it locked m_mu.
PushDelayed(t) ==
  /\ ~shutdown /\ id[t] = kNoId
  /\ delayedLastId < 2 * kImmediateMaxId
  /\ delayedLastId' = delayedLastId + 1
  /\ id' = [id EXCEPT ![t] = delayedLastId']
  /\ \E now \in 0..clock, delay \in Delays :
       /\ now + delay \in Times
       /\ when' = [when EXCEPT ![t] = now + delay]
  /\ delayed' = delayed \cup {t}
  /\ NotifyOne
  /\ UNCHANGED <<immediate, immediateLastId, cancelled, exitVars, state, until, held,
                 pendingVars, done, clock>>

Cancel(t) ==
  /\ ~shutdown /\ id[t] # kNoId
  /\ t \in (IF IsImmediate(t) THEN immediate ELSE delayed)
  /\ immediate' = immediate \ {t}
  /\ delayed' = delayed \ {t}
  /\ cancelled' = cancelled \cup {t}
  /\ NotifyOne
  /\ UNCHANGED <<id, when, immediateLastId, delayedLastId, exitVars, state, until, held,
                 pendingVars, done, clock>>

\* ShutdownAndJoin passes what the constructor was given.
Shutdown(e) ==
  /\ ~shutdown
  /\ shutdown' = TRUE
  /\ exit' = e
  /\ NotifyAll
  /\ UNCHANGED <<queueVars, taskVars, state, until, held, pendingVars, done, clock>>

-----------------------------------------------------------------------------
(* ProcessTasks: waiting. *)

\* The predicate of the wait that a worker began while the first delayed task
\* was due at u, or there was none.
WaitIsOver(u) ==
  \/ shutdown \/ immediate # {}
  \/ IF u = Never THEN delayed # {}
     ELSE delayed = {} \/ \E t \in GetFirstValue(delayed) : when[t] < u

\* The time to wait for: when the first delayed task is due.
Deadlines == IF delayed = {} THEN {Never} ELSE {when[t] : t \in GetFirstValue(delayed)}

Sleep(w) ==
  /\ state[w] = "loop"
  /\ \E u \in Deadlines : /\ ~WaitIsOver(u)
                          /\ until' = [until EXCEPT ![w] = u]
  /\ state' = [state EXCEPT ![w] = "asleep"]
  /\ UNCHANGED <<queueVars, taskVars, exitVars, notified, held, pendingVars, done, clock>>

TimedOut(w) == until[w] <= clock

SleepAgain(w) ==
  /\ state[w] = "asleep" /\ w \in notified
  /\ ~WaitIsOver(until[w]) /\ ~TimedOut(w)
  /\ notified' = notified \ {w}
  /\ UNCHANGED <<queueVars, taskVars, exitVars, state, until, held, pendingVars, done,
                 clock>>

\* The worker is done with waiting: it still owns m_mu.
Awake(w) ==
  \/ state[w] = "loop" /\ \E u \in Deadlines : WaitIsOver(u)
  \/ state[w] = "asleep" /\ (WaitIsOver(until[w]) \/ TimedOut(w))

\* A sleeper that nobody notified, and that has no reason to look.
Overlooked(w) == state[w] = "asleep" /\ w \notin notified /\ ~TimedOut(w)

-----------------------------------------------------------------------------
(* ProcessTasks: taking tasks, running them, shutting down. *)

Taken == Front(immediate) \cup Due(delayed)

\* With nothing to take the worker starts anew.
Take(w) ==
  /\ Awake(w) /\ ~shutdown
  /\ immediate' = immediate \ Taken
  /\ delayed' = delayed \ Taken
  /\ held' = [held EXCEPT ![w] = Taken]
  /\ state' = [state EXCEPT ![w] = IF Taken = {} THEN "loop" ELSE "busy"]
  /\ until' = [until EXCEPT ![w] = Never]
  /\ notified' = notified \ {w}
  /\ UNCHANGED <<taskVars, exitVars, pendingVars, done, clock>>

\* Mutant: the queues are copied, not swapped.
CopyPending(w) ==
  /\ pendingImmediate' = [pendingImmediate EXCEPT ![w] = immediate]
  /\ pendingDelayed' = [pendingDelayed EXCEPT ![w] = delayed]
  /\ UNCHANGED queueVars

SwapPending(w) ==
  /\ pendingImmediate' = [pendingImmediate EXCEPT ![w] = immediate]
  /\ pendingDelayed' = [pendingDelayed EXCEPT ![w] = delayed]
  /\ immediate' = {} /\ delayed' = {}

LeaveLoop(w) ==
  /\ Awake(w) /\ shutdown
  /\ IF exit = "ExecPending" THEN SwapPending(w) ELSE UNCHANGED <<queueVars, pendingVars>>
  /\ state' = [state EXCEPT ![w] = "drain"]
  /\ until' = [until EXCEPT ![w] = Never]
  /\ notified' = notified \ {w}
  /\ UNCHANGED <<taskVars, exitVars, held, done, clock>>

\* A worker runs the immediate task it took before the delayed one.
Running(w) == IF \E t \in held[w] : IsImmediate(t) THEN {t \in held[w] : IsImmediate(t)}
                                                   ELSE held[w]

Finish(w, t) ==
  /\ t \in Running(w)
  /\ done' = done \cup {t}
  /\ held' = [held EXCEPT ![w] = @ \ {t}]
  /\ state' = [state EXCEPT ![w] = IF @ = "busy" /\ held'[w] = {} THEN "loop" ELSE @]
  /\ UNCHANGED <<queueVars, taskVars, exitVars, sleepVars, pendingVars, clock>>

\* After the loop: the pending tasks one by one, the delayed ones at their time.
ExecPending(w) ==
  LET next == IF pendingImmediate[w] # {} THEN Front(pendingImmediate[w])
                                          ELSE Due(pendingDelayed[w])
  IN
  /\ state[w] = "drain" /\ held[w] = {}
  /\ next # {}
  /\ held' = [held EXCEPT ![w] = next]
  /\ pendingImmediate' = [pendingImmediate EXCEPT ![w] = @ \ next]
  /\ pendingDelayed' = [pendingDelayed EXCEPT ![w] = @ \ next]
  /\ UNCHANGED <<queueVars, taskVars, exitVars, state, sleepVars, done, clock>>

Leave(w) ==
  /\ state[w] = "drain" /\ held[w] = {}
  /\ pendingImmediate[w] = {} /\ pendingDelayed[w] = {}
  /\ state' = [state EXCEPT ![w] = "exited"]
  /\ UNCHANGED <<queueVars, taskVars, exitVars, sleepVars, held, pendingVars, done, clock>>

-----------------------------------------------------------------------------
(* The specification. *)

Init ==
  /\ immediate = {} /\ delayed = {}
  /\ id = [t \in Tasks |-> kNoId]
  /\ when = [t \in Tasks |-> 0]
  /\ immediateLastId = kNoId /\ delayedLastId = kImmediateMaxId
  /\ shutdown = FALSE /\ exit = "SkipPending"
  /\ state = [w \in Workers |-> "loop"]
  /\ until = [w \in Workers |-> Never]
  /\ notified = {}
  /\ held = [w \in Workers |-> {}]
  /\ pendingImmediate = [w \in Workers |-> {}]
  /\ pendingDelayed = [w \in Workers |-> {}]
  /\ done = {} /\ cancelled = {}
  /\ clock = 0

Tick ==
  /\ clock < MaxTime
  /\ clock' = clock + 1
  /\ UNCHANGED <<queueVars, taskVars, exitVars, state, sleepVars, held, pendingVars, done>>

\* A step of ProcessTasks, up to the next task.
ProcessTasks(w) ==
  Sleep(w) \/ SleepAgain(w) \/ Take(w) \/ LeaveLoop(w) \/ ExecPending(w) \/ Leave(w)

Next ==
  \/ \E t \in Tasks : Push(t) \/ PushDelayed(t) \/ Cancel(t)
  \/ \E e \in Exits : Shutdown(e)
  \/ \E w \in Workers : ProcessTasks(w) \/ \E t \in Tasks : Finish(w, t)
  \/ Tick

Spec == Init /\ [][Next]_vars

\* Time goes on, and a worker that has something to do does it; a sleeper must
\* have been notified, or its time must have come.  Tasks may take for ever.
Progress ==
  /\ WF_vars(Tick)
  /\ \A w \in Workers : WF_vars(~Overlooked(w) /\ ProcessTasks(w))

LongTasksSpec == Spec /\ Progress

\* Tasks end.
FairSpec == LongTasksSpec /\ \A w \in Workers : WF_vars(\E t \in Tasks : Finish(w, t))

-----------------------------------------------------------------------------
(* Properties. *)

Pending(w) == pendingImmediate[w] \cup pendingDelayed[w]

\* Every variable keeps its type; a worker that waits or left holds no task.
TypeOK ==
  /\ immediate \subseteq Tasks /\ delayed \subseteq Tasks
  /\ id \in [Tasks -> Nat]
  /\ when \in [Tasks -> Times]
  /\ immediateLastId \in 0..kImmediateMaxId
  /\ delayedLastId \in kImmediateMaxId..2 * kImmediateMaxId
  /\ shutdown \in BOOLEAN /\ exit \in {"ExecPending", "SkipPending"}
  /\ state \in [Workers -> {"loop", "asleep", "busy", "drain", "exited"}]
  /\ until \in [Workers -> Times \cup {Never}]
  /\ notified \subseteq Asleep
  /\ held \in [Workers -> SUBSET Tasks]
  /\ \A w \in Workers : state[w] \in {"loop", "asleep", "exited"} => held[w] = {}
  /\ pendingImmediate \in [Workers -> SUBSET Tasks]
  /\ pendingDelayed \in [Workers -> SUBSET Tasks]
  /\ done \subseteq Tasks /\ cancelled \subseteq Tasks
  /\ clock \in Times

\* The life of a task as its pusher sees it.
Status(t) ==
  CASE id[t] = kNoId -> "new"
    [] t \in done -> "done"
    [] t \in cancelled -> "cancelled"
    [] \E w \in Workers : t \in held[w] -> "started"
    [] \E w \in Workers : t \in Pending(w) -> "waiting"
    [] OTHER -> IF shutdown /\ exit = "SkipPending" THEN "skipped" ELSE "waiting"

Promised == INSTANCE TaskLoop WITH
  status <- [t \in Tasks |-> Status(t)],
  rank <- [t \in Tasks |-> IF IsImmediate(t) THEN id[t] ELSE 0],
  due <- when,
  open <- ~shutdown,
  Ranks <- 1..kImmediateMaxId

\* The pool does what TaskLoop promises: tasks run once, never early, immediate
\* ones are taken in the order of their pushes, Cancel and Shutdown mean it.
KeepsPromise == Promised!Spec

\* A task that was pushed is in one place only: no two workers run it, and Cancel
\* does not answer "true" for a task that runs (m_immediate, m_delayed, the local
\* queues of ProcessTasks and the array of taken tasks).
OnePlace ==
  /\ \A w \in Workers :
       /\ held[w] \cap (immediate \cup delayed \cup done \cup cancelled) = {}
       /\ Pending(w) \cap (immediate \cup delayed \cup done \cup cancelled) = {}
       /\ \A v \in Workers : held[w] \cap Pending(v) = {}
       /\ \A v \in Workers \ {w} : /\ held[w] \cap held[v] = {}
                                   /\ Pending(w) \cap Pending(v) = {}
  /\ (immediate \cup delayed) \cap (done \cup cancelled) = {}
  /\ done \cap cancelled = {}

\* Where tasks take their time but end, one that was pushed ends, is cancelled or
\* is skipped; the lost wakeups of DueTasksStart only delay it.
TasksEnd ==
  \A t \in Tasks : t \in immediate \cup delayed ~> Status(t) \in {"done", "cancelled", "skipped"}

\* After Shutdown every worker leaves, so that ShutdownAndJoin returns.
WorkersLeave == shutdown ~> \A w \in Workers : state[w] = "exited"

\* No task stays in the queue past its time while a worker sleeps all along: a
\* worker waits "until there is at least one immediate or delayed task".
DueTasksStart ==
  \A t \in Tasks :
    t \in delayed /\ when[t] <= clock /\ ~shutdown
      ~> t \notin delayed \/ shutdown \/ Asleep = {}
====
