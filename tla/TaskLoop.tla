------------------------------ MODULE TaskLoop ------------------------------
(***************************************************************************)
(* What base::DelayedThreadPool promises (libs/base/task_loop.hpp and the  *)
(* comments of libs/base/thread_pool_delayed.hpp): a task that was pushed  *)
(* starts once, not before its time, immediate tasks in the order in which *)
(* they were pushed; Cancel takes back a task that did not start; once the *)
(* pool is shut down no task is accepted any more, and those that wait are *)
(* started all the same or skipped, as Shutdown was told.                  *)
(***************************************************************************)
EXTENDS Integers

CONSTANTS
  Tasks,
  Times,  \* what the clock may show
  Ranks   \* places in the order of the immediate tasks

VARIABLES
  status,  \* task -> where it is in its life
  rank,    \* task -> its place among the immediate tasks, 0 for a delayed one
  due,     \* task -> the time it may start at
  open,    \* the pool accepts tasks
  clock

vars == <<status, rank, due, open, clock>>

Waiting == {t \in Tasks : status[t] = "waiting"}

Init ==
  /\ status = [t \in Tasks |-> "new"]
  /\ rank = [t \in Tasks |-> 0]
  /\ due = [t \in Tasks |-> 0]
  /\ open = TRUE
  /\ clock = 0

Push(t) ==
  /\ open /\ status[t] = "new"
  /\ status' = [status EXCEPT ![t] = "waiting"]
  /\ \E r \in Ranks : /\ \A u \in Tasks : rank[u] < r
                      /\ rank' = [rank EXCEPT ![t] = r]
  /\ UNCHANGED <<due, open, clock>>

\* The clock may have gone on since the caller asked for the time.
PushDelayed(t) ==
  /\ open /\ status[t] = "new"
  /\ status' = [status EXCEPT ![t] = "waiting"]
  /\ \E when \in Times : due' = [due EXCEPT ![t] = when]
  /\ UNCHANGED <<rank, open, clock>>

\* One thread may fetch an immediate and a delayed task at once.
Start(started) ==
  /\ started # {} /\ started \subseteq Waiting
  /\ \A t \in started : due[t] <= clock
  /\ \A t \in started, u \in Waiting \ started :
       rank[t] # 0 /\ rank[u] # 0 => rank[t] < rank[u]
  /\ status' = [t \in Tasks |-> IF t \in started THEN "started" ELSE status[t]]
  /\ UNCHANGED <<rank, due, open, clock>>

Finish(t) ==
  /\ status[t] = "started"
  /\ status' = [status EXCEPT ![t] = "done"]
  /\ UNCHANGED <<rank, due, open, clock>>

Cancel(t) ==
  /\ open /\ status[t] = "waiting"
  /\ status' = [status EXCEPT ![t] = "cancelled"]
  /\ UNCHANGED <<rank, due, open, clock>>

Shutdown(skip) ==
  /\ open
  /\ open' = FALSE
  /\ status' = [t \in Tasks |-> IF skip /\ t \in Waiting THEN "skipped" ELSE status[t]]
  /\ UNCHANGED <<rank, due, clock>>

Tick ==
  /\ clock' = clock + 1 /\ clock' \in Times
  /\ UNCHANGED <<status, rank, due, open>>

Next ==
  \/ \E t \in Tasks : Push(t) \/ PushDelayed(t) \/ Finish(t) \/ Cancel(t)
  \/ \E started \in SUBSET Tasks : Start(started)
  \/ \E skip \in BOOLEAN : Shutdown(skip)
  \/ Tick

Spec == Init /\ [][Next]_vars
====
