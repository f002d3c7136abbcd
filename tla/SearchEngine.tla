---------------------------- MODULE SearchEngine ----------------------------
(***************************************************************************)
(* Searches and the threads that do them: libs/search/engine.cpp, the part *)
(* of libs/search/processor.cpp that a cancelled search goes through, and  *)
(* their client, libs/map/search_api.cpp.                                  *)
(*                                                                         *)
(* A message is a number, its place in the order of all requests: a task   *)
(* is a search, a broadcast changes the processor of every thread.  What   *)
(* a search finds is left out; what counts is when it is cancelled, what   *)
(* its processor knew of the broadcasts, and whose results are shown.      *)
(***************************************************************************)
EXTENDS Integers, FiniteSets, SequencesExt

CONSTANTS
  Threads,     \* the threads there may be; an engine has some of them
  Modes,       \* search::Mode: each has one search at a time
  Viewport,    \* Mode::Viewport, whose results are shown on the map
  MaxCalls,    \* how many calls of the user there are
  MaxBatches   \* how many batches of results a search emits before its last

ASSUME ModesAssumption == IsFiniteSet(Modes) /\ Viewport \in Modes /\ "broadcast" \notin Modes
ASSUME ThreadsAssumption == IsFiniteSet(Threads) /\ Threads # {}
ASSUME BoundsAssumption == MaxCalls \in Nat /\ MaxBatches \in Nat

VARIABLES
  contexts,   \* m_threads, m_contexts: the threads of this engine
  order,      \* all messages so far: the mode of a task, or "broadcast"
  messages,   \* m_messages
  own,        \* thread -> Context::m_messages
  todo,       \* thread -> the messages it took, which it handles without m_mu
  at,         \* thread -> where it is
  applied,    \* thread -> the broadcasts its processor has seen
  status,     \* thread -> the Cancellable of its processor
  attached,   \* thread -> the handle whose m_processor is its processor, or 0
  sent,       \* thread -> batches that the search has emitted
  cancelled,  \* the handles with m_cancelled
  shutdown,   \* m_shutdown
  intents,    \* m_searchIntents: mode -> [asked, handle, delayed]
  ready,      \* m_isViewportInitialized
  calls,      \* what the running call of SearchAPI has still to do
  gui,        \* the GUI tasks of ViewportSearchCallback
  shown,      \* the searches whose results are shown on the map
  left        \* calls that may still come

threadVars == <<todo, at, applied, status, attached, sent>>
engineVars == <<contexts, order, messages, own, cancelled, shutdown>>
apiVars == <<intents, ready, calls, shown, left>>
vars == <<threadVars, engineVars, apiVars, gui>>

IsBroadcast(k) == order[k] = "broadcast"
Queued(t) == todo[t] \o own[t] \o messages
IsAlive(k) == \E t \in contexts : Contains(Queued(t), k)

-----------------------------------------------------------------------------
(* Engine, as the GUI thread calls it. *)

Asleep == {t \in contexts : at[t] = "asleep"}

\* Mutant: nobody is told of a new message.
NotifyNobody == UNCHANGED at

\* m_cv.notify_one(): it wakes one of those who wait, if there are any.
NotifyOne ==
  IF Asleep = {} THEN UNCHANGED at
                 ELSE \E t \in Asleep : at' = [at EXCEPT ![t] = "awake"]

PostMessage(kind) ==
  /\ order' = Append(order, kind)
  /\ messages' = Append(messages, Len(order) + 1)
  /\ NotifyOne

\* ProcessorHandle::Cancel, under the handle's own lock.
Cancel(k) ==
  /\ cancelled' = cancelled \cup {k}
  /\ status' = [t \in Threads |-> IF attached[t] = k THEN "cancelled" ELSE status[t]]

-----------------------------------------------------------------------------
(* SearchAPI, on the GUI thread. *)

Call(op, mode) == [op |-> op, mode |-> mode]

MayCall == calls = <<>> /\ ~shutdown
Counted == left > 0 /\ left' = left - 1

\* A new search of a mode cancels the previous one.
Search(mode) ==
  /\ MayCall /\ Counted
  /\ intents' = [intents EXCEPT ![mode].asked = TRUE]
  /\ calls' = <<Call("cancel", mode), Call("start", mode)>>
  /\ UNCHANGED <<threadVars, engineVars, ready, shown, gui>>

\* The intent keeps m_isDelayed: see EmptyQueriesStay.
CancelSearch(mode) ==
  /\ MayCall /\ Counted
  /\ intents' = [intents EXCEPT ![mode].asked = FALSE]
  /\ calls' = <<Call("cancel", mode)>>
  /\ shown' = IF mode = Viewport THEN {} ELSE shown
  /\ UNCHANGED <<threadVars, engineVars, ready, gui>>

\* Mutant: the search where the map was before goes on.
PokeAgain == IF intents[Viewport].asked THEN <<Call("start", Viewport)>> ELSE <<>>

\* PokeSearchInViewport searches again where the map is now, if the user searches.
Poke == IF intents[Viewport].asked
          THEN <<Call("cancel", Viewport), Call("start", Viewport)>> ELSE <<>>

\* Searches that came before the first viewport begin with it.
DelayedStarts ==
  LET delayed == {mode \in Modes \ {Viewport} : intents[mode].delayed}
  IN  SetToSeq({Call("start", mode) : mode \in delayed})

\* The first viewport comes once and is not counted among the calls.
OnViewportChanged ==
  /\ MayCall
  /\ IF ready THEN Counted ELSE UNCHANGED left
  /\ ready' = TRUE
  /\ calls' = IF ready THEN Poke ELSE DelayedStarts \o Poke
  /\ UNCHANGED <<threadVars, engineVars, intents, shown, gui>>

\* SetLocale, ClearCaches, OnBookmarksCreated and the other broadcasts.
Broadcast ==
  /\ MayCall /\ Counted
  /\ calls' = <<Call("broadcast", Viewport)>>
  /\ UNCHANGED <<threadVars, engineVars, intents, ready, shown, gui>>

Doing(op) == calls # <<>> /\ Head(calls).op = op /\ calls' = Tail(calls)
This == Head(calls).mode

\* CancelQuery: the weak pointer is empty once the search is over.
CancelQuery ==
  /\ Doing("cancel")
  /\ LET k == intents[This].handle
     IN  IF IsAlive(k) THEN Cancel(k) ELSE UNCHANGED <<cancelled, status>>
  /\ intents' = [intents EXCEPT ![This].handle = 0]
  /\ UNCHANGED <<todo, at, applied, attached, sent, contexts, order, messages, own,
                 shutdown, ready, shown, left, gui>>

StartSearch ==
  /\ Doing("start") /\ ready
  /\ PostMessage(This)
  /\ intents' = [intents EXCEPT ![This].handle = Len(order) + 1, ![This].delayed = FALSE]
  /\ UNCHANGED <<todo, applied, status, attached, sent, contexts, own, cancelled,
                 shutdown, ready, shown, left, gui>>

DelaySearch ==
  /\ Doing("start") /\ ~ready
  /\ intents' = [intents EXCEPT ![This].delayed = TRUE]
  /\ UNCHANGED <<threadVars, engineVars, ready, shown, left, gui>>

PostBroadcast ==
  /\ Doing("broadcast")
  /\ PostMessage("broadcast")
  /\ UNCHANGED <<todo, applied, status, attached, sent, contexts, own, cancelled,
                 shutdown, intents, ready, shown, left, gui>>

\* ~Engine sets the flag and wakes everybody; messages that wait are dropped.
Shutdown ==
  /\ calls = <<>> /\ ~shutdown
  /\ shutdown' = TRUE
  /\ at' = [t \in Threads |-> IF at[t] = "asleep" THEN "awake" ELSE at[t]]
  /\ UNCHANGED <<todo, applied, status, attached, sent, contexts, order, messages, own,
                 cancelled, apiVars, gui>>

\* Mutant: results are shown whether or not the user still searches.
IsShownAlways(task) == task.end # "cancelled"

\* What ViewportSearchCallback does on the GUI thread.
IsShown(task) == intents[Viewport].asked /\ task.end # "cancelled"

ShowResults ==
  /\ calls = <<>> /\ ~shutdown /\ gui # <<>>
  /\ gui' = Tail(gui)
  /\ LET task == Head(gui)
     IN  shown' = IF IsShown(task)
                    THEN (IF task.first THEN {} ELSE shown) \cup task.results
                    ELSE shown
  /\ UNCHANGED <<threadVars, engineVars, intents, ready, calls, left>>

GuiThread ==
  \/ \E mode \in Modes : Search(mode) \/ CancelSearch(mode)
  \/ OnViewportChanged \/ Broadcast \/ Shutdown
  \/ CancelQuery \/ StartSearch \/ DelaySearch \/ PostBroadcast
  \/ ShowResults

-----------------------------------------------------------------------------
(* Engine::MainLoop. *)

HasWork(t) == messages # <<>> \/ own[t] # <<>>

\* The predicate of the wait is evaluated under m_mu.
Sleep(t) ==
  /\ at[t] = "awake" /\ ~shutdown /\ ~HasWork(t)
  /\ at' = [at EXCEPT ![t] = "asleep"]
  /\ UNCHANGED <<todo, applied, status, attached, sent, engineVars, apiVars, gui>>

WakeSpuriously(t) ==
  /\ at[t] = "asleep"
  /\ at' = [at EXCEPT ![t] = "awake"]
  /\ UNCHANGED <<todo, applied, status, attached, sent, engineVars, apiVars, gui>>

Leave(t) ==
  /\ at[t] = "awake" /\ shutdown
  /\ at' = [at EXCEPT ![t] = "left"]
  /\ UNCHANGED <<todo, applied, status, attached, sent, engineVars, apiVars, gui>>

\* The first n messages are broadcasts, and the next one is not.
StartsWithBroadcasts(n) ==
  /\ \A i \in 1..n : IsBroadcast(messages[i])
  /\ n < Len(messages) => ~IsBroadcast(messages[n + 1])

\* Mutant: a thread keeps the broadcasts it finds to itself.
KeptBroadcasts(t, n) == [own EXCEPT ![t] = <<>>]

\* b.m_messages.push for every context; the thread's own queue is swapped out.
Replicated(t, n) ==
  [u \in Threads |-> IF u = t \/ u \notin contexts
                       THEN <<>> ELSE own[u] \o SubSeq(messages, 1, n)]

AfterTaking(n) == IF n = 0 THEN "run" ELSE "notify"

\* All leading broadcasts are replicated, and at most one task is taken.
Take(t) ==
  /\ at[t] = "awake" /\ ~shutdown /\ HasWork(t)
  /\ \E n \in 0..Len(messages) :
       /\ StartsWithBroadcasts(n)
       /\ LET last == IF n < Len(messages) THEN n + 1 ELSE n
          IN  /\ todo' = [todo EXCEPT ![t] = own[t] \o SubSeq(messages, 1, last)]
              /\ messages' = SubSeq(messages, last + 1, Len(messages))
       /\ own' = Replicated(t, n)
       /\ at' = [at EXCEPT ![t] = AfterTaking(n)]
  /\ UNCHANGED <<applied, status, attached, sent, contexts, order, cancelled, shutdown,
                 apiVars, gui>>

\* m_cv.notify_all(), after m_mu is released.
NotifyAll(t) ==
  /\ at[t] = "notify"
  /\ at' = [u \in Threads |-> IF u = t THEN "run"
                              ELSE IF at[u] = "asleep" THEN "awake" ELSE at[u]]
  /\ UNCHANGED <<todo, applied, status, attached, sent, engineVars, apiVars, gui>>

\* The thread is done with the first of its messages.
Pop(t) ==
  /\ todo' = [todo EXCEPT ![t] = Tail(@)]
  /\ at' = [at EXCEPT ![t] = IF Len(todo[t]) = 1 THEN "awake" ELSE "run"]

ApplyBroadcast(t) ==
  /\ at[t] = "run" /\ IsBroadcast(Head(todo[t]))
  /\ applied' = [applied EXCEPT ![t] = @ \cup {Head(todo[t])}]
  /\ Pop(t)
  /\ UNCHANGED <<status, attached, sent, engineVars, apiVars, gui>>

\* DoSearch: processor.Reset().
Reset(t) ==
  /\ at[t] = "run" /\ ~IsBroadcast(Head(todo[t]))
  /\ status' = [status EXCEPT ![t] = "active"]
  /\ sent' = [sent EXCEPT ![t] = 0]
  /\ at' = [at EXCEPT ![t] = "reset"]
  /\ UNCHANGED <<todo, applied, attached, engineVars, apiVars, gui>>

\* Mutant: Attach() does not look whether the search was cancelled before.
StatusIfAttached(t) == status[t]

StatusAfterAttach(t) == IF Head(todo[t]) \in cancelled THEN "cancelled" ELSE status[t]

\* ProcessorHandle::Attach, under the handle's lock.
Attach(t) ==
  /\ at[t] = "reset"
  /\ attached' = [attached EXCEPT ![t] = Head(todo[t])]
  /\ status' = [status EXCEPT ![t] = StatusAfterAttach(t)]
  /\ at' = [at EXCEPT ![t] = "search"]
  /\ UNCHANGED <<todo, applied, sent, engineVars, apiVars, gui>>

\* m_onResults: of a search in the viewport, a task for the GUI.
Results(t, results, end) ==
  gui' = IF order[Head(todo[t])] = Viewport
           THEN Append(gui, [first |-> sent[t] = 0, results |-> results, end |-> end])
           ELSE gui

\* The geocoder looks at the Cancellable now and then: batches may follow a Cancel.
EmitBatch(t) ==
  /\ at[t] = "search" /\ sent[t] < MaxBatches
  /\ Results(t, {Head(todo[t])}, "none")
  /\ sent' = [sent EXCEPT ![t] = @ + 1]
  /\ UNCHANGED <<todo, at, applied, status, attached, engineVars, apiVars>>

\* The search is over, or finds itself cancelled (before it begins, or by a
\* CancelException): CancellationStatus() is read once.
ReadStatus(t) ==
  /\ at[t] = "search"
  /\ at' = [at EXCEPT ![t] = IF status[t] = "cancelled" THEN "cancelled" ELSE "finished"]
  /\ UNCHANGED <<todo, applied, status, attached, sent, engineVars, apiVars, gui>>

\* UpdateResults(lastUpdate) may add results; Finish marks the end.
Finish(t) ==
  /\ \/ /\ at[t] = "finished"
        /\ \E results \in {{}, {Head(todo[t])}} : Results(t, results, "normal")
     \/ at[t] = "cancelled" /\ Results(t, {}, "cancelled")
  /\ at' = [at EXCEPT ![t] = "detach"]
  /\ UNCHANGED <<todo, applied, status, attached, sent, engineVars, apiVars>>

Detach(t) ==
  /\ at[t] = "detach"
  /\ attached' = [attached EXCEPT ![t] = 0]
  /\ Pop(t)
  /\ UNCHANGED <<applied, status, sent, engineVars, apiVars, gui>>

MainLoop(t) ==
  \/ Sleep(t) \/ Leave(t) \/ Take(t) \/ NotifyAll(t) \/ ApplyBroadcast(t) \/ Reset(t)
  \/ Attach(t) \/ EmitBatch(t) \/ ReadStatus(t) \/ Finish(t) \/ Detach(t)

-----------------------------------------------------------------------------

\* The constructor has started the threads and begins to post its broadcasts (three
\* in a row, of which one is enough).  Everything else is empty.
Init ==
  /\ contexts \in (SUBSET Threads) \ {{}}
  /\ order = <<>> /\ messages = <<>>
  /\ own = [t \in Threads |-> <<>>]
  /\ todo = [t \in Threads |-> <<>>]
  /\ at = [t \in Threads |-> IF t \in contexts THEN "awake" ELSE "left"]
  /\ applied = [t \in Threads |-> {}]
  /\ status = [t \in Threads |-> "active"]
  /\ attached = [t \in Threads |-> 0]
  /\ sent = [t \in Threads |-> 0]
  /\ cancelled = {} /\ shutdown = FALSE
  /\ intents = [mode \in Modes |-> [asked |-> FALSE, handle |-> 0, delayed |-> FALSE]]
  /\ ready = FALSE
  /\ calls = <<Call("broadcast", Viewport)>>
  /\ gui = <<>> /\ shown = {} /\ left = MaxCalls

Next == GuiThread \/ \E t \in contexts : MainLoop(t) \/ WakeSpuriously(t)

Spec == Init /\ [][Next]_vars

\* Threads are scheduled, searches end, and calls return; users need not call, and
\* nobody wakes up without a reason for certain.
FairSpec ==
  /\ Spec
  /\ \A t \in Threads : WF_vars(t \in contexts /\ MainLoop(t))
  /\ WF_vars(CancelQuery \/ StartSearch \/ DelaySearch \/ PostBroadcast)

-----------------------------------------------------------------------------
(* Properties. *)

Positions == {"asleep", "awake", "notify", "run", "reset", "search", "finished",
              "cancelled", "detach", "left"}

\* Every variable has its type, and only a thread that took messages handles one.
TypeOK ==
  /\ contexts \subseteq Threads
  /\ order \in Seq(Modes \cup {"broadcast"})
  /\ messages \in Seq(Nat)
  /\ own \in [Threads -> Seq(Nat)] /\ todo \in [Threads -> Seq(Nat)]
  /\ at \in [Threads -> Positions]
  /\ applied \in [Threads -> SUBSET Nat]
  /\ status \in [Threads -> {"active", "cancelled"}]
  /\ attached \in [Threads -> Nat] /\ sent \in [Threads -> Nat]
  /\ cancelled \subseteq Nat /\ shutdown \in BOOLEAN
  /\ intents \in [Modes -> [asked : BOOLEAN, handle : Nat, delayed : BOOLEAN]]
  /\ ready \in BOOLEAN
  /\ calls \in Seq([op : {"cancel", "start", "broadcast"}, mode : Modes])
  /\ \A t \in Threads : at[t] \in {"asleep", "awake", "left"} <=> todo[t] = <<>>

Searching == {"search", "finished", "cancelled", "detach"}

\* A search sees the broadcasts that were called for before it, all of them, and
\* none that came later, whichever threads took them from the queue: "there is a
\* global order on public API requests" (MainLoop).
SearchesSeeTheirBroadcasts ==
  \A t \in contexts : at[t] \in Searching \cup {"reset"} =>
    applied[t] = {k \in 1..Head(todo[t]) : IsBroadcast(k)}

\* A search that was cancelled before, while or after a thread took it knows of it,
\* and no search is stopped by the cancellation of another one, though processors
\* are used again and again (Reset, Attach, Cancel, Detach).
CancelReachesItsSearch ==
  \A t \in contexts : at[t] \in Searching =>
    (status[t] = "cancelled" <=> Head(todo[t]) \in cancelled)

\* Between two calls each mode has one search that is not cancelled, the one it can
\* still cancel: a search that nobody holds would keep a thread for nothing.
OneSearchPerMode ==
  calls = <<>> => \A k \in DOMAIN order :
    ~IsBroadcast(k) /\ IsAlive(k) => k \in cancelled \/ intents[order[k]].handle = k

\* Nobody sleeps over a message: someone is awake to take it, or about to wake all.
NobodySleepsOverWork ==
  \A t \in Asleep :
    /\ ~shutdown
    /\ messages # <<>> => \E u \in contexts : at[u] = "awake"
    /\ own[t] # <<>> => \E u \in contexts : at[u] = "notify"

\* When all searches on the map are done and their results delivered, the map shows
\* results of the last search only, and none if it was cancelled: with one search
\* thread, which is what FrameworkParams asks for.
AtRest == /\ calls = <<>> /\ gui = <<>>
          /\ \A k \in DOMAIN order : order[k] = Viewport => ~IsAlive(k)
MapShowsTheLastSearch ==
  AtRest /\ Cardinality(contexts) = 1 =>
    shown \subseteq (IF intents[Viewport].asked THEN {intents[Viewport].handle} ELSE {})

\* A thread gets done with the messages it has to handle, or it leaves: no wakeup is
\* lost, and the destructor can join the threads.  Calls are few, so that this means
\* each message.
RequestsAreServed ==
  \A t \in Threads : at[t] # "left" /\ (Queued(t) # <<>> \/ shutdown) ~>
    at[t] = "left" \/ (Queued(t) = <<>> /\ ~shutdown)

-----------------------------------------------------------------------------
(* What the code does not keep. *)

\* "Cancels previous search request (if any)": nobody searches for what the user gave up.
EmptyQueriesStay == [][StartSearch => intents[This].asked]_vars
=============================================================================
