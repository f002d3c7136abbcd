----------------------------- MODULE RenderLoop -----------------------------
(***************************************************************************)
(* The two renderers of the map, their message queues and the platform     *)
(* thread that stops and starts them: BaseRenderer, MessageQueue,          *)
(* MessageAcceptor and the render routines of libs/drape_frontend.         *)
(*                                                                         *)
(* The frontend draws, the backend prepares what is drawn; each is a       *)
(* thread with a queue, and everybody posts to both.  The platform (GUI)   *)
(* thread disables rendering before a surface goes away, waits until both  *)
(* renderers rest, enables them again and joins them at the end.  A step   *)
(* here is what happens under one lock, or between two reads of a flag     *)
(* that another thread writes.                                             *)
(***************************************************************************)
EXTENDS Integers, SequencesExt, FiniteSets

CONSTANTS
  External,    \* types of the messages that other threads post
  Surfaces,    \* what SetRenderingDisabled may be told: destroySurface
  MaxPosts,    \* how many messages other threads post
  MaxToggles   \* how often the platform disables or enables rendering

Renderers == {"frontend", "backend"}

\* The type, priority (message.hpp) and kind of each message that is modelled.
Types == {"InvalidateRect", "UpdateMapStyle", "NotifyRenderThread", "GuiLayerRecached",
          "FinishTexturesInitialization", "InvalidateReadManagerRect", "RestartReading",
          "SwitchMapStyle", "UpdateReadManager", "GuiRecache", "FlushTrafficGeometry"}
High == {"InvalidateRect", "UpdateMapStyle", "InvalidateReadManagerRect"}
UberHighSingleton == {"UpdateReadManager"}
Low == {"FlushTrafficGeometry"}
Normal == Types \ (High \union UberHighSingleton \union Low)
Blocking == {"InvalidateReadManagerRect", "RestartReading", "SwitchMapStyle"}
ContextDependent == {"NotifyRenderThread", "GuiLayerRecached", "GuiRecache",
                     "FinishTexturesInitialization"}
WithRenderState == {"GuiLayerRecached"}

\* Whom other threads send a message to.
Receiver(type) ==
  IF type \in {"InvalidateRect", "UpdateMapStyle", "NotifyRenderThread"}
    THEN "frontend" ELSE "backend"

ASSUME ExternalAssumption ==
  External \subseteq {"InvalidateRect", "UpdateMapStyle", "NotifyRenderThread",
                      "GuiRecache", "FlushTrafficGeometry"}
ASSUME SurfacesAssumption == Surfaces \subseteq BOOLEAN
ASSUME BoundsAssumption == MaxPosts \in Nat /\ MaxToggles \in Nat

VARIABLES
  messages,   \* m_messages of each renderer: [type, id]; ids grow among Normal messages
  low,        \* m_lowPriorityMessages
  filtered,   \* m_filter is set: context dependent messages are dropped
  isWaiting,  \* m_isWaiting
  pc,         \* where each renderer is
  waits,      \* the argument of PopMessage
  hand,       \* the message a renderer handles, or NoMessage
  todo,       \* messages the frontend still posts while it handles one
  cancelled,  \* the routine is cancelled
  isEnabled, wasNotified, wasContextReset,
  handler,    \* m_renderingEnablingCompletionHandler is set
  context,    \* m_context # nullptr
  contextCounter,
  textures,   \* m_finishTexturesInitialization
  gui,        \* where the platform thread is: [at, op, turn, notified]
  posts, toggles

queueVars == <<messages, low, filtered, isWaiting>>
threadVars == <<pc, waits, hand, todo>>
enableVars == <<cancelled, isEnabled, wasNotified, wasContextReset, handler>>
contextVars == <<context, contextCounter, textures>>
vars == <<queueVars, threadVars, enableVars, contextVars, gui, posts, toggles>>

NoMessage == [type |-> "none", id |-> 0]
At(r, label) == pc[r] = label
Goto(r, label) == pc' = [pc EXCEPT ![r] = label]

-----------------------------------------------------------------------------
(* MessageQueue.  Queues are changed by operators on [messages, low, isWaiting], so *)
(* that a handler that posts several messages is still one step.                 *)

Queues == [messages |-> messages, low |-> low, isWaiting |-> isWaiting]

SetQueues(q) ==
  messages' = q.messages /\ low' = q.low /\ isWaiting' = q.isWaiting

\* How many messages at the front of s have one of these types.
LeadingIn(s, types) ==
  Cardinality({n \in DOMAIN s : \A k \in 1..n : s[k].type \in types})

\* Mutant: Normal messages overtake each other.
PlaceBehindHigh(s) == LeadingIn(s, UberHighSingleton \union High) + 1

\* The place of a Normal message: the back.
PlaceAtBack(s) == Len(s) + 1

\* Where PushMessage puts a message of m_messages.
Inserted(s, m) ==
  CASE m.type \in High -> InsertAt(s, LeadingIn(s, UberHighSingleton) + 1, m)
    [] m.type \in Normal -> InsertAt(s, PlaceAtBack(s), m)
    [] OTHER -> IF \E k \in 1..LeadingIn(s, UberHighSingleton) : s[k].type = m.type
                  THEN s ELSE <<m>> \o s

\* A number larger than those of the Normal messages before this one.
NextId(q, r, type) ==
  IF type \in Normal
    THEN 1 + Max({hand[r].id} \union {q.messages[r][n].id : n \in DOMAIN q.messages[r]})
    ELSE 0

\* ThreadsCommutator::PostMessage and PushMessage: nothing for a cancelled
\* renderer, nothing that its filter drops; whoever waits is let go.
Posted(q, r, type) ==
  LET m == [type |-> type, id |-> NextId(q, r, type)] IN
  IF cancelled[r] \/ (filtered[r] /\ type \in ContextDependent) THEN q
  ELSE [messages |-> IF type \in Low THEN q.messages
                     ELSE [q.messages EXCEPT ![r] = Inserted(@, m)],
        low |-> IF type \in Low THEN [q.low EXCEPT ![r] = Append(@, m)] ELSE q.low,
        isWaiting |-> [q.isWaiting EXCEPT ![r] = FALSE]]

\* s without the messages of these types.
Dropped(s, types) ==
  LET kept[n \in 0..Len(s)] ==
        IF n = 0 THEN <<>>
        ELSE IF s[n].type \in types THEN kept[n - 1] ELSE Append(kept[n - 1], s[n])
  IN  kept[Len(s)]

\* FilterMessagesImpl.
Without(q, r, types) ==
  [q EXCEPT !.messages[r] = Dropped(@, types), !.low[r] = Dropped(@, types)]

IsEmptyQueue(r) == messages[r] = <<>> /\ low[r] = <<>>

\* The end of PopMessage: the first message, if there is one.
Take(r) ==
  IF IsEmptyQueue(r)
    THEN /\ Goto(r, "check")
         /\ UNCHANGED <<messages, low, hand>>
    ELSE /\ Goto(r, "handle")
         /\ IF messages[r] # <<>>
              THEN /\ hand' = [hand EXCEPT ![r] = Head(messages[r])]
                   /\ messages' = [messages EXCEPT ![r] = Tail(@)]
                   /\ UNCHANGED low
              ELSE /\ hand' = [hand EXCEPT ![r] = Head(low[r])]
                   /\ low' = [low EXCEPT ![r] = Tail(@)]
                   /\ UNCHANGED messages

-----------------------------------------------------------------------------
(* The loop of a renderer. *)

\* Routine::Do: while (!IsCancelled()).
Loop(r) ==
  /\ At(r, "loop")
  /\ Goto(r, CASE cancelled[r] -> "done"
               [] ~cancelled[r] -> IF r = "frontend" THEN "frame" ELSE "pop")
  /\ waits' = [waits EXCEPT ![r] = r = "backend"]
  /\ UNCHANGED <<queueVars, hand, todo, enableVars, contextVars, gui, posts, toggles>>

\* FrontendRenderer::RenderFrame: after enough inactive frames it may wait for a
\* message if rendering is enabled; otherwise it takes the messages there are.
Frame ==
  /\ At("frontend", "frame")
  /\ Goto("frontend", "pop")
  /\ \E canSuspend \in BOOLEAN :
       waits' = [waits EXCEPT !["frontend"] = canSuspend /\ isEnabled["frontend"]]
  /\ UNCHANGED <<queueVars, hand, todo, enableVars, contextVars, gui, posts, toggles>>

\* RenderFrame of both renderers returns before it takes a message if the graphics
\* context is not valid, that of the frontend also if it cannot begin to render.
SkipFrame(r) ==
  /\ At(r, IF r = "frontend" THEN "frame" ELSE "pop")
  /\ Goto(r, "check")
  /\ UNCHANGED <<queueVars, waits, hand, todo, enableVars, contextVars, gui, posts, toggles>>

\* PopMessage, until it waits or returns.
PopMessage(r) ==
  /\ At(r, "pop")
  /\ IF waits[r] /\ IsEmptyQueue(r)
       THEN /\ isWaiting' = [isWaiting EXCEPT ![r] = TRUE]
            /\ Goto(r, "wait")
            /\ UNCHANGED <<messages, low, hand>>
       ELSE Take(r) /\ UNCHANGED isWaiting
  /\ UNCHANGED <<filtered, waits, todo, enableVars, contextVars, gui, posts, toggles>>

\* PopMessage, let go by CancelWait or PushMessage.
StopWaiting(r) ==
  /\ At(r, "wait") /\ ~isWaiting[r]
  /\ Take(r)
  /\ UNCHANGED <<filtered, isWaiting, waits, todo, enableVars, contextVars, gui,
                 posts, toggles>>

\* What follows a message that is handled: the frontend may take another one.
Handled(r) ==
  /\ hand' = [hand EXCEPT ![r] = NoMessage]
  /\ \E again \in {FALSE} \union {r = "frontend" /\ ~waits[r]} :
       Goto(r, IF again THEN "pop" ELSE "check")

\* The messages that FrontendRenderer::AcceptMessage posts for one it handles:
\* InvalidateRect and UpdateAll.
Script(type) ==
  CASE type = "InvalidateRect" -> <<"InvalidateReadManagerRect", "UpdateReadManager">>
    [] type = "UpdateMapStyle" -> <<"RestartReading", "SwitchMapStyle", "UpdateReadManager">>
    [] OTHER -> <<>>

AcceptByFrontend ==
  /\ At("frontend", "handle")
  /\ textures' = (textures \/ hand["frontend"].type = "FinishTexturesInitialization")
  /\ todo' = Script(hand["frontend"].type)
  /\ IF todo' = <<>> THEN Handled("frontend")
     ELSE Goto("frontend", "post") /\ UNCHANGED hand
  /\ UNCHANGED <<queueVars, waits, enableVars, context, contextCounter, gui, posts, toggles>>

\* The frontend posts to the backend, and waits while the message lives if it is
\* a BaseBlockingMessage.
PostToBackend ==
  /\ At("frontend", "post")
  /\ SetQueues(Posted(Queues, "backend", Head(todo)))
  /\ todo' = Tail(todo)
  /\ IF todo' # <<>> THEN Goto("frontend", "blocked") /\ UNCHANGED hand
     ELSE Handled("frontend")
  /\ UNCHANGED <<filtered, waits, enableVars, contextVars, gui, posts, toggles>>

\* Mutant: the frontend does not wait.
NeverBlocked == FALSE

\* A blocking message is destroyed when it has been handled or dropped.
IsBlocked ==
  \/ hand["backend"].type \in Blocking
  \/ \E n \in DOMAIN messages["backend"] : messages["backend"][n].type \in Blocking

\* Blocker::Wait returns.
Unblock ==
  /\ At("frontend", "blocked") /\ ~IsBlocked
  /\ Goto("frontend", "post")
  /\ UNCHANGED <<queueVars, waits, hand, todo, enableVars, contextVars, gui, posts, toggles>>

\* BackendRenderer::AcceptMessage.  SwitchMapStyle drops the frontend's messages
\* that hold render states, and answers with new ones.
AcceptByBackend ==
  /\ At("backend", "handle")
  /\ LET type == hand["backend"].type IN
     SetQueues(CASE type = "SwitchMapStyle" ->
                      Posted(Without(Queues, "frontend", WithRenderState),
                             "frontend", "GuiLayerRecached")
                 [] type = "GuiRecache" -> Posted(Queues, "frontend", "GuiLayerRecached")
                 [] OTHER -> Queues)
  /\ Handled("backend")
  /\ UNCHANGED <<filtered, waits, todo, enableVars, contextVars, gui, posts, toggles>>

-----------------------------------------------------------------------------
(* CheckRenderingEnabled. *)

\* EnableMessageFiltering: messages that wait already are dropped, too.
Filtered(q, r) == Without(q, r, ContextDependent)

LosesContext(r) == ~isEnabled[r] /\ wasContextReset[r]

\* A disabled renderer whose context goes away drops what depends on it.
CheckRenderingEnabled(r) ==
  /\ At(r, "check")
  /\ Goto(r, CASE isEnabled[r] -> "loop"
               [] LosesContext(r) -> "destroy" [] OTHER -> "notify")
  /\ filtered' = [filtered EXCEPT ![r] = @ \/ LosesContext(r)]
  /\ SetQueues(IF LosesContext(r) THEN Filtered(Queues, r) ELSE Queues)
  /\ UNCHANGED <<waits, hand, todo, enableVars, contextVars, gui, posts, toggles>>

OnContextDestroy(r) ==
  /\ At(r, "destroy")
  /\ Goto(r, "notify")
  /\ context' = [context EXCEPT ![r] = FALSE]
  /\ contextCounter' = contextCounter - 1
  /\ textures' = (textures /\ r # "frontend")
  /\ UNCHANGED <<queueVars, waits, hand, todo, enableVars, gui, posts, toggles>>

\* Notify: the handler is taken out and called.
CallHandler(r) ==
  /\ handler' = [handler EXCEPT ![r] = FALSE]
  /\ gui' = [gui EXCEPT !.notified = @ \/ handler[r]]

NotifyDisabled(r) ==
  /\ At(r, "notify")
  /\ CallHandler(r)
  /\ Goto(r, "rest")
  /\ UNCHANGED <<queueVars, waits, hand, todo, cancelled, isEnabled, wasNotified,
                 wasContextReset, contextVars, posts, toggles>>

\* Mutant: m_wasNotified stays set, and the next rest ends at once.
SignalKept(r) == UNCHANGED wasNotified

\* m_wasNotified = false.
SignalTaken(r) == wasNotified' = [wasNotified EXCEPT ![r] = FALSE]

\* The signal: rendering is enabled again, unless the renderer is to stop.
Wake(r) ==
  /\ At(r, "rest") /\ wasNotified[r]
  /\ SignalTaken(r)
  /\ isEnabled' = [isEnabled EXCEPT ![r] = @ \/ ~cancelled[r]]
  /\ wasContextReset' = [wasContextReset EXCEPT ![r] = @ /\ cancelled[r]]
  /\ LET creates == ~cancelled[r] /\ wasContextReset[r] IN
     /\ filtered' = [filtered EXCEPT ![r] = @ /\ ~creates]
     /\ Goto(r, IF creates THEN "notifyCreate" ELSE "notifyLoop")
  /\ UNCHANGED <<messages, low, isWaiting, waits, hand, todo, cancelled, handler,
                 contextVars, gui, posts, toggles>>

NotifyEnabled(r) ==
  /\ pc[r] \in {"notifyCreate", "notifyLoop"}
  /\ CallHandler(r)
  /\ Goto(r, IF At(r, "notifyCreate") THEN "create" ELSE "loop")
  /\ UNCHANGED <<queueVars, waits, hand, todo, cancelled, isEnabled, wasNotified,
                 wasContextReset, contextVars, posts, toggles>>

\* CreateContext; the backend sends the textures to the frontend.
CreateContext(r) ==
  /\ At(r, "create")
  /\ Goto(r, "loop")
  /\ context' = [context EXCEPT ![r] = TRUE]
  /\ contextCounter' = contextCounter + 1
  /\ SetQueues(IF r = "backend"
                 THEN Posted(Queues, "frontend", "FinishTexturesInitialization") ELSE Queues)
  /\ UNCHANGED <<filtered, waits, hand, todo, enableVars, textures, gui, posts, toggles>>

Renderer(r) ==
  \/ Loop(r) \/ SkipFrame(r) \/ PopMessage(r) \/ StopWaiting(r)
  \/ CheckRenderingEnabled(r) \/ OnContextDestroy(r) \/ NotifyDisabled(r)
  \/ Wake(r) \/ NotifyEnabled(r) \/ CreateContext(r)
  \/ r = "frontend" /\ (Frame \/ AcceptByFrontend \/ PostToBackend \/ Unblock)
  \/ r = "backend" /\ AcceptByBackend

-----------------------------------------------------------------------------
(* The platform thread. *)

\* Mutant: rendering is disabled in the backend first.
FirstIsBackend(op) == "backend"

\* The renderer that an operation starts with.
FirstOf(op) == IF op = "enable" THEN "backend" ELSE "frontend"
Other(r) == CHOOSE s \in Renderers : s # r

Ask(op) ==
  gui' = [gui EXCEPT !.at = "ask", !.op = op, !.turn = FirstOf(op)]

\* What follows when one renderer has answered.
NextTurn ==
  gui' = IF gui.turn = FirstOf(gui.op)
           THEN [gui EXCEPT !.at = "ask", !.turn = Other(@)]
           ELSE [gui EXCEPT !.at = IF gui.op = "stop" THEN "over" ELSE "idle"]

\* DrapeEngine::SetRenderingEnabled and SetRenderingDisabled; the platforms ask to
\* destroy the surface only of renderers that are enabled.
Toggle ==
  /\ gui.at = "idle" /\ toggles > 0
  /\ toggles' = toggles - 1
  /\ \E op \in {"enable"} \union {IF d THEN "destroy" ELSE "disable" : d \in Surfaces} :
       /\ op = "destroy" => isEnabled["frontend"]
       /\ Ask(op)
  /\ UNCHANGED <<queueVars, threadVars, enableVars, contextVars, posts>>

\* DrapeEngine::~DrapeEngine.
Teardown ==
  /\ gui.at = "idle"
  /\ Ask("stop")
  /\ UNCHANGED <<queueVars, threadVars, enableVars, contextVars, posts, toggles>>

\* SetRenderingDisabled, up to CancelMessageWaiting.
AskToDisable ==
  LET r == gui.turn IN
  /\ gui.at = "ask" /\ gui.op \in {"disable", "destroy"}
  /\ wasContextReset' = [wasContextReset EXCEPT ![r] = @ \/ gui.op = "destroy"]
  /\ IF ~isEnabled[r]
       THEN NextTurn /\ UNCHANGED <<handler, isEnabled>>
       ELSE /\ handler' = [handler EXCEPT ![r] = TRUE]
            /\ isEnabled' = [isEnabled EXCEPT ![r] = FALSE]
            /\ gui' = [gui EXCEPT !.at = "cancelWait", !.notified = FALSE]
  /\ UNCHANGED <<queueVars, threadVars, cancelled, wasNotified, contextVars, posts, toggles>>

\* CancelMessageWaiting: nothing for a renderer that does not wait yet.
CancelMessageWaiting ==
  /\ gui.at = "cancelWait"
  /\ isWaiting' = [isWaiting EXCEPT ![gui.turn] = FALSE]
  /\ gui' = [gui EXCEPT !.at = IF gui.op = "stop" THEN "clear" ELSE "await"]
  /\ UNCHANGED <<messages, low, filtered, threadVars, enableVars, contextVars,
                 posts, toggles>>

\* SetRenderingEnabled(true).
AskToEnable ==
  LET r == gui.turn IN
  /\ gui.at = "ask" /\ gui.op = "enable"
  /\ IF isEnabled[r]
       THEN NextTurn /\ UNCHANGED <<handler, wasNotified>>
       ELSE /\ handler' = [handler EXCEPT ![r] = TRUE]
            /\ wasNotified' = [wasNotified EXCEPT ![r] = TRUE]
            /\ gui' = [gui EXCEPT !.at = "await", !.notified = FALSE]
  /\ UNCHANGED <<queueVars, threadVars, cancelled, isEnabled, wasContextReset, contextVars,
                 posts, toggles>>

\* The end of SetRenderingEnabled: the handler was called.
Answered ==
  /\ gui.at = "await" /\ gui.notified
  /\ NextTurn
  /\ UNCHANGED <<queueVars, threadVars, enableVars, contextVars, posts, toggles>>

\* StopThread: Cancel, CloseQueue (CancelWait, then ClearQuery), WakeUp, Join.
AskToStop ==
  /\ gui.at = "ask" /\ gui.op = "stop"
  /\ cancelled' = [cancelled EXCEPT ![gui.turn] = TRUE]
  /\ gui' = [gui EXCEPT !.at = "cancelWait"]
  /\ UNCHANGED <<queueVars, threadVars, isEnabled, wasNotified, wasContextReset, handler,
                 contextVars, posts, toggles>>

ClearQuery ==
  LET r == gui.turn IN
  /\ gui.at = "clear"
  /\ messages' = [messages EXCEPT ![r] = <<>>]
  /\ low' = [low EXCEPT ![r] = <<>>]
  /\ wasNotified' = [wasNotified EXCEPT ![r] = @ \/ ~isEnabled[r]]
  /\ gui' = [gui EXCEPT !.at = "join"]
  /\ UNCHANGED <<filtered, isWaiting, threadVars, cancelled, isEnabled,
                 wasContextReset, handler, contextVars, posts, toggles>>

Join ==
  /\ gui.at = "join" /\ At(gui.turn, "done")
  /\ NextTurn
  /\ UNCHANGED <<queueVars, threadVars, enableVars, contextVars, posts, toggles>>

Platform ==
  \/ AskToDisable \/ CancelMessageWaiting \/ AskToEnable \/ Answered
  \/ AskToStop \/ ClearQuery \/ Join

\* Any thread posts a message; timers post NotifyRenderThread.
Post ==
  /\ posts > 0 /\ posts' = posts - 1
  /\ \E type \in External : SetQueues(Posted(Queues, Receiver(type), type))
  /\ UNCHANGED <<filtered, threadVars, enableVars, contextVars, gui, toggles>>

-----------------------------------------------------------------------------
\* The renderers are created enabled, and create their contexts first.
Init ==
  /\ messages = [r \in Renderers |-> <<>>] /\ low = [r \in Renderers |-> <<>>]
  /\ filtered = [r \in Renderers |-> FALSE] /\ isWaiting = [r \in Renderers |-> FALSE]
  /\ pc = [r \in Renderers |-> "create"] /\ waits = [r \in Renderers |-> FALSE]
  /\ hand = [r \in Renderers |-> NoMessage] /\ todo = <<>>
  /\ cancelled = [r \in Renderers |-> FALSE] /\ isEnabled = [r \in Renderers |-> TRUE]
  /\ wasNotified = [r \in Renderers |-> FALSE]
  /\ wasContextReset = [r \in Renderers |-> FALSE]
  /\ handler = [r \in Renderers |-> FALSE]
  /\ context = [r \in Renderers |-> FALSE] /\ contextCounter = 0 /\ textures = FALSE
  /\ gui = [at |-> "idle", op |-> "none", turn |-> "frontend", notified |-> FALSE]
  /\ posts = MaxPosts /\ toggles = MaxToggles

Next ==
  \/ \E r \in Renderers : Renderer(r)
  \/ Toggle \/ Teardown \/ Platform \/ Post

Spec == Init /\ [][Next]_vars

\* Threads run on: the renderers, and the platform in the middle of an operation.  A
\* graphics context that was not valid becomes valid again, as long as there is one.
FairSpec ==
  /\ Spec
  /\ \A r \in Renderers : WF_vars(Renderer(r))
  /\ SF_vars(Frame) /\ SF_vars(PopMessage("backend"))
  /\ WF_vars(Platform)

-----------------------------------------------------------------------------
(* Properties. *)

Message == [type : Types \union {"none"}, id : Nat]
Labels == {"create", "loop", "frame", "pop", "wait", "handle", "post", "blocked", "check",
           "destroy", "notify", "rest", "notifyCreate", "notifyLoop", "done"}

\* The types of the variables; m_contextCounter never leaves the range of its CHECK
\* and of kContextCount.
TypeOK ==
  /\ messages \in [Renderers -> Seq(Message)] /\ low \in [Renderers -> Seq(Message)]
  /\ filtered \in [Renderers -> BOOLEAN] /\ isWaiting \in [Renderers -> BOOLEAN]
  /\ pc \in [Renderers -> Labels] /\ waits \in [Renderers -> BOOLEAN]
  /\ hand \in [Renderers -> Message] /\ todo \in Seq(Types)
  /\ cancelled \in [Renderers -> BOOLEAN] /\ isEnabled \in [Renderers -> BOOLEAN]
  /\ wasNotified \in [Renderers -> BOOLEAN] /\ wasContextReset \in [Renderers -> BOOLEAN]
  /\ handler \in [Renderers -> BOOLEAN]
  /\ context \in [Renderers -> BOOLEAN] /\ contextCounter \in 0..2 /\ textures \in BOOLEAN
  /\ gui \in [at : {"idle", "ask", "cancelWait", "await", "clear", "join", "over"},
              op : {"none", "enable", "disable", "destroy", "stop"},
              turn : Renderers, notified : BOOLEAN]
  /\ posts \in 0..MaxPosts /\ toggles \in 0..MaxToggles

Rank(m) == CASE m.type \in UberHighSingleton -> 2 [] m.type \in High -> 1 [] OTHER -> 0

\* Messages are handled by priority, and those of the Normal priority in the order
\* in which they were posted, the one in the renderer's hands first: "This priority
\* guarantees order of messages processing" (message.hpp).  A singleton is not
\* queued twice.
MessagesKeepOrder ==
  \A r \in Renderers : \A n \in DOMAIN messages[r] :
    LET m == messages[r][n] IN
    /\ m.type \in Normal /\ hand[r].type \in Normal => hand[r].id < m.id
    /\ \A k \in 1..n - 1 :
         LET before == messages[r][k] IN
         /\ Rank(before) >= Rank(m)
         /\ m.type \in Normal /\ before.type \in Normal => before.id < m.id
         /\ m.type \in UberHighSingleton => before.type # m.type

Draws == {"frame", "pop", "wait", "handle", "post", "blocked", "check"}

\* A renderer that draws or handles messages has a context (the CHECKs of m_context);
\* one that lost its context keeps no message that was made for it.
ContextsAreThere ==
  /\ contextCounter = Cardinality({r \in Renderers : context[r]})
  /\ \A r \in Renderers :
       /\ pc[r] \in Draws => context[r]
       /\ At(r, "rest") /\ ~context[r] =>
            \A n \in DOMAIN messages[r] : messages[r][n].type \notin ContextDependent

\* The CHECK of InstantFilter: the backend filters the frontend's queue while the
\* frontend waits for it, and never while the frontend filters it itself.
InstantFilterIsAlone ==
  At("backend", "handle") /\ hand["backend"].type = "SwitchMapStyle"
    => ~filtered["frontend"]

\* When the platform has disabled rendering, both renderers rest until they are
\* enabled: the surface may go.
DisabledRenderersRest ==
  gui.at = "idle" /\ gui.op \in {"disable", "destroy"}
    => \A r \in Renderers : At(r, "rest") /\ ~wasNotified[r] /\ ~isEnabled[r]

\* The frontend never waits for ever for the backend, which may be disabled or
\* stopped meanwhile.
BlockedFrontendIsReleased == At("frontend", "blocked") ~> ~At("frontend", "blocked")

\* SetRenderingDisabled returns: "if renderer thread is waiting for message let it go"
\* (base_renderer.cpp).
DisablingEnds ==
  gui.at # "idle" /\ gui.op \in {"disable", "destroy"} ~> gui.at = "idle"
=============================================================================
