----------------------------- MODULE TileReading -----------------------------
(***************************************************************************)
(* How tiles get on the screen: the frontend asks for the tiles of its     *)
(* view (RequestedTiles), the backend keeps a task per tile (ReadManager), *)
(* reader threads (ThreadPool) read them and post what they read to the    *)
(* backend, which batches it (BatchersPool) and posts it to the frontend.  *)
(* libs/drape_frontend, libs/base/thread_pool.cpp.                         *)
(*                                                                         *)
(* A task has the key [tile, generation] of TileKey and an id that only    *)
(* the model knows, to tell two readings of one tile apart.  A tile's      *)
(* shapes and overlays are the id of the task that read them.  The queues  *)
(* are those of RenderLoop: UpdateReadManager is a singleton that overtakes *)
(* everything, InvalidateReadManagerRect overtakes Normal messages.        *)
(***************************************************************************)
EXTENDS Integers, FiniteSets, FiniteSetsExt, SequencesExt

CONSTANTS
  Tiles,       \* tiles of the map, at one zoom level
  Views,       \* the sets of tiles that the screen may cover
  Readers,     \* how many threads the pool has
  Events,      \* what the frontend may do: "move", "force", "invalidate", "restart"
  MaxEvents    \* how often

ASSUME TilesAssumption == IsFiniteSet(Tiles)
ASSUME ViewsAssumption == Views \subseteq ((SUBSET Tiles) \ {{}})
ASSUME EventsAssumption == Events \subseteq {"move", "force", "invalidate", "restart"}
ASSUME BoundAssumption == MaxEvents \in Nat /\ Readers \in Nat \ {0}

VARIABLES
  view,         \* frontend: the tiles that m_lastReadedModelView covers
  notFinished,  \* m_notFinishedTiles
  maxGeneration,
  shown,        \* the render groups: [key, id]
  frontend,     \* "free", blocked by "invalidating", "restarting" or "switching", or "posting"
  frontQueue,   \* the frontend's messages, all Normal
  requested,    \* RequestedTiles: [tiles, screen, force]
  update,       \* UpdateReadManager is queued
  invalidate,   \* the tiles of InvalidateReadManagerRect, or {}
  queue,        \* the backend's Normal messages
  at,           \* where the backend is
  tiles,        \* the tiles it works on
  screen,       \* m_currentViewport
  modeChanged, generation,
  infos,        \* m_tileInfos: the tasks that are not cancelled
  active,       \* m_activeTiles
  counter,
  batchers,     \* m_batchersPool: [key, users, shapes]
  overlays,     \* m_overlays: [key, id]
  pool,         \* the tasks that wait in the ThreadPool
  stopping,     \* the pool is stopped
  reading,      \* what the threads are doing: [task, step], a task and the next step with it
  tasks,        \* how many tasks there were
  stale,        \* ids of tasks whose tile was invalidated after they were pushed
  restartedAt,  \* the last task before the last Restart
  left

frontVars == <<view, notFinished, maxGeneration, shown, frontend>>
managerVars == <<screen, modeChanged, generation, infos, active>>
drawVars == <<batchers, overlays>>
readVars == <<pool, stopping, reading, tasks>>
seenVars == <<stale, restartedAt>>
vars == <<frontVars, frontQueue, requested, update, invalidate, queue, at, tiles,
          managerVars, counter, drawVars, readVars, seenVars, left>>

Key(tile, gen) == [tile |-> tile, gen |-> gen]
IsCancelled(task) == task \notin infos
TilesOf(set) == {x.tile : x \in set}

-----------------------------------------------------------------------------
(* The frontend. *)

MayHappen(event) ==
  /\ event \in Events /\ left > 0 /\ frontend = "free"
  /\ left' = left - 1

\* m_notFinishedTiles is cleared and filled anew.
NotFinishedIn(newView) == newView

\* ResolveTileKeys and RequestedTiles::Set; UpdateReadManager is posted next.
Request(newView, force) ==
  /\ view' = newView
  /\ notFinished' = NotFinishedIn(newView)
  /\ requested' = [tiles |-> newView, screen |-> newView, force |-> force]
  /\ frontend' = "posting"

PostUpdate ==
  /\ frontend = "posting"
  /\ frontend' = "free"
  /\ update' = TRUE
  /\ UNCHANGED <<view, notFinished, maxGeneration, shown, frontQueue, requested, invalidate,
                 queue, at, tiles, managerVars, counter, drawVars, readVars, seenVars, left>>

ShownIn(set) == {group \in shown : group.key.tile \in set}

\* UpdateScene: the view has changed, or everything is to be read again.
UpdateScene ==
  /\ \E newView \in Views, force \in BOOLEAN :
       /\ force \/ newView # view
       /\ MayHappen(IF force THEN "force" ELSE "move")
       /\ Request(newView, force)
       /\ shown' = ShownIn(newView)
  /\ UNCHANGED <<maxGeneration, frontQueue, update, invalidate, queue, at, tiles,
                 managerVars, counter, drawVars, readVars, seenVars>>

\* InvalidateRect, up to the blocker.
InvalidateRect ==
  /\ MayHappen("invalidate")
  /\ \E set \in (SUBSET view) \ {{}} :
       /\ shown' = shown \ ShownIn(set)
       /\ invalidate' = set
       /\ stale' = stale \union {task.id : task \in {x \in infos : x.key.tile \in set}}
  /\ frontend' = "invalidating"
  /\ UNCHANGED <<view, notFinished, maxGeneration, frontQueue, requested, update, queue, at,
                 tiles, managerVars, counter, drawVars, readVars, restartedAt>>

\* UpdateAll, up to the first blocker: what is shown is cleared.
UpdateAll ==
  /\ MayHappen("restart")
  /\ shown' = {}
  /\ queue' = Append(queue, [type |-> "Restart"])
  /\ frontend' = "restarting"
  /\ UNCHANGED <<view, notFinished, maxGeneration, frontQueue, requested, update, invalidate,
                 at, tiles, managerVars, counter, drawVars, readVars, seenVars>>

IsBlocked ==
  \/ invalidate # {} \/ at \in {"stopping", "starting"}
  \/ \E n \in DOMAIN queue : queue[n].type \in {"Restart", "SwitchMapStyle"}

\* The first blocker of UpdateAll is signalled, then comes the second.
PostSwitch ==
  /\ frontend = "restarting" /\ ~IsBlocked
  /\ frontend' = "switching"
  /\ queue' = Append(queue, [type |-> "SwitchMapStyle"])
  /\ UNCHANGED <<view, notFinished, maxGeneration, shown, frontQueue, requested, update,
                 invalidate, at, tiles, managerVars, counter, drawVars, readVars, seenVars, left>>

\* The last blocker is signalled; the frontend requests its tiles again.
Unblock ==
  /\ frontend \in {"invalidating", "switching"} /\ ~IsBlocked
  /\ Request(view, FALSE)
  /\ UNCHANGED <<maxGeneration, shown, frontQueue, update, invalidate, queue, at, tiles,
                 managerVars, counter, drawVars, readVars, seenVars, left>>

\* CheckTileGenerations: older groups of the tile are removed.
Outdated(key) == {group \in shown : group.key.tile = key.tile /\ group.key.gen < key.gen}

\* FinishTileRead, or FlushRenderBucket and FlushOverlays: groups to draw.  The groups of
\* one message are compared with m_maxGeneration all at once.
FrontendAccept ==
  /\ frontend = "free" /\ frontQueue # <<>>
  /\ frontQueue' = Tail(frontQueue)
  /\ LET m == Head(frontQueue)
         current == {key \in m.keys : key.gen >= maxGeneration}
         kept == shown \ UNION {Outdated(key) : key \in m.keys}
     IN  /\ maxGeneration' = Max({maxGeneration} \union {key.gen : key \in m.keys})
         /\ IF m.type = "FinishTileRead"
              THEN /\ notFinished' = notFinished \ TilesOf(current)
                   /\ shown' = kept
              ELSE /\ shown' = kept \union {group \in m.groups : group.key \in current}
                   /\ UNCHANGED notFinished
  /\ UNCHANGED <<view, frontend, requested, update, invalidate, queue, at, tiles, managerVars,
                 counter, drawVars, readVars, seenVars, left>>

-----------------------------------------------------------------------------
(* The reader threads: ThreadPool, ReadMWMTask, TileInfo. *)

\* The threads are alike: who does a task does not matter.
Does(task, step) == [task |-> task, step |-> step]

\* PopFront by a thread that is free; a task that is cancelled is not done.
PopFront ==
  /\ ~stopping /\ Cardinality(reading) < Readers /\ pool # <<>>
  /\ pool' = Tail(pool)
  /\ LET task == Head(pool) IN
     IF IsCancelled(task)
       THEN /\ reading' = reading \union {Does(task, "finish")}
            /\ UNCHANGED queue
       ELSE /\ reading' = reading \union {Does(task, "read")}
            /\ queue' = Append(queue, [type |-> "TileReadStarted", key |-> task.key])
  /\ UNCHANGED <<frontVars, frontQueue, requested, update, invalidate, at, tiles, managerVars,
                 counter, drawVars, stopping, tasks, seenVars, left>>

\* ReadFeatures: nothing is flushed once the tile is cancelled.
ReadFeatures(task) ==
  /\ queue' = IF IsCancelled(task) THEN queue
              ELSE Append(queue, [type |-> "MapShapeReaded", key |-> task.key, id |-> task.id])
  /\ reading' = (reading \ {Does(task, "read")}) \union {Does(task, "end")}
  /\ UNCHANGED <<frontVars, frontQueue, requested, update, invalidate, at, tiles, managerVars,
                 counter, drawVars, pool, stopping, tasks, seenVars, left>>

\* A task that was not cancelled finishes its tile.
FinishesItsTile(task) == ~IsCancelled(task)

\* Mutant: a cancelled task does not finish the reading.
EndsUncancelled(task) == counter = 1 /\ ~IsCancelled(task)

\* The last task finishes the reading, cancelled or not.
EndsReading(task) == counter = 1

FinishReading == [type |-> "FinishReading"]

\* EndReadTile, in any case, if the tile was begun; then OnTaskFinished, whose lock orders
\* it with the backend's steps on active and counter.
OnTaskFinished(task, began) ==
  /\ LET keys == {key \in active : key.tile = task.key.tile} IN
     /\ counter' = counter - 1
     /\ active' = IF FinishesItsTile(task) THEN active \ keys ELSE active
     /\ queue' = queue
          \o (IF began THEN <<[type |-> "TileReadEnded", key |-> task.key]>> ELSE <<>>)
          \o (IF EndsReading(task) THEN <<FinishReading>> ELSE <<>>)
          \o (IF FinishesItsTile(task)
                THEN <<[type |-> "FinishTileRead", keys |-> keys]>> ELSE <<>>)
  /\ reading' = {doing \in reading : doing.task # task}
  /\ UNCHANGED <<frontVars, frontQueue, requested, update, invalidate, at, tiles, screen,
                 modeChanged, generation, infos, drawVars, pool, stopping, tasks, seenVars, left>>

Reader ==
  \/ PopFront
  \/ \E doing \in reading :
       \/ doing.step = "read" /\ ReadFeatures(doing.task)
       \/ doing.step # "read" /\ OnTaskFinished(doing.task, doing.step = "end")

-----------------------------------------------------------------------------
(* The backend: messages. *)

\* PopMessage, by priority: what the backend does next.
NextMessage(type) ==
  /\ at = "idle"
  /\ CASE type = "UpdateReadManager" -> update
       [] type = "InvalidateReadManagerRect" -> ~update /\ invalidate # {}
       [] OTHER -> /\ ~update /\ invalidate = {} /\ queue # <<>>
                   /\ Head(queue).type = type

\* One more user of the batcher of this key, which is there or taken from the pool.
Reserved(key) ==
  IF \E b \in batchers : b.key = key
    THEN {IF b.key = key THEN [b EXCEPT !.users = @ + 1] ELSE b : b \in batchers}
    ELSE batchers \union {[key |-> key, users |-> 1, shapes |-> {}]}

\* TileReadStarted: ReserveBatcher.
ReserveBatcher ==
  /\ NextMessage("TileReadStarted")
  /\ queue' = Tail(queue)
  /\ batchers' = Reserved(Head(queue).key)
  /\ UNCHANGED <<frontVars, frontQueue, requested, update, invalidate, at, tiles, managerVars,
                 counter, overlays, readVars, seenVars, left>>

\* RequestedTiles::CheckTileKey and ReadManager::CheckTileKey: both compare tiles only.
IsWanted(tile) ==
  /\ requested.tiles = {} \/ tile \in requested.tiles
  /\ \E task \in infos : task.key.tile = tile

Flush(type, groups) ==
  IF groups = {} THEN <<>>
  ELSE <<[type |-> type, keys |-> {group.key : group \in groups}, groups |-> groups]>>

\* CleanupOverlays: those of older generations of the tile go.
OverlaysWith(group) ==
  {group} \union {x \in overlays : x.key.tile = group.key.tile => x.key.gen >= group.key.gen}

\* MapShapeReaded and OverlayMapShapeReaded.
BatchShapes ==
  /\ NextMessage("MapShapeReaded")
  /\ queue' = Tail(queue)
  /\ LET m == Head(queue) IN
     IF IsWanted(m.key.tile)
       THEN /\ batchers' = {IF b.key = m.key THEN [b EXCEPT !.shapes = @ \union {m.id}] ELSE b
                              : b \in batchers}
            /\ overlays' = OverlaysWith([key |-> m.key, id |-> m.id])
       ELSE UNCHANGED drawVars
  /\ UNCHANGED <<frontVars, frontQueue, requested, update, invalidate, at, tiles, managerVars,
                 counter, readVars, seenVars, left>>

\* TileReadEnded: the last user of a batcher flushes it to the frontend.
ReleaseBatcher ==
  /\ NextMessage("TileReadEnded")
  /\ queue' = Tail(queue)
  /\ \E b \in {x \in batchers : x.key = Head(queue).key} :
       IF b.users > 1
         THEN /\ batchers' = (batchers \ {b}) \union {[b EXCEPT !.users = @ - 1]}
              /\ UNCHANGED frontQueue
         ELSE /\ batchers' = batchers \ {b}
              /\ frontQueue' = frontQueue \o Flush("FlushRenderBucket", [key : {b.key}, id : b.shapes])
  /\ UNCHANGED <<frontVars, requested, update, invalidate, at, tiles, managerVars, counter,
                 overlays, readVars, seenVars, left>>

\* Mutant: what waits to be drawn stays.
WithAll(messages) == messages

\* InstantMessageFilter, of UpdateAll: messages with render states are dropped.
WithoutStates(messages) ==
  LET kept[n \in 0..Len(messages)] ==
        IF n = 0 THEN <<>>
        ELSE IF messages[n].type = "FinishTileRead" THEN Append(kept[n - 1], messages[n])
        ELSE kept[n - 1]
  IN  kept[Len(messages)]

\* FinishTileRead is passed on; FinishReading sends the overlays and forgets them;
\* SwitchMapStyle drops what waits to be drawn.
PassOn ==
  /\ \/ /\ NextMessage("FinishTileRead")
        /\ frontQueue' = Append(frontQueue, Head(queue))
        /\ UNCHANGED overlays
     \/ /\ NextMessage("FinishReading")
        /\ frontQueue' = frontQueue \o Flush("FlushOverlays", overlays)
        /\ overlays' = {}
     \/ /\ NextMessage("SwitchMapStyle")
        /\ frontQueue' = WithoutStates(frontQueue)
        /\ UNCHANGED overlays
  /\ queue' = Tail(queue)
  /\ UNCHANGED <<frontVars, requested, update, invalidate, at, tiles, managerVars, counter,
                 batchers, readVars, seenVars, left>>

-----------------------------------------------------------------------------
(* The backend: ReadManager. *)

\* UpdateReadManager: GetTiles takes the tiles away; none, and nothing is done.
GetTiles ==
  /\ NextMessage("UpdateReadManager")
  /\ update' = FALSE
  /\ tiles' = requested.tiles
  /\ requested' = [requested EXCEPT !.tiles = {}]
  /\ at' = IF tiles' = {} THEN "idle" ELSE "update"
  /\ UNCHANGED <<frontVars, frontQueue, invalidate, queue, managerVars, counter, drawVars,
                 readVars, seenVars, left>>

MustDropAllTiles(newScreen) == screen \intersect newScreen = {}

\* Mutant: cancelled tiles stay active.
StillActive(cancelled) == active

\* CancelTileInfo for some tasks, which leave m_tileInfos.
ActiveWithout(cancelled) == {key \in active : key.tile \notin TilesOf({x.key : x \in cancelled})}

\* Mutant: tiles are counted when they are pushed.
CountedLater(newTiles) == counter

\* IncreaseCounter, before the first task is pushed.
Increased(newTiles) == counter + Cardinality(newTiles)

\* GetParams and UpdateCoverage: the tasks of outdated tiles, or all, are cancelled.
CancelOutdated ==
  /\ at = "update"
  /\ LET dropAll == modeChanged \/ requested.force \/ MustDropAllTiles(requested.screen)
         outdated == IF dropAll THEN infos ELSE {task \in infos : task.key.tile \notin tiles}
     IN  /\ infos' = infos \ outdated
         /\ active' = ActiveWithout(outdated)
         /\ generation' = IF dropAll THEN generation + 1 ELSE generation
  /\ at' = "count"
  /\ modeChanged' = FALSE
  /\ screen' = requested.screen
  /\ UNCHANGED <<frontVars, frontQueue, requested, update, invalidate, queue, tiles, counter,
                 drawVars, readVars, seenVars, left>>

\* The tiles that are not read yet are counted.
CountNewTiles ==
  /\ at = "count"
  /\ tiles' = tiles \ TilesOf({task.key : task \in infos})
  /\ counter' = Increased(tiles')
  /\ at' = "check"
  /\ UNCHANGED <<frontVars, frontQueue, requested, update, invalidate, queue, managerVars,
                 drawVars, readVars, seenVars, left>>

\* Mutant: a tile is finished by its task only.
NoneFinished == {}

Finished == TilesOf({task.key : task \in infos}) \ TilesOf(active)

\* CheckFinishedTiles: the tiles that stay and are read already.
CheckFinishedTiles ==
  /\ at = "check"
  /\ queue' = IF Finished = {} THEN queue
              ELSE Append(queue, [type |-> "FinishTileRead",
                                  keys |-> {Key(tile, generation) : tile \in Finished}])
  /\ at' = IF tiles = {} THEN "idle" ELSE "push"
  /\ UNCHANGED <<frontVars, frontQueue, requested, update, invalidate, tiles, managerVars,
                 counter, drawVars, readVars, seenVars, left>>

\* PushTaskBackForTileKey, for one tile after the other.
PushTaskBackForTileKey ==
  /\ at = "push"
  /\ LET tile == CHOOSE x \in tiles : TRUE
         task == [key |-> Key(tile, generation), id |-> tasks + 1]
     IN  /\ infos' = infos \union {task}
         /\ active' = active \union {task.key}
         /\ pool' = Append(pool, task)
         /\ tiles' = tiles \ {tile}
  /\ at' = IF tiles' = {} THEN "idle" ELSE "push"
  /\ tasks' = tasks + 1
  /\ UNCHANGED <<frontVars, frontQueue, requested, update, invalidate, queue, screen,
                 modeChanged, generation, counter, drawVars, stopping, reading, seenVars,
                 left>>

\* Invalidate, for some tiles.
Invalidate ==
  /\ NextMessage("InvalidateReadManagerRect")
  /\ invalidate' = {}
  /\ LET cancelled == {task \in infos : task.key.tile \in invalidate} IN
     /\ infos' = infos \ cancelled
     /\ active' = ActiveWithout(cancelled)
  /\ UNCHANGED <<frontVars, frontQueue, requested, update, queue, at, tiles, screen,
                 modeChanged, generation, counter, drawVars, readVars, seenVars, left>>

\* Restart: InvalidateAll, and the pool is told to stop.
Stop ==
  /\ NextMessage("Restart")
  /\ queue' = Tail(queue)
  /\ at' = "stopping"
  /\ infos' = {}
  /\ active' = ActiveWithout(infos)
  /\ modeChanged' = TRUE
  /\ stopping' = TRUE
  /\ restartedAt' = tasks
  /\ UNCHANGED <<frontVars, frontQueue, requested, update, invalidate, tiles, screen,
                 generation, counter, drawVars, pool, reading, tasks, stale, left>>

\* ThreadPool::Stop: the readers have been joined, what is left is cancelled and finished.
FinishLeftTasks ==
  /\ at = "stopping" /\ reading = {}
  /\ at' = "starting"
  /\ counter' = counter - Len(pool)
  /\ queue' = queue \o (IF pool # <<>> /\ counter' = 0 THEN <<FinishReading>> ELSE <<>>)
  /\ pool' = <<>>
  /\ UNCHANGED <<frontVars, frontQueue, requested, update, invalidate, tiles, managerVars,
                 drawVars, stopping, reading, tasks, seenVars, left>>

\* Start: a new pool.
Start ==
  /\ at = "starting"
  /\ at' = "idle"
  /\ stopping' = FALSE
  /\ UNCHANGED <<frontVars, frontQueue, requested, update, invalidate, queue, tiles,
                 managerVars, counter, drawVars, pool, reading, tasks, seenVars, left>>

Backend ==
  \/ ReserveBatcher \/ BatchShapes \/ ReleaseBatcher \/ PassOn
  \/ GetTiles \/ CancelOutdated \/ CountNewTiles \/ CheckFinishedTiles \/ PushTaskBackForTileKey \/ Invalidate
  \/ Stop \/ FinishLeftTasks \/ Start

-----------------------------------------------------------------------------
\* Nothing is requested yet; ReadManager starts its pool at once.
Init ==
  /\ view = {} /\ notFinished = {} /\ maxGeneration = 0 /\ shown = {} /\ frontend = "free"
  /\ frontQueue = <<>>
  /\ requested = [tiles |-> {}, screen |-> {}, force |-> FALSE]
  /\ update = FALSE /\ invalidate = {} /\ queue = <<>> /\ at = "idle" /\ tiles = {}
  /\ screen = {} /\ modeChanged = FALSE /\ generation = 0 /\ infos = {} /\ active = {}
  /\ counter = 0 /\ batchers = {} /\ overlays = {}
  /\ pool = <<>> /\ stopping = FALSE /\ tasks = 0
  /\ reading = {}
  /\ stale = {} /\ restartedAt = 0 /\ left = MaxEvents

Frontend == PostUpdate \/ PostSwitch \/ Unblock \/ FrontendAccept

Next ==
  \/ UpdateScene \/ InvalidateRect \/ UpdateAll
  \/ Frontend \/ Backend \/ Reader

Spec == Init /\ [][Next]_vars

\* All threads run on; the user does not have to do anything.
FairSpec ==
  /\ Spec
  /\ WF_vars(Frontend) /\ WF_vars(Backend) /\ WF_vars(Reader)

-----------------------------------------------------------------------------
(* Properties. *)

Keys == [tile : Tiles, gen : Nat]
Task == [key : Keys, id : Nat]
Pending == Range(pool) \union {doing.task : doing \in reading}

TypeOK ==
  /\ view \subseteq Tiles /\ notFinished \subseteq view /\ maxGeneration \in 0..generation
  /\ shown \subseteq Task /\ frontend \in {"free", "invalidating", "restarting", "switching",
                                             "posting"}
  /\ requested \in [tiles : SUBSET Tiles, screen : SUBSET Tiles, force : BOOLEAN]
  /\ update \in BOOLEAN /\ invalidate \subseteq Tiles
  /\ at \in {"idle", "update", "count", "check", "push", "stopping", "starting"}
  /\ tiles \subseteq Tiles /\ screen \subseteq Tiles /\ modeChanged \in BOOLEAN
  /\ infos \subseteq Task /\ active \subseteq Keys /\ counter \in Nat
  /\ batchers \subseteq [key : Keys, users : Nat \ {0}, shapes : SUBSET Nat]
  /\ pool \in Seq(Task) /\ stopping \in BOOLEAN
  /\ reading \subseteq [task : Task, step : {"read", "end", "finish"}] /\ Cardinality(reading) <= Readers
  /\ left \in 0..MaxEvents

\* m_counter is the number of tasks that are pushed and not finished, the ones about
\* to be pushed included: it is 0 when a new pool starts (the ASSERT of Start).
CounterMatchesTasks ==
  counter = Cardinality(Pending) + (IF at \in {"check", "push"} THEN Cardinality(tiles) ELSE 0)

\* A tile is active exactly while a task that was not cancelled reads it, whatever
\* older tasks of the same tile are still doing: the ASSERT of OnTaskFinished, and no
\* tile waits for a task that is gone.
ActiveTilesAreRead ==
  /\ \A task \in infos \intersect Pending : task.key \in active
  /\ \A key \in active : \E task \in infos \intersect Pending : task.key = key
  /\ \A a, b \in infos : a.key.tile = b.key.tile => a = b

Index(type) == {n \in DOMAIN queue : queue[n].type = type}

\* Overlays are sent when the last task has finished: none stays behind.
OverlaysAreSent ==
  overlays # {} \/ Index("MapShapeReaded") # {} =>
    \/ counter > 0
    \/ \E n \in Index("FinishReading") : \A k \in Index("MapShapeReaded") : k < n

\* A batcher has as many users as readings of its tile have begun and will end: none is
\* kept for ever, and TileReadEnded finds the batcher that it releases.
BatchersMatchReadings ==
  LET Began(key) == Cardinality({n \in Index("TileReadStarted") : queue[n].key = key})
      Ended(key) == Cardinality({n \in Index("TileReadEnded") : queue[n].key = key})
      Reads(key) == Cardinality({x \in reading : x.step # "finish" /\ x.task.key = key})
      Due(key) == Ended(key) + Reads(key) - Began(key)
  IN  /\ \A a, b \in batchers : a.key = b.key => a = b
      /\ \A b \in batchers : b.users = Due(b.key)
      /\ \A n \in Index("TileReadEnded") \union Index("TileReadStarted") :
           Due(queue[n].key) # 0 => \E b \in batchers : b.key = queue[n].key

\* Once the user leaves the map alone, every tile of the view is finished.
TilesFinish == []<>(notFinished = {} \/ left > 0)

\* Once the user leaves the map alone, something is drawn of every tile of the view: TLC
\* finds that a tile may stay blank for ever.
TilesAreDrawn == []<>(view \subseteq TilesOf({group.key : group \in shown}) \/ left > 0)

\* InvalidateRect: "Remove tiles to invalidate from backend renderer." What was read
\* before a tile was invalidated is not drawn after.
InvalidatedShapesAreGone == \A group \in shown : group.id \notin stale

\* UpdateAll, "Delete all messages which can contain render states (and textures references
\* inside)": nothing that was read before the style was switched is drawn after.
RestartedShapesAreGone == \A group \in shown : group.id > restartedAt
=============================================================================
