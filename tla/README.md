# Verification of Atlas

TLA+ models of the parts of Atlas whose difficulty lies in the order of things:
who may touch a map file while it is replaced, what survives when the
application is killed, which thread wakes up, whose answer still counts, when a
surface may go. The modules are translated from the C++ code, checked by TLC on small
instances, and all eight components are proved about with TLAPS for every instance.

- [How to run it](#how-to-run-it)
- [The system](#the-system): the components, their state, operations and interactions
- [The modules](#the-modules): what each models, and how it corresponds to the code
- [The runs](#the-runs): what is checked, on what bounds, under what fairness
- [The proofs](#the-proofs)
- [Where code and comments disagree](#where-code-and-comments-disagree)
- [What is not modelled](#what-is-not-modelled)
- [The plan](#the-plan)

`PROJECT.json` holds the same in tabular form: components, runs, the lines of
code that each definition stands for (`map`), hazards, findings, theorems, and
for each property a mutant of the code that violates it.

## How to run it

    tlc -workers 2 -config MwmSetEditor.cfg MCMwmSet.tla
    tlapm DelayedThreadPoolProofs.tla

Each `.cfg` begins with a comment that says what it is an instance of. All runs
take less than five minutes; two of them are meant to fail, and so are some more
configurations that are not among the runs (see
[below](#where-code-and-comments-disagree)). A configuration checks the properties that are
worth a run; the modules state a few more (types, and what follows from the others), which
may be added to it.

## The system

Atlas is an application for maps without a network. One GUI thread
owns `Framework` and most of the state; searches, routes, tiles, tracks, checksums
and requests run on threads of their own and post their results back to it. The
maps are files, one for each country and version (`.mwm`), which users download,
update and delete while all these threads read them. Nearly everything that is hard
here comes from this sentence.

### Components that are modelled

**Map registry** (`libs/indexer/mwm_set.*`, `libs/base/observer_list.hpp`).
*State:* `m_info`, for each country the `MwmInfo`s that are not deregistered;
each has a status and a count of handles; a cache of opened values; observers.
*Operations:* `Register`, `Deregister`, `Clear`, `ClearCache`, `GetMwmHandleBy...`,
`~MwmHandle`; each under `m_lock`, the events after it, under the lock of the
observers. *Interacts with:* every reader of a map through handles; `Framework`,
`Editor`, traffic and rendering as observers. *Hard:* a map is marked
for deregistration while it is in use, and the last user, on any thread, completes
it; opening a file may throw in the middle; observers call back.
*Correct if:* counts are exact, no map in use is deregistered, no marked map is
forgotten, the newest map of a country is the one found, what is gone stays gone.

**Map storage** (`libs/storage`, with callbacks in `libs/map/framework.cpp` and
files in `libs/platform/local_country_file_utils.cpp`). *State:* the queue of
downloads and the pending requests before it, the failed and the running
countries, local files, the version of `countries.txt`, the check for
updates. *Operations:* `DownloadNode`, `RetryDownloadNode`, `CancelDownloadNode`,
`DeleteNode`, `RunCountriesCheckAsync`, and the ends of requests. *Interacts with:*
the File thread (checksums, saving `countries.txt`), the Network thread
(metaserver), the registry (a downloaded map replaces one that may be in use), the
settings (the queue survives a restart). *Hard:* handlers that call
handlers, a check that defers downloads and downloads that defer the check, kills
between two file operations. *Correct if:* requests have servers, downloads and checks end,
the map that is shown has its file, only verified maps are installed, nothing is
forgotten on the disk, a restart finds maps and queue again.

**Task pools** (`libs/base/thread_pool_delayed.*`). *State:* a FIFO of
immediate tasks, a queue of delayed ones, workers asleep on one condition variable.
*Operations:* `Push`, `PushDelayed`, `Cancel`, `Shutdown`, the worker loop.
*Interacts with:* everything that posts to the network, file or background thread,
and the routines of drape. *Hard:* workers wait with different predicates on one
variable, time out, wake up spuriously; shutdown races with tasks. *Correct if:*
a task runs once, not early, in order; `Cancel` and `Shutdown` mean what they say;
tasks end and workers can be joined.

**File download** (`libs/platform/http_request.cpp`,
`chunks_download_strategy.cpp`). *State:* chunks, servers, threads, the files
`.downloading` and `.resume`. *Operations:* `GetFile`, `OnFinish`, destruction.
*Interacts with:* storage (one request at a time), HTTP threads. *Hard:* servers
that fail, a full disk, kills between two file operations. *Correct if:* no chunk is
lost or downloaded twice at a time, `.resume` claims only what is on the disk, the
finished file is whole, a download ends.

**Map life cycle** (`libs/map/framework.cpp`, `features_fetcher.cpp`) ties the
first two together: a downloaded map is registered, a deregistered one is deleted once
it is free. Each side is in its module; their composition is planned.

**Render loop** (`libs/drape_frontend/base_renderer.cpp`, `message_queue.cpp`,
`threads_commutator.cpp`). *State:* for each of the two renderers, frontend and backend, a
queue with four priorities, a filter, a waiting flag, and the flags that disable it; the
graphics context. *Operations:* post, pop, filter, `SetRenderingDisabled`,
`SetRenderingEnabled`, `StopThread`, the render loop. *Interacts with:* the GUI thread, which
waits for both renderers; each other, by messages, some of which block the frontend
until the backend has handled them. *Hard:* flags that are read without a lock by one thread and
written by another, two threads that wait for each other and a third that stops both.
*Correct if:* messages keep their order, renderers rest when the surface goes, and nobody
waits for ever.

**Tile reading** (`read_manager.cpp`, `requested_tiles.cpp`, `batchers_pool.hpp`,
`libs/base/thread_pool.cpp`). *State:* the tiles of the view and those not finished (frontend),
the requested tiles (shared), tile infos, active tiles, the counter, batchers and overlays
(backend and readers), the pool. *Operations:* `UpdateScene`, `InvalidateRect`, `UpdateAll`,
`UpdateCoverage`, `Invalidate`, `Stop`, `Start`, `OnTaskFinished`. *Interacts with:* the two
queues of the render loop; the registry, through handles. *Hard:* a tile is cancelled
and requested again while its first task runs; what was read is on its way through two queues
while it becomes obsolete. *Correct if:* the counter counts, tasks finish for themselves only, overlays are
sent, every tile of the view is finished, nothing obsolete is drawn.

**Route building** (`libs/routing/async_router.cpp`, `routing_session.cpp`,
`libs/map/routing_manager.cpp`). *State:* the session, with nine states, its route and checkpoints; the
request, the delegate and the flags the worker looks at; the caches of the router; what is drawn.
*Operations:* build, rebuild, follow, close, locations, changed maps, another router; the
worker's calculation; the answers. *Interacts with:* storage (maps that change under it), the
render loop (drawn routes), the GUI queue. *Hard:* everything may happen between a request and its
answer. *Correct if:* only the answer to the last request arrives, session, route and map
agree, every request ends, no `CHECK` fails.

**Search engine** (`libs/search/engine.cpp`, `libs/map/search_api.cpp`,
`viewport_search_callback.cpp`). *State:* a common queue and one for each thread, a processor for each
thread, handles; the intents of the four modes. *Operations:* search, cancel, broadcasts, the
movement of the map, the main loop, destruction. *Interacts with:* the GUI queue (results), the registry
(broadcasts after maps change). *Hard:* a search is cancelled before, while or after a
thread attaches its processor to it; a broadcast must reach every thread at its place in the
order of calls. *Correct if:* a search sees just the broadcasts before it, a cancellation hits its search
and no other, the map shows the last search, and no message is slept over.

### Components that are not modelled yet

| Component | State | Operations | Hard | Correct if |
|---|---|---|---|---|
| Retry policy (`StorageDownloadingPolicy`, `DeferredTask`) | a counter and a set of countries | schedule, restart, drop | a timer thread posts to the GUI | retries are bounded |
| Track recording (`GpsTrack`) | points, collection, cyclic file | add, clear, set duration, callback | three locks, one unprotected collection | no point is lost; the callback sees each once |
| Traffic | caches, active maps | request, expire, evict | no provider is configured: no request is ever made | |
| Editor (`osm::Editor`) | edits as copies on write | save, upload, migrate | uploading while editing | only its use of the registry is modelled |
| Bookmarks and KML | categories and files | edit, load, save | mostly conversion | |
| Drape engine, `DrapeRoutine` | scene, resources | draw | users of the modelled pools | |
| Caches and small concurrent utilities | containers and flags | | sequential | |
| Routing algorithms | none | A*, index graph | pure computation | paths are shortest |
| Map data formats | none | encode, decode | pure computation | round trips |
| `mwm_diff` | none | | never run: no diffs are loaded | |
| Platform services | settings, HTTP client | | thin layers | |
| Transit, descriptions, ge0, localisation | none | parse | | |
| Map generator, user interfaces, tools, vendored code, data | | | offline, views or foreign | |

## The modules

A module consists of the constants and their assumptions, the variables (each with the
member it stands for), the actions in the order of the code, the specification and
its fairness, and the properties, each after a comment. A definition marked `Mutant:`
is used by nothing: it is a plausible bug in the definition that follows it.

### MwmSet

| Model | Code |
|---|---|
| `file`, `status`, `refs` of an info | `MwmInfo::m_file`, `m_status`, `m_numRefs` |
| `registry` | `m_info`, a vector of infos for each country |
| `cache` | `m_cache`, the deque of values |
| `handle` | the live `MwmHandle`s |
| `outbox[t]`, `nested` | the `EventList` that `WithEventLog` delivers after a call; `nested` is that of a call from inside an observer |
| `observing` | who owns `ObserverList::m_observersLock` |
| `Guard` | the `FeaturesLoaderGuard` of `Editor::LoadEdits` |

A public call is one step, because it holds `m_lock` from beginning to end. Its events are
delivered one by one afterwards, and steps of other threads come between. While a
"registered" event is delivered the editor locks maps and drops them again; where such
a call produces an event of its own, `ProcessEventList` waits for a mutex that its
thread holds: in the model that thread never goes on. Infos are a finite pool: a model value is one
object, which is never reused, as a `shared_ptr` is not.
Left out: a lock that fails because too many files are open, and `VersionTooOld`, which
change nothing.

### StorageDownload

Everything runs on the GUI thread, but for two other threads, so that the interesting
state is *what the running event still has to do*: `calls` is a stack of calls, the innermost first,
and an event ends when it is empty. Thus `DownloadNode` of a group downloads leaf after
leaf, and what the first leaf's handlers do happens before the second. Tasks
posted to the GUI, the File and the Network thread are queues. An HTTP request is
`request` until it completes, fails or is cancelled; `served` says whether there was a server when it
started, since a request without any URL never ends. The text files of a check are stages
of `fetch`, of which one may not be downloaded (`FetchFailed`), or not be accepted (`TextRefused`). Checksums are a flag `intact` on each file; the File thread compares
it, and posts the answer. `countries.txt` is written as the code does: the old file
removed, the new one renamed. A kill while a `countries.txt` is still to be saved, or between
removing and renaming (`Saving`), is the event `crashInSave`; at any other moment it is `crash`, so
that what a kill in the middle of saving costs can be told from the rest.

`mwm` and `doomed` are the registry as Framework sees it: the version shown for each
country, and the deregistered versions still in use, whose files are
deleted by a GUI task that their last user posts. Whether a map is in use when it is
replaced is chosen freely (`MayBeHeld`).

What users, servers and devices do is named in `Events`, and happens at most
`MaxEvents` times in a behaviour; the rest, including the completion of requests, is unbounded.
The event `impatient` lifts the guard that the user does not ask again for a
map that is being verified, or that is hidden among the pending requests (see
[the disagreements](#where-code-and-comments-disagree)).

### DelayedThreadPool and TaskLoop

`TaskLoop` is the promise of `task_loop.hpp` and of the comments in
`thread_pool_delayed.hpp`: a task goes from new to waiting, started and done, or is
cancelled or skipped. `DelayedThreadPool` is the code: each critical section of `m_mu`
is a step. The predicate of a wait depends on when the wait began (`until`), which is
what makes `notify_one` subtle, so sleeping, being notified, sleeping again and
timing out are modelled one by one. A sleeper may also wake up without a reason. Ids are
those of the code: immediate ones from 1, delayed ones from `kImmediateMaxId + 1`.
The mapping to `TaskLoop` is `Promised`; `Status(t)` reads off where a task is.

### ChunksDownload

Chunks have length 1, so that a position is a chunk. The strategy is a record
`[chunks, servers, threads]` with functions named after those of
`ChunksDownloadStrategy`, among them the binary search of `GetChunk`, which matters when
the chunks are not sorted. What is on the disk is `partial` (`.downloading`),
`resume` and `target`. The last chunk of `m_chunks` is the end of the file, with no data behind it; loading
frees all others that are not complete. `buffered` is what `FileWriter` has not flushed and a kill
loses. `todo` is the rest of a handler that touches several files: a kill may come
between. `crashInCancel` is an event of its own, since what follows from it is one of the
disagreements below.

### RenderLoop

| Model | Code |
|---|---|
| `messages[r]`, `low[r]` | `m_messages`, `m_lowPriorityMessages` of each renderer's `MessageQueue` |
| `filtered`, `isWaiting` | `m_filter`, `m_isWaiting` |
| `pc`, `waits`, `hand`, `todo` | where a renderer is in its loop, the argument of `PopMessage`, the message in its hands, what it still posts |
| `isEnabled`, `wasNotified`, `wasContextReset`, `handler`, `cancelled` | the members of `BaseRenderer`, and the routine's |
| `context`, `contextCounter`, `textures` | the graphics context, the counter that the last one to leave looks at |
| `gui` | the thread that calls `SetRenderingDisabled`, `SetRenderingEnabled` or `~DrapeEngine` |

A step is what happens under one lock, or between two reads of a flag that another thread
writes. `FrontendRenderer::UpdateAll` and `InvalidateRect` are scripts (`Script`): they post a
message, wait for the backend (`blocked`), and post another. Of about a hundred types of messages the
model has one or two of each kind: every priority, blocking, dependent on the context, with render states,
and those whose handlers post again. A frame may be left out together with its messages, because the graphics
context is not valid (`SkipFrame`). A platform that disables rendering twice, or
enables it when it is enabled, is left out (`Toggle`): the callers
of `DrapeEngine` alternate.

### TileReading

The way of a tile from the view to the screen, over the queues of RenderLoop, here
reduced to what tells the messages of tiles apart: `update` and `invalidate` are the
messages that overtake, `queue` and `frontQueue` the Normal ones. A task has the key
`[tile, gen]` of the code and an id that only the model knows; shapes and overlays are the
id of the task that read them, so that it can be said which reading is on the screen.
`UpdateCoverage` is four steps (`CancelOutdated`, `CountNewTiles`, `CheckFinishedTiles`,
`PushTaskBackForTileKey`), between which readers finish tasks: `m_tileInfos` belongs to the
backend, the counter and the active tiles to both.
Abstracted: user marks with generations of their own, metalines, zoom levels (a change of zoom is a
view with other tiles), what a tile contains. `EndReadTile` and `OnTaskFinished` of a cancelled task are one
step, so are the test for cancellation and `TileReadStarted`; `RemoveRenderGroupsLater` removes
at once, since nothing later reads what it marked; the overlays of one message are accepted together.

### RouteBuilding

Requests are numbered; a route is the number of the request that it answers, which is what the
code's `m_routeId` counts as well, and 0 is no route. `delegate` is the current
`RouterDelegateProxy`, `cancelled` those whose delegate was cancelled, `asked` what each
request was made for (first build or rebuild, and whether the checkpoints were finished then).
The worker waits, takes a request and calculates; `m_guard` is free between the end of the wait and the taking
(`Wake`, `TakeRequest`). Its answers are tasks in `queue`, beside those that the session posts for
itself (the finish). `cache` is what the router keeps of the maps: maps of today or
of before. `state = "aborted"` stands for a `CHECK` that fails. Left out: intermediate checkpoints (a
route has one subroute), notifications, cameras, transit, recommendations; the engine that draws is always there,
and the finish mark is there when its task runs.

### SearchEngine

A message is its place in the order of calls. `messages` is the queue of the engine, `own[t]`
that of a thread's context, `todo[t]` what the thread took and handles without the lock.
`attached[t]` is the handle whose `m_processor` is the thread's processor: `Attach`, `Cancel` and
`Detach` are under the handle's lock, `Reset` is not, and the processor outlives all of them, which is
what `CancelReachesItsSearch` is about. `intents` are those of `SearchAPI`; a call of it is several
operations on the engine (`calls`), between which threads go on. A search emits at most `MaxBatches`
batches before its last; results of the viewport are GUI tasks that test `IsViewportSearchActive` when they
run. Left out: what is found, timeouts, the test for an equal query, results of other modes.

## The runs

| Run | Instance | Shows |
|---|---|---|
| `mwmset` | 2 countries, 2 versions, 3 infos, 2 handles and the editor's, 2 threads, `Clear` | types; counts equal handles, held maps are alive and marked maps held, lists stay sorted and alive, what is gone stays gone: through upgrades, failures, revivals and downgrades, though observers call back |
| `storage_everything` | 2 maps and their group, 2 versions, 20 kinds of events, 4 of them | a check is in exactly one place, and there iff it is marked as running |
| `storage_updates` | the same, 3 versions, 7 kinds, maps in use among them, 6 events | the map that is shown has its file, no file is forgotten, no damaged map is installed |
| `storage_restarts` | the same, 3 versions, 8 kinds, 6 events, fair | killed at any moment but while a `countries.txt` is being saved: the saved queue is complete, and so are the saved pending requests unless a check keeps them waiting; shown maps have files, a restart finds a map of each country that was shown; downloads and checks end, in the absence of a second check, which may take the servers away (see below) |
| `thread_pool` | 2 workers, 3 tasks, delays 0 and 1 | the pool implements `TaskLoop`; a task is in one place; tasks end, workers leave |
| `chunks` | 3 servers, 4 chunks, 4 events | `.resume` is true, the file is whole, downloads end |
| `render_loop` | 5 types of messages from outside and those they lead to, 2 posts, 3 toggles with and without the surface, frames that are left out, the end | messages keep their order, a filter is alone, disabled renderers rest, the frontend is never left waiting |
| `tile_reading` | 2 tiles, 3 views, 2 readers; 2 of: move, read all, invalidate, restart | tasks are counted, a tile is active while it is read, overlays are sent, nothing read before a restart is drawn, tiles finish |
| `route_building` | 4 calls, all outcomes of a calculation | types; state, route and map agree; answers are to the last request; requests end |
| `search_engine` | 1 or 2 threads, the viewport and another mode, 3 calls, 1 batch before the last | searches see their broadcasts, cancellations reach their search, one search per mode, the map shows the last one, messages are served |
| `storage_stall`, `routing_finished` | see below | disagreements |

**Why these bounds.** The registry compares a country's newest map with one other, so
two versions give older, same and newer; three infos allow an upgrade and a map beside it, and two
handles a map with two users or two maps with one each. The editor
needs two countries, one whose event is delivered and one whose map it drops. Storage
has at most one request and reads the top of the queue, so two maps give a top and one
behind it; the group is there because groups go leaf by leaf. Four events
cover every ordered combination of four kinds, and the disagreements below
need two to four; the runs on updates and restarts have six, so that a second version can come
after maps of the first were updated. The pool needs two workers for tasks to be shared and for a
notification to go to the wrong one, three tasks for one of each kind and one more.
With three servers and four chunks a server fails while others are at work and chunks
remain. Three toggles disable, enable and disable again, so that a flag left over from
the first time can do harm; two messages are needed for one to be overtaken, and each may lead to
others. Tiles: two events are enough for a tile to be cancelled and requested
again, or invalidated while its first task is read, and each view shares a tile with another. Three
events are checked for `move` alone (`TilesBlank.cfg`). Routes: a request, an event
that makes it obsolete, and two more that act on what is left; the disagreements below
need up to eight. Searches: three calls give a search, its cancellation or a broadcast, and another search
while two threads are at work.

**Symmetry.** Only in the registry's run, which checks safety: infos and handles are
interchangeable there.

**Fairness.** None in the registry: no call is obliged to come. Storage: the GUI, File
and Network threads run their tasks, and each HTTP request that has a server ends one way or the other (the
platforms have timeouts); one without does not end; users do nothing for certain, and no map need be
released. Pool: the clock goes on, and a worker that was notified, or whose time has come, or that
is awake, goes on; a sleeper whom nobody notified does not have to wake up.
`FairSpec` adds that tasks end, `LongTasksSpec` does not. Chunks: HTTP threads
end, the GUI thread goes on. Render loop: both renderers run on, and so does the platform thread
in the middle of an operation; it is not obliged to begin one, and nobody has to post. A renderer that goes on and on
has a valid context again and again (strong fairness of `Frame` and of the backend's `PopMessage`): that
is the platform's to provide. If the context of the backend never becomes valid again, a blocked frontend waits for ever,
and so does the thread that disables or stops it. Tiles: frontend,
backend and the readers as a whole run on; the user does nothing for certain. Routes: the
worker and the GUI loop run on, a calculation ends (it is cancelled or has a deadline). Searches:
threads run on while they have something to do, a call of `SearchAPI` returns; nobody wakes up without a
reason for certain.

**Deadlock** is not reported where the system may rest: a registry whose infos are used up, or whose
thread waits for its own mutex, a storage without requests, a pool that was shut down, a file
that is downloaded, renderers without messages or joined, a route or a search that is done.

**Mutants.** For each property of a passing run `PROJECT.json` names a plausible bug
under which TLC finds that property violated: a handle's count not rolled back, the
queue saved from one list only, a notification dropped, statuses saved before data, the backend
disabled before the frontend, a delegate forgotten instead of cancelled.

## The proofs

TLAPS proves the following for all values of the constants, from the `ASSUME`s of the modules:
versions are naturals, handles, tiles, modes and threads are finite sets, bounds and
`kImmediateMaxId` are naturals, the nodes of the tree of countries have sequences of leaves below
them, null values are not in the sets they are null for (`NoFile` is no set of chunks). TLC evaluates the same
assumptions in every run. All safety properties of the passing runs, invariants and action properties, are
proved, and the refinement of `TaskLoop`. Where a theorem has a hypothesis of its own (on
`Events`, or on the tree), the paragraph on it says why, and whether TLC finds the property violated without it.

Induction over numbers is done with a least counterexample (`LeastNumber`, `Climb`, from the theorem `WFMin` of the
library), and over sequences by the length of a prefix, since theorems that take an operator
cannot be instantiated.

**`MwmSetProofs`.** `Invariance` proves the inductive invariant `IInv`, which joins
`TypeOK`, `FreshInfosAreUnused`, `RefsMatchHandles`, `HeldMapsAreAlive`,
`MarkedMapsAreHeld` and `RegistryOrdered`; none is inductive alone. An unlock decrements
a count, which stays a natural because it is the number of handles. The map it
deregisters is in the registry because a held map is alive. `Register` and `Deregister`
act on the last map of a list, which is alive and of that country because the lists
are ordered. A fresh info is held by nobody and in no list. From it follow
`TypeCorrect`, `CountsAreExact`, `NoUseAfterDeregister` (held maps are alive and marked
maps held), `RegistryStaysOrdered`, `GoneStaysGone` (the action property
`DeregisteredForGood`) and, with one more inductive step, `NoMapIsLost`. The counting steps use the
library's theorems about cardinalities, the others the lemmas on erasing from a sequence.

**`DelayedThreadPoolProofs`.** `TypeCorrect` and `TasksRunOnce` (the property
`OnePlace`), then `Invariance` with what the refinement needs besides: no task is
lost, ids of immediate tasks are given once and ascend, each queue has tasks of its
kind, and of the workers that leave after a shutdown one alone holds what is pending.
`PromiseIsKept` proves `Spec => KeepsPromise`: initial states map to initial
states, and each step of the pool to a step of `TaskLoop` (one lemma for each) or
to none (sleeping, waking and leaving). No assumption on notifications is used: what
a task does never depends on who wakes up, only *when* does.

**`RouteBuildingProofs`.** `Invariance` joins what is true of requests (all but the delegate's are
cancelled), of the GUI queue and the worker (they name requests that were made), of the
session, and `StateMatchesRoute` and `DrawnRouteIsTheRoute`. The heart is the first: since
`ResetDelegate` comes with every new request and every reset, an answer that finds its delegate not
cancelled is that of the last request; that it becomes the route is `OnlyCurrentAnswers` (the action
property `AnswersAreCurrent`). `SessionIsConsistent` and `MapShowsTheRoute` follow, as does
`TypeCorrect`: for any number of calls, any outcomes, any setting of rerouting.

**`SearchEngineProofs`.** `Invariance` says how the queues are laid out: what a thread still has,
its own queue and the common one ascend and are complete, in that order, so that broadcasts that are not
in a thread's queues have been applied by it. From it follow `SearchesSeeThePast`
(`SearchesSeeTheirBroadcasts`), whichever threads replicate broadcasts, and, with what it says of attached
processors, `CancelsReach` (`CancelReachesItsSearch`): for any number of threads, modes, calls and batches.
`HandlesAgree` adds what the calls in progress will still do: a search is begun only where the handle of
its mode was given up, or a call is left that gives it up first. `OneSearchOfEachMode` follows, in the middle of a call
too. `MapFollowsTheUser` says what the GUI tasks on their way will leave on the map: once the last
search has sent something, there is a task from which on only its results are shown, or they are shown
already. It uses that a single thread gets through the searches in the order of the calls, which is
why `MapIsUpToDate` (`MapShowsTheLastSearch`) is about one thread; with two it is false (see below).

**`ChunksDownloadProofs`.** `TypeCorrect` holds without conditions. `FilesAgree` proves
`FilesInv`: a chunk that the strategy calls complete was written, to `.downloading` or to the buffer; one
that `.resume` calls complete is in `.downloading`, but between the removals and the renaming of a finished or
cancelled request, of which the invariant says what they find on the disk. Both lists of chunks cover the whole file
without gaps, so that none is missing when all are complete. `ResumeCanBeTrusted` and `FilesAreWhole`
follow. Nothing is used about which server downloads what, nor about where the search of
`GetChunk` ends: a chunk that it misses is left as it is. The hypothesis `"crashInCancel" \notin Events` is
needed: that kill leaves a `.resume` without its `.downloading`.

**`RenderLoopProofs`.** Four inductive invariants, each on top of those before it.
`QueueInv`: types, what a script has still to post, and the order of every queue, for which there are lemmas on inserting,
filtering and taking; from it `MessagesAreHandledInOrder` (`MessagesKeepOrder`). `LifeOK` and `BlockOK`
(`FlagsAreTrue`, `BlockedIsTrue`): what the flags say about where a renderer is, and that
the frontend stands still while a blocking message of its own is in the backend's queue or hands; from them
`FilterIsAlone` (`InstantFilterIsAlone`). `Handshake` (`HandshakeHolds`): during an operation the first
renderer is where it was asked to be before the second is asked, and between operations both are; from it
`DisabledRenderersStay` (`DisabledRenderersRest`). `Quiet` and `ContextOK` (`ContextsAreKnown`): a queue that is filtered
holds nothing that depends on a context, and the counter counts the contexts; from them
`TypesAreSafe`, whose range of the counter is the code's `CHECK`, and `RenderersHaveContexts`.

**`TileReadingProofs`.** For finitely many tiles. `TypesOK` and `ReadingInv`
(`ReadingIsSound`): each task waits or is done by one thread, nothing is of a generation or an id to come, the
counter counts, an active tile has just one task that was not cancelled, and no task is pushed for a tile that
has one; `CounterIsExact` and `ActiveTilesHaveATask` are parts of it. `NoOverlayStaysBehind` (`OverlaysAreSent`) is inductive
with the counter. `BatchersAreCounted`: the users of a batcher are the readings that were begun and will end,
which is a count over the queue and the threads; from it `BatchersAreReleased`. `RestartIsOrderly` (`Phase`):
how far `UpdateAll` is; all that can still be drawn was read after the last `Restart`, but between
`Restart` and `SwitchMapStyle`, when the frontend shows nothing. At `SwitchMapStyle` it rests on the others:
nobody filters the overlays and the batchers of the backend there, they are gone because no task
is left. `OldShapesAreGone` (`RestartedShapesAreGone`) follows.

**`StorageDownloadProofs`.** The largest, since handlers call handlers. What is needed of the stack of calls
is which may be on top and which may wait below (`IsStack`): no call that waits goes
on with a check, asks for a file or starts a request.

- `TypeCorrect`, with the kinds of tasks in every queue. `ChecksAreSomewhere` (`CheckIsSomewhere`): a check has
  one place, counted over calls, queues and fetches. `OnlyNewerVersions`: a version gives way to a newer one
  only, the `ASSERT_GREATER` of `ApplyCountriesInMemory`. All three without conditions.
- `RestartsFindMaps`: the version that will be saved *last* covers every one that is applied, deferred or on its
  way to be (`SavesInv`), and no map is shown that is newer than the applied one. The condition is `SavesSucceed`:
  neither `nospace` nor `crashInSave`.
- `FilesAreNotForgotten` (`FilesAreKnown`): every file is that of a shown map, of one in use, or its deletion
  is posted. The condition is that nobody kills, or that saves succeed: a restart that does not look at newer
  versions forgets their files.
- `QueuesSurvive` (`QueueIsSaved`), if no other server is chosen. Within an event the pending requests
  may be moved, by calls that follow each other up to the one that clears them, and the settings
  may lag; `SavedInv` says when.
- `MapsAreVerified` (`InstalledMapsAreVerified`): no country is in two places between the
  request for it and its installation (`PipeInv`), so that the file a checksum was computed of is the one that is installed
  (`VerifiedInv`). Conditions: nobody kills, nobody asks again for a map that is being verified or hidden
  (`impatient`), and no leaf is twice below a node (`LeavesOnce`). The last is true of every node of `countries.txt` but the root,
  which has the five disputed territories below two countries; nobody downloads the root. With a leaf twice below a node, `DownloadNode`
  would put it among the pending requests twice.
- `MapsHaveFiles` (`ShownMapsHaveFiles`): a country that is on its way or failed does not have the map of this version
  (`PlacedInv`), so that an installation that finds no file (`RegisterMissingFile`) costs no map, and a deletion that was
  posted for a map that was in use (`doomed`) is of an older version than the one shown or on its way. Conditions: `LeavesOnce`; no `impatient`;
  the user deletes no map that is in use (`NoneInUseIsDeleted`; one that is *replaced* may be); and nobody kills, or saves succeed and no map is `bad`.
- `MapsSurviveKills`: a country whose map is shown has one after a kill at any moment. A restart finds the file of a map
  (`RestartsFindMaps`), and the file is there (`MapsHaveFiles`), so that the conditions of both are needed.

Most of these conditions exclude events of a [disagreement](#where-code-and-comments-disagree), where TLC
shows what they do: `nospace` and `crashInSave` break `RestartsFindMaps` and `FilesAreNotForgotten`,
the second `MapsSurviveKills` as well; `newServer` breaks `QueuesSurvive`; `impatient` `MapsAreVerified` and `MapsHaveFiles`, of which
the latter also fails when a map in use is deleted and downloaded again. Wider than what TLC finds is one condition of `MapsHaveFiles`, that kills come
with saves that succeed and without `bad`: the proof uses that no deletion of a file is posted.

**Only model-checked.** Liveness, which is out of the prover's reach together with
`ENABLED`: `DownloadsEnd`, `ChecksEnd`, `TasksEnd`, `WorkersLeave`, `BlockedFrontendIsReleased`,
`TilesFinish`, `RequestsEnd`, `RequestsAreServed`. Of what the modules state and no run checks, `CacheBounded` of MwmSet is not proved:
`Remove` is a `SelectSeq`, which the prover does not expand.

## Where code and comments disagree

Two runs check one property each and are expected to fail.

| Run | Property | What happens |
|---|---|---|
| `storage_stall` | `DownloadsWithServersEnd` | a check defers its version while `a` is downloaded; `b`, asked for meanwhile, stays among the pending requests, for which the version is not applied, and without which the check does not end; every request has servers here |
| `routing_finished` | `ChecksHold` | the finish is reached while the route is rebuilt; nothing cancels the rebuild, its answer makes the finished session start again, and the next rebuild fails `CHECK(!IsFinished())` (`checkpoints.cpp:32`) |

The following configurations are violated, too, and can be run like the others.

| Configuration | Property | What happens |
|---|---|---|
| `MwmSetReentry.cfg` | `ObserversMayUseTheSet` | the editor drops the last handle of a marked map inside an observer; the set notifies observers again, under the non-recursive mutex the thread holds, though `mwm_set.hpp:326` warns of deadlocks |
| `StorageNoServers.cfg` | `RequestsHaveServers` | a check that finds a new version empties `m_serversList` (`storage.cpp:372`) while maps are downloaded; the next request of the queue starts without any URL (`http_map_files_downloader.cpp:54`), against "ASSERT(!urls.empty(), ())" (`http_request.cpp:286`). Without assertions no thread starts, the `EDownloadFailed` of `StartThreads` is ignored (`http_request.cpp:312`), nobody reports an end, and the queue stands still |
| `StorageOffline.cfg` | `ErrorsSkipTheCallback` | a text file cannot be downloaded: its callback is called with an empty text, and ends the check, against "Callback will be skipped on download error." (`map_files_downloader.hpp:62`, `:70`). The comments are wrong: a check whose callback is skipped would never end (`ChecksEnd`) |
| `StorageCancelGroup.cfg` | `DownloadingIsQueued` | cancelling a group erases the group's id, not its leaves', from `m_downloadingCountries` (`storage.cpp:2139`); no new version is applied from then on |
| `ThreadPoolLongTasks.cfg` | `DueTasksStart` | `notify_one` reaches the worker that waits for an earlier delayed task; it goes back to sleep, and the due task waits while another worker sleeps, against "wait until there is at least one immediate or delayed task" (`thread_pool_delayed.cpp:117`) |
| `ChunksKilled.cfg` | `DownloadsEnd` | a kill between the removal of `.downloading` and that of `.resume` (`http_request.cpp:333`): chunks are listed twice, the search misses, the download never ends |
| `RenderLoopHang.cfg` | `DisablingEnds` | `CancelMessageWaiting` comes when the backend has read `m_isEnabled` and not yet begun to wait: it waits for a message, and `SetRenderingDisabled` for it, against "if renderer thread is waiting for message let it go" (`base_renderer.cpp:121`) |
| `TilesBlank.cfg` | `TilesAreDrawn` | the view leaves a tile and returns before the backend has taken the request between: shapes that arrived meanwhile were dropped as not requested, yet `m_tileInfos` has the tile still, which is not read again, reported as finished and stays blank |
| `TilesInvalidated.cfg` | `InvalidatedShapesAreGone` | what was read before a tile was invalidated is in the frontend's queue and drawn after, though `frontend_renderer.cpp:1134` says "Remove tiles to invalidate from backend renderer." |
| `RoutingPrevious.cfg` | `PreviousRouteStays` | another route is built while the user moves along one: `BuildRoute` closes the session first (`routing_manager.cpp:1197`), so that there is no route in `RouteBuilding`, against "User may be following the previous route." and "OnRoute -> RouteBuilding // while moving along a route user makes a new route" (`routing_callbacks.hpp:49`, `:74`) |
| `RoutingCaches.cfg` | `CachesAreFresh` | the worker leaves its wait, and `m_clearState` is set before it takes the request: `CalculateRoute` clears nothing, the route is calculated with what the router kept of a replaced map, against "Soft reset to signal that mwm file may be out of date in routing caches." (`framework.cpp:444`) |
| `RoutingStuck.cfg` | `BuildingIsAnswered` | a build ends without a route: the session stays in `RouteBuilding` with nothing to wait for, against "We requested a route and wait when it will be built." (`routing_callbacks.hpp:49`) |

`StateMatchesRoute` states what the code keeps to instead: no route in `RouteBuilding`, and the previous one, if there was any, in
`RouteRebuilding`. The list of transitions in `routing_callbacks.hpp:64` is also incomplete: a session goes from
`OnRoute` to `RouteRebuilding` at once where the manager rebuilds (`RebuildRouteOnTrafficUpdate`), from every state to
`NoValidRoute`, and in the case of `routing_finished` from `RouteFinished` to `RouteNotStarted`.

TLC finds more. To reproduce one, put the property into a
configuration with the constants given.

| Property | With | What happens |
|---|---|---|
| `GoneMapsAreUnusable` | 1 country, 1 version, 2 infos, 1 handle | a thread delivers "deregistered" after another has registered the same file again |
| `DeregistrationIsAnnounced` | versions 1 and 2 | the new file is bad: the exception skips the events of the old map's deregistration |
| `CachedMapsAreAlive` | 2 handles, `CacheSize` 2, versions 1 and 2 | two values of one map are cached; deregistering it at its last unlock removes one |
| `DownloadsEnd` | `download`, `nofile` | no file can be created, `GetFile` returns null, nobody reports it (`http_map_files_downloader.cpp:64`) |
| `CancelledNodesLeaveTheQueue` | `download`, `check`, `cancel`; `MCSingleMaps` | `GetQueue` shows the queue and hides the pending requests, so that these cannot be cancelled |
| `InstalledMapsAreVerified` | also `corrupt`, `crash` | killed before the checksum, a restart installs the downloaded file unverified |
| `ShownMapsHaveFiles` | `download`, `impatient` | a map is asked for while its checksum is computed, installed twice, and the second installation deletes it |
| the same, `InstalledMapsAreVerified` | also `check`, and `corrupt` | asked for twice while a check runs and another map is downloaded, a map is among the pending requests twice, which `GetQueue` hides; the second download replaces the file that the first one's checksum was computed of |
| `ShownMapsHaveFiles` without `NoneInUseIsDeleted` | `hold`, `delete`, `download` | a deleted map in use is downloaded again; its former user ends, and the new file is deleted (`framework.cpp:507`) |
| `QueueIsSaved` without its condition on checks | `download`, `check` | a map that is asked for beside a running download while a check runs is pending; `SaveDownloadQueue` saves what `GetQueue` returns, which is the queue alone (`storage.cpp:826`), and a kill forgets it |
| `QueueIsSaved` | `download`, `newServer`, `failure` | a server is chosen during a download: what is asked for next is pending beside the queue until the metaserver answers, and not saved |
| `RestartFindsMaps` | `download`, `update`, `check`, `crashInSave`; 8 events | killed between removing and renaming `countries.txt`: the bundled version does not look at newer maps (`storage.cpp:148`) |
| `RestartFindsMaps` | `download`, `update`, `check`, `nospace`, `crash`; 7 events | `countries.txt` cannot be saved, its version is applied and maps of it downloaded; a restart does not look at them |
| `EmptyQueriesStay` | `SearchEngine.cfg` | a search was cancelled before the first viewport came: its intent is still marked as delayed, and starts then (`search_api.cpp:157`), against "Cancels previous search request (if any)" |
| `MapShowsTheLastSearch` without its condition on threads | `SearchEngine.cfg` | with two search threads a cancelled search may post its batch after the last search has begun to show its own; `FrameworkParams` asks for one thread (`framework.hpp:119`) |

Found while reading, and not stated as a property: `ClearQuery` takes no lock
(`message_queue.cpp:158`); a rebuild that finds no route has no callback to tell, and the session
stays in `RouteRebuilding`; an exception during the first build runs into the `CHECK_EQUAL` of
`routing_manager.cpp:427`; `FindClosestProjectionToRoad` uses the router on the GUI thread without
`m_guard` (`async_router.cpp:81`); answers of a calculation that exceeded its deadline are dropped;
rendering that is disabled twice, the second time with its surface, creates a context twice; a request of the frontend to read all tiles again is lost if another one
replaces it before the backend has taken it.

The passing runs leave these events out for the properties concerned; `Events` of each
configuration names those that may happen.

## What is not modelled

- *Registry:* what a value contains, and the order in which several observers are called.
- *Storage:* diffs (the loader fills an empty list), moving World maps out of the root
  folder, sizes and progress, observers of the storage, `Clear` and `DeleteAllLocalMaps`
  (tests and reset). That a country of a new version may have other leaves: the tree is constant.
- *Pool:* ids that wrap around, which takes 2^63 pushes; exceptions in tasks, which end the program.
- *Chunks:* sizes of chunks and the remainder of the last, progress, `MemoryHttpRequest`,
  and writes that fail (the Qt thread ignores them, `http_thread_qt.cpp:125`).
- *Render loop:* what messages do beyond the queues; user events, whose wakeup may be lost until the
  next frame (`frontend_renderer.cpp:2474`). *Tiles:* user marks, metalines, zoom levels. *Routes:*
  intermediate points, the calculation. *Searches:* what is found, timeouts, bookmarks.
- Most of the repository's lines are computation on data (geometry, indices, drawing rules, encodings, the
  calculation of routes and ranks), views, tables and vendored code, which have no control state of their
  own: the models stand for a small share of all lines, and for most of the ones where threads, files and
  requests meet.
- Memory models: code that reads shared data without a lock (`gps_track.cpp:109`) is listed as a hazard.

## The plan

Modelled first is what many threads and files depend on: the registry, storage, the
pools, the download of a file; then the render loop, tiles, routes and searches. Next, in this order:

1. **MapLifecycle**: the registry composed with its observers and with storage, for the late deletion and the
   order of events on one file, with `MwmSet` by `INSTANCE`.
2. **RetryPolicy**: the timer, the GUI queue and the unsigned counter (`downloading_policy.cpp:34`),
   with its width.
3. **GpsTrack**: points, collection and the cyclic file; the unlocked reads as nondeterministic choices.
4. Larger parts of modelled components: intermediate checkpoints, user marks of tiles, the other
   modes of a search.

Proofs, beside those: that the pools' and the renderers' queues implement an abstract queue that keeps
the order of each priority, on which TileReading relies; `MapsHaveFiles` with damaged
maps and unsaved versions, which TLC finds no violation of; the same for each module of the list
when it is written.
