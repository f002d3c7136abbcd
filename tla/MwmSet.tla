------------------------------- MODULE MwmSet -------------------------------
(***************************************************************************)
(* The registry of map files: libs/indexer/mwm_set.{hpp,cpp}, with the     *)
(* loaders of libs/indexer/data_source.cpp.                                *)
(*                                                                         *)
(* Every registered map is an MwmInfo: a file (country and version), a     *)
(* status and a count of the handles that use it.  m_info keeps, for a     *)
(* country, the infos not yet deregistered, the newest last.  A map that   *)
(* is in use cannot be deregistered: it is marked, and the thread that     *)
(* drops the last handle deregisters it.  Freed values of registered maps  *)
(* wait in a bounded FIFO cache.                                           *)
(*                                                                         *)
(* Each public call runs under m_lock, hence is one atomic step here; the  *)
(* events it produced are delivered afterwards without m_lock, one at a    *)
(* time, under the non-recursive mutex of base::ObserverList, so they      *)
(* interleave with the calls of the other threads.  While a "registered"   *)
(* event is being delivered, osm::Editor::LoadEdits takes and drops        *)
(* handles from inside the callback.                                       *)
(***************************************************************************)
EXTENDS Integers, FiniteSets, SequencesExt

CONSTANTS
  Countries,   \* names of countries
  Versions,    \* versions of map files
  Infos,       \* pool of MwmInfo objects; bounds how many maps get created
  NoInfo,      \* the null MwmInfo pointer
  NoFile,      \* the file of an MwmInfo that was not created yet
  Threads,     \* threads that call the set
  Registrars,  \* the threads that register and deregister maps
  NoThread,    \* nobody holds m_observersLock
  Handles,     \* variables of the clients that can hold an MwmHandle
  Guard,       \* the FeaturesLoaderGuard inside Editor::LoadEdits
  Edited,      \* countries the saved edits refer to
  CacheSize,   \* m_cacheSize
  ClearsMaps   \* whether the application ever calls Clear()

ASSUME VersionsAssumption == Versions \subseteq Nat
ASSUME CacheSizeAssumption == CacheSize \in Nat
ASSUME PoolAssumption == IsFiniteSet(Handles)
ASSUME ThreadsAssumption == Registrars \subseteq Threads /\ NoThread \notin Threads
ASSUME NullAssumption == NoInfo \notin Infos /\ Guard \notin Handles
ASSUME FileAssumption == NoFile \notin [name : Countries, version : Versions]
ASSUME EditedAssumption == Edited \subseteq Countries
ASSUME ClearsAssumption == ClearsMaps \in BOOLEAN

VARIABLES
  file,      \* info -> the map file it stands for
  status,    \* info -> m_status
  refs,      \* info -> m_numRefs
  registry,  \* m_info: country -> its infos, the newest last
  cache,     \* m_cache: the infos whose values are cached, the oldest first
  handle,    \* handle -> the info it keeps alive
  outbox,    \* thread -> events its last call still has to deliver
  observing, \* the thread inside ObserverList::ForEach
  nested     \* events a call made from inside an observer has to deliver

vars == <<file, status, refs, registry, cache, handle, outbox, observing, nested>>

File == [name : Countries, version : Versions]
Event == [type : {"registered", "deregistered"}, file : File]
Slots == Handles \cup {Guard}

-----------------------------------------------------------------------------
(* Who may call, and on which map. *)

\* MwmId::IsAlive.
Alive(i) == status[i] # "deregistered"

\* GetMwmIdByCountryFileImpl.
Newest(c) == IF registry[c] = <<>> THEN NoInfo ELSE Last(registry[c])

\* The country has a map that Register would have to compare with.
HasMap(c) == Newest(c) # NoInfo /\ Alive(Newest(c))

\* A thread between two calls, and the thread inside Editor::OnMapRegistered.
Idle(t) == outbox[t] = <<>>
InEditor(t) == observing = t /\ nested = <<>> /\ Head(outbox[t]).type = "registered"

MayUse(t, h) == \/ h \in Handles /\ Idle(t)
                \/ h = Guard /\ InEditor(t)

\* The clients keep ids as long as they like; LoadEdits looks them up by name.
KnownIds(h) == IF h = Guard
                 THEN {Newest(c) : c \in Edited} \ {NoInfo}
                 ELSE {i \in Infos : file[i] # NoFile}

-----------------------------------------------------------------------------
(* DeregisterImpl(id): what becomes of an alive info i that has n handles. *)

\* Mutant: DeregisterImpl does not look at the handles.
DeregisteredStatusUnlessHeld(n) == "deregistered"

DeregisteredStatus(n) == IF n = 0 THEN "deregistered" ELSE "marked"

\* erase(remove(...)): an info occurs at most once in the sequence it is in.
Without(s, i) ==
  IF Contains(s, i) THEN RemoveAt(s, CHOOSE k \in 1..Len(s) : s[k] = i) ELSE s

WithoutInfo(i, n) ==
  IF n = 0 THEN [registry EXCEPT ![file[i].name] = Without(@, i)] ELSE registry

WithoutCached(i, n) == IF n = 0 THEN RemoveFirst(cache, i) ELSE cache

Announce(type, f) == <<[type |-> type, file |-> f]>>

DeregisterEvents(i, n) == IF n = 0 THEN Announce("deregistered", file[i]) ELSE <<>>

\* WithEventLog: the events of a call wait for delivery once m_lock is free.
Emit(t, events) ==
  IF observing = t
    THEN nested' = nested \o events /\ UNCHANGED outbox
    ELSE outbox' = [outbox EXCEPT ![t] = @ \o events] /\ UNCHANGED nested

-----------------------------------------------------------------------------
(* Register. *)

\* The first map of a country, or the only one once the others are gone.
RegisterFirst(t, f, new) ==
  /\ t \in Registrars /\ Idle(t)
  /\ ~HasMap(f.name)
  /\ file[new] = NoFile
  /\ file' = [file EXCEPT ![new] = f]
  /\ status' = [status EXCEPT ![new] = "registered"]
  /\ registry' = [registry EXCEPT ![f.name] = Append(@, new)]
  /\ Emit(t, Announce("registered", f))
  /\ UNCHANGED <<refs, cache, handle, observing>>

\* Mutant: a different version counts as newer.
RegisterOther(t, f, new) ==
  LET old == Newest(f.name) IN
  /\ t \in Registrars /\ Idle(t)
  /\ HasMap(f.name) /\ file[old].version # f.version
  /\ file[new] = NoFile
  /\ file' = [file EXCEPT ![new] = f]
  /\ status' = [status EXCEPT ![old] = DeregisteredStatus(refs[old]),
                              ![new] = "registered"]
  /\ registry' = [WithoutInfo(old, refs[old]) EXCEPT ![f.name] = Append(@, new)]
  /\ cache' = WithoutCached(old, refs[old])
  /\ Emit(t, DeregisterEvents(old, refs[old]) \o Announce("registered", f))
  /\ UNCHANGED <<refs, handle, observing>>

\* A newer version replaces the current one, or marks it when it is in use.
RegisterNewer(t, f, new) ==
  LET old == Newest(f.name) IN
  /\ t \in Registrars /\ Idle(t)
  /\ HasMap(f.name) /\ file[old].version < f.version
  /\ file[new] = NoFile
  /\ file' = [file EXCEPT ![new] = f]
  /\ status' = [status EXCEPT ![old] = DeregisteredStatus(refs[old]),
                              ![new] = "registered"]
  /\ registry' = [WithoutInfo(old, refs[old]) EXCEPT ![f.name] = Append(@, new)]
  /\ cache' = WithoutCached(old, refs[old])
  /\ Emit(t, DeregisterEvents(old, refs[old]) \o Announce("registered", f))
  /\ UNCHANGED <<refs, handle, observing>>

\* CreateInfo throws on a bad file after the current version was deregistered;
\* the exception leaves WithEventLog before ProcessEventList.
RegisterNewerThrows(t, f) ==
  LET old == Newest(f.name) IN
  /\ t \in Registrars /\ Idle(t)
  /\ HasMap(f.name) /\ file[old].version < f.version
  /\ status' = [status EXCEPT ![old] = DeregisteredStatus(refs[old])]
  /\ registry' = WithoutInfo(old, refs[old])
  /\ cache' = WithoutCached(old, refs[old])
  /\ UNCHANGED <<file, refs, handle, outbox, observing, nested>>

\* The same version again: a marked map comes back to life.
RegisterSame(t, f) ==
  LET old == Newest(f.name) IN
  /\ t \in Registrars /\ Idle(t)
  /\ HasMap(f.name) /\ file[old].version = f.version
  /\ status' = [status EXCEPT ![old] = "registered"]
  /\ Emit(t, IF status[old] = "registered" THEN <<>> ELSE Announce("registered", f))
  /\ UNCHANGED <<file, refs, registry, cache, handle, observing>>

-----------------------------------------------------------------------------
(* Deregister, Clear, ClearCache. *)

Deregister(t, c) ==
  LET old == Newest(c) IN
  /\ t \in Registrars /\ Idle(t)
  /\ HasMap(c)
  /\ status' = [status EXCEPT ![old] = DeregisteredStatus(refs[old])]
  /\ registry' = WithoutInfo(old, refs[old])
  /\ cache' = Remove(cache, old)
  /\ Emit(t, DeregisterEvents(old, refs[old]))
  /\ UNCHANGED <<file, refs, handle, observing>>

\* Forgets every map without touching its status and without any event.
Clear(t) ==
  /\ ClearsMaps
  /\ t \in Registrars /\ Idle(t)
  /\ cache' = <<>>
  /\ registry' = [c \in Countries |-> <<>>]
  /\ UNCHANGED <<file, status, refs, handle, outbox, observing, nested>>

ClearCache(t) ==
  /\ Idle(t)
  /\ cache' = <<>>
  /\ UNCHANGED <<file, status, refs, registry, handle, outbox, observing, nested>>

-----------------------------------------------------------------------------
(* Handles: GetMwmHandleById, GetMwmHandleByCountryFile, ~MwmHandle. *)

\* Mutant: LockValueImpl without its check of IsAlive().
LockValueOfAnyId(t, h, i) ==
  /\ MayUse(t, h) /\ handle[h] = NoInfo
  /\ i \in KnownIds(h)
  /\ refs' = [refs EXCEPT ![i] = @ + 1]
  /\ handle' = [handle EXCEPT ![h] = i]
  /\ cache' = RemoveFirst(cache, i)
  /\ UNCHANGED <<file, status, registry, outbox, observing, nested>>

\* A marked map can still be locked.  A cached value is reused, else one is
\* created.  (With too many open files the call leaves everything as it was.)
LockValue(t, h, i) ==
  /\ MayUse(t, h) /\ handle[h] = NoInfo
  /\ i \in KnownIds(h) /\ Alive(i)
  /\ refs' = [refs EXCEPT ![i] = @ + 1]
  /\ handle' = [handle EXCEPT ![h] = i]
  /\ cache' = RemoveFirst(cache, i)
  /\ UNCHANGED <<file, status, registry, outbox, observing, nested>>

\* Mutant: the exception path forgets --m_numRefs.
LockValueThrowsLeaking(t, h, i) ==
  /\ MayUse(t, h) /\ handle[h] = NoInfo
  /\ i \in KnownIds(h) /\ Alive(i)
  /\ ~Contains(cache, i)
  /\ refs' = [refs EXCEPT ![i] = @ + 1]
  /\ status' = [status EXCEPT ![i] = DeregisteredStatus(refs[i] + 1)]
  /\ registry' = WithoutInfo(i, refs[i] + 1)
  /\ cache' = WithoutCached(i, refs[i] + 1)
  /\ Emit(t, DeregisterEvents(i, refs[i] + 1))
  /\ UNCHANGED <<file, handle, observing>>

\* CreateValue throws: the file is bad, the map is deregistered.
LockValueThrows(t, h, i) ==
  /\ MayUse(t, h) /\ handle[h] = NoInfo
  /\ i \in KnownIds(h) /\ Alive(i)
  /\ ~Contains(cache, i)
  /\ status' = [status EXCEPT ![i] = DeregisteredStatus(refs[i])]
  /\ registry' = WithoutInfo(i, refs[i])
  /\ cache' = WithoutCached(i, refs[i])
  /\ Emit(t, DeregisterEvents(i, refs[i]))
  /\ UNCHANGED <<file, refs, handle, observing>>

\* The value of an up-to-date map goes to the cache, the oldest one makes room.
Cached(i) ==
  LET pushed == Append(cache, i)
  IN  IF Len(pushed) > CacheSize THEN Tail(pushed) ELSE pushed

IsLastOfMarked(i) == refs[i] = 1 /\ status[i] = "marked"

UnlockValue(t, h) ==
  LET i == handle[h] IN
  /\ MayUse(t, h) /\ i # NoInfo
  /\ ~IsLastOfMarked(i)
  /\ refs' = [refs EXCEPT ![i] = @ - 1]
  /\ handle' = [handle EXCEPT ![h] = NoInfo]
  /\ cache' = IF status[i] = "registered" THEN Cached(i) ELSE cache
  /\ UNCHANGED <<file, status, registry, outbox, observing, nested>>

UnlockLastOfMarked(t, h) ==
  LET i == handle[h] IN
  /\ MayUse(t, h) /\ i # NoInfo
  /\ IsLastOfMarked(i)
  /\ refs' = [refs EXCEPT ![i] = @ - 1]
  /\ handle' = [handle EXCEPT ![h] = NoInfo]
  /\ status' = [status EXCEPT ![i] = DeregisteredStatus(refs[i] - 1)]
  /\ registry' = WithoutInfo(i, refs[i] - 1)
  /\ cache' = WithoutCached(i, refs[i] - 1)
  /\ Emit(t, DeregisterEvents(i, refs[i] - 1))
  /\ UNCHANGED <<file, observing>>

-----------------------------------------------------------------------------
(* ProcessEventList and ObserverList::ForEach. *)

BeginNotify(t) ==
  /\ outbox[t] # <<>> /\ observing = NoThread
  /\ observing' = t
  /\ UNCHANGED <<file, status, refs, registry, cache, handle, outbox, nested>>

\* Mutant: the observers' mutex is not released.
EndNotifyLocked(t) ==
  /\ observing = t /\ nested = <<>> /\ handle[Guard] = NoInfo
  /\ outbox' = [outbox EXCEPT ![t] = Tail(@)]
  /\ UNCHANGED <<file, status, refs, registry, cache, handle, observing, nested>>

\* A thread with nested events waits for the mutex it holds itself.
EndNotify(t) ==
  /\ observing = t /\ nested = <<>> /\ handle[Guard] = NoInfo
  /\ observing' = NoThread
  /\ outbox' = [outbox EXCEPT ![t] = Tail(@)]
  /\ UNCHANGED <<file, status, refs, registry, cache, handle, nested>>

-----------------------------------------------------------------------------
Init ==
  /\ file = [i \in Infos |-> NoFile]
  /\ status = [i \in Infos |-> "deregistered"]
  /\ refs = [i \in Infos |-> 0]
  /\ registry = [c \in Countries |-> <<>>]
  /\ cache = <<>>
  /\ handle = [h \in Slots |-> NoInfo]
  /\ outbox = [t \in Threads |-> <<>>]
  /\ observing = NoThread
  /\ nested = <<>>

Register(t) ==
  \E f \in File : \/ \E new \in Infos : RegisterFirst(t, f, new) \/ RegisterNewer(t, f, new)
                  \/ RegisterNewerThrows(t, f)
                  \/ RegisterSame(t, f)

UseHandle(t) ==
  \E h \in Slots : \/ \E i \in Infos : LockValue(t, h, i) \/ LockValueThrows(t, h, i)
                   \/ UnlockValue(t, h)
                   \/ UnlockLastOfMarked(t, h)

Notify(t) == BeginNotify(t) \/ EndNotify(t)

Next ==
  \E t \in Threads : \/ Register(t)
                     \/ \E c \in Countries : Deregister(t, c)
                     \/ Clear(t)
                     \/ ClearCache(t)
                     \/ UseHandle(t)
                     \/ Notify(t)

Spec == Init /\ [][Next]_vars

-----------------------------------------------------------------------------
(* Properties. *)

\* Every variable but the cache has its type, and an observer is only ever
\* called for an event that waits for delivery.
TypeOK ==
  /\ file \in [Infos -> File \cup {NoFile}]
  /\ status \in [Infos -> {"registered", "marked", "deregistered"}]
  /\ refs \in [Infos -> Nat]
  /\ registry \in [Countries -> Seq(Infos)]
  /\ handle \in [Slots -> Infos \cup {NoInfo}]
  /\ outbox \in [Threads -> Seq(Event)]
  /\ observing \in Threads \cup {NoThread}
  /\ nested \in Seq(Event)
  /\ observing # NoThread => outbox[observing] # <<>>

\* The cache never outgrows m_cacheSize: ASSERT_EQUAL(m_cache.size(),
\* m_cacheSize + 1) holds whenever UnlockValueImpl evicts.
CacheBounded == cache \in Seq(Infos) /\ Len(cache) <= CacheSize

Holders(i) == {h \in Slots : handle[h] = i}

\* m_numRefs of a map is the number of live handles to it, through every
\* failing lock, upgrade, resurrection and Clear (LockValueImpl, UnlockValueImpl).
RefsMatchHandles == \A i \in Infos : refs[i] = Cardinality(Holders(i))

\* A map in use is never deregistered under its user: the assertion
\* id.IsAlive() that UnlockValueImpl starts with.
HeldMapsAreAlive == \A h \in Slots : handle[h] # NoInfo => Alive(handle[h])

\* An MwmInfo that was not created yet is as its constructor leaves it.
FreshInfosAreUnused == \A i \in Infos : file[i] = NoFile => ~Alive(i)

\* A map waits for deregistration only as long as somebody uses it: nobody
\* else would ever complete DeregisterImpl.
MarkedMapsAreHeld == \A i \in Infos : status[i] = "marked" => refs[i] > 0

\* In m_info[c] the versions strictly increase, every info is alive and of
\* country c, and only the last may be registered: back() is the map to use.
RegistryOrdered ==
  \A c \in Countries :
    /\ \A k \in DOMAIN registry[c] : /\ file[registry[c][k]] # NoFile
                                     /\ file[registry[c][k]].name = c
                                     /\ Alive(registry[c][k])
    /\ \A j, k \in DOMAIN registry[c] :
         j < k => /\ file[registry[c][j]].version < file[registry[c][k]].version
                  /\ status[registry[c][j]] = "marked"

\* Unless Clear() is used, no alive map drops out of m_info, where alone
\* Deregister and Register find it.
AliveMapsAreListed ==
  ~ClearsMaps => \A i \in Infos : Alive(i) => Contains(registry[file[i].name], i)

\* A deregistered MwmInfo is never used again: a stale MwmId that a client
\* kept can never come to denote another or a revived map.
DeregisteredForGood ==
  [][\A i \in Infos : file[i] # NoFile /\ ~Alive(i) =>
       ~Alive(i)' /\ file'[i] = file[i] /\ refs'[i] = refs[i]]_vars

-----------------------------------------------------------------------------
(* What the comments of mwm_set.hpp promise and the code does not keep.    *)

\* "Called when a map is deregistered and can no longer be used": when the
\* observers hear that a file is gone, no registered map uses this file.
GoneMapsAreUnusable ==
  [][\A t \in Threads :
       BeginNotify(t) /\ Head(outbox[t]).type = "deregistered" =>
         \A i \in Infos : file[i] = Head(outbox[t]).file => status[i] # "registered"]_vars

\* "Called when a map is deregistered": the call that deregisters a map leaves
\* an event to deliver.
DeregistrationIsAnnounced ==
  [][\A i \in Infos : Alive(i) /\ ~Alive(i)' =>
       LET event == [type |-> "deregistered", file |-> file[i]]
       IN  Contains(nested', event) \/ \E t \in Threads : Contains(outbox'[t], event)]_vars

\* "send them to observers without |m_lock| protection", since calling user
\* functions under a lock "may lead to deadlocks": a thread inside an observer
\* never has to wait for the observers' mutex it holds.
ObserversMayUseTheSet == nested = <<>>

\* "Deregisters a map from internal records": no value of a deregistered map
\* stays in the cache.
CachedMapsAreAlive == \A k \in DOMAIN cache : Alive(cache[k])
=============================================================================
