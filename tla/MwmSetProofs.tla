---------------------------- MODULE MwmSetProofs ----------------------------
(***************************************************************************)
(* What holds of the map registry for any countries, versions, threads and *)
(* handles: the module proves the invariants of MwmSet and two properties  *)
(* that rest on them.                                                      *)
(*                                                                         *)
(* No invariant of MwmSet is inductive alone, so IInv takes them together. *)
(* An unlock may decrement because the count is that of the handles, which *)
(* needs RefsMatchHandles.  The map it deregisters is in the registry as   *)
(* an alive one, which needs HeldMapsAreAlive.  Register and Deregister    *)
(* work on the last map of a list, which is alive and of the right country *)
(* by RegistryOrdered.  FreshInfosAreUnused says that the info a Register  *)
(* takes from the pool is in no list and held by nobody.                   *)
(*                                                                         *)
(* The cache is left out: Remove is a SelectSeq, which the prover does not *)
(* expand.  No guard reads the cache but that of LockValueThrows, so       *)
(* nothing below depends on it.                                            *)
(***************************************************************************)
EXTENDS MwmSet, FiniteSetTheorems, TLAPS

\* w is s without its p-th element, the rest shifted one place down.
Shifted(w, s, p) ==
  /\ Len(w) = Len(s) - 1
  /\ \A k \in 1..(Len(s) - 1) : w[k] = IF k < p THEN s[k] ELSE s[k + 1]

\* Erasing an info from a sequence that holds it.
LEMMA WithoutShifts ==
  ASSUME NEW S, NEW s \in Seq(S), NEW i, Contains(s, i)
  PROVE  \E p \in 1..Len(s) :
           s[p] = i /\ Without(s, i) \in Seq(S) /\ Shifted(Without(s, i), s, p)
<1>1. PICK p \in 1..Len(s) :
        s[p] = i /\ Without(s, i) = SubSeq(s, 1, p - 1) \o SubSeq(s, p + 1, Len(s))
  BY DEF Contains, Without, RemoveAt
<1> DEFINE before == SubSeq(s, 1, p - 1)
           after == SubSeq(s, p + 1, Len(s))
<1>2. /\ before \in Seq(S) /\ Len(before) = p - 1
      /\ \A k \in 1..(p - 1) : before[k] = s[k]
  OBVIOUS
<1>3. /\ after \in Seq(S) /\ Len(after) = Len(s) - p
      /\ \A k \in 1..(Len(s) - p) : after[k] = s[p + k]
  OBVIOUS
<1>4. Without(s, i) = before \o after
  BY <1>1
<1> HIDE DEF before, after
<1>5. Without(s, i) \in Seq(S) /\ Len(Without(s, i)) = Len(s) - 1
  BY <1>4, <1>2, <1>3
<1>6. ASSUME NEW k \in 1..(Len(s) - 1)
      PROVE  Without(s, i)[k] = IF k < p THEN s[k] ELSE s[k + 1]
  <2>1. Without(s, i)[k] = IF k < p THEN before[k] ELSE after[k - p + 1]
    BY <1>4, <1>2, <1>3
  <2>2. CASE k < p
    BY <2>1, <2>2, <1>2
  <2>3. CASE ~(k < p)
    <3>1. k - p + 1 \in 1..(Len(s) - p) /\ p + (k - p + 1) = k + 1
      BY <2>3
    <3> QED BY <2>1, <2>3, <3>1, <1>3
  <2> QED BY <2>2, <2>3
<1>7. Shifted(Without(s, i), s, p)
  BY <1>5, <1>6 DEF Shifted
<1> QED
  BY <1>1, <1>5, <1>7

\* Erasing keeps the type of a sequence.
LEMMA WithoutType ==
  ASSUME NEW S, NEW s \in Seq(S), NEW i
  PROVE  Without(s, i) \in Seq(S)
BY WithoutShifts DEF Without

-----------------------------------------------------------------------------
(* The inductive invariant: none of its parts is inductive alone.          *)

IInv ==
  /\ TypeOK
  /\ FreshInfosAreUnused
  /\ RefsMatchHandles
  /\ HeldMapsAreAlive
  /\ MarkedMapsAreHeld
  /\ RegistryOrdered

\* The map that the registry returns for a country is one of this country.
LEMMA NewestIsListed ==
  ASSUME TypeOK, RegistryOrdered, NEW c \in Countries, Newest(c) # NoInfo
  PROVE  /\ Newest(c) \in Infos /\ Alive(Newest(c))
         /\ file[Newest(c)] \in File /\ file[Newest(c)].name = c
         /\ Len(registry[c]) \in 1..Len(registry[c])
         /\ Newest(c) = registry[c][Len(registry[c])]
<1>1. registry[c] \in Seq(Infos) /\ registry[c] # <<>>
  BY DEF TypeOK, Newest
<1>2. Len(registry[c]) \in 1..Len(registry[c]) /\ Newest(c) = registry[c][Len(registry[c])]
  BY <1>1 DEF Newest, Last
<1>3. Newest(c) \in Infos
  BY <1>1, <1>2
<1> QED
  BY <1>1, <1>2, <1>3 DEF RegistryOrdered, TypeOK

\* An alive map is one that was created.
LEMMA AliveIsCreated ==
  ASSUME TypeOK, FreshInfosAreUnused, NEW i \in Infos, Alive(i)
  PROVE  file[i] \in File
BY DEF TypeOK, FreshInfosAreUnused

\* Queuing the events of a call keeps the queues well-typed.
LEMMA EmitType ==
  ASSUME TypeOK, NEW t \in Threads, NEW events \in Seq(Event), Emit(t, events),
         UNCHANGED observing
  PROVE  /\ outbox' \in [Threads -> Seq(Event)]
         /\ nested' \in Seq(Event)
         /\ (observing # NoThread => outbox[observing] # <<>>)'
<1>1. CASE observing = t
  <2>1. nested' = nested \o events /\ outbox' = outbox
    BY <1>1 DEF Emit
  <2>2. nested \o events \in Seq(Event)
    BY DEF TypeOK
  <2> QED BY <2>1, <2>2 DEF TypeOK
<1>2. CASE observing # t
  <2>1. outbox' = [outbox EXCEPT ![t] = @ \o events] /\ nested' = nested
    BY <1>2 DEF Emit
  <2>2. outbox[t] \o events \in Seq(Event)
    BY DEF TypeOK
  <2>3. observing # NoThread => outbox'[observing] = outbox[observing]
    BY <1>2, <2>1 DEF TypeOK
  <2> QED BY <2>1, <2>2, <2>3 DEF TypeOK
<1> QED BY <1>1, <1>2

\* The event lists that the calls produce.
LEMMA EventAnnounced ==
  ASSUME NEW f \in File, NEW type \in {"registered", "deregistered"}
  PROVE  Announce(type, f) \in Seq(Event)
<1> DEFINE event == [type |-> type, file |-> f]
<1>1. event \in Event
  BY DEF Event
<1> HIDE DEF event
<1>2. <<event>> \in Seq(Event)
  BY <1>1
<1> QED BY <1>2 DEF Announce, event

\* The events of deregistering a map, with or without those of its successor.
LEMMA EventTypes ==
  ASSUME TypeOK, NEW i \in Infos, file[i] \in File, NEW n
  PROVE  /\ DeregisterEvents(i, n) \in Seq(Event)
         /\ \A f \in File : DeregisterEvents(i, n) \o Announce("registered", f) \in Seq(Event)
<1>1. DeregisterEvents(i, n) \in Seq(Event)
  BY EventAnnounced DEF DeregisterEvents
<1>2. \A f \in File : Announce("registered", f) \in Seq(Event)
  BY EventAnnounced
<1> QED BY <1>1, <1>2

\* Taking a map out of the registry keeps it a table of sequences.
LEMMA WithoutInfoType ==
  ASSUME TypeOK, NEW i \in Infos, file[i] \in File, NEW n
  PROVE  WithoutInfo(i, n) \in [Countries -> Seq(Infos)]
<1>1. file[i].name \in Countries
  BY DEF File
<1>2. Without(registry[file[i].name], i) \in Seq(Infos)
  BY <1>1, WithoutType DEF TypeOK
<1> QED BY <1>1, <1>2 DEF WithoutInfo, TypeOK

\* The holders of a map can be counted, and a map in use has a positive count.
LEMMA HoldersFinite ==
  ASSUME NEW i
  PROVE  IsFiniteSet(Holders(i)) /\ IsFiniteSet(Slots)
<1>1. IsFiniteSet(Slots)
  BY PoolAssumption, FS_AddElement DEF Slots
<1>2. Holders(i) \subseteq Slots
  BY DEF Holders
<1> QED BY <1>1, <1>2, FS_Subset

\* A handle is counted by the map it holds, so dropping it cannot underflow.
LEMMA HeldIsCounted ==
  ASSUME TypeOK, RefsMatchHandles, NEW h \in Slots, handle[h] # NoInfo
  PROVE  handle[h] \in Infos /\ refs[handle[h]] \in Nat \ {0}
<1>1. handle[h] \in Infos
  BY DEF TypeOK
<1>2. h \in Holders(handle[h])
  BY DEF Holders
<1>3. Cardinality(Holders(handle[h])) # 0
  BY <1>2, HoldersFinite, FS_EmptySet
<1> QED BY <1>1, <1>3 DEF RefsMatchHandles, TypeOK

-----------------------------------------------------------------------------
(* TypeOK. *)

\* No call and no notification breaks the types.
LEMMA TypeStep ==
  ASSUME IInv, [Next]_vars
  PROVE  TypeOK'
<1> USE DEF IInv
<1>1. ASSUME NEW t \in Threads, NEW f \in File, NEW new \in Infos, RegisterFirst(t, f, new)
      PROVE  TypeOK'
  <2>1. f.name \in Countries
    BY DEF File
  <2>2. Announce("registered", f) \in Seq(Event)
    BY EventAnnounced
  <2>3. registry' \in [Countries -> Seq(Infos)]
    BY <1>1, <2>1 DEF RegisterFirst, TypeOK
  <2>4. Emit(t, Announce("registered", f)) /\ UNCHANGED observing
    BY <1>1 DEF RegisterFirst
  <2> QED BY <1>1, <2>2, <2>3, <2>4, EmitType DEF RegisterFirst, TypeOK
<1>2. ASSUME NEW t \in Threads, NEW f \in File, NEW new \in Infos, RegisterNewer(t, f, new)
      PROVE  TypeOK'
  <2> DEFINE old == Newest(f.name)
  <2>1. f.name \in Countries /\ old # NoInfo
    BY <1>2 DEF File, RegisterNewer, HasMap
  <2>2. old \in Infos /\ file[old] \in File
    BY <2>1, NewestIsListed
  <2> DEFINE events == DeregisterEvents(old, refs[old]) \o Announce("registered", f)
  <2>3. Emit(t, events) /\ UNCHANGED observing
    BY <1>2 DEF RegisterNewer
  <2>4. events \in Seq(Event)
    BY <2>2, EventTypes
  <2>5. WithoutInfo(old, refs[old]) \in [Countries -> Seq(Infos)]
    BY <2>2, WithoutInfoType
  <2>6. registry' \in [Countries -> Seq(Infos)]
    BY <1>2, <2>1, <2>5 DEF RegisterNewer
  <2>7. /\ outbox' \in [Threads -> Seq(Event)] /\ nested' \in Seq(Event)
        /\ (observing # NoThread => outbox[observing] # <<>>)'
    BY <2>3, <2>4, EmitType
  <2>8. status' \in [Infos -> {"registered", "marked", "deregistered"}]
    BY <1>2, <2>2 DEF RegisterNewer, TypeOK, DeregisteredStatus
  <2> QED BY <1>2, <2>6, <2>7, <2>8 DEF RegisterNewer, TypeOK
<1>3. ASSUME NEW t \in Threads, NEW f \in File, RegisterNewerThrows(t, f)
      PROVE  TypeOK'
  <2> DEFINE old == Newest(f.name)
  <2>1. f.name \in Countries /\ old # NoInfo
    BY <1>3 DEF File, RegisterNewerThrows, HasMap
  <2>2. old \in Infos /\ file[old] \in File
    BY <2>1, NewestIsListed
  <2>3. registry' \in [Countries -> Seq(Infos)]
    BY <1>3, <2>2, WithoutInfoType DEF RegisterNewerThrows
  <2>4. status' \in [Infos -> {"registered", "marked", "deregistered"}]
    BY <1>3, <2>2 DEF RegisterNewerThrows, TypeOK, DeregisteredStatus
  <2> QED BY <1>3, <2>3, <2>4 DEF RegisterNewerThrows, TypeOK
<1>4. ASSUME NEW t \in Threads, NEW f \in File, RegisterSame(t, f)
      PROVE  TypeOK'
  <2> DEFINE old == Newest(f.name)
             events == IF status[old] = "registered" THEN <<>> ELSE Announce("registered", f)
  <2>1. Emit(t, events) /\ UNCHANGED observing
    BY <1>4 DEF RegisterSame
  <2>2. events \in Seq(Event)
    BY EventAnnounced
  <2>3. /\ outbox' \in [Threads -> Seq(Event)] /\ nested' \in Seq(Event)
        /\ (observing # NoThread => outbox[observing] # <<>>)'
    BY <2>1, <2>2, EmitType
  <2> QED BY <1>4, <2>3 DEF RegisterSame, TypeOK
<1>5. ASSUME NEW t \in Threads, NEW c \in Countries, Deregister(t, c)
      PROVE  TypeOK'
  <2> DEFINE old == Newest(c)
  <2>1. old \in Infos /\ file[old] \in File
    BY <1>5, NewestIsListed DEF Deregister, HasMap
  <2>2. registry' \in [Countries -> Seq(Infos)]
    BY <1>5, <2>1, WithoutInfoType DEF Deregister
  <2>3. Emit(t, DeregisterEvents(old, refs[old])) /\ UNCHANGED observing
    BY <1>5 DEF Deregister
  <2>4. /\ outbox' \in [Threads -> Seq(Event)] /\ nested' \in Seq(Event)
        /\ (observing # NoThread => outbox[observing] # <<>>)'
    BY <2>1, <2>3, EventTypes, EmitType
  <2>5. status' \in [Infos -> {"registered", "marked", "deregistered"}]
    BY <1>5, <2>1 DEF Deregister, TypeOK, DeregisteredStatus
  <2> QED BY <1>5, <2>2, <2>4, <2>5 DEF Deregister, TypeOK
<1>6. ASSUME NEW t \in Threads, Clear(t)
      PROVE  TypeOK'
  <2>1. registry' \in [Countries -> Seq(Infos)]
    BY <1>6 DEF Clear
  <2> QED BY <1>6, <2>1 DEF Clear, TypeOK
<1>7. ASSUME NEW t \in Threads, ClearCache(t)
      PROVE  TypeOK'
  BY <1>7 DEF ClearCache, TypeOK
<1>8. ASSUME NEW t \in Threads, NEW h \in Slots, NEW i \in Infos, LockValue(t, h, i)
      PROVE  TypeOK'
  BY <1>8 DEF LockValue, TypeOK
<1>9. ASSUME NEW t \in Threads, NEW h \in Slots, NEW i \in Infos, LockValueThrows(t, h, i)
      PROVE  TypeOK'
  <2>1. file[i] \in File
    BY <1>9, AliveIsCreated DEF LockValueThrows
  <2>2. registry' \in [Countries -> Seq(Infos)]
    BY <1>9, <2>1, WithoutInfoType DEF LockValueThrows
  <2>3. Emit(t, DeregisterEvents(i, refs[i])) /\ UNCHANGED observing
    BY <1>9 DEF LockValueThrows
  <2>4. /\ outbox' \in [Threads -> Seq(Event)] /\ nested' \in Seq(Event)
        /\ (observing # NoThread => outbox[observing] # <<>>)'
    BY <2>1, <2>3, EventTypes, EmitType
  <2>5. status' \in [Infos -> {"registered", "marked", "deregistered"}]
    BY <1>9 DEF LockValueThrows, TypeOK, DeregisteredStatus
  <2> QED BY <1>9, <2>2, <2>4, <2>5 DEF LockValueThrows, TypeOK
<1>10. ASSUME NEW t \in Threads, NEW h \in Slots, UnlockValue(t, h)
       PROVE  TypeOK'
  <2>1. handle[h] \in Infos /\ refs[handle[h]] \in Nat \ {0}
    BY <1>10, HeldIsCounted DEF UnlockValue
  <2> QED BY <1>10, <2>1 DEF UnlockValue, TypeOK
<1>11. ASSUME NEW t \in Threads, NEW h \in Slots, UnlockLastOfMarked(t, h)
       PROVE  TypeOK'
  <2> DEFINE i == handle[h]
  <2>1. i \in Infos /\ refs[i] \in Nat \ {0} /\ Alive(i)
    BY <1>11, HeldIsCounted DEF UnlockLastOfMarked, HeldMapsAreAlive
  <2>2. file[i] \in File
    BY <2>1, AliveIsCreated
  <2>3. registry' \in [Countries -> Seq(Infos)]
    BY <1>11, <2>1, <2>2, WithoutInfoType DEF UnlockLastOfMarked
  <2>4. Emit(t, DeregisterEvents(i, refs[i] - 1)) /\ UNCHANGED observing
    BY <1>11 DEF UnlockLastOfMarked
  <2>5. /\ outbox' \in [Threads -> Seq(Event)] /\ nested' \in Seq(Event)
        /\ (observing # NoThread => outbox[observing] # <<>>)'
    BY <2>1, <2>2, <2>4, EventTypes, EmitType
  <2>6. status' \in [Infos -> {"registered", "marked", "deregistered"}]
    BY <1>11, <2>1 DEF UnlockLastOfMarked, TypeOK, DeregisteredStatus
  <2> QED BY <1>11, <2>1, <2>3, <2>5, <2>6 DEF UnlockLastOfMarked, TypeOK
<1>12. ASSUME NEW t \in Threads, BeginNotify(t)
       PROVE  TypeOK'
  BY <1>12 DEF BeginNotify, TypeOK
<1>13. ASSUME NEW t \in Threads, EndNotify(t)
       PROVE  TypeOK'
  <2>1. outbox[t] \in Seq(Event) /\ outbox[t] # <<>>
    BY <1>13, ThreadsAssumption DEF EndNotify, TypeOK
  <2>2. Tail(outbox[t]) \in Seq(Event)
    BY <2>1
  <2> QED BY <1>13, <2>2 DEF EndNotify, TypeOK
<1>14. ASSUME UNCHANGED vars
       PROVE  TypeOK'
  BY <1>14 DEF vars, TypeOK
<1> QED
  BY <1>1, <1>2, <1>3, <1>4, <1>5, <1>6, <1>7, <1>8, <1>9, <1>10, <1>11, <1>12, <1>13, <1>14
     DEF Next, Register, UseHandle, Notify

-----------------------------------------------------------------------------
(* RefsMatchHandles. *)

\* A call that touches neither handles nor counts changes no holders.
LEMMA SameHolders ==
  ASSUME RefsMatchHandles, UNCHANGED <<refs, handle>>
  PROVE  RefsMatchHandles'
BY DEF RefsMatchHandles, Holders

\* Dropping a handle takes one from the count of its map.
LEMMA UnlockCounts ==
  ASSUME TypeOK, RefsMatchHandles, NEW h \in Slots, handle[h] # NoInfo,
         refs' = [refs EXCEPT ![handle[h]] = @ - 1],
         handle' = [handle EXCEPT ![h] = NoInfo]
  PROVE  RefsMatchHandles'
<1> SUFFICES ASSUME NEW i \in Infos
             PROVE  refs'[i] = Cardinality(Holders(i)')
  BY DEF RefsMatchHandles
<1>1. refs[i] = Cardinality(Holders(i)) /\ IsFiniteSet(Holders(i))
  BY HoldersFinite DEF RefsMatchHandles
<1>2. CASE i = handle[h]
  <2>1. Holders(i)' = Holders(i) \ {h} /\ h \in Holders(i)
    BY <1>2, NullAssumption DEF Holders, TypeOK
  <2> QED BY <1>1, <1>2, <2>1, FS_RemoveElement DEF TypeOK
<1>3. CASE i # handle[h]
  <2>1. Holders(i)' = Holders(i)
    BY <1>3, NullAssumption DEF Holders, TypeOK
  <2> QED BY <1>1, <1>3, <2>1 DEF TypeOK
<1> QED BY <1>2, <1>3

\* Taking a handle adds one to the count of its map.
LEMMA LockCounts ==
  ASSUME TypeOK, RefsMatchHandles, NEW h \in Slots, handle[h] = NoInfo, NEW j \in Infos,
         refs' = [refs EXCEPT ![j] = @ + 1],
         handle' = [handle EXCEPT ![h] = j]
  PROVE  RefsMatchHandles'
<1> SUFFICES ASSUME NEW i \in Infos
             PROVE  refs'[i] = Cardinality(Holders(i)')
  BY DEF RefsMatchHandles
<1>1. refs[i] = Cardinality(Holders(i)) /\ IsFiniteSet(Holders(i))
  BY HoldersFinite DEF RefsMatchHandles
<1>2. CASE i = j
  <2>1. Holders(i)' = Holders(i) \cup {h} /\ h \notin Holders(i)
    BY <1>2, NullAssumption DEF Holders, TypeOK
  <2>2. Cardinality(Holders(i) \cup {h}) = Cardinality(Holders(i)) + 1
    BY <1>1, <2>1, FS_AddElement
  <2>3. refs'[i] = refs[i] + 1
    BY <1>2 DEF TypeOK
  <2> QED BY <1>1, <2>1, <2>2, <2>3
<1>3. CASE i # j
  <2>1. Holders(i)' = Holders(i)
    BY <1>3, NullAssumption DEF Holders, TypeOK
  <2> QED BY <1>1, <1>3, <2>1 DEF TypeOK
<1> QED BY <1>2, <1>3

\* Only taking and dropping a handle changes counts, and both change one by one.
LEMMA CountStep ==
  ASSUME IInv, [Next]_vars
  PROVE  RefsMatchHandles'
<1> USE DEF IInv
<1>1. ASSUME NEW t \in Threads, NEW h \in Slots, NEW i \in Infos, LockValue(t, h, i)
      PROVE  RefsMatchHandles'
  BY <1>1, LockCounts DEF LockValue
<1>2. ASSUME NEW t \in Threads, NEW h \in Slots,
             UnlockValue(t, h) \/ UnlockLastOfMarked(t, h)
      PROVE  RefsMatchHandles'
  BY <1>2, UnlockCounts DEF UnlockValue, UnlockLastOfMarked
<1>3. UNCHANGED <<refs, handle>> => RefsMatchHandles'
  BY SameHolders
<1> QED
  BY <1>1, <1>2, <1>3
     DEF Next, Register, UseHandle, Notify, RegisterFirst, RegisterNewer, RegisterNewerThrows,
         RegisterSame, Deregister, Clear, ClearCache, LockValueThrows, BeginNotify, EndNotify, vars

-----------------------------------------------------------------------------
(* HeldMapsAreAlive, MarkedMapsAreHeld, FreshInfosAreUnused: one statement  *)
(* about each map.                                                         *)

\* The three conditions on a single map: fresh ones are dead, held ones are
\* alive, marked ones are counted.
MapOK(i) ==
  /\ file[i] = NoFile => ~Alive(i)
  /\ refs[i] > 0 => Alive(i)
  /\ status[i] = "marked" => refs[i] > 0

\* With exact counts, a map is held if and only if its count is positive.
LEMMA MapsOKMeaning ==
  ASSUME TypeOK, RefsMatchHandles
  PROVE  (\A i \in Infos : MapOK(i)) <=>
           FreshInfosAreUnused /\ HeldMapsAreAlive /\ MarkedMapsAreHeld
<1>1. ASSUME NEW i \in Infos
      PROVE  refs[i] > 0 <=> \E h \in Slots : handle[h] = i
  <2>1. refs[i] \in Nat /\ (refs[i] = 0 <=> Holders(i) = {})
    BY HoldersFinite, FS_EmptySet DEF RefsMatchHandles, TypeOK
  <2> QED BY <2>1 DEF Holders
<1>2. \A h \in Slots : handle[h] # NoInfo => handle[h] \in Infos
  BY DEF TypeOK
<1> QED
  BY <1>1, <1>2, NullAssumption
     DEF MapOK, FreshInfosAreUnused, HeldMapsAreAlive, MarkedMapsAreHeld

\* A map that changes its status through DeregisterImpl stays well.
LEMMA StatusStep ==
  ASSUME IInv, [Next]_vars, NEW i \in Infos
  PROVE  MapOK(i)'
<1> USE DEF IInv
<1>0. MapOK(i) /\ refs[i] \in Nat
  BY MapsOKMeaning DEF TypeOK
<1>1. ASSUME NEW old \in Infos, refs' = refs, file' = file, Alive(old),
             status' = [status EXCEPT ![old] = DeregisteredStatus(refs[old])]
      PROVE  MapOK(i)'
  BY <1>0, <1>1 DEF MapOK, Alive, DeregisteredStatus, TypeOK
<1>2. ASSUME NEW t \in Threads, NEW f \in File, NEW new \in Infos, RegisterFirst(t, f, new)
      PROVE  MapOK(i)'
  BY <1>0, <1>2, FileAssumption DEF RegisterFirst, MapOK, Alive, TypeOK, File
<1>3. ASSUME NEW t \in Threads, NEW f \in File, NEW new \in Infos, RegisterNewer(t, f, new)
      PROVE  MapOK(i)'
  <2> DEFINE old == Newest(f.name)
  <2>1. old \in Infos /\ file[old] \in File /\ Alive(old)
    BY <1>3, NewestIsListed DEF RegisterNewer, HasMap, File
  <2>2. old # new
    BY <1>3, <2>1, FileAssumption DEF RegisterNewer, File
  <2>3. /\ file' = [file EXCEPT ![new] = f] /\ refs' = refs
        /\ status' = [status EXCEPT ![old] = DeregisteredStatus(refs[old]), ![new] = "registered"]
    BY <1>3 DEF RegisterNewer
  <2> HIDE DEF old
  <2>4. CASE i = new
    BY <1>0, <2>1, <2>2, <2>3, <2>4, FileAssumption DEF MapOK, Alive, TypeOK, File
  <2>5. CASE i # new
    BY <1>0, <2>1, <2>2, <2>3, <2>5 DEF MapOK, Alive, TypeOK, DeregisteredStatus
  <2> QED BY <2>4, <2>5
<1>4. ASSUME NEW t \in Threads, NEW f \in File, RegisterNewerThrows(t, f)
      PROVE  MapOK(i)'
  BY <1>1, <1>4, NewestIsListed DEF RegisterNewerThrows, HasMap, File
<1>5. ASSUME NEW t \in Threads, NEW f \in File, RegisterSame(t, f)
      PROVE  MapOK(i)'
  <2>1. file[Newest(f.name)] \in File /\ Newest(f.name) \in Infos
    BY <1>5, NewestIsListed DEF RegisterSame, HasMap, File
  <2> QED BY <1>0, <1>5, <2>1, FileAssumption DEF RegisterSame, MapOK, Alive, TypeOK, File
<1>6. ASSUME NEW t \in Threads, NEW c \in Countries, Deregister(t, c)
      PROVE  MapOK(i)'
  BY <1>1, <1>6, NewestIsListed DEF Deregister, HasMap
<1>7. ASSUME NEW t \in Threads, NEW h \in Slots, NEW j \in Infos, LockValue(t, h, j)
      PROVE  MapOK(i)'
  BY <1>0, <1>7 DEF LockValue, MapOK, Alive, TypeOK
<1>8. ASSUME NEW t \in Threads, NEW h \in Slots, NEW j \in Infos, LockValueThrows(t, h, j)
      PROVE  MapOK(i)'
  BY <1>1, <1>8 DEF LockValueThrows
<1>9. ASSUME NEW t \in Threads, NEW h \in Slots, UnlockValue(t, h)
      PROVE  MapOK(i)'
  <2>1. handle[h] \in Infos /\ refs[handle[h]] \in Nat \ {0}
    BY <1>9, HeldIsCounted DEF UnlockValue
  <2> QED BY <1>0, <1>9, <2>1 DEF UnlockValue, IsLastOfMarked, MapOK, Alive, TypeOK
<1>10. ASSUME NEW t \in Threads, NEW h \in Slots, UnlockLastOfMarked(t, h)
       PROVE  MapOK(i)'
  BY <1>0, <1>10 DEF UnlockLastOfMarked, IsLastOfMarked, DeregisteredStatus, MapOK, Alive, TypeOK
<1>11. ASSUME UNCHANGED <<file, status, refs>>
       PROVE  MapOK(i)'
  BY <1>0, <1>11 DEF MapOK, Alive
<1> QED
  BY <1>2, <1>3, <1>4, <1>5, <1>6, <1>7, <1>8, <1>9, <1>10, <1>11
     DEF Next, Register, UseHandle, Notify, Clear, ClearCache, BeginNotify, EndNotify, vars

-----------------------------------------------------------------------------
(* RegistryOrdered. *)

\* RegistryOrdered for one country.
CountryOK(c) ==
  /\ \A k \in DOMAIN registry[c] : /\ file[registry[c][k]] # NoFile
                                   /\ file[registry[c][k]].name = c
                                   /\ Alive(registry[c][k])
  /\ \A j, k \in DOMAIN registry[c] :
       j < k => /\ file[registry[c][j]].version < file[registry[c][k]].version
                /\ status[registry[c][j]] = "marked"

\* RegistryOrdered speaks of each country on its own.
LEMMA CountriesOK == RegistryOrdered <=> \A c \in Countries : CountryOK(c)
BY DEF RegistryOrdered, CountryOK

\* The places and files of the maps of a country.
LEMMA ListedMaps ==
  ASSUME TypeOK, RegistryOrdered, NEW c \in Countries
  PROVE  /\ registry[c] \in Seq(Infos)
         /\ DOMAIN registry[c] = 1..Len(registry[c]) /\ Len(registry[c]) \in Nat
         /\ \A k \in 1..Len(registry[c]) : /\ registry[c][k] \in Infos
                                           /\ file[registry[c][k]] \in File
                                           /\ file[registry[c][k]].version \in Versions
                                           /\ file[registry[c][k]].name = c
         /\ \A j, k \in 1..Len(registry[c]) : j # k => registry[c][j] # registry[c][k]
<1>1. registry[c] \in Seq(Infos) /\ DOMAIN registry[c] = 1..Len(registry[c]) /\ Len(registry[c]) \in Nat
  BY DEF TypeOK
<1>2. ASSUME NEW k \in 1..Len(registry[c])
      PROVE  /\ registry[c][k] \in Infos /\ file[registry[c][k]] \in File
             /\ file[registry[c][k]].version \in Versions /\ file[registry[c][k]].name = c
  <2>1. registry[c][k] \in Infos
    BY <1>1
  <2>2. file[registry[c][k]] \in File /\ file[registry[c][k]].name = c
    BY <1>1, <2>1 DEF TypeOK, RegistryOrdered
  <2>3. file[registry[c][k]].version \in Versions
    BY <2>2 DEF File
  <2> QED BY <2>1, <2>2, <2>3
<1>3. \A j, k \in 1..Len(registry[c]) :
        j < k => file[registry[c][j]].version < file[registry[c][k]].version
  BY <1>1 DEF RegistryOrdered
<1>4. ASSUME NEW j \in 1..Len(registry[c]), NEW k \in 1..Len(registry[c]), j # k
      PROVE  registry[c][j] # registry[c][k]
  <2>1. j < k \/ k < j
    BY <1>1, <1>4
  <2>2. \A v \in Versions : ~(v < v)
    BY VersionsAssumption
  <2> QED BY <1>2, <1>3, <2>1, <2>2
<1> QED BY <1>1, <1>2, <1>4

\* What is left of a list when maps are erased from it: maps of the list, in
\* the same order.
Thinned(w, s) ==
  /\ w \in Seq(Infos) /\ DOMAIN w = 1..Len(w)
  /\ \A k \in 1..Len(w) : \E m \in 1..Len(s) : w[k] = s[m]
  /\ \A j, k \in 1..Len(w) :
       j < k => \E m, n \in 1..Len(s) : m < n /\ w[j] = s[m] /\ w[k] = s[n]

\* The sequence does not hold i.
Lacks(w, i) == \A k \in 1..Len(w) : w[k] # i

\* Erasing a map from an ordered list leaves an ordered list without it.
LEMMA WithoutKeepsOrder ==
  ASSUME TypeOK, RegistryOrdered, NEW c \in Countries, NEW i
  PROVE  Thinned(Without(registry[c], i), registry[c]) /\ Lacks(Without(registry[c], i), i)
<1> DEFINE s == registry[c]
           w == Without(s, i)
<1>1. /\ s \in Seq(Infos) /\ Len(s) \in Nat
      /\ \A j, k \in 1..Len(s) : j # k => s[j] # s[k]
  BY ListedMaps
<1>2. CASE Contains(s, i)
  <2> HIDE DEF s
  <2>1. PICK p \in 1..Len(s) :
          s[p] = i /\ w \in Seq(Infos) /\ Shifted(w, s, p)
    BY <1>1, <1>2, WithoutShifts
  <2> HIDE DEF w
  <2> DEFINE place(k) == IF k < p THEN k ELSE k + 1
  <2>2. ASSUME NEW k \in 1..Len(w)
        PROVE  place(k) \in 1..Len(s) /\ place(k) # p /\ w[k] = s[place(k)]
    <3>1. k \in 1..(Len(s) - 1) /\ Len(s) \in Nat
      BY <1>1, <2>1 DEF Shifted
    <3>2. w[k] = IF k < p THEN s[k] ELSE s[k + 1]
      BY <3>1, <2>1 DEF Shifted
    <3>3. CASE k < p
      BY <3>1, <3>2, <3>3
    <3>4. CASE ~(k < p)
      BY <3>1, <3>2, <3>4
    <3> QED BY <3>3, <3>4
  <2>3. \A j, k \in 1..Len(w) : j < k => place(j) < place(k)
    BY <1>1, <2>1
  <2>4. \A k \in 1..Len(w) : w[k] # i
    BY <1>1, <2>1, <2>2
  <2> HIDE DEF place
  <2>5. \A k \in 1..Len(w) : \E m \in 1..Len(s) : w[k] = s[m]
    BY <2>2
  <2>6. \A j, k \in 1..Len(w) :
          j < k => \E m, n \in 1..Len(s) : m < n /\ w[j] = s[m] /\ w[k] = s[n]
    BY <2>2, <2>3
  <2>7. Thinned(w, s) /\ Lacks(w, i)
    BY <2>1, <2>4, <2>5, <2>6 DEF Thinned, Lacks
  <2> QED BY <2>7 DEF s, w
<1>3. CASE ~Contains(s, i)
  <2>1. w = s /\ \A k \in 1..Len(s) : s[k] # i
    BY <1>1, <1>3 DEF Without, Contains
  <2> HIDE DEF s, w
  <2>2. Thinned(w, s) /\ Lacks(w, i)
    BY <1>1, <2>1 DEF Thinned, Lacks
  <2> QED BY <2>2 DEF s, w
<1> QED BY <1>2, <1>3

\* A new map goes last when all those before it are older and marked.
LEMMA AppendKeepsOrder ==
  ASSUME NEW c \in Countries, NEW s \in Seq(Infos), NEW new \in Infos,
         registry'[c] = Append(s, new),
         Alive(new)', file'[new] # NoFile, file'[new].name = c,
         \A k \in 1..Len(s) : /\ file'[s[k]] # NoFile /\ file'[s[k]].name = c
                              /\ status'[s[k]] = "marked"
                              /\ file'[s[k]].version < file'[new].version,
         \A j, k \in 1..Len(s) : j < k => file'[s[j]].version < file'[s[k]].version
  PROVE  CountryOK(c)'
<1> DEFINE w == registry'[c]
<1>1. /\ Len(s) \in Nat /\ DOMAIN w = 1..(Len(s) + 1) /\ w[Len(s) + 1] = new
      /\ \A k \in 1..Len(s) : w[k] = s[k]
  OBVIOUS
<1> HIDE DEF w
<1>2. ASSUME NEW k \in DOMAIN w
      PROVE  file'[w[k]] # NoFile /\ file'[w[k]].name = c /\ status'[w[k]] # "deregistered"
  <2>1. CASE k = Len(s) + 1
    BY <1>1, <2>1 DEF Alive
  <2>2. CASE k # Len(s) + 1
    <3>1. k \in 1..Len(s)
      BY <1>1, <2>2
    <3> QED BY <1>1, <3>1
  <2> QED BY <2>1, <2>2
<1>3. ASSUME NEW j \in DOMAIN w, NEW k \in DOMAIN w, j < k
      PROVE  file'[w[j]].version < file'[w[k]].version /\ status'[w[j]] = "marked"
  <2>1. j \in 1..Len(s)
    BY <1>1, <1>3
  <2>2. CASE k = Len(s) + 1
    BY <1>1, <2>1, <2>2
  <2>3. CASE k # Len(s) + 1
    <3>1. k \in 1..Len(s)
      BY <1>1, <2>3
    <3> QED BY <1>1, <1>3, <2>1, <3>1
  <2> QED BY <2>2, <2>3
<1> QED BY <1>2, <1>3 DEF CountryOK, Alive, w

\* DeregisterImpl, whether it erases the map or marks it.
LEMMA DeregisterKeepsOrder ==
  ASSUME TypeOK, RegistryOrdered, NEW i \in Infos, file[i] \in File, NEW n, file' = file,
         status' = [status EXCEPT ![i] = DeregisteredStatus(n)],
         registry' = WithoutInfo(i, n)
  PROVE  RegistryOrdered'
<1> SUFFICES ASSUME NEW c \in Countries PROVE CountryOK(c)'
  BY DEF RegistryOrdered, CountryOK
<1> DEFINE s == registry[c]
           w == registry'[c]
<1>1. /\ s \in Seq(Infos) /\ DOMAIN s = 1..Len(s)
      /\ \A k \in 1..Len(s) : s[k] \in Infos /\ file[s[k]].name = c
  BY ListedMaps
<1>2. /\ \A k \in 1..Len(s) : file[s[k]] # NoFile /\ Alive(s[k])
      /\ \A j, k \in 1..Len(s) : j < k => /\ file[s[j]].version < file[s[k]].version
                                          /\ status[s[j]] = "marked"
  BY <1>1 DEF RegistryOrdered
<1>3. CASE n = 0
  <2>1. w = IF c = file[i].name THEN Without(s, i) ELSE s
    BY <1>3 DEF WithoutInfo, TypeOK
  <2>2. Thinned(w, s) /\ Lacks(w, i)
    <3>1. CASE c = file[i].name
      BY <2>1, <3>1, WithoutKeepsOrder
    <3>2. CASE c # file[i].name
      BY <1>1, <2>1, <3>2 DEF Thinned, Lacks
    <3> QED BY <3>1, <3>2
  <2> HIDE DEF s, w
  <2>3. \A j \in Infos : j # i => status'[j] = status[j]
    BY DEF TypeOK
  <2>4. \A k \in 1..Len(w) : /\ w[k] \in Infos /\ file[w[k]] # NoFile /\ file[w[k]].name = c
                             /\ status'[w[k]] # "deregistered"
    BY <1>1, <1>2, <2>2, <2>3 DEF Thinned, Lacks, Alive
  <2>5. \A j, k \in 1..Len(w) : j < k => /\ file[w[j]].version < file[w[k]].version
                                         /\ status'[w[j]] = "marked"
    BY <1>1, <1>2, <2>2, <2>3 DEF Thinned, Lacks
  <2> QED BY <2>2, <2>4, <2>5 DEF Thinned, CountryOK, Alive, w
<1>4. CASE n # 0
  <2>1. w = s /\ \A j \in Infos : status'[j] = IF j = i THEN "marked" ELSE status[j]
    BY <1>4 DEF WithoutInfo, TypeOK, DeregisteredStatus
  <2> HIDE DEF s, w
  <2> QED BY <1>1, <1>2, <2>1 DEF CountryOK, Alive, w
<1> QED BY <1>3, <1>4

\* The maps a newer version finds in the list of its country, once the current
\* one is erased or marked: all are older, and all are marked.
LEMMA RegisterNewerKeepsOrder ==
  ASSUME TypeOK, RegistryOrdered, NEW t \in Threads, NEW f \in File, NEW new \in Infos,
         RegisterNewer(t, f, new)
  PROVE  CountryOK(f.name)'
<1> DEFINE c == f.name
           old == Newest(c)
           n == refs[old]
           s == registry[c]
           w == WithoutInfo(old, n)[c]
<1>1. c \in Countries /\ old # NoInfo
  BY DEF File, RegisterNewer, HasMap
<1>2. /\ old \in Infos /\ file[old] \in File /\ file[old].name = c
      /\ Len(s) \in 1..Len(s) /\ old = s[Len(s)]
  BY <1>1, NewestIsListed
<1>3. /\ file' = [file EXCEPT ![new] = f] /\ file[new] = NoFile
      /\ status' = [status EXCEPT ![old] = DeregisteredStatus(n), ![new] = "registered"]
      /\ registry' = [WithoutInfo(old, n) EXCEPT ![c] = Append(@, new)]
      /\ file[old].version < f.version
  BY DEF RegisterNewer
<1>4. WithoutInfo(old, n) \in [Countries -> Seq(Infos)]
  BY <1>2, WithoutInfoType
<1>5. w \in Seq(Infos) /\ registry'[c] = Append(w, new)
  BY <1>1, <1>3, <1>4
<1>6. /\ s \in Seq(Infos) /\ Len(s) \in Nat
      /\ \A k \in 1..Len(s) : /\ s[k] \in Infos /\ file[s[k]] \in File /\ s[k] # new
                              /\ file[s[k]].version \in Versions /\ file[s[k]].name = c
  BY <1>1, <1>3, ListedMaps, FileAssumption DEF File
<1>7. \A j, k \in 1..Len(s) : j < k => /\ file[s[j]].version < file[s[k]].version
                                       /\ status[s[j]] = "marked"
  BY <1>1, <1>6 DEF RegistryOrdered
<1>8. \A k \in 1..Len(s) : /\ k # Len(s) => /\ file[s[k]].version < file[old].version
                                            /\ status[s[k]] = "marked" /\ s[k] # old
  <2>1. \A k \in 1..Len(s) : k # Len(s) => k < Len(s)
    BY <1>6
  <2>2. \A v \in Versions : ~(v < v)
    BY VersionsAssumption
  <2> HIDE DEF s, old
  <2> QED BY <1>2, <1>6, <1>7, <2>1, <2>2
<1>9. \A u, v, x \in Versions : u < v /\ v < x => u < x
  BY VersionsAssumption
<1>10. f.version \in Versions
  BY DEF File
<1> HIDE DEF c, old, n, s
<1>11. \A k \in 1..Len(s) : file[s[k]].version < f.version
  BY <1>2, <1>3, <1>6, <1>8, <1>9, <1>10
<1>12. Thinned(w, s) /\ (n = 0 => Lacks(w, old))
  <2>1. CASE n = 0
    <3>1. w = Without(s, old)
      BY <1>1, <1>2, <2>1 DEF WithoutInfo, TypeOK, s
    <3>2. Thinned(Without(s, old), s) /\ Lacks(Without(s, old), old)
      BY <1>1, WithoutKeepsOrder DEF s
    <3> QED BY <3>1, <3>2
  <2>2. CASE n # 0
    <3>1. w = s
      BY <2>2 DEF WithoutInfo, s
    <3> HIDE DEF w
    <3> QED BY <1>6, <2>2, <3>1 DEF Thinned
  <2> QED BY <2>1, <2>2
<1> HIDE DEF w
<1>13. \A j \in Infos : j # new => /\ file'[j] = file[j]
                                   /\ status'[j] = IF j = old THEN DeregisteredStatus(n) ELSE status[j]
  BY <1>2, <1>3 DEF TypeOK
<1>14. \A m \in 1..Len(s) : (n = 0 => s[m] # old) => status'[s[m]] = "marked"
  BY <1>2, <1>6, <1>8, <1>13 DEF DeregisteredStatus
<1>15. file'[new] = f /\ status'[new] = "registered" /\ f # NoFile
  BY <1>2, <1>3, FileAssumption DEF TypeOK, File
<1>16. \A k \in 1..Len(w) : /\ file'[w[k]] # NoFile /\ file'[w[k]].name = c
                            /\ status'[w[k]] = "marked"
                            /\ file'[w[k]].version < file'[new].version
  <2> SUFFICES ASSUME NEW k \in 1..Len(w)
               PROVE  /\ file'[w[k]] # NoFile /\ file'[w[k]].name = c
                      /\ status'[w[k]] = "marked"
                      /\ file'[w[k]].version < file'[new].version
    OBVIOUS
  <2>1. PICK m \in 1..Len(s) : w[k] = s[m]
    BY <1>12 DEF Thinned
  <2>2. /\ file'[s[m]] = file[s[m]] /\ file[s[m]] # NoFile /\ file[s[m]].name = c
        /\ file[s[m]].version < f.version
    BY <1>6, <1>11, <1>13, FileAssumption DEF File
  <2>3. n = 0 => s[m] # old
    BY <1>12, <2>1 DEF Lacks
  <2>4. status'[s[m]] = "marked"
    BY <1>14, <2>3
  <2> QED BY <1>15, <2>1, <2>2, <2>4
<1>17. \A j, k \in 1..Len(w) : j < k => file'[w[j]].version < file'[w[k]].version
  <2>1. \A m, l \in 1..Len(s) : m < l => file'[s[m]].version < file'[s[l]].version
    BY <1>6, <1>7, <1>13
  <2> QED BY <1>12, <2>1 DEF Thinned
<1>18. CountryOK(c)'
  BY <1>1, <1>5, <1>15, <1>16, <1>17, AppendKeepsOrder DEF Alive, c
<1> QED BY <1>18 DEF c

\* The lists stay ordered: calls erase a map, append a newer one, or mark the last.
LEMMA OrderStep ==
  ASSUME IInv, [Next]_vars
  PROVE  RegistryOrdered'
<1> USE DEF IInv
<1>1. ASSUME NEW t \in Threads, NEW f \in File, NEW new \in Infos,
             RegisterFirst(t, f, new) \/ RegisterNewer(t, f, new)
      PROVE  RegistryOrdered'
  <2> SUFFICES ASSUME NEW c \in Countries PROVE CountryOK(c)'
    BY DEF RegistryOrdered, CountryOK
  <2> DEFINE s == registry[c]
  <2>1. /\ s \in Seq(Infos) /\ DOMAIN s = 1..Len(s)
        /\ \A k \in 1..Len(s) : /\ s[k] \in Infos /\ file[s[k]] \in File
                                /\ file[s[k]].name = c
    BY ListedMaps
  <2>2. CountryOK(c)
    BY CountriesOK
  <2>3. f.name \in Countries /\ f # NoFile
    BY FileAssumption DEF File
  <2>4. CASE c # f.name
    <3> DEFINE old == Newest(f.name)
    <3>1. \A k \in 1..Len(s) : s[k] # new /\ (HasMap(f.name) => s[k] # old)
      BY <1>1, <2>1, <2>3, <2>4, NewestIsListed, FileAssumption
         DEF RegisterFirst, RegisterNewer, HasMap, File
    <3>2. \A j \in Infos : j # new => file'[j] = file[j]
      BY <1>1 DEF RegisterFirst, RegisterNewer, TypeOK
    <3>3. \A k \in 1..Len(s) : status'[s[k]] = status[s[k]]
      BY <1>1, <2>1, <3>1 DEF RegisterFirst, RegisterNewer, TypeOK
    <3>4. registry'[c] = s
      <4>1. CASE RegisterFirst(t, f, new)
        BY <2>4, <4>1 DEF RegisterFirst, TypeOK
      <4>2. CASE RegisterNewer(t, f, new)
        <5>1. old \in Infos /\ file[old] \in File /\ file[old].name = f.name
          BY <2>3, <4>2, NewestIsListed DEF RegisterNewer, HasMap
        <5>2. WithoutInfo(old, refs[old])[c] = s
          BY <2>4, <5>1 DEF WithoutInfo, TypeOK
        <5>3. WithoutInfo(old, refs[old]) \in [Countries -> Seq(Infos)]
          BY <5>1, WithoutInfoType
        <5> QED BY <2>4, <4>2, <5>2, <5>3 DEF RegisterNewer
      <4> QED BY <1>1, <4>1, <4>2
    <3> HIDE DEF s, old
    <3>5. CountryOK(c) <=> /\ \A k \in DOMAIN s : /\ file[s[k]] # NoFile /\ file[s[k]].name = c
                                                  /\ status[s[k]] # "deregistered"
                           /\ \A j, k \in DOMAIN s :
                                j < k => /\ file[s[j]].version < file[s[k]].version
                                         /\ status[s[j]] = "marked"
      BY DEF CountryOK, Alive, s
    <3>6. CountryOK(c)' <=> /\ \A k \in DOMAIN s : /\ file'[s[k]] # NoFile /\ file'[s[k]].name = c
                                                   /\ status'[s[k]] # "deregistered"
                            /\ \A j, k \in DOMAIN s :
                                 j < k => /\ file'[s[j]].version < file'[s[k]].version
                                          /\ status'[s[j]] = "marked"
      BY <3>4 DEF CountryOK, Alive
    <3> QED BY <2>1, <2>2, <3>1, <3>2, <3>3, <3>5, <3>6
  <2>5. CASE c = f.name /\ RegisterFirst(t, f, new)
    <3>1. s = <<>>
      <4>1. Newest(c) = NoInfo
        BY <2>5, NewestIsListed DEF RegisterFirst, HasMap
      <4>2. s # <<>> => Newest(c) \in Infos
        BY <2>1 DEF Newest, Last
      <4> QED BY <4>1, <4>2, NullAssumption
    <3>2. /\ registry'[c] = Append(s, new) /\ file'[new] = f
          /\ status'[new] = "registered"
      BY <2>5 DEF RegisterFirst, TypeOK
    <3>3. Len(s) = 0 /\ 1..Len(s) = {}
      BY <3>1
    <3> HIDE DEF s
    <3> QED BY <2>1, <2>3, <2>5, <3>2, <3>3, AppendKeepsOrder DEF Alive
  <2>6. CASE c = f.name /\ RegisterNewer(t, f, new)
    BY <2>6, RegisterNewerKeepsOrder
  <2> QED BY <1>1, <2>4, <2>5, <2>6
<1>2. ASSUME NEW i \in Infos, Alive(i), NEW n, file' = file,
             status' = [status EXCEPT ![i] = DeregisteredStatus(n)],
             registry' = WithoutInfo(i, n)
      PROVE  RegistryOrdered'
  BY <1>2, AliveIsCreated, DeregisterKeepsOrder
<1>3. ASSUME NEW t \in Threads, NEW f \in File, RegisterNewerThrows(t, f)
      PROVE  RegistryOrdered'
  <2>1. Newest(f.name) \in Infos /\ Alive(Newest(f.name))
    BY <1>3, NewestIsListed DEF RegisterNewerThrows, HasMap, File
  <2> QED BY <1>2, <1>3, <2>1 DEF RegisterNewerThrows
<1>4. ASSUME NEW t \in Threads, NEW f \in File, RegisterSame(t, f)
      PROVE  RegistryOrdered'
  <2> SUFFICES ASSUME NEW c \in Countries PROVE CountryOK(c)'
    BY DEF RegistryOrdered, CountryOK
  <2> DEFINE old == Newest(f.name)
             s == registry[c]
  <2>1. /\ old \in Infos /\ file[old].name = f.name
        /\ old = registry[f.name][Len(registry[f.name])] /\ f.name \in Countries
    BY <1>4, NewestIsListed DEF RegisterSame, HasMap, File
  <2>2. /\ s \in Seq(Infos) /\ DOMAIN s = 1..Len(s) /\ Len(s) \in Nat
        /\ \A k \in 1..Len(s) : s[k] \in Infos /\ file[s[k]].name = c
        /\ \A j, k \in 1..Len(s) : j # k => s[j] # s[k]
    BY ListedMaps
  <2>3. /\ file' = file /\ registry' = registry
        /\ status' = [status EXCEPT ![old] = "registered"]
    BY <1>4 DEF RegisterSame
  <2>4. CountryOK(c)
    BY CountriesOK
  <2>5. \A j, k \in 1..Len(s) : j < k => s[j] # old
    <3>1. CASE c = f.name
      BY <2>1, <2>2, <3>1
    <3>2. CASE c # f.name
      BY <2>1, <2>2, <3>2
    <3> QED BY <3>1, <3>2
  <2>6. \A i \in Infos : status'[i] = IF i = old THEN "registered" ELSE status[i]
    BY <2>1, <2>3 DEF TypeOK
  <2> QED BY <2>2, <2>3, <2>4, <2>5, <2>6 DEF CountryOK, Alive
<1>5. ASSUME NEW t \in Threads, NEW c \in Countries, Deregister(t, c)
      PROVE  RegistryOrdered'
  <2>1. Newest(c) \in Infos /\ Alive(Newest(c))
    BY <1>5, NewestIsListed DEF Deregister, HasMap
  <2> QED BY <1>2, <1>5, <2>1 DEF Deregister
<1>6. ASSUME NEW t \in Threads, Clear(t)
      PROVE  RegistryOrdered'
  <2>1. \A c \in Countries : registry'[c] = <<>> /\ DOMAIN registry'[c] = {}
    BY <1>6 DEF Clear
  <2> QED BY <2>1 DEF RegistryOrdered
<1>7. ASSUME NEW t \in Threads, NEW h \in Slots, NEW i \in Infos, LockValueThrows(t, h, i)
      PROVE  RegistryOrdered'
  BY <1>2, <1>7 DEF LockValueThrows
<1>8. ASSUME NEW t \in Threads, NEW h \in Slots, UnlockLastOfMarked(t, h)
      PROVE  RegistryOrdered'
  <2>1. handle[h] \in Infos /\ Alive(handle[h])
    BY <1>8, HeldIsCounted DEF UnlockLastOfMarked, HeldMapsAreAlive
  <2> QED BY <1>2, <1>8, <2>1 DEF UnlockLastOfMarked
<1>9. ASSUME UNCHANGED <<file, status, registry>>
      PROVE  RegistryOrdered'
  BY <1>9 DEF RegistryOrdered, Alive
<1> QED
  BY <1>1, <1>3, <1>4, <1>5, <1>6, <1>7, <1>8, <1>9
     DEF Next, Register, UseHandle, Notify, ClearCache, LockValue, UnlockValue,
         BeginNotify, EndNotify, vars

-----------------------------------------------------------------------------
(* The theorems.                                                           *)

\* An empty registry satisfies the invariant.
LEMMA InitIInv == ASSUME Init PROVE IInv
<1>1. TypeOK
  BY ThreadsAssumption DEF Init, TypeOK, Slots
<1>2. RegistryOrdered
  BY DEF Init, RegistryOrdered
<1>3. RefsMatchHandles
  <2>1. \A i \in Infos : Holders(i) = {}
    BY NullAssumption DEF Init, Holders
  <2> QED BY <2>1, FS_EmptySet DEF Init, RefsMatchHandles
<1> QED
  BY <1>1, <1>2, <1>3
     DEF IInv, Init, FreshInfosAreUnused, HeldMapsAreAlive, MarkedMapsAreHeld, Alive

\* Every step preserves the invariant.
LEMMA StepIInv == ASSUME IInv, [Next]_vars PROVE IInv'
<1>1. TypeOK' /\ RefsMatchHandles' /\ RegistryOrdered'
  BY TypeStep, CountStep, OrderStep
<1>2. \A i \in Infos : MapOK(i)'
  BY StatusStep
<1>3. (TypeOK /\ RefsMatchHandles =>
        ((\A i \in Infos : MapOK(i)) <=>
           FreshInfosAreUnused /\ HeldMapsAreAlive /\ MarkedMapsAreHeld))'
  BY MapsOKMeaning, PTL
<1> QED BY <1>1, <1>2, <1>3 DEF IInv

\* The invariant from which everything below follows.
THEOREM Invariance == Spec => []IInv
BY InitIInv, StepIInv, PTL DEF Spec

\* Every reachable state is well-typed, and an observer runs only for a
\* pending event.
THEOREM TypeCorrect == Spec => []TypeOK
BY Invariance, PTL DEF IInv

\* The reference count of a map is at any time the number of its handles, for
\* any number of maps, handles and threads.
THEOREM CountsAreExact == Spec => []RefsMatchHandles
BY Invariance, PTL DEF IInv

\* No thread ever holds a handle to a deregistered map, and no map waits for
\* deregistration without a handle whose release performs it.
THEOREM NoUseAfterDeregister == Spec => [](HeldMapsAreAlive /\ MarkedMapsAreHeld)
BY Invariance, PTL DEF IInv

\* The lists of m_info are sorted by version, and only their last map, the one
\* that lookups return, may be registered.
THEOREM RegistryStaysOrdered == Spec => []RegistryOrdered
BY Invariance, PTL DEF IInv

-----------------------------------------------------------------------------
(* DeregisteredForGood.                                                    *)

\* No call touches a deregistered map: all of them test that it is alive first.
LEMMA GoneStep ==
  ASSUME IInv, [Next]_vars, NEW i \in Infos, file[i] # NoFile, ~Alive(i)
  PROVE  ~Alive(i)' /\ file'[i] = file[i] /\ refs'[i] = refs[i]
<1> USE DEF IInv
<1>1. ASSUME NEW old \in Infos, Alive(old), refs' = refs, file' = file,
             NEW st, status' = [status EXCEPT ![old] = st]
      PROVE  ~Alive(i)' /\ file'[i] = file[i] /\ refs'[i] = refs[i]
  BY <1>1 DEF Alive, TypeOK
<1>2. ASSUME NEW t \in Threads, NEW f \in File, NEW new \in Infos, RegisterFirst(t, f, new)
      PROVE  ~Alive(i)' /\ file'[i] = file[i] /\ refs'[i] = refs[i]
  BY <1>2 DEF RegisterFirst, Alive, TypeOK
<1>3. ASSUME NEW t \in Threads, NEW f \in File, NEW new \in Infos, RegisterNewer(t, f, new)
      PROVE  ~Alive(i)' /\ file'[i] = file[i] /\ refs'[i] = refs[i]
  <2>1. Alive(Newest(f.name)) /\ Newest(f.name) \in Infos
    BY <1>3, NewestIsListed DEF RegisterNewer, HasMap, File
  <2> QED BY <1>3, <2>1 DEF RegisterNewer, Alive, TypeOK
<1>4. ASSUME NEW t \in Threads, NEW f \in File,
             RegisterNewerThrows(t, f) \/ RegisterSame(t, f)
      PROVE  ~Alive(i)' /\ file'[i] = file[i] /\ refs'[i] = refs[i]
  <2>1. Alive(Newest(f.name)) /\ Newest(f.name) \in Infos
    BY <1>4, NewestIsListed DEF RegisterNewerThrows, RegisterSame, HasMap, File
  <2> QED BY <1>1, <1>4, <2>1 DEF RegisterNewerThrows, RegisterSame
<1>5. ASSUME NEW t \in Threads, NEW c \in Countries, Deregister(t, c)
      PROVE  ~Alive(i)' /\ file'[i] = file[i] /\ refs'[i] = refs[i]
  <2>1. Alive(Newest(c)) /\ Newest(c) \in Infos
    BY <1>5, NewestIsListed DEF Deregister, HasMap
  <2> QED BY <1>1, <1>5, <2>1 DEF Deregister
<1>6. ASSUME NEW t \in Threads, NEW h \in Slots, NEW j \in Infos,
             LockValue(t, h, j) \/ LockValueThrows(t, h, j)
      PROVE  ~Alive(i)' /\ file'[i] = file[i] /\ refs'[i] = refs[i]
  BY <1>1, <1>6 DEF LockValue, LockValueThrows, Alive, TypeOK
<1>7. ASSUME NEW t \in Threads, NEW h \in Slots, UnlockValue(t, h) \/ UnlockLastOfMarked(t, h)
      PROVE  ~Alive(i)' /\ file'[i] = file[i] /\ refs'[i] = refs[i]
  <2>1. handle[h] \in Infos /\ Alive(handle[h])
    BY <1>7, HeldIsCounted DEF UnlockValue, UnlockLastOfMarked, HeldMapsAreAlive
  <2> QED BY <1>7, <2>1 DEF UnlockValue, UnlockLastOfMarked, Alive, TypeOK
<1>8. UNCHANGED <<file, status, refs>> =>
        ~Alive(i)' /\ file'[i] = file[i] /\ refs'[i] = refs[i]
  BY DEF Alive
<1> QED
  BY <1>2, <1>3, <1>4, <1>5, <1>6, <1>7, <1>8
     DEF Next, Register, UseHandle, Notify, Clear, ClearCache, BeginNotify, EndNotify, vars

\* A deregistered map is never revived, counted or given another file again, so
\* an id that a client kept stays dead.
THEOREM GoneStaysGone == Spec => DeregisteredForGood
<1>1. IInv /\ [Next]_vars =>
        [\A i \in Infos : file[i] # NoFile /\ ~Alive(i) =>
           ~Alive(i)' /\ file'[i] = file[i] /\ refs'[i] = refs[i]]_vars
  BY GoneStep
<1> QED BY <1>1, Invariance, PTL DEF Spec, DeregisteredForGood

-----------------------------------------------------------------------------
(* AliveMapsAreListed.                                                     *)

\* AliveMapsAreListed for one map.
Listed(i) == Alive(i) => Contains(registry[file[i].name], i)

\* Erasing a map from a list leaves the other maps in it.
LEMMA WithoutKeepsOthers ==
  ASSUME NEW s \in Seq(Infos), NEW i, NEW j, j # i, Contains(s, j)
  PROVE  Contains(Without(s, i), j)
<1>1. CASE Contains(s, i)
  <2>1. PICK p \in 1..Len(s) :
          s[p] = i /\ Without(s, i) \in Seq(Infos) /\ Shifted(Without(s, i), s, p)
    BY <1>1, WithoutShifts
  <2>2. PICK m \in 1..Len(s) : s[m] = j
    BY DEF Contains
  <2>3. m # p /\ Len(s) \in Nat
    BY <2>1, <2>2
  <2>4. CASE m < p
    <3>1. m \in 1..(Len(s) - 1) /\ Without(s, i)[m] = j
      BY <2>1, <2>2, <2>3, <2>4 DEF Shifted
    <3> QED BY <2>1, <3>1 DEF Contains, Shifted
  <2>5. CASE p < m
    <3>1. m - 1 \in 1..(Len(s) - 1) /\ ~(m - 1 < p) /\ (m - 1) + 1 = m
      BY <2>3, <2>5
    <3>2. Without(s, i)[m - 1] = j
      BY <2>1, <2>2, <3>1 DEF Shifted
    <3> QED BY <2>1, <3>1, <3>2 DEF Contains, Shifted
  <2> QED BY <2>3, <2>4, <2>5
<1>2. CASE ~Contains(s, i)
  BY <1>2 DEF Without
<1> QED BY <1>1, <1>2

\* A map leaves its list only when the same call ends its life, unless Clear is used.
LEMMA ListedStep ==
  ASSUME IInv, [Next]_vars, ~ClearsMaps, \A i \in Infos : Listed(i), NEW i \in Infos
  PROVE  Listed(i)'
<1> USE DEF IInv
<1>1. ASSUME NEW old \in Infos, Alive(old), file' = file, NEW n,
             status' = [status EXCEPT ![old] = DeregisteredStatus(n)],
             registry' = WithoutInfo(old, n)
      PROVE  Listed(i)'
  <2> SUFFICES ASSUME Alive(i)' PROVE Contains(registry'[file[i].name], i)
    BY <1>1 DEF Listed
  <2>1. Alive(i) /\ Contains(registry[file[i].name], i)
    BY <1>1 DEF Listed, Alive, TypeOK
  <2>2. /\ file[i] \in File /\ file[i].name \in Countries
        /\ registry[file[i].name] \in Seq(Infos)
    BY <2>1, AliveIsCreated DEF File, TypeOK
  <2>3. CASE n = 0
    <3>1. i # old
      BY <1>1, <2>3 DEF Alive, DeregisteredStatus, TypeOK
    <3>2. registry'[file[i].name] = IF file[i].name = file[old].name
                                      THEN Without(registry[file[i].name], old)
                                      ELSE registry[file[i].name]
      BY <1>1, <2>2, <2>3 DEF WithoutInfo, TypeOK
    <3> QED BY <2>1, <2>2, <3>1, <3>2, WithoutKeepsOthers
  <2>4. CASE n # 0
    BY <1>1, <2>1, <2>4 DEF WithoutInfo
  <2> QED BY <2>3, <2>4
<1>2. ASSUME NEW s \in Seq(Infos), NEW new \in Infos
      PROVE  /\ Contains(Append(s, new), new)
             /\ \A j \in Infos : Contains(s, j) => Contains(Append(s, new), j)
  <2>1. /\ Len(Append(s, new)) = Len(s) + 1 /\ Len(s) \in Nat
        /\ Append(s, new)[Len(s) + 1] = new
        /\ \A k \in 1..Len(s) : Append(s, new)[k] = s[k]
    OBVIOUS
  <2> QED BY <2>1 DEF Contains
<1>3. ASSUME NEW t \in Threads, NEW f \in File, NEW new \in Infos, RegisterFirst(t, f, new)
      PROVE  Listed(i)'
  <2>1. /\ f.name \in Countries /\ registry[f.name] \in Seq(Infos)
        /\ registry'[f.name] = Append(registry[f.name], new)
        /\ \A c \in Countries : c # f.name => registry'[c] = registry[c]
    BY <1>3 DEF RegisterFirst, TypeOK, File
  <2>2. CASE i = new
    BY <1>2, <1>3, <2>1, <2>2 DEF RegisterFirst, Listed, TypeOK
  <2>3. CASE i # new
    <3>1. file'[i] = file[i] /\ status'[i] = status[i]
      BY <1>3, <2>3 DEF RegisterFirst, TypeOK
    <3>2. Alive(i) => file[i].name \in Countries
      BY AliveIsCreated DEF File
    <3> QED BY <1>2, <2>1, <3>1, <3>2 DEF Listed, Alive
  <2> QED BY <2>2, <2>3
<1>4. ASSUME NEW t \in Threads, NEW f \in File, NEW new \in Infos, RegisterNewer(t, f, new)
      PROVE  Listed(i)'
  <2> DEFINE old == Newest(f.name)
             w == WithoutInfo(old, refs[old])
  <2>1. old \in Infos /\ Alive(old) /\ file[old] \in File /\ file[old].name = f.name
    BY <1>4, NewestIsListed DEF RegisterNewer, HasMap, File
  <2>2. w \in [Countries -> Seq(Infos)] /\ f.name \in Countries
    BY <2>1, WithoutInfoType DEF File
  <2>3. /\ registry'[f.name] = Append(w[f.name], new)
        /\ \A c \in Countries : c # f.name => registry'[c] = w[c]
    BY <1>4, <2>2 DEF RegisterNewer
  <2>4. CASE i = new
    <3>1. file'[i] = f /\ Contains(Append(w[f.name], new), new)
      BY <1>2, <1>4, <2>2, <2>4 DEF RegisterNewer, TypeOK
    <3> HIDE DEF w
    <3> QED BY <2>3, <2>4, <3>1 DEF Listed
  <2>5. CASE i # new
    <3>1. /\ file'[i] = file[i]
          /\ status'[i] = IF i = old THEN DeregisteredStatus(refs[old]) ELSE status[i]
      BY <1>4, <2>1, <2>5 DEF RegisterNewer, TypeOK
    <3> SUFFICES ASSUME Alive(i)' PROVE Contains(registry'[file[i].name], i)
      BY <3>1 DEF Listed
    <3>2. /\ Alive(i) /\ Contains(registry[file[i].name], i)
          /\ (refs[old] = 0 => i # old)
      BY <2>1, <3>1 DEF Listed, Alive, DeregisteredStatus
    <3>3. file[i].name \in Countries /\ registry[file[i].name] \in Seq(Infos)
      BY <3>2, AliveIsCreated DEF File, TypeOK
    <3>4. Contains(w[file[i].name], i)
      <4>1. CASE refs[old] = 0 /\ file[i].name = f.name
        <5>1. w[file[i].name] = Without(registry[file[i].name], old)
          BY <2>1, <3>3, <4>1 DEF WithoutInfo, TypeOK
        <5> QED BY <3>2, <3>3, <4>1, <5>1, WithoutKeepsOthers
      <4>2. CASE ~(refs[old] = 0 /\ file[i].name = f.name)
        <5>1. w[file[i].name] = registry[file[i].name]
          BY <2>1, <3>3, <4>2 DEF WithoutInfo, TypeOK
        <5> QED BY <3>2, <5>1
      <4> QED BY <4>1, <4>2
    <3> HIDE DEF w
    <3>5. CASE file[i].name = f.name
      <4>1. w[f.name] \in Seq(Infos) /\ Contains(w[f.name], i)
        BY <2>2, <3>4, <3>5
      <4>2. Contains(Append(w[f.name], new), i)
        BY <1>2, <4>1
      <4> QED BY <2>3, <3>5, <4>2
    <3>6. CASE file[i].name # f.name
      BY <2>3, <3>3, <3>4, <3>6
    <3> QED BY <3>5, <3>6
  <2> QED BY <2>4, <2>5
<1>5. ASSUME NEW t \in Threads, NEW f \in File, RegisterNewerThrows(t, f)
      PROVE  Listed(i)'
  <2>1. Newest(f.name) \in Infos /\ Alive(Newest(f.name))
    BY <1>5, NewestIsListed DEF RegisterNewerThrows, HasMap, File
  <2> QED BY <1>1, <1>5, <2>1 DEF RegisterNewerThrows
<1>6. ASSUME NEW t \in Threads, NEW f \in File, RegisterSame(t, f)
      PROVE  Listed(i)'
  <2>1. Newest(f.name) \in Infos /\ Alive(Newest(f.name))
    BY <1>6, NewestIsListed DEF RegisterSame, HasMap, File
  <2> QED BY <1>6, <2>1 DEF RegisterSame, Listed, Alive, TypeOK
<1>7. ASSUME NEW t \in Threads, NEW c \in Countries, Deregister(t, c)
      PROVE  Listed(i)'
  <2>1. Newest(c) \in Infos /\ Alive(Newest(c))
    BY <1>7, NewestIsListed DEF Deregister, HasMap
  <2> QED BY <1>1, <1>7, <2>1 DEF Deregister
<1>8. ASSUME NEW t \in Threads, NEW h \in Slots, NEW j \in Infos, LockValueThrows(t, h, j)
      PROVE  Listed(i)'
  BY <1>1, <1>8 DEF LockValueThrows
<1>9. ASSUME NEW t \in Threads, NEW h \in Slots, UnlockLastOfMarked(t, h)
      PROVE  Listed(i)'
  <2>1. handle[h] \in Infos /\ Alive(handle[h])
    BY <1>9, HeldIsCounted DEF UnlockLastOfMarked, HeldMapsAreAlive
  <2> QED BY <1>1, <1>9, <2>1 DEF UnlockLastOfMarked
<1>10. UNCHANGED <<file, status, registry>> => Listed(i)'
  BY DEF Listed, Alive
<1> QED
  BY <1>3, <1>4, <1>5, <1>6, <1>7, <1>8, <1>9, <1>10
     DEF Next, Register, UseHandle, Notify, Clear, ClearCache, LockValue, UnlockValue,
         BeginNotify, EndNotify, vars

\* In an application that never clears the set, every alive map can be found by
\* the name of its country, so a later Register or Deregister reaches it.
THEOREM NoMapIsLost == Spec => []AliveMapsAreListed
<1>1. Init => AliveMapsAreListed
  BY DEF Init, AliveMapsAreListed, Alive
<1>2. IInv /\ AliveMapsAreListed /\ [Next]_vars => AliveMapsAreListed'
  <2> SUFFICES ASSUME IInv, AliveMapsAreListed, [Next]_vars, ~ClearsMaps, NEW i \in Infos
               PROVE  Listed(i)'
    BY DEF AliveMapsAreListed, Listed
  <2>1. \A j \in Infos : Listed(j)
    BY DEF AliveMapsAreListed, Listed
  <2> QED BY <2>1, ListedStep
<1> QED BY <1>1, <1>2, Invariance, PTL DEF Spec
=============================================================================
