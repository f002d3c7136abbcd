--------------------------- MODULE TileReadingProofs ---------------------------
(***************************************************************************)
(* What holds of the reading of tiles for any tiles, views, number of      *)
(* threads and events, as long as the map has finitely many tiles.         *)
(*                                                                         *)
(* There are five invariants, each on top of those before it.  TypesOK:    *)
(* the types, and that nothing is of a generation or a task to come.       *)
(* ReadingInv: each task waits or is done by one thread, the counter       *)
(* counts them, and an active tile has a task.  OverlaysAreSent is         *)
(* inductive with the counter.  BatchOK: the users of a batcher are the    *)
(* readings that have begun and will end, counted over the queue and the   *)
(* threads.  Phase: how far UpdateAll is, and that all that can still be   *)
(* drawn was read after the last Restart, except between Restart and       *)
(* SwitchMapStyle, when the frontend shows nothing.  It needs the others   *)
(* at SwitchMapStyle: nobody filters the overlays and batchers of the      *)
(* backend there, they are gone because no task is left.                   *)
(***************************************************************************)
EXTENDS TileReading, SequenceTheorems, FiniteSetTheorems, WellFoundedInduction, TLAPS

-----------------------------------------------------------------------------
(* Numbers, sequences and sets.  Induction takes the form of a least number. *)

\* A set of natural numbers that is not empty has a least one.
LEMMA LeastNumber ==
  ASSUME NEW T, T \subseteq Nat, T # {}
  PROVE  \E n \in T : \A m \in T : n <= m
<1> DEFINE R == OpToRel(<, Nat)
<1>1. IsWellFoundedOn(R, Nat)
  BY NatLessThanWellFounded
<1>2. \A m, n \in Nat : m < n => <<m, n>> \in R
  BY DEF OpToRel
<1> HIDE DEF R
<1>3. PICK n \in T : \A m \in T : ~(<<m, n>> \in R)
  BY <1>1, WFMin
<1>4. \A m \in T : ~(m < n)
  BY <1>2, <1>3
<1>5. \A m \in T : n <= m
  BY <1>4
<1> QED
  BY <1>5

\* What holds of 0 and goes from each number to the next holds up to n.
LEMMA Climb ==
  ASSUME NEW T, NEW n \in Nat, 0 \in T, \A k \in 1..n : k - 1 \in T => k \in T
  PROVE  n \in T
<1> DEFINE F == {k \in 0..n : k \notin T}
<1>1. SUFFICES ASSUME n \notin T PROVE FALSE
  OBVIOUS
<1>2. n \in F /\ F \subseteq Nat
  BY <1>1
<1>3. PICK k \in F : \A m \in F : k <= m
  BY <1>2, LeastNumber
<1>4. k \in 1..n /\ k \notin T
  BY <1>3
<1>5. k - 1 \in 0..n /\ k - 1 \notin T
  BY <1>4
<1> QED
  BY <1>3, <1>4, <1>5

\* The largest of some numbers, if they are bounded.
LEMMA MaxIsLargest ==
  ASSUME NEW b \in Nat, NEW S, S \subseteq 0..b, S # {}
  PROVE  Max(S) \in S /\ \A x \in S : x <= Max(S)
<1> DEFINE T == {b - x : x \in S}
<1>1. T \subseteq Nat /\ T # {}
  <2>1. \A x \in S : b - x \in Nat /\ x \in Nat
    OBVIOUS
  <2> QED
    BY <2>1
<1>2. PICK d \in T : \A m \in T : d <= m
  BY <1>1, LeastNumber
<1>3. PICK c \in S : d = b - c
  BY <1>2
<1>4. \A x \in S : c >= x
  <2>1. SUFFICES ASSUME NEW x \in S PROVE c >= x
    OBVIOUS
  <2>2. d <= b - x /\ d = b - c /\ x \in Nat /\ c \in Nat
    BY <1>2, <1>3
  <2> QED
    BY <2>2
<1>5. Max(S) \in S /\ \A x \in S : Max(S) >= x
  BY <1>3, <1>4 DEF Max
<1> QED
  BY <1>5

\* The function that WithoutStates reads, up to its n-th value.
Kept(s, n, kept) ==
  kept = [i \in 0..n |->
            IF i = 0 THEN <<>>
            ELSE IF s[i].type = "FinishTileRead" THEN Append(kept[i - 1], s[i])
            ELSE kept[i - 1]]

\* There is such a function, and what it keeps is of one type.
LEMMA KeptExists ==
  ASSUME NEW S, NEW s \in Seq(S)
  PROVE  LET K == {m \in S : m.type = "FinishTileRead"}
         IN  /\ \E kept \in [0..Len(s) -> Seq(K)] : Kept(s, Len(s), kept)
             /\ \A kept : Kept(s, Len(s), kept) => kept[Len(s)] \in Seq(K)
<1> DEFINE K == {m \in S : m.type = "FinishTileRead"}
           T == {n \in 0..Len(s) : \E kept \in [0..n -> Seq(K)] : Kept(s, n, kept)}
<1>1. Len(s) \in Nat /\ \A n \in 1..Len(s) : s[n] \in S
  BY ElementOfSeq, LenProperties
<1>2. 0 \in T
  <2> DEFINE kept == [i \in 0..0 |-> <<>>]
  <2>1. kept \in [0..0 -> Seq(K)]
    OBVIOUS
  <2>2. Kept(s, 0, kept)
    BY DEF Kept
  <2>3. 0 \in 0..Len(s)
    BY <1>1
  <2> QED
    BY <2>1, <2>2, <2>3
<1>3. ASSUME NEW n \in 1..Len(s), n - 1 \in T
      PROVE  n \in T
  <2>1. PICK k \in [0..(n - 1) -> Seq(K)] : Kept(s, n - 1, k)
    BY <1>3
  <2> DEFINE last == IF s[n].type = "FinishTileRead" THEN Append(k[n - 1], s[n]) ELSE k[n - 1]
             next == [i \in 0..n |-> IF i = n THEN last ELSE k[i]]
  <2>2. n \in Nat /\ n - 1 \in 0..(n - 1) /\ \A i \in 0..n : i # n => i \in 0..(n - 1)
    BY <1>1
  <2>3. last \in Seq(K)
    <3>1. k[n - 1] \in Seq(K) /\ s[n] \in S
      BY <1>1, <2>2
    <3> QED
      BY <3>1
  <2>4. next \in [0..n -> Seq(K)]
    BY <2>2, <2>3
  <2>5. \A i \in 0..(n - 1) : k[i] = IF i = 0 THEN <<>>
              ELSE IF s[i].type = "FinishTileRead" THEN Append(k[i - 1], s[i]) ELSE k[i - 1]
    BY <2>1 DEF Kept
  <2>6. \A i \in 0..n : next[i] = IF i = 0 THEN <<>>
              ELSE IF s[i].type = "FinishTileRead" THEN Append(next[i - 1], s[i]) ELSE next[i - 1]
    <3>1. SUFFICES ASSUME NEW i \in 0..n
                   PROVE  next[i] = IF i = 0 THEN <<>> ELSE IF s[i].type = "FinishTileRead"
                                    THEN Append(next[i - 1], s[i]) ELSE next[i - 1]
      OBVIOUS
    <3>2. CASE i = n
      <4>1. i # 0 /\ i - 1 \in 0..n /\ i - 1 # n /\ next[i - 1] = k[n - 1]
        BY <2>2, <3>2
      <4>2. next[i] = last
        BY <3>2
      <4> QED
        BY <3>2, <4>1, <4>2
    <3>3. CASE i # n
      <4>1. next[i] = k[i] /\ i \in 0..(n - 1)
        BY <2>2, <3>3
      <4>2. i # 0 => i - 1 \in 0..n /\ i - 1 # n
        BY <2>2, <4>1
      <4>3. i # 0 => next[i - 1] = k[i - 1]
        BY <4>2
      <4> HIDE DEF next
      <4> QED
        BY <2>5, <4>1, <4>3
    <3> QED
      BY <3>2, <3>3
  <2>7. Kept(s, n, next)
    <3>1. next = [i \in 0..n |-> next[i]]
      OBVIOUS
    <3> HIDE DEF next
    <3> QED
      BY <2>6, <3>1 DEF Kept
  <2> HIDE DEF next
  <2>8. n \in 0..Len(s)
    BY <1>1
  <2> QED
    BY <2>4, <2>7, <2>8
<1>4. Len(s) \in T
  BY <1>1, <1>2, <1>3, Climb
<1>5. ASSUME NEW kept, Kept(s, Len(s), kept)
      PROVE  kept[Len(s)] \in Seq(K)
  <2> DEFINE U == {n \in 0..Len(s) : kept[n] \in Seq(K)}
  <2>1. \A i \in 0..Len(s) : kept[i] = IF i = 0 THEN <<>>
          ELSE IF s[i].type = "FinishTileRead" THEN Append(kept[i - 1], s[i]) ELSE kept[i - 1]
    BY <1>5 DEF Kept
  <2>2. 0 \in U
    <3>1. <<>> \in Seq(K) /\ 0 \in 0..Len(s)
      BY <1>1
    <3>2. kept[0] = <<>>
      BY <2>1, <3>1
    <3> QED
      BY <3>1, <3>2
  <2>3. ASSUME NEW n \in 1..Len(s), n - 1 \in U
        PROVE  n \in U
    <3>1. n \in 0..Len(s) /\ n # 0 /\ s[n] \in S /\ kept[n - 1] \in Seq(K)
      BY <1>1, <2>3
    <3>2. kept[n] = IF s[n].type = "FinishTileRead" THEN Append(kept[n - 1], s[n]) ELSE kept[n - 1]
      BY <2>1, <3>1
    <3>3. kept[n] \in Seq(K)
      BY <3>1, <3>2
    <3> QED
      BY <3>1, <3>3
  <2>4. Len(s) \in U
    BY <1>1, <2>2, <2>3, Climb
  <2> QED
    BY <2>4
<1> QED
  BY <1>4, <1>5

\* InstantMessageFilter leaves nothing that is drawn.
LEMMA WithoutStatesType ==
  ASSUME NEW S, NEW s \in Seq(S)
  PROVE  WithoutStates(s) \in Seq({m \in S : m.type = "FinishTileRead"})
<1> DEFINE k == CHOOSE kept : Kept(s, Len(s), kept)
<1>1. WithoutStates(s) = k[Len(s)]
  BY DEF WithoutStates, Kept
<1>2. Kept(s, Len(s), k)
  BY KeptExists
<1> HIDE DEF k
<1> QED
  BY <1>1, <1>2, KeptExists

\* How often a message of this type and key is in a sequence.
Places(s, type, key) == {n \in DOMAIN s : s[n].type = type /\ s[n].key = key}
Count(s, type, key) == Cardinality(Places(s, type, key))
Matches(m, type, key) == m.type = type /\ m.key = key

\* Counts are numbers.
LEMMA CountType ==
  ASSUME NEW S, NEW s \in Seq(S), NEW type, NEW key
  PROVE  IsFiniteSet(Places(s, type, key)) /\ Count(s, type, key) \in Nat
<1>1. DOMAIN s = 1..Len(s) /\ Len(s) \in Nat
  BY LenProperties
<1>2. IsFiniteSet(1..Len(s)) /\ Places(s, type, key) \subseteq 1..Len(s)
  BY <1>1, FS_Interval DEF Places
<1>3. IsFiniteSet(Places(s, type, key))
  BY <1>2, FS_Subset
<1> QED
  BY <1>3, FS_CardinalityType DEF Count

\* A message that is appended is counted.
LEMMA CountAppended ==
  ASSUME NEW S, NEW s \in Seq(S), NEW m \in S, NEW type, NEW key
  PROVE  Count(Append(s, m), type, key) =
           IF Matches(m, type, key) THEN Count(s, type, key) + 1 ELSE Count(s, type, key)
<1> DEFINE u == Append(s, m)
           p == Places(s, type, key)
<1>1. /\ DOMAIN s = 1..Len(s) /\ Len(s) \in Nat /\ DOMAIN u = 1..(Len(s) + 1)
      /\ \A n \in 1..Len(s) : u[n] = s[n]
      /\ u[Len(s) + 1] = m
  BY AppendProperties, LenProperties
<1> HIDE DEF u
<1>2. Places(u, type, key) = IF Matches(m, type, key) THEN p \cup {Len(s) + 1} ELSE p
  BY <1>1 DEF Places, Matches
<1>3. IsFiniteSet(p) /\ Len(s) + 1 \notin p
  <2>1. IsFiniteSet(p)
    BY CountType
  <2>2. Len(s) + 1 \notin p
    BY <1>1 DEF Places
  <2> QED
    BY <2>1, <2>2
<1> HIDE DEF p
<1>4. Cardinality(p \cup {Len(s) + 1}) = Cardinality(p) + 1
  BY <1>3, FS_AddElement
<1> QED
  BY <1>2, <1>4 DEF Count, p, u

\* The first message is taken away.
LEMMA CountOfTail ==
  ASSUME NEW S, NEW s \in Seq(S), s # <<>>, NEW type, NEW key
  PROVE  Count(s, type, key) =
           IF Matches(Head(s), type, key) THEN Count(Tail(s), type, key) + 1
                                          ELSE Count(Tail(s), type, key)
<1> DEFINE u == Tail(s)
           p == Places(s, type, key)
           q == Places(u, type, key)
           r == p \ {1}
           f == [n \in r |-> n - 1]
<1>1. /\ DOMAIN s = 1..Len(s) /\ Len(s) \in Nat /\ Len(s) # 0
      /\ DOMAIN u = 1..(Len(s) - 1) /\ u \in Seq(S)
      /\ \A n \in 1..(Len(s) - 1) : u[n] = s[n + 1]
      /\ Head(s) = s[1]
  BY HeadTailProperties, LenProperties, EmptySeq
<1> HIDE DEF u
<1>2. IsFiniteSet(p) /\ IsFiniteSet(q) /\ IsFiniteSet(r)
  BY <1>1, CountType, FS_RemoveElement
<1>3. ExistsBijection(r, q)
  <2>1. \A n \in r : n \in Nat /\ n - 1 \in q
    BY <1>1 DEF Places
  <2>2. \A n \in q : n + 1 \in r /\ n \in Nat
    BY <1>1 DEF Places
  <2>3. f \in [r -> q] /\ \A n \in r : f[n] = n - 1
    BY <2>1
  <2> HIDE DEF f, p, q, r
  <2>4. \A i, j \in r : f[i] = f[j] => i = j
    BY <2>1, <2>3
  <2>5. \A n \in q : \E i \in r : f[i] = n
    <3>1. SUFFICES ASSUME NEW n \in q PROVE \E i \in r : f[i] = n
      OBVIOUS
    <3>2. n + 1 \in r /\ n \in Nat
      BY <2>2
    <3>3. f[n + 1] = n
      BY <2>3, <3>2
    <3> QED
      BY <3>2, <3>3
  <2>6. f \in Bijection(r, q)
    BY <2>3, <2>4, <2>5 DEF Bijection, Injection, Surjection, IsInjective
  <2> QED
    BY <2>6 DEF ExistsBijection
<1>4. Cardinality(q) = Cardinality(r)
  BY <1>2, <1>3, FS_Bijection
<1>5. 1 \in p <=> Matches(Head(s), type, key)
  BY <1>1 DEF Places, Matches
<1> HIDE DEF p, q
<1>6. Cardinality(r) = IF 1 \in p THEN Cardinality(p) - 1 ELSE Cardinality(p)
  BY <1>2, FS_RemoveElement
<1>7. Cardinality(p) \in Nat
  BY <1>2, FS_CardinalityType
<1> QED
  BY <1>4, <1>5, <1>6, <1>7 DEF Count, p, q, u

-----------------------------------------------------------------------------
(* The first invariant: the types.  Nothing is of a generation or of a task that is *)
(* still to come.                                                                *)

KeysUpTo(g) == [tile : Tiles, gen : 0..g]

\* Tasks, and groups, which have the id of a task.
TasksUpTo(g, t) == [key : KeysUpTo(g), id : 0..t]

FrontMessages(g, t) ==
  [type : {"FinishTileRead"}, keys : SUBSET KeysUpTo(g)]
    \cup [type : {"FlushRenderBucket", "FlushOverlays"}, keys : SUBSET KeysUpTo(g),
          groups : SUBSET TasksUpTo(g, t)]

BackMessages(g, t) ==
  [type : {"TileReadStarted", "TileReadEnded"}, key : KeysUpTo(g)]
    \cup [type : {"MapShapeReaded"}, key : KeysUpTo(g), id : 0..t]
    \cup [type : {"FinishReading", "Restart", "SwitchMapStyle"}]
    \cup [type : {"FinishTileRead"}, keys : SUBSET KeysUpTo(g)]

FrontOK ==
  /\ view \subseteq Tiles /\ notFinished \subseteq view
  /\ maxGeneration \in 0..generation /\ shown \subseteq TasksUpTo(generation, tasks)
  /\ frontend \in {"free", "invalidating", "restarting", "switching", "posting"}
  /\ requested \in [tiles : SUBSET Tiles, screen : SUBSET Tiles, force : BOOLEAN]
  /\ update \in BOOLEAN /\ invalidate \subseteq Tiles /\ left \in 0..MaxEvents
  /\ frontQueue \in Seq(FrontMessages(generation, tasks))

BackOK ==
  /\ at \in {"idle", "update", "count", "check", "push", "stopping", "starting"}
  /\ tiles \subseteq Tiles /\ screen \subseteq Tiles /\ modeChanged \in BOOLEAN
  /\ at \in {"idle", "stopping", "starting"} => tiles = {}
  /\ at = "push" => tiles # {}
  /\ generation \in Nat /\ tasks \in Nat
  /\ infos \subseteq TasksUpTo(generation, tasks) /\ active \subseteq KeysUpTo(generation)
  /\ overlays \subseteq TasksUpTo(generation, tasks)
  /\ batchers \subseteq [key : KeysUpTo(generation), users : Nat \ {0}, shapes : SUBSET (0..tasks)]
  /\ queue \in Seq(BackMessages(generation, tasks))

ReadOK ==
  /\ pool \in Seq(TasksUpTo(generation, tasks)) /\ stopping \in BOOLEAN
  /\ reading \subseteq [task : TasksUpTo(generation, tasks), step : {"read", "end", "finish"}]

TypesOK == FrontOK /\ BackOK /\ ReadOK

\* What there may be only grows.
LEMMA Growing ==
  ASSUME NEW g \in Nat, NEW h \in Nat, g <= h, NEW t \in Nat, NEW u \in Nat, t <= u
  PROVE  /\ KeysUpTo(g) \subseteq KeysUpTo(h) /\ TasksUpTo(g, t) \subseteq TasksUpTo(h, u)
         /\ FrontMessages(g, t) \subseteq FrontMessages(h, u)
         /\ BackMessages(g, t) \subseteq BackMessages(h, u)
         /\ 0..g \subseteq 0..h /\ 0..t \subseteq 0..u
<1>1. 0..g \subseteq 0..h /\ 0..t \subseteq 0..u
  OBVIOUS
<1>2. KeysUpTo(g) \subseteq KeysUpTo(h)
  BY <1>1 DEF KeysUpTo
<1>3. TasksUpTo(g, t) \subseteq TasksUpTo(h, u)
  BY <1>1, <1>2 DEF TasksUpTo
<1>4. FrontMessages(g, t) \subseteq FrontMessages(h, u)
  BY <1>2, <1>3 DEF FrontMessages
<1>5. BackMessages(g, t) \subseteq BackMessages(h, u)
  BY <1>1, <1>2 DEF BackMessages
<1> QED
  BY <1>1, <1>2, <1>3, <1>4, <1>5

\* Types hold in more generations and with more tasks, too.
LEMMA TypesGrow ==
  ASSUME TypesOK, NEW h \in Nat, generation <= h, NEW u \in Nat, tasks <= u
  PROVE  /\ maxGeneration \in 0..h /\ shown \subseteq TasksUpTo(h, u)
         /\ frontQueue \in Seq(FrontMessages(h, u)) /\ queue \in Seq(BackMessages(h, u))
         /\ infos \subseteq TasksUpTo(h, u) /\ active \subseteq KeysUpTo(h)
         /\ overlays \subseteq TasksUpTo(h, u)
         /\ batchers \subseteq [key : KeysUpTo(h), users : Nat \ {0}, shapes : SUBSET (0..u)]
         /\ pool \in Seq(TasksUpTo(h, u))
         /\ reading \subseteq [task : TasksUpTo(h, u), step : {"read", "end", "finish"}]
<1>1. generation \in Nat /\ tasks \in Nat
  BY DEF TypesOK, BackOK
<1>2. /\ KeysUpTo(generation) \subseteq KeysUpTo(h)
      /\ TasksUpTo(generation, tasks) \subseteq TasksUpTo(h, u)
      /\ FrontMessages(generation, tasks) \subseteq FrontMessages(h, u)
      /\ BackMessages(generation, tasks) \subseteq BackMessages(h, u)
      /\ 0..generation \subseteq 0..h /\ 0..tasks \subseteq 0..u
  BY <1>1, Growing
<1>3. maxGeneration \in 0..h /\ shown \subseteq TasksUpTo(h, u)
  BY <1>2 DEF TypesOK, FrontOK
<1>4. frontQueue \in Seq(FrontMessages(h, u)) /\ queue \in Seq(BackMessages(h, u))
      /\ pool \in Seq(TasksUpTo(h, u))
  BY <1>2, SeqMonotonic DEF TypesOK, FrontOK, BackOK, ReadOK
<1>5. infos \subseteq TasksUpTo(h, u) /\ active \subseteq KeysUpTo(h)
      /\ overlays \subseteq TasksUpTo(h, u)
  BY <1>2 DEF TypesOK, BackOK
<1>6. batchers \subseteq [key : KeysUpTo(h), users : Nat \ {0}, shapes : SUBSET (0..u)]
  BY <1>2 DEF TypesOK, BackOK
<1>7. reading \subseteq [task : TasksUpTo(h, u), step : {"read", "end", "finish"}]
  BY <1>2 DEF TypesOK, ReadOK
<1> QED
  BY <1>3, <1>4, <1>5, <1>6, <1>7

\* What the messages to the backend carry.
LEMMA BackMessageFields ==
  ASSUME NEW g, NEW t, NEW m \in BackMessages(g, t)
  PROVE  /\ m.type \in {"TileReadStarted", "TileReadEnded", "MapShapeReaded"} => m.key \in KeysUpTo(g)
         /\ m.type = "MapShapeReaded" => m.id \in 0..t
         /\ m.type = "FinishTileRead" => m \in FrontMessages(g, t)
BY DEF BackMessages, FrontMessages

\* What the messages to the frontend carry.
LEMMA FrontMessageFields ==
  ASSUME NEW g, NEW t, NEW m \in FrontMessages(g, t)
  PROVE  /\ m.keys \subseteq KeysUpTo(g)
         /\ m.type # "FinishTileRead" => m.groups \subseteq TasksUpTo(g, t)
BY DEF FrontMessages

\* The messages that are appended to the backend's queue.
LEMMA BackMessageTypes ==
  ASSUME NEW g, NEW t
  PROVE  /\ \A key \in KeysUpTo(g) :
              /\ [type |-> "TileReadStarted", key |-> key] \in BackMessages(g, t)
              /\ [type |-> "TileReadEnded", key |-> key] \in BackMessages(g, t)
         /\ \A task \in TasksUpTo(g, t) :
              [type |-> "MapShapeReaded", key |-> task.key, id |-> task.id] \in BackMessages(g, t)
         /\ \A keys \in SUBSET KeysUpTo(g) :
              [type |-> "FinishTileRead", keys |-> keys] \in BackMessages(g, t)
         /\ FinishReading \in BackMessages(g, t)
         /\ [type |-> "Restart"] \in BackMessages(g, t)
         /\ [type |-> "SwitchMapStyle"] \in BackMessages(g, t)
BY DEF BackMessages, TasksUpTo, FinishReading

\* Flush makes a message, or none.
LEMMA FlushType ==
  ASSUME NEW g, NEW t, NEW type \in {"FlushRenderBucket", "FlushOverlays"},
         NEW groups \in SUBSET TasksUpTo(g, t)
  PROVE  Flush(type, groups) \in Seq(FrontMessages(g, t))
<1>1. {group.key : group \in groups} \subseteq KeysUpTo(g)
  BY DEF TasksUpTo
<1>2. [type |-> type, keys |-> {group.key : group \in groups}, groups |-> groups]
        \in FrontMessages(g, t)
  BY <1>1 DEF FrontMessages
<1> QED
  BY <1>2 DEF Flush

\* Each step of the frontend keeps the types.
LEMMA FrontendTypes ==
  ASSUME TypesOK, UpdateScene \/ InvalidateRect \/ UpdateAll \/ Frontend
  PROVE  TypesOK'
<1> USE DEF frontVars, managerVars, drawVars, readVars, seenVars
<1> DEFINE F == FrontMessages(generation, tasks)
           B == BackMessages(generation, tasks)
<1>1. FrontOK /\ BackOK /\ ReadOK
  BY DEF TypesOK
<1>2. UNCHANGED <<at, tiles, screen, modeChanged, generation, tasks, infos, active, overlays, batchers,
                  pool, stopping, reading>>
  BY DEF Frontend, UpdateScene, InvalidateRect, UpdateAll, PostUpdate, PostSwitch, Unblock, FrontendAccept
<1>3. ReadOK'
  BY <1>1, <1>2 DEF ReadOK
<1>4. ASSUME queue' = queue
      PROVE  BackOK'
  BY <1>1, <1>2, <1>4 DEF BackOK
<1>5. ASSUME NEW m \in B, queue' = Append(queue, m)
      PROVE  BackOK'
  <2>1. queue' \in Seq(B)
    BY <1>1, <1>5, AppendProperties DEF BackOK
  <2> QED
    BY <1>1, <1>2, <2>1 DEF BackOK
<1>6. ASSUME MayHappen("move") \/ MayHappen("force") \/ MayHappen("invalidate") \/ MayHappen("restart")
      PROVE  left' \in 0..MaxEvents
  BY <1>1, <1>6, BoundAssumption DEF MayHappen, FrontOK
<1>7. CASE UpdateScene
  <2>1. PICK newView \in Views, force \in BOOLEAN :
          /\ MayHappen(IF force THEN "force" ELSE "move")
          /\ Request(newView, force) /\ shown' = ShownIn(newView)
    BY <1>7 DEF UpdateScene
  <2>2. newView \subseteq Tiles /\ left' \in 0..MaxEvents
    BY <1>6, <2>1, ViewsAssumption
  <2>3. FrontOK'
    BY <1>1, <1>2, <1>7, <2>1, <2>2 DEF UpdateScene, FrontOK, Request, NotFinishedIn, ShownIn
  <2> QED
    BY <1>3, <1>4, <1>7, <2>3 DEF UpdateScene, TypesOK
<1>8. CASE InvalidateRect
  <2>1. left' \in 0..MaxEvents
    BY <1>6, <1>8 DEF InvalidateRect
  <2>2. FrontOK'
    BY <1>1, <1>2, <1>8, <2>1 DEF InvalidateRect, FrontOK, ShownIn
  <2> QED
    BY <1>3, <1>4, <1>8, <2>2 DEF InvalidateRect, TypesOK
<1>9. CASE UpdateAll
  <2>1. left' \in 0..MaxEvents
    BY <1>6, <1>9 DEF UpdateAll
  <2>2. FrontOK'
    BY <1>1, <1>2, <1>9, <2>1 DEF UpdateAll, FrontOK
  <2> QED
    BY <1>3, <1>5, <1>9, <2>2, BackMessageTypes DEF UpdateAll, TypesOK
<1>10. CASE PostUpdate
  BY <1>1, <1>2, <1>3, <1>4, <1>10 DEF PostUpdate, FrontOK, TypesOK
<1>11. CASE PostSwitch
  <2>1. FrontOK'
    BY <1>1, <1>2, <1>11 DEF PostSwitch, FrontOK
  <2> QED
    BY <1>3, <1>5, <1>11, <2>1, BackMessageTypes DEF PostSwitch, TypesOK
<1>12. CASE Unblock
  <2>1. FrontOK'
    BY <1>1, <1>2, <1>12 DEF Unblock, FrontOK, Request, NotFinishedIn
  <2> QED
    BY <1>3, <1>4, <1>12, <2>1 DEF Unblock, TypesOK
<1>13. CASE FrontendAccept
  <2> DEFINE m == Head(frontQueue)
             gens == {maxGeneration} \cup {key.gen : key \in m.keys}
  <2>1. m \in F /\ frontQueue' \in Seq(F)
    BY <1>1, <1>13, HeadTailProperties DEF FrontendAccept, FrontOK
  <2>2. /\ m.keys \subseteq KeysUpTo(generation)
        /\ m.type # "FinishTileRead" => m.groups \subseteq TasksUpTo(generation, tasks)
    BY <2>1, FrontMessageFields
  <2>3. maxGeneration' = Max(gens)
    BY <1>13 DEF FrontendAccept
  <2>4. maxGeneration' \in 0..generation
    <3>1. gens \subseteq 0..generation /\ gens # {} /\ generation \in Nat
      BY <1>1, <2>2 DEF KeysUpTo, FrontOK, BackOK
    <3> QED
      BY <2>3, <3>1, MaxIsLargest
  <2>5. shown' \subseteq TasksUpTo(generation, tasks) /\ notFinished' \subseteq view
    <3>1. shown \subseteq TasksUpTo(generation, tasks) /\ notFinished \subseteq view
      BY <1>1 DEF FrontOK
    <3> DEFINE current == {key \in m.keys : key.gen >= maxGeneration}
               kept == shown \ UNION {Outdated(key) : key \in m.keys}
    <3>2. \/ m.type = "FinishTileRead" /\ notFinished' = notFinished \ TilesOf(current) /\ shown' = kept
          \/ /\ m.type # "FinishTileRead" /\ notFinished' = notFinished
             /\ shown' = kept \cup {group \in m.groups : group.key \in current}
      BY <1>13 DEF FrontendAccept
    <3>3. kept \subseteq shown
      OBVIOUS
    <3> HIDE DEF kept, m
    <3> QED
      BY <2>2, <3>1, <3>2, <3>3
  <2> HIDE DEF m, gens
  <2>6. FrontOK'
    BY <1>1, <1>2, <1>13, <2>1, <2>4, <2>5 DEF FrontendAccept, FrontOK
  <2> QED
    BY <1>3, <1>4, <1>13, <2>6 DEF FrontendAccept, TypesOK
<1> QED
  BY <1>7, <1>8, <1>9, <1>10, <1>11, <1>12, <1>13 DEF Frontend

\* Each step of a reader thread keeps the types.
LEMMA ReaderTypes ==
  ASSUME TypesOK, Reader
  PROVE  TypesOK'
<1> USE DEF frontVars, managerVars, drawVars, readVars, seenVars
<1> DEFINE T == TasksUpTo(generation, tasks)
           B == BackMessages(generation, tasks)
<1>1. FrontOK /\ BackOK /\ ReadOK
  BY DEF TypesOK
<1>2. UNCHANGED <<frontVars, frontQueue, requested, update, invalidate, left, at, tiles, screen,
                  modeChanged, generation, infos, overlays, batchers, tasks, stopping>>
  BY DEF Reader, PopFront, ReadFeatures, OnTaskFinished
<1>3. FrontOK'
  BY <1>1, <1>2 DEF FrontOK
<1>4. ASSUME queue' \in Seq(B), active' \subseteq active
      PROVE  BackOK'
  BY <1>1, <1>2, <1>4 DEF BackOK
<1>5. ASSUME NEW task \in T, pool' \in Seq(T), NEW step \in {"read", "end", "finish"},
             reading' \subseteq reading \cup {Does(task, step)}
      PROVE  ReadOK'
  <2>1. Does(task, step) \in [task : T, step : {"read", "end", "finish"}]
    BY DEF Does
  <2> QED
    BY <1>1, <1>2, <1>5, <2>1 DEF ReadOK
<1>6. queue \in Seq(B) /\ pool \in Seq(T) /\ \A task \in T : task.key \in KeysUpTo(generation)
      /\ active \subseteq KeysUpTo(generation)
  BY <1>1 DEF BackOK, ReadOK, TasksUpTo
<1>7. CASE PopFront
  <2> DEFINE task == Head(pool)
  <2>1. task \in T /\ pool' \in Seq(T)
    BY <1>6, <1>7, HeadTailProperties DEF PopFront
  <2>2. [type |-> "TileReadStarted", key |-> task.key] \in B
    BY <1>6, <2>1, BackMessageTypes
  <2>3. queue' = queue \/ queue' = Append(queue, [type |-> "TileReadStarted", key |-> task.key])
    BY <1>7 DEF PopFront
  <2>4. queue' \in Seq(B)
    BY <1>6, <2>2, <2>3, AppendProperties
  <2>5. \E step \in {"read", "end", "finish"} : reading' = reading \cup {Does(task, step)}
    BY <1>7 DEF PopFront
  <2> HIDE DEF task
  <2>6. ReadOK'
    BY <1>5, <2>1, <2>5
  <2> QED
    BY <1>3, <1>4, <1>7, <2>4, <2>6 DEF PopFront, TypesOK
<1>8. ASSUME NEW doing \in reading, ReadFeatures(doing.task)
      PROVE  TypesOK'
  <2> DEFINE m == [type |-> "MapShapeReaded", key |-> doing.task.key, id |-> doing.task.id]
  <2>1. doing.task \in T
    BY <1>1 DEF ReadOK
  <2>2. m \in B
    BY <2>1, BackMessageTypes
  <2>3. queue' = queue \/ queue' = Append(queue, m)
    BY <1>8 DEF ReadFeatures
  <2> HIDE DEF m
  <2>4. queue' \in Seq(B)
    BY <1>6, <2>2, <2>3, AppendProperties
  <2>5. reading' \subseteq reading \cup {Does(doing.task, "end")} /\ pool' = pool /\ active' = active
    BY <1>8 DEF ReadFeatures
  <2> QED
    BY <1>3, <1>4, <1>5, <1>6, <2>1, <2>4, <2>5 DEF TypesOK
<1>9. ASSUME NEW doing \in reading, OnTaskFinished(doing.task, doing.step = "end")
      PROVE  TypesOK'
  <2> DEFINE keys == {key \in active : key.tile = doing.task.key.tile}
             began == <<[type |-> "TileReadEnded", key |-> doing.task.key]>>
             finished == <<[type |-> "FinishTileRead", keys |-> keys]>>
  <2>1. doing.task \in T /\ keys \subseteq KeysUpTo(generation)
    BY <1>1, <1>6 DEF ReadOK
  <2>2. began \in Seq(B) /\ finished \in Seq(B) /\ <<FinishReading>> \in Seq(B) /\ <<>> \in Seq(B)
    <3>1. /\ [type |-> "TileReadEnded", key |-> doing.task.key] \in B
          /\ [type |-> "FinishTileRead", keys |-> keys] \in B
          /\ FinishReading \in B
      BY <1>6, <2>1, BackMessageTypes
    <3> QED
      BY <3>1
  <2>3. \E x \in {began, <<>>}, y \in {<<FinishReading>>, <<>>}, z \in {finished, <<>>} :
          queue' = queue \o x \o y \o z
    BY <1>9 DEF OnTaskFinished
  <2>4. active' \subseteq active /\ reading' \subseteq reading /\ pool' = pool
    BY <1>9 DEF OnTaskFinished
  <2> HIDE DEF began, finished, keys
  <2>5. queue' \in Seq(B)
    <3>1. PICK x \in {began, <<>>}, y \in {<<FinishReading>>, <<>>}, z \in {finished, <<>>} :
            queue' = queue \o x \o y \o z
      BY <2>3
    <3>2. x \in Seq(B) /\ y \in Seq(B) /\ z \in Seq(B)
      BY <2>2
    <3>3. queue \o x \in Seq(B)
      BY <1>6, <3>2, ConcatProperties
    <3>4. queue \o x \o y \in Seq(B)
      BY <3>2, <3>3, ConcatProperties
    <3> QED
      BY <3>1, <3>2, <3>4, ConcatProperties
  <2> QED
    BY <1>3, <1>4, <1>5, <1>6, <2>1, <2>4, <2>5 DEF TypesOK
<1> QED
  BY <1>7, <1>8, <1>9 DEF Reader

\* Each step of the backend with a message keeps the types.
LEMMA MessageTypes ==
  ASSUME TypesOK, ReserveBatcher \/ BatchShapes \/ ReleaseBatcher \/ PassOn
  PROVE  TypesOK'
<1> USE DEF frontVars, managerVars, drawVars, readVars, seenVars
<1> DEFINE F == FrontMessages(generation, tasks)
           B == BackMessages(generation, tasks)
           m == Head(queue)
           Batchers == [key : KeysUpTo(generation), users : Nat \ {0}, shapes : SUBSET (0..tasks)]
<1>1. FrontOK /\ BackOK /\ ReadOK
  BY DEF TypesOK
<1>2. UNCHANGED <<frontVars, requested, update, invalidate, left, at, tiles, managerVars, readVars>>
  BY DEF ReserveBatcher, BatchShapes, ReleaseBatcher, PassOn
<1>3. ReadOK'
  BY <1>1, <1>2 DEF ReadOK
<1>4. queue # <<>> /\ queue' = Tail(queue)
  BY DEF ReserveBatcher, BatchShapes, ReleaseBatcher, PassOn, NextMessage
<1>5. m \in B /\ queue' \in Seq(B)
  BY <1>1, <1>4, HeadTailProperties DEF BackOK
<1>6. /\ m.type \in {"TileReadStarted", "TileReadEnded", "MapShapeReaded"} => m.key \in KeysUpTo(generation)
      /\ m.type = "MapShapeReaded" => m.id \in 0..tasks
      /\ m.type = "FinishTileRead" => m \in F
  BY <1>5, BackMessageFields
<1> HIDE DEF m
<1>7. ASSUME frontQueue' \in Seq(F), overlays' \subseteq TasksUpTo(generation, tasks),
             batchers' \subseteq Batchers
      PROVE  TypesOK'
  <2>1. FrontOK'
    BY <1>1, <1>2, <1>7 DEF FrontOK
  <2>2. BackOK'
    BY <1>1, <1>2, <1>5, <1>7 DEF BackOK
  <2> QED
    BY <1>3, <2>1, <2>2 DEF TypesOK
<1>8. frontQueue \in Seq(F) /\ overlays \subseteq TasksUpTo(generation, tasks) /\ batchers \subseteq Batchers
  BY <1>1 DEF FrontOK, BackOK
<1>9. CASE ReserveBatcher
  <2>1. m.type = "TileReadStarted" /\ batchers' = Reserved(m.key) /\ UNCHANGED <<overlays, frontQueue>>
    BY <1>9 DEF ReserveBatcher, NextMessage, m
  <2>2. batchers' \subseteq Batchers
    BY <1>6, <1>8, <2>1 DEF Reserved
  <2> QED
    BY <1>7, <1>8, <2>1, <2>2
<1>10. CASE BatchShapes
  <2> DEFINE group == [key |-> m.key, id |-> m.id]
  <2>1. m.type = "MapShapeReaded" /\ frontQueue' = frontQueue
    BY <1>10 DEF BatchShapes, NextMessage, m
  <2>2. group \in TasksUpTo(generation, tasks)
    BY <1>6, <2>1 DEF TasksUpTo
  <2>3. \/ batchers' = batchers /\ overlays' = overlays
        \/ /\ batchers' = {IF b.key = m.key THEN [b EXCEPT !.shapes = @ \cup {m.id}] ELSE b : b \in batchers}
           /\ overlays' = OverlaysWith(group)
    BY <1>10 DEF BatchShapes, m
  <2>4. batchers' \subseteq Batchers
    BY <1>6, <1>8, <2>1, <2>3
  <2>5. OverlaysWith(group) \subseteq overlays \cup {group}
    BY DEF OverlaysWith
  <2> QED
    BY <1>7, <1>8, <2>1, <2>2, <2>3, <2>4, <2>5
<1>11. CASE ReleaseBatcher
  <2>1. PICK b \in batchers :
          IF b.users > 1
            THEN batchers' = (batchers \ {b}) \cup {[b EXCEPT !.users = @ - 1]} /\ frontQueue' = frontQueue
            ELSE /\ batchers' = batchers \ {b}
                 /\ frontQueue' = frontQueue \o Flush("FlushRenderBucket", [key : {b.key}, id : b.shapes])
    BY <1>11 DEF ReleaseBatcher
  <2>2. b \in Batchers
    BY <1>8, <2>1
  <2>3. batchers' \subseteq Batchers
    BY <1>8, <2>1, <2>2
  <2>4. frontQueue' \in Seq(F)
    <3>1. [key : {b.key}, id : b.shapes] \subseteq TasksUpTo(generation, tasks)
      BY <2>2 DEF TasksUpTo
    <3>2. Flush("FlushRenderBucket", [key : {b.key}, id : b.shapes]) \in Seq(F)
      BY <3>1, FlushType
    <3> QED
      BY <1>8, <2>1, <3>2, ConcatProperties
  <2> QED
    BY <1>7, <1>8, <1>11, <2>3, <2>4 DEF ReleaseBatcher
<1>12. CASE PassOn
  <2>1. batchers' = batchers /\ overlays' \subseteq overlays
    BY <1>12 DEF PassOn
  <2>2. \/ m.type = "FinishTileRead" /\ frontQueue' = Append(frontQueue, m)
        \/ frontQueue' = frontQueue \o Flush("FlushOverlays", overlays)
        \/ frontQueue' = WithoutStates(frontQueue)
    BY <1>12 DEF PassOn, NextMessage, m
  <2>3. Flush("FlushOverlays", overlays) \in Seq(F)
    BY <1>8, FlushType
  <2>4. WithoutStates(frontQueue) \in Seq(F)
    BY <1>8, WithoutStatesType, SeqMonotonic
  <2>5. frontQueue' \in Seq(F)
    <3>1. m.type = "FinishTileRead" => Append(frontQueue, m) \in Seq(F)
      BY <1>6, <1>8, AppendProperties
    <3>2. frontQueue \o Flush("FlushOverlays", overlays) \in Seq(F)
      BY <1>8, <2>3, ConcatProperties
    <3> QED
      BY <2>2, <2>4, <3>1, <3>2
  <2> QED
    BY <1>7, <1>8, <2>1, <2>5
<1> QED
  BY <1>9, <1>10, <1>11, <1>12

\* Each step of the ReadManager keeps the types.
LEMMA ManagerTypes ==
  ASSUME TypesOK,
         \/ GetTiles \/ CancelOutdated \/ CountNewTiles \/ CheckFinishedTiles
         \/ PushTaskBackForTileKey \/ Invalidate \/ Stop \/ FinishLeftTasks \/ Start
  PROVE  TypesOK'
<1> USE DEF frontVars, managerVars, drawVars, readVars, seenVars
<1> DEFINE B == BackMessages(generation, tasks)
<1>1. FrontOK /\ BackOK /\ ReadOK
  BY DEF TypesOK
<1>2. UNCHANGED <<view, notFinished, maxGeneration, shown, frontend, left, frontQueue, batchers, overlays>>
  BY DEF GetTiles, CancelOutdated, CountNewTiles, CheckFinishedTiles, PushTaskBackForTileKey,
     Invalidate, Stop, FinishLeftTasks, Start
<1>3. queue \in Seq(B) /\ generation \in Nat /\ tasks \in Nat
  BY <1>1 DEF BackOK
<1>4. CASE GetTiles
  BY <1>1, <1>2, <1>4 DEF GetTiles, FrontOK, BackOK, ReadOK, TypesOK
<1>5. CASE CancelOutdated
  <2>1. generation' \in Nat /\ generation <= generation' /\ tasks' = tasks /\ tasks <= tasks
    BY <1>3, <1>5 DEF CancelOutdated
  <2>2. /\ maxGeneration \in 0..generation' /\ shown \subseteq TasksUpTo(generation', tasks)
        /\ frontQueue \in Seq(FrontMessages(generation', tasks))
        /\ queue \in Seq(BackMessages(generation', tasks))
        /\ infos \subseteq TasksUpTo(generation', tasks) /\ active \subseteq KeysUpTo(generation')
        /\ overlays \subseteq TasksUpTo(generation', tasks)
        /\ batchers \subseteq [key : KeysUpTo(generation'), users : Nat \ {0}, shapes : SUBSET (0..tasks)]
        /\ pool \in Seq(TasksUpTo(generation', tasks))
        /\ reading \subseteq [task : TasksUpTo(generation', tasks), step : {"read", "end", "finish"}]
    BY <1>3, <2>1, TypesGrow
  <2>3. FrontOK'
    BY <1>1, <1>2, <1>5, <2>1, <2>2 DEF CancelOutdated, FrontOK
  <2>4. /\ infos' \subseteq infos /\ active' \subseteq active /\ at' = "count" /\ modeChanged' = FALSE
        /\ screen' = requested.screen /\ UNCHANGED <<queue, tiles>>
    BY <1>5 DEF CancelOutdated, ActiveWithout
  <2>5. BackOK'
    BY <1>1, <1>2, <2>1, <2>2, <2>4 DEF FrontOK, BackOK
  <2>6. ReadOK'
    BY <1>1, <1>2, <1>5, <2>1, <2>2 DEF CancelOutdated, ReadOK
  <2> QED
    BY <2>3, <2>5, <2>6 DEF TypesOK
<1>6. CASE CountNewTiles
  BY <1>1, <1>2, <1>6 DEF CountNewTiles, FrontOK, BackOK, ReadOK, TypesOK
<1>7. CASE CheckFinishedTiles
  <2> DEFINE keys == {Key(tile, generation) : tile \in Finished}
  <2>1. keys \subseteq KeysUpTo(generation)
    <3>1. \A task \in infos : task.key.tile \in Tiles
      BY <1>1 DEF BackOK, TasksUpTo, KeysUpTo
    <3>2. Finished \subseteq Tiles
      BY <3>1 DEF Finished, TilesOf
    <3> QED
      BY <1>3, <3>2 DEF Key, KeysUpTo
  <2>2. [type |-> "FinishTileRead", keys |-> keys] \in B
    BY <2>1, BackMessageTypes
  <2>3. queue' = queue \/ queue' = Append(queue, [type |-> "FinishTileRead", keys |-> keys])
    BY <1>7 DEF CheckFinishedTiles
  <2>4. queue' \in Seq(B)
    BY <1>3, <2>2, <2>3, AppendProperties
  <2>5. at' = (IF tiles = {} THEN "idle" ELSE "push") /\ UNCHANGED <<frontVars, frontQueue, requested, update, invalidate,
           tiles, managerVars, counter, drawVars, readVars, left>>
    BY <1>7 DEF CheckFinishedTiles
  <2> QED
    BY <1>1, <2>4, <2>5 DEF FrontOK, BackOK, ReadOK, TypesOK
<1>8. CASE PushTaskBackForTileKey
  <2> DEFINE tile == CHOOSE x \in tiles : TRUE
             task == [key |-> Key(tile, generation), id |-> tasks + 1]
             T == TasksUpTo(generation, tasks + 1)
  <2>1. tasks' = tasks + 1 /\ tasks' \in Nat /\ tasks <= tasks' /\ generation' = generation
        /\ generation <= generation
    BY <1>3, <1>8 DEF PushTaskBackForTileKey
  <2>2. /\ maxGeneration \in 0..generation /\ shown \subseteq T
        /\ frontQueue \in Seq(FrontMessages(generation, tasks + 1))
        /\ queue \in Seq(BackMessages(generation, tasks + 1))
        /\ infos \subseteq T /\ active \subseteq KeysUpTo(generation) /\ overlays \subseteq T
        /\ batchers \subseteq [key : KeysUpTo(generation), users : Nat \ {0}, shapes : SUBSET (0..(tasks + 1))]
        /\ pool \in Seq(T)
        /\ reading \subseteq [task : T, step : {"read", "end", "finish"}]
    BY <1>3, <2>1, TypesGrow
  <2>3. tile \in Tiles
    BY <1>1, <1>8 DEF PushTaskBackForTileKey, BackOK
  <2> HIDE DEF tile
  <2>4. task.key \in KeysUpTo(generation) /\ task \in T
    BY <1>3, <2>3 DEF Key, KeysUpTo, TasksUpTo
  <2>5. /\ infos' = infos \cup {task} /\ active' = active \cup {task.key} /\ pool' = Append(pool, task)
        /\ tiles' \subseteq tiles /\ at' = IF tiles' = {} THEN "idle" ELSE "push"
        /\ UNCHANGED <<frontVars, frontQueue, requested, update, invalidate, queue, screen,
             modeChanged, drawVars, stopping, reading, left>>
    BY <1>8 DEF PushTaskBackForTileKey, tile
  <2> HIDE DEF task, T
  <2>6. pool' \in Seq(T)
    BY <2>2, <2>4, <2>5, AppendProperties
  <2>7. FrontOK'
    BY <1>1, <2>1, <2>2, <2>5 DEF FrontOK, T
  <2>8. BackOK'
    BY <1>1, <2>1, <2>2, <2>4, <2>5 DEF BackOK, T
  <2>9. ReadOK'
    BY <1>1, <2>1, <2>2, <2>5, <2>6 DEF ReadOK, T
  <2> QED
    BY <2>7, <2>8, <2>9 DEF TypesOK
<1>9. CASE Invalidate
  BY <1>1, <1>2, <1>9 DEF Invalidate, ActiveWithout, FrontOK, BackOK, ReadOK, TypesOK
<1>10. CASE Stop
  <2>1. queue # <<>> /\ queue' = Tail(queue) /\ active' \subseteq active /\ at = "idle"
    BY <1>10 DEF Stop, NextMessage, ActiveWithout
  <2>2. queue' \in Seq(B)
    BY <1>3, <2>1, HeadTailProperties
  <2> QED
    BY <1>1, <1>2, <1>10, <2>1, <2>2 DEF Stop, FrontOK, BackOK, ReadOK, TypesOK
<1>11. CASE FinishLeftTasks
  <2>1. \E x \in {<<FinishReading>>, <<>>} : queue' = queue \o x
    BY <1>11 DEF FinishLeftTasks
  <2>2. <<FinishReading>> \in Seq(B) /\ <<>> \in Seq(B)
    BY BackMessageTypes
  <2>3. queue' \in Seq(B)
    BY <1>3, <2>1, <2>2, ConcatProperties
  <2> QED
    BY <1>1, <1>2, <1>11, <2>3 DEF FinishLeftTasks, FrontOK, BackOK, ReadOK, TypesOK
<1>12. CASE Start
  BY <1>1, <1>2, <1>12 DEF Start, FrontOK, BackOK, ReadOK, TypesOK
<1> QED
  BY <1>4, <1>5, <1>6, <1>7, <1>8, <1>9, <1>10, <1>11, <1>12

\* Each step keeps the types.
LEMMA TypesStep ==
  ASSUME TypesOK, [Next]_vars
  PROVE  TypesOK'
<1>1. CASE UNCHANGED vars
  BY <1>1 DEF vars, frontVars, managerVars, drawVars, readVars, seenVars, TypesOK, FrontOK, BackOK, ReadOK
<1>2. CASE UpdateScene \/ InvalidateRect \/ UpdateAll \/ Frontend
  BY <1>2, FrontendTypes
<1>3. CASE Backend
  BY <1>3, MessageTypes, ManagerTypes DEF Backend
<1>4. CASE Reader
  BY <1>4, ReaderTypes
<1> QED
  BY <1>1, <1>2, <1>3, <1>4 DEF Next

\* The types at the start.
LEMMA TypesInit ==
  ASSUME Init
  PROVE  TypesOK
<1>1. <<>> \in Seq(FrontMessages(0, 0)) /\ <<>> \in Seq(BackMessages(0, 0))
      /\ <<>> \in Seq(TasksUpTo(0, 0)) /\ 0 \in 0..0 /\ MaxEvents \in 0..MaxEvents
  BY BoundAssumption
<1>2. FrontOK
  BY <1>1 DEF Init, FrontOK
<1>3. BackOK
  BY <1>1 DEF Init, BackOK
<1>4. ReadOK
  BY <1>1 DEF Init, ReadOK
<1> QED
  BY <1>2, <1>3, <1>4 DEF TypesOK

-----------------------------------------------------------------------------
(* The second invariant: the tasks.  Each is in one place, they are counted, and a *)
(* tile has one that is not cancelled.                                         *)

\* Where the tasks are.
TasksOK ==
  /\ IsFiniteSet(reading) /\ Cardinality(reading) <= Readers
  /\ \A i, j \in DOMAIN pool : pool[i] = pool[j] => i = j
  /\ \A doing \in reading : doing.task \notin Range(pool)
  /\ \A a, b \in reading : a.task = b.task => a = b
  /\ IsFiniteSet(Pending)
  /\ at = "stopping" => stopping
  /\ at \in {"stopping", "starting"} => infos = {}
  /\ at = "starting" => pool = <<>> /\ reading = {}

\* No task is pushed for a tile that has one.
NewTilesOK == at \in {"check", "push"} => tiles \cap TilesOf({task.key : task \in infos}) = {}

ReadingInv == TasksOK /\ NewTilesOK /\ CounterMatchesTasks /\ ActiveTilesAreRead

\* A finite number of tiles.
LEMMA TilesAreFinite ==
  ASSUME NEW S, S \subseteq Tiles
  PROVE  IsFiniteSet(S) /\ Cardinality(S) \in Nat
BY TilesAssumption, FS_Subset, FS_CardinalityType

\* A sequence without repetitions is as long as its range is large.
LEMMA RangeOfDistinct ==
  ASSUME NEW S, NEW s \in Seq(S), \A i, j \in DOMAIN s : s[i] = s[j] => i = j
  PROVE  IsFiniteSet(Range(s)) /\ Cardinality(Range(s)) = Len(s)
<1>1. DOMAIN s = 1..Len(s) /\ Len(s) \in Nat /\ s \in [1..Len(s) -> S]
  BY LenProperties
<1>2. s \in Bijection(1..Len(s), Range(s))
  BY <1>1 DEF Bijection, Injection, Surjection, IsInjective, Range
<1>3. IsFiniteSet(1..Len(s)) /\ Cardinality(1..Len(s)) = Len(s)
  BY <1>1, FS_Interval
<1>4. ExistsBijection(1..Len(s), Range(s))
  BY <1>2 DEF ExistsBijection
<1> QED
  BY <1>3, <1>4, FS_Bijection

\* What a sequence holds when an element is appended.
LEMMA RangeOfAppended ==
  ASSUME NEW S, NEW s \in Seq(S), NEW x \in S
  PROVE  /\ Range(Append(s, x)) = Range(s) \cup {x}
         /\ DOMAIN Append(s, x) = 1..(Len(s) + 1) /\ DOMAIN s = 1..Len(s) /\ Len(s) \in Nat
         /\ \A n \in 1..Len(s) : Append(s, x)[n] = s[n]
         /\ Append(s, x)[Len(s) + 1] = x
<1> DEFINE u == Append(s, x)
<1>1. /\ DOMAIN s = 1..Len(s) /\ Len(s) \in Nat /\ DOMAIN u = 1..(Len(s) + 1)
      /\ \A n \in 1..Len(s) : u[n] = s[n]
      /\ u[Len(s) + 1] = x
  BY AppendProperties, LenProperties
<1> HIDE DEF u
<1>2. \A n \in DOMAIN u : n \in DOMAIN s \/ n = Len(s) + 1
  BY <1>1
<1>3. \A n \in DOMAIN s : n \in DOMAIN u
  BY <1>1
<1>4. Range(u) = Range(s) \cup {x}
  BY <1>1, <1>2, <1>3 DEF Range
<1> QED
  BY <1>1, <1>4 DEF u

\* The same when the first element is taken away.
LEMMA RangeOfTail ==
  ASSUME NEW S, NEW s \in Seq(S), s # <<>>
  PROVE  /\ Range(s) = Range(Tail(s)) \cup {Head(s)} /\ Head(s) = s[1] /\ 1 \in DOMAIN s
         /\ DOMAIN s = 1..Len(s) /\ Len(s) \in Nat \ {0} /\ DOMAIN Tail(s) = 1..(Len(s) - 1)
         /\ \A n \in 1..(Len(s) - 1) : Tail(s)[n] = s[n + 1] /\ n + 1 \in DOMAIN s
<1> DEFINE u == Tail(s)
<1>1. /\ DOMAIN s = 1..Len(s) /\ Len(s) \in Nat \ {0} /\ DOMAIN u = 1..(Len(s) - 1)
      /\ \A n \in 1..(Len(s) - 1) : u[n] = s[n + 1] /\ n + 1 \in DOMAIN s
      /\ Head(s) = s[1] /\ 1 \in DOMAIN s
  BY HeadTailProperties, LenProperties, EmptySeq
<1> HIDE DEF u
<1>2. \A n \in DOMAIN s : n = 1 \/ (n - 1 \in DOMAIN u /\ u[n - 1] = s[n])
  BY <1>1
<1>3. Range(s) = Range(u) \cup {Head(s)}
  <2>1. Range(s) \subseteq Range(u) \cup {Head(s)}
    BY <1>1, <1>2 DEF Range
  <2>2. Range(u) \subseteq Range(s) /\ Head(s) \in Range(s)
    BY <1>1 DEF Range
  <2> QED
    BY <2>1, <2>2
<1> QED
  BY <1>1, <1>3 DEF u

\* Nothing happens to the tasks.
LEMMA TasksLeft ==
  ASSUME ReadingInv, UNCHANGED <<infos, active, counter, pool, stopping, reading, at, tiles>>
  PROVE  ReadingInv'
<1>1. Pending' = Pending
  BY DEF Pending, Range
<1>2. TasksOK'
  BY <1>1 DEF ReadingInv, TasksOK, Range
<1>3. NewTilesOK' /\ CounterMatchesTasks' /\ ActiveTilesAreRead'
  BY <1>1 DEF ReadingInv, NewTilesOK, CounterMatchesTasks, ActiveTilesAreRead, TilesOf
<1> QED
  BY <1>2, <1>3 DEF ReadingInv

\* Each step of a reader thread keeps the invariant.
LEMMA ReaderTasks ==
  ASSUME TypesOK, ReadingInv, Reader
  PROVE  ReadingInv'
<1> USE DEF managerVars, drawVars, readVars, seenVars
<1> DEFINE T == TasksUpTo(generation, tasks)
<1>1. /\ ReadOK /\ TasksOK /\ NewTilesOK /\ CounterMatchesTasks /\ ActiveTilesAreRead
      /\ pool \in Seq(T) /\ reading \subseteq [task : T, step : {"read", "end", "finish"}]
  BY DEF TypesOK, ReadOK, ReadingInv
<1>2. UNCHANGED <<at, tiles, infos, stopping>>
  BY DEF Reader, PopFront, ReadFeatures, OnTaskFinished
<1>3. NewTilesOK'
  BY <1>1, <1>2 DEF NewTilesOK, TilesOf
<1>4. \A doing \in reading : doing = Does(doing.task, doing.step)
  BY <1>1 DEF Does
<1>5. \A task, step : Does(task, step).task = task /\ Does(task, step).step = step
  BY DEF Does
<1>6. CASE PopFront
  <2> DEFINE task == Head(pool)
  <2>1. /\ ~stopping /\ Cardinality(reading) < Readers /\ pool # <<>> /\ pool' = Tail(pool)
        /\ UNCHANGED <<counter, active>>
    BY <1>6 DEF PopFront
  <2>2. PICK step \in {"read", "finish"} : reading' = reading \cup {Does(task, step)}
    BY <1>6 DEF PopFront
  <2>3. /\ Range(pool) = Range(pool') \cup {task} /\ task = pool[1] /\ 1 \in DOMAIN pool
        /\ DOMAIN pool = 1..Len(pool) /\ Len(pool) \in Nat \ {0} /\ DOMAIN pool' = 1..(Len(pool) - 1)
        /\ \A n \in 1..(Len(pool) - 1) : pool'[n] = pool[n + 1] /\ n + 1 \in DOMAIN pool
    BY <1>1, <2>1, RangeOfTail
  <2> HIDE DEF task
  <2>4. task \notin Range(pool')
    <3>1. \A n \in DOMAIN pool' : pool'[n] # pool[1]
      BY <1>1, <2>3 DEF TasksOK
    <3> QED
      BY <2>3, <3>1 DEF Range
  <2>5. \A i, j \in DOMAIN pool' : pool'[i] = pool'[j] => i = j
    BY <1>1, <2>3 DEF TasksOK
  <2>6. \A doing \in reading : doing.task # task /\ doing.task \notin Range(pool')
    BY <1>1, <2>3 DEF TasksOK
  <2>7. Pending' = Pending
    <3>1. {doing.task : doing \in reading'} = {doing.task : doing \in reading} \cup {task}
      BY <1>5, <2>2
    <3> QED
      BY <2>3, <3>1 DEF Pending
  <2>8. IsFiniteSet(reading') /\ Cardinality(reading') <= Readers
    <3>1. Does(task, step) \notin reading
      BY <1>5, <2>6
    <3>2. IsFiniteSet(reading') /\ Cardinality(reading') = Cardinality(reading) + 1
      BY <1>1, <2>2, <3>1, FS_AddElement DEF TasksOK
    <3>3. Cardinality(reading) \in Nat /\ Readers \in Nat
      BY <1>1, FS_CardinalityType, BoundAssumption DEF TasksOK
    <3> QED
      BY <2>1, <3>2, <3>3
  <2>9. TasksOK'
    <3>1. \A doing \in reading' : doing.task \notin Range(pool')
      BY <1>5, <2>2, <2>4, <2>6
    <3>2. \A a, b \in reading' : a.task = b.task => a = b
      BY <1>1, <1>5, <2>2, <2>6 DEF TasksOK
    <3> QED
      BY <1>1, <1>2, <2>1, <2>5, <2>7, <2>8, <3>1, <3>2 DEF TasksOK
  <2>10. CounterMatchesTasks' /\ ActiveTilesAreRead'
    BY <1>1, <1>2, <2>1, <2>7 DEF CounterMatchesTasks, ActiveTilesAreRead
  <2> QED
    BY <1>3, <2>9, <2>10 DEF ReadingInv
<1>7. ASSUME NEW doing \in reading, doing.step = "read", ReadFeatures(doing.task)
      PROVE  ReadingInv'
  <2> DEFINE task == doing.task
  <2>1. /\ reading' = (reading \ {doing}) \cup {Does(task, "end")}
        /\ UNCHANGED <<counter, active, pool>>
    BY <1>4, <1>7 DEF ReadFeatures
  <2>2. Does(task, "end") \notin reading \ {doing}
    BY <1>1, <1>5 DEF TasksOK
  <2>3. {x.task : x \in reading'} = {x.task : x \in reading}
    BY <1>5, <2>1
  <2>4. Pending' = Pending
    BY <2>1, <2>3 DEF Pending
  <2>5. IsFiniteSet(reading') /\ Cardinality(reading') <= Readers
    <3>1. IsFiniteSet(reading \ {doing}) /\ Cardinality(reading \ {doing}) = Cardinality(reading) - 1
      BY <1>1, FS_RemoveElement DEF TasksOK
    <3>2. IsFiniteSet(reading') /\ Cardinality(reading') = Cardinality(reading \ {doing}) + 1
      BY <2>1, <2>2, <3>1, FS_AddElement
    <3>3. Cardinality(reading) \in Nat
      BY <1>1, FS_CardinalityType DEF TasksOK
    <3> QED
      BY <1>1, <3>1, <3>2, <3>3 DEF TasksOK
  <2>6. TasksOK'
    <3>1. \A x \in reading' : x.task \notin Range(pool')
      BY <1>1, <1>5, <2>1 DEF TasksOK
    <3>2. \A a, b \in reading' : a.task = b.task => a = b
      BY <1>1, <1>5, <2>1 DEF TasksOK
    <3> QED
      BY <1>1, <1>2, <2>1, <2>4, <2>5, <3>1, <3>2 DEF TasksOK
  <2>7. CounterMatchesTasks' /\ ActiveTilesAreRead'
    BY <1>1, <1>2, <2>1, <2>4 DEF CounterMatchesTasks, ActiveTilesAreRead
  <2> QED
    BY <1>3, <2>6, <2>7 DEF ReadingInv
<1>8. ASSUME NEW doing \in reading, OnTaskFinished(doing.task, doing.step = "end")
      PROVE  ReadingInv'
  <2> DEFINE task == doing.task
             keys == {key \in active : key.tile = task.key.tile}
  <2>1. /\ reading' = {x \in reading : x.task # task} /\ counter' = counter - 1 /\ pool' = pool
        /\ active' = IF task \in infos THEN active \ keys ELSE active
    BY <1>8 DEF OnTaskFinished, FinishesItsTile, IsCancelled
  <2>2. task \in Pending /\ Pending' = Pending \ {task}
    <3>1. task \notin Range(pool)
      BY <1>1 DEF TasksOK
    <3> QED
      BY <2>1, <3>1 DEF Pending
  <2>3. IsFiniteSet(Pending') /\ Cardinality(Pending') = Cardinality(Pending) - 1
        /\ Cardinality(Pending) \in Nat
    BY <1>1, <2>2, FS_RemoveElement, FS_CardinalityType DEF TasksOK
  <2>4. IsFiniteSet(reading') /\ Cardinality(reading') <= Readers
    <3>1. reading' \subseteq reading
      BY <2>1
    <3>2. IsFiniteSet(reading') /\ Cardinality(reading') <= Cardinality(reading)
      BY <1>1, <3>1, FS_Subset DEF TasksOK
    <3>3. Cardinality(reading) \in Nat /\ Cardinality(reading') \in Nat /\ Readers \in Nat
      BY <1>1, <3>2, FS_CardinalityType, BoundAssumption DEF TasksOK
    <3> QED
      BY <1>1, <3>2, <3>3 DEF TasksOK
  <2>5. TasksOK'
    BY <1>1, <1>2, <2>1, <2>3, <2>4 DEF TasksOK
  <2>6. CounterMatchesTasks'
    <3>1. tiles \subseteq Tiles
      BY DEF TypesOK, BackOK
    <3>2. Cardinality(tiles) \in Nat
      BY <3>1, TilesAreFinite
    <3> QED
      BY <1>1, <1>2, <2>1, <2>3, <3>2 DEF CounterMatchesTasks
  <2>7. ActiveTilesAreRead'
    <3>1. CASE task \in infos
      <4>1. \A x \in infos \cap Pending' : x.key \in active'
        BY <1>1, <2>1, <2>2, <3>1 DEF ActiveTilesAreRead
      <4>2. \A key \in active' : \E x \in infos \cap Pending' : x.key = key
        BY <1>1, <2>1, <2>2, <3>1 DEF ActiveTilesAreRead
      <4> QED
        BY <1>1, <1>2, <4>1, <4>2 DEF ActiveTilesAreRead
    <3>2. CASE task \notin infos
      <4>1. infos \cap Pending' = infos \cap Pending
        BY <2>2, <3>2
      <4> QED
        BY <1>1, <1>2, <2>1, <3>2, <4>1 DEF ActiveTilesAreRead
    <3> QED
      BY <3>1, <3>2
  <2> QED
    BY <1>3, <2>5, <2>6, <2>7 DEF ReadingInv
<1> QED
  BY <1>6, <1>7, <1>8 DEF Reader

\* CancelTileInfo leaves the other tiles active.
LEMMA CancelKeepsActive ==
  ASSUME ActiveTilesAreRead, NEW S, S \subseteq infos, Pending' = Pending,
         infos' = infos \ S, active' = ActiveWithout(S)
  PROVE  ActiveTilesAreRead'
<1>1. active' = {key \in active : \A x \in S : key.tile # x.key.tile}
  BY DEF ActiveWithout, TilesOf
<1>2. \A x \in infos' \cap Pending' : x.key \in active'
  BY <1>1 DEF ActiveTilesAreRead
<1>3. \A key \in active' : \E x \in infos' \cap Pending' : x.key = key
  BY <1>1 DEF ActiveTilesAreRead
<1> QED
  BY <1>2, <1>3 DEF ActiveTilesAreRead

\* Each step of the ReadManager keeps the invariant.
LEMMA ManagerTasks ==
  ASSUME TypesOK, ReadingInv,
         \/ GetTiles \/ CancelOutdated \/ CountNewTiles \/ CheckFinishedTiles
         \/ PushTaskBackForTileKey \/ Invalidate \/ Stop \/ FinishLeftTasks \/ Start
  PROVE  ReadingInv'
<1> USE DEF managerVars, drawVars, readVars, seenVars
<1> DEFINE T == TasksUpTo(generation, tasks)
<1>1. /\ BackOK /\ TasksOK /\ NewTilesOK /\ CounterMatchesTasks /\ ActiveTilesAreRead
      /\ pool \in Seq(T) /\ reading \subseteq [task : T, step : {"read", "end", "finish"}]
      /\ tasks \in Nat /\ tiles \subseteq Tiles
  BY DEF TypesOK, BackOK, ReadOK, ReadingInv
<1>2. IsFiniteSet(Pending) /\ Cardinality(Pending) \in Nat
  BY <1>1, FS_CardinalityType DEF TasksOK
<1>3. \A S : S \subseteq Tiles => IsFiniteSet(S) /\ Cardinality(S) \in Nat
  BY TilesAreFinite
<1>4. Cardinality({}) = 0
  BY FS_EmptySet
<1>5. UNCHANGED <<pool, reading>> => Pending' = Pending
  BY DEF Pending
<1>6. CASE GetTiles
  <2>1. Pending' = Pending /\ at = "idle" /\ at' \in {"idle", "update"}
        /\ UNCHANGED <<infos, active, counter, pool, stopping, reading>>
    BY <1>5, <1>6 DEF GetTiles, NextMessage
  <2>2. TasksOK' /\ NewTilesOK' /\ CounterMatchesTasks' /\ ActiveTilesAreRead'
    BY <1>1, <2>1 DEF TasksOK, NewTilesOK, CounterMatchesTasks, ActiveTilesAreRead
  <2> QED
    BY <2>2 DEF ReadingInv
<1>7. CASE CancelOutdated
  <2>1. /\ Pending' = Pending /\ at = "update" /\ at' = "count"
        /\ UNCHANGED <<counter, pool, stopping, reading>>
    BY <1>5, <1>7 DEF CancelOutdated
  <2>2. \E S : S \subseteq infos /\ infos' = infos \ S /\ active' = ActiveWithout(S)
    <3> DEFINE dropAll == modeChanged \/ requested.force \/ MustDropAllTiles(requested.screen)
               S == IF dropAll THEN infos ELSE {task \in infos : task.key.tile \notin tiles}
    <3>1. S \subseteq infos /\ infos' = infos \ S /\ active' = ActiveWithout(S)
      BY <1>7 DEF CancelOutdated
    <3> HIDE DEF S
    <3> QED
      BY <3>1
  <2>3. ActiveTilesAreRead'
    BY <1>1, <2>1, <2>2, CancelKeepsActive
  <2>4. TasksOK' /\ NewTilesOK' /\ CounterMatchesTasks'
    BY <1>1, <2>1 DEF TasksOK, NewTilesOK, CounterMatchesTasks
  <2> QED
    BY <2>3, <2>4 DEF ReadingInv
<1>8. CASE CountNewTiles
  <2>1. /\ Pending' = Pending /\ at = "count" /\ at' = "check"
        /\ tiles' = tiles \ TilesOf({task.key : task \in infos})
        /\ counter' = counter + Cardinality(tiles')
        /\ UNCHANGED <<infos, active, pool, stopping, reading>>
    BY <1>5, <1>8 DEF CountNewTiles, Increased
  <2>2. CounterMatchesTasks'
    BY <1>1, <1>2, <1>3, <2>1 DEF CounterMatchesTasks
  <2>3. TasksOK' /\ ActiveTilesAreRead'
    BY <1>1, <2>1 DEF TasksOK, ActiveTilesAreRead
  <2>4. NewTilesOK'
    BY <2>1 DEF NewTilesOK
  <2> QED
    BY <2>2, <2>3, <2>4 DEF ReadingInv
<1>9. CASE CheckFinishedTiles
  <2>1. /\ Pending' = Pending /\ at = "check" /\ at' = (IF tiles = {} THEN "idle" ELSE "push")
        /\ UNCHANGED <<infos, active, counter, tiles, pool, stopping, reading>>
    BY <1>5, <1>9 DEF CheckFinishedTiles
  <2>2. CounterMatchesTasks'
    BY <1>1, <1>2, <1>3, <1>4, <2>1 DEF CounterMatchesTasks
  <2>3. TasksOK' /\ NewTilesOK' /\ ActiveTilesAreRead'
    BY <1>1, <2>1 DEF TasksOK, NewTilesOK, ActiveTilesAreRead
  <2> QED
    BY <2>2, <2>3 DEF ReadingInv
<1>10. CASE PushTaskBackForTileKey
  <2> DEFINE tile == CHOOSE x \in tiles : TRUE
             task == [key |-> Key(tile, generation), id |-> tasks + 1]
  <2>1. /\ at = "push" /\ at' = (IF tiles' = {} THEN "idle" ELSE "push")
        /\ infos' = infos \cup {task} /\ active' = active \cup {task.key}
        /\ pool' = Append(pool, task) /\ tiles' = tiles \ {tile}
        /\ UNCHANGED <<counter, stopping, reading>>
    BY <1>10 DEF PushTaskBackForTileKey
  <2>2. tile \in tiles
    BY <1>1, <2>1 DEF BackOK
  <2> HIDE DEF tile
  <2>3. task.key.tile = tile /\ task.id = tasks + 1
    BY DEF Key
  <2>4. ReadOK /\ ReadOK' /\ \A x \in T : x.id <= tasks
    <3>1. TypesOK'
      BY <1>10, ManagerTypes
    <3> QED
      BY <1>1, <3>1 DEF TypesOK, TasksUpTo
  <2>5. task \notin Range(pool) /\ \A doing \in reading : doing.task # task
    <3>1. \A n \in DOMAIN pool : pool[n] \in T
      BY <1>1, LenProperties
    <3>2. task \notin T
      BY <1>1, <2>3, <2>4
    <3> QED
      BY <1>1, <3>1, <3>2 DEF Range
  <2>6. /\ Range(pool') = Range(pool) \cup {task}
        /\ DOMAIN pool' = 1..(Len(pool) + 1) /\ DOMAIN pool = 1..Len(pool) /\ Len(pool) \in Nat
        /\ \A n \in 1..Len(pool) : pool'[n] = pool[n]
        /\ pool'[Len(pool) + 1] = task
    <3> DEFINE U == T \cup {task}
    <3>1. pool \in Seq(U) /\ task \in U
      BY <1>1, SeqMonotonic
    <3> HIDE DEF U, task
    <3> QED
      BY <2>1, <3>1, RangeOfAppended
  <2> HIDE DEF task
  <2>7. \A i, j \in DOMAIN pool' : pool'[i] = pool'[j] => i = j
    <3>1. \A i \in DOMAIN pool' : i \in DOMAIN pool \/ i = Len(pool) + 1
      BY <2>6
    <3>2. \A i \in DOMAIN pool : pool'[i] = pool[i] /\ pool[i] # task
      BY <2>5, <2>6 DEF Range
    <3> QED
      BY <1>1, <2>6, <3>1, <3>2 DEF TasksOK
  <2>8. Pending' = Pending \cup {task} /\ task \notin Pending
    BY <2>1, <2>5, <2>6 DEF Pending
  <2>9. IsFiniteSet(Pending') /\ Cardinality(Pending') = Cardinality(Pending) + 1
    BY <1>2, <2>8, FS_AddElement
  <2>10. TasksOK'
    <3>1. \A doing \in reading' : doing.task \notin Range(pool')
      BY <1>1, <2>1, <2>5, <2>6 DEF TasksOK
    <3> QED
      BY <1>1, <2>1, <2>7, <2>9, <3>1 DEF TasksOK
  <2>11. CounterMatchesTasks'
    <3>1. IsFiniteSet(tiles) /\ Cardinality(tiles) \in Nat /\ IsFiniteSet(tiles')
          /\ Cardinality(tiles') = Cardinality(tiles) - 1
      BY <1>1, <1>3, <2>1, <2>2, FS_RemoveElement
    <3>2. tiles' = {} => Cardinality(tiles') = 0
      BY <1>4
    <3>3. counter = Cardinality(Pending) + Cardinality(tiles)
      BY <1>1, <2>1 DEF CounterMatchesTasks
    <3>4. counter' = Cardinality(Pending') + (IF at' = "push" THEN Cardinality(tiles') ELSE 0)
      BY <1>2, <2>1, <2>9, <3>1, <3>2, <3>3
    <3> QED
      BY <2>1, <3>4 DEF CounterMatchesTasks
  <2>12. \A x \in infos : x.key.tile # tile
    BY <1>1, <2>1, <2>2 DEF NewTilesOK, TilesOf
  <2>13. NewTilesOK'
    <3>1. \A x \in infos' : x.key.tile \notin tiles'
      BY <1>1, <2>1, <2>3 DEF NewTilesOK, TilesOf
    <3> QED
      BY <3>1 DEF NewTilesOK, TilesOf
  <2>14. ActiveTilesAreRead'
    <3>1. \A x \in infos' \cap Pending' : x.key \in active'
      BY <1>1, <2>1, <2>8 DEF ActiveTilesAreRead
    <3>2. \A key \in active' : \E x \in infos' \cap Pending' : x.key = key
      BY <1>1, <2>1, <2>8 DEF ActiveTilesAreRead
    <3>3. \A a, b \in infos' : a.key.tile = b.key.tile => a = b
      BY <1>1, <2>1, <2>3, <2>12 DEF ActiveTilesAreRead
    <3> QED
      BY <3>1, <3>2, <3>3 DEF ActiveTilesAreRead
  <2> QED
    BY <2>10, <2>11, <2>13, <2>14 DEF ReadingInv
<1>11. CASE Invalidate
  <2>1. /\ Pending' = Pending /\ at = "idle" /\ at' = at
        /\ UNCHANGED <<counter, pool, stopping, reading>>
    BY <1>5, <1>11 DEF Invalidate, NextMessage
  <2>2. \E S : S \subseteq infos /\ infos' = infos \ S /\ active' = ActiveWithout(S)
    <3> DEFINE S == {task \in infos : task.key.tile \in invalidate}
    <3>1. S \subseteq infos /\ infos' = infos \ S /\ active' = ActiveWithout(S)
      BY <1>11 DEF Invalidate
    <3> HIDE DEF S
    <3> QED
      BY <3>1
  <2>3. ActiveTilesAreRead'
    BY <1>1, <2>1, <2>2, CancelKeepsActive
  <2>4. TasksOK' /\ NewTilesOK' /\ CounterMatchesTasks'
    BY <1>1, <2>1 DEF TasksOK, NewTilesOK, CounterMatchesTasks
  <2> QED
    BY <2>3, <2>4 DEF ReadingInv
<1>12. CASE Stop
  <2>1. /\ Pending' = Pending /\ at = "idle" /\ at' = "stopping" /\ stopping' = TRUE
        /\ infos' = infos \ infos /\ active' = ActiveWithout(infos)
        /\ UNCHANGED <<counter, pool, reading>>
    BY <1>5, <1>12 DEF Stop, NextMessage
  <2>2. ActiveTilesAreRead'
    BY <1>1, <2>1, CancelKeepsActive
  <2>3. TasksOK' /\ NewTilesOK' /\ CounterMatchesTasks'
    BY <1>1, <2>1 DEF TasksOK, NewTilesOK, CounterMatchesTasks
  <2> QED
    BY <2>2, <2>3 DEF ReadingInv
<1>13. CASE FinishLeftTasks
  <2>1. /\ at = "stopping" /\ at' = "starting" /\ reading = {} /\ pool' = <<>>
        /\ counter' = counter - Len(pool) /\ UNCHANGED <<infos, active, stopping, reading>>
    BY <1>13 DEF FinishLeftTasks
  <2>2. infos = {} /\ active = {}
    BY <1>1, <2>1 DEF TasksOK, ActiveTilesAreRead
  <2>3. Pending = Range(pool) /\ Pending' = {} /\ IsFiniteSet({}) /\ Range(pool') = {}
    BY <2>1, FS_EmptySet DEF Pending, Range
  <2>4. Cardinality(Pending) = Len(pool) /\ Len(pool) \in Nat
    BY <1>1, <2>3, RangeOfDistinct, LenProperties DEF TasksOK
  <2>5. CounterMatchesTasks'
    BY <1>1, <1>4, <2>1, <2>3, <2>4 DEF CounterMatchesTasks
  <2>6. TasksOK' /\ NewTilesOK' /\ ActiveTilesAreRead'
    BY <1>1, <2>1, <2>2, <2>3 DEF TasksOK, NewTilesOK, ActiveTilesAreRead
  <2> QED
    BY <2>5, <2>6 DEF ReadingInv
<1>14. CASE Start
  <2>1. /\ Pending' = Pending /\ at = "starting" /\ at' = "idle"
        /\ UNCHANGED <<infos, active, counter, tiles, pool, reading>>
    BY <1>5, <1>14 DEF Start
  <2>2. TasksOK' /\ NewTilesOK' /\ CounterMatchesTasks' /\ ActiveTilesAreRead'
    BY <1>1, <2>1 DEF TasksOK, NewTilesOK, CounterMatchesTasks, ActiveTilesAreRead
  <2> QED
    BY <2>2 DEF ReadingInv
<1> QED
  BY <1>6, <1>7, <1>8, <1>9, <1>10, <1>11, <1>12, <1>13, <1>14

\* The tasks are counted, and each tile that is active is read, always.
THEOREM ReadingIsSound == Spec => [](TypesOK /\ ReadingInv)
<1>1. Init => TypesOK /\ ReadingInv
  <2> SUFFICES ASSUME Init PROVE TypesOK /\ ReadingInv
    OBVIOUS
  <2>1. Pending = {} /\ IsFiniteSet({}) /\ Cardinality({}) = 0 /\ Range(<<>>) = {} /\ DOMAIN <<>> = {}
    BY FS_EmptySet DEF Init, Pending, Range
  <2>2. TasksOK
    BY <2>1, BoundAssumption DEF Init, TasksOK
  <2>3. NewTilesOK /\ CounterMatchesTasks /\ ActiveTilesAreRead
    BY <2>1 DEF Init, NewTilesOK, CounterMatchesTasks, ActiveTilesAreRead
  <2> QED
    BY <2>2, <2>3, TypesInit DEF ReadingInv
<1>2. TypesOK /\ ReadingInv /\ [Next]_vars => (TypesOK /\ ReadingInv)'
  <2> SUFFICES ASSUME TypesOK, ReadingInv, [Next]_vars PROVE ReadingInv'
    BY TypesStep
  <2>1. CASE UpdateScene \/ InvalidateRect \/ UpdateAll \/ Frontend \/ UNCHANGED vars
    BY <2>1, TasksLeft DEF vars, managerVars, readVars, UpdateScene, InvalidateRect, UpdateAll, Frontend,
       PostUpdate, PostSwitch, Unblock, FrontendAccept
  <2>2. CASE ReserveBatcher \/ BatchShapes \/ ReleaseBatcher \/ PassOn
    BY <2>2, TasksLeft DEF managerVars, readVars, ReserveBatcher, BatchShapes, ReleaseBatcher, PassOn
  <2> QED
    BY <2>1, <2>2, ReaderTasks, ManagerTasks DEF Next, Backend
<1> QED
  BY <1>1, <1>2, PTL DEF Spec

\* m_counter is the number of tasks that are pushed and not finished: it is 0 when a
\* new pool starts (the ASSERT of ReadManager::Start).
THEOREM CounterIsExact == Spec => []CounterMatchesTasks
<1>1. ReadingInv => CounterMatchesTasks
  BY DEF ReadingInv
<1> QED
  BY <1>1, ReadingIsSound, PTL

\* A tile is active exactly while a task that was not cancelled reads it (the ASSERT of
\* ReadManager::OnTaskFinished).
THEOREM ActiveTilesHaveATask == Spec => []ActiveTilesAreRead
<1>1. ReadingInv => ActiveTilesAreRead
  BY DEF ReadingInv
<1> QED
  BY <1>1, ReadingIsSound, PTL

-----------------------------------------------------------------------------
(* The second invariant: overlays are sent. *)

\* Where the messages of a type are in a sequence.
Of(s, type) == {n \in DOMAIN s : s[n].type = type}

\* A message is appended.
LEMMA OfAppended ==
  ASSUME NEW S, NEW s \in Seq(S), NEW m \in S, NEW type
  PROVE  /\ Of(Append(s, m), type) =
              IF m.type = type THEN Of(s, type) \cup {Len(s) + 1} ELSE Of(s, type)
         /\ Of(s, type) \subseteq 1..Len(s) /\ Len(s) \in Nat
         /\ Append(s, m)[Len(s) + 1] = m /\ Len(Append(s, m)) = Len(s) + 1
         /\ \A n \in 1..Len(s) : Append(s, m)[n] = s[n]
<1> DEFINE u == Append(s, m)
<1>1. /\ DOMAIN s = 1..Len(s) /\ Len(s) \in Nat /\ DOMAIN u = 1..(Len(s) + 1)
      /\ \A n \in 1..Len(s) : u[n] = s[n]
      /\ u[Len(s) + 1] = m /\ Len(u) = Len(s) + 1
  BY AppendProperties, LenProperties
<1> HIDE DEF u
<1>2. Of(u, type) = IF m.type = type THEN Of(s, type) \cup {Len(s) + 1} ELSE Of(s, type)
  BY <1>1 DEF Of
<1>3. Of(s, type) \subseteq 1..Len(s)
  BY <1>1 DEF Of
<1> QED
  BY <1>1, <1>2, <1>3 DEF u

\* The first message is taken away.
LEMMA OfTail ==
  ASSUME NEW S, NEW s \in Seq(S), s # <<>>, NEW type
  PROVE  /\ Head(s) = s[1] /\ Len(s) \in Nat \ {0} /\ Len(Tail(s)) = Len(s) - 1
         /\ \A n \in Of(Tail(s), type) :
              n \in Nat /\ n + 1 \in Of(s, type) /\ n + 1 # 1 /\ Tail(s)[n] = s[n + 1]
         /\ \A n \in Of(s, type) :
              n \in 1..Len(s) /\ (n # 1 => n - 1 \in Of(Tail(s), type))
         /\ (1 \in Of(s, type)) = (Head(s).type = type)
<1> DEFINE u == Tail(s)
<1>1. /\ DOMAIN s = 1..Len(s) /\ Len(s) \in Nat \ {0} /\ DOMAIN u = 1..(Len(s) - 1)
      /\ \A n \in 1..(Len(s) - 1) : u[n] = s[n + 1] /\ n + 1 \in DOMAIN s
      /\ Head(s) = s[1] /\ 1 \in DOMAIN s /\ Len(u) = Len(s) - 1
  BY HeadTailProperties, LenProperties, EmptySeq
<1> HIDE DEF u
<1>2. \A n \in Of(u, type) : n \in Nat /\ n + 1 \in Of(s, type) /\ n + 1 # 1 /\ u[n] = s[n + 1]
  BY <1>1 DEF Of
<1>3. \A n \in Of(s, type) : n \in 1..Len(s) /\ (n # 1 => n - 1 \in Of(u, type))
  BY <1>1 DEF Of
<1>4. (1 \in Of(s, type)) = (Head(s).type = type)
  BY <1>1 DEF Of
<1> QED
  BY <1>1, <1>2, <1>3, <1>4 DEF u

\* OverlaysAreSent for any messages, overlays and counter.
SentIn(q, drawn, n) ==
  drawn # {} \/ Of(q, "MapShapeReaded") # {} =>
    \/ n > 0
    \/ \E i \in Of(q, "FinishReading") : \A j \in Of(q, "MapShapeReaded") : j < i

\* It is that property.
LEMMA SentIsSent == OverlaysAreSent <=> SentIn(queue, overlays, counter)
BY DEF OverlaysAreSent, SentIn, Index, Of

\* Any other message may follow.
LEMMA SentAppended ==
  ASSUME NEW S, NEW q \in Seq(S), NEW m \in S, m.type # "MapShapeReaded", NEW drawn, NEW n,
         SentIn(q, drawn, n)
  PROVE  SentIn(Append(q, m), drawn, n)
<1>1. /\ Of(Append(q, m), "MapShapeReaded") = Of(q, "MapShapeReaded")
      /\ Of(q, "FinishReading") \subseteq Of(Append(q, m), "FinishReading")
  BY OfAppended
<1> QED
  BY <1>1 DEF SentIn

\* FinishReading sends everything that was queued before it.
LEMMA SentByFinishReading ==
  ASSUME NEW S, NEW q \in Seq(S), FinishReading \in S, NEW drawn, NEW n
  PROVE  SentIn(Append(q, FinishReading), drawn, n)
<1>1. FinishReading.type = "FinishReading"
  BY DEF FinishReading
<1>2. /\ Of(Append(q, FinishReading), "MapShapeReaded") = Of(q, "MapShapeReaded")
      /\ Of(Append(q, FinishReading), "FinishReading") = Of(q, "FinishReading") \cup {Len(q) + 1}
  BY <1>1, OfAppended
<1>3. \A j \in Of(q, "MapShapeReaded") : j < Len(q) + 1
  <2>1. Of(q, "MapShapeReaded") \subseteq 1..Len(q) /\ Len(q) \in Nat
    BY OfAppended
  <2> QED
    BY <2>1
<1> QED
  BY <1>2, <1>3 DEF SentIn

\* The first message is handled: overlays are new only if it brought them, and after
\* FinishReading there are none.
LEMMA SentOfTail ==
  ASSUME NEW S, NEW q \in Seq(S), q # <<>>, NEW drawn, NEW left1, NEW n, SentIn(q, drawn, n),
         Head(q).type = "FinishReading" => left1 = {},
         left1 # {} => drawn # {} \/ Head(q).type = "MapShapeReaded"
  PROVE  SentIn(Tail(q), left1, n)
<1> DEFINE u == Tail(q)
<1>1. \A type :
         /\ \A i \in Of(u, type) : i \in Nat /\ i + 1 \in Of(q, type) /\ i + 1 # 1
         /\ \A i \in Of(q, type) : i \in 1..Len(q) /\ (i # 1 => i - 1 \in Of(u, type))
         /\ (1 \in Of(q, type)) = (Head(q).type = type)
  BY OfTail
<1> HIDE DEF u
<1>2. SUFFICES ASSUME left1 # {} \/ Of(u, "MapShapeReaded") # {}, ~(n > 0)
               PROVE  \E i \in Of(u, "FinishReading") : \A j \in Of(u, "MapShapeReaded") : j < i
  BY DEF SentIn, u
<1>3. drawn # {} \/ Of(q, "MapShapeReaded") # {}
  BY <1>1, <1>2
<1>4. PICK i \in Of(q, "FinishReading") : \A j \in Of(q, "MapShapeReaded") : j < i
  BY <1>2, <1>3 DEF SentIn
<1>5. i \in 1..Len(q) /\ i # 1
  <2>1. CASE Head(q).type = "FinishReading"
    <3>1. PICK j \in Of(u, "MapShapeReaded") : TRUE
      BY <1>2, <2>1
    <3>2. j \in Nat /\ j + 1 < i /\ i \in 1..Len(q)
      BY <1>1, <1>4, <3>1
    <3> QED
      BY <3>2
  <2>2. CASE Head(q).type # "FinishReading"
    BY <1>1, <2>2
  <2> QED
    BY <2>1, <2>2
<1>6. \A j \in Of(u, "MapShapeReaded") : j < i - 1
  <2>1. \A j \in Of(u, "MapShapeReaded") : j \in Nat /\ j + 1 < i
    BY <1>1, <1>4
  <2> QED
    BY <1>5, <2>1
<1> QED
  BY <1>1, <1>4, <1>5, <1>6

\* What a task that is finished posts, one message after the other.
LEMMA FinishedPosts ==
  ASSUME TypesOK, NEW doing \in reading, OnTaskFinished(doing.task, doing.step = "end")
  PROVE  LET B == BackMessages(generation, tasks)
             ended == [type |-> "TileReadEnded", key |-> doing.task.key]
         IN  \E q1, q2 \in Seq(B), keys \in SUBSET KeysUpTo(generation) :
               /\ ended \in B /\ [type |-> "FinishTileRead", keys |-> keys] \in B
               /\ q1 = IF doing.step = "end" THEN Append(queue, ended) ELSE queue
               /\ q2 = IF counter = 1 THEN Append(q1, FinishReading) ELSE q1
               /\ \/ queue' = q2
                  \/ queue' = Append(q2, [type |-> "FinishTileRead", keys |-> keys])
<1> DEFINE B == BackMessages(generation, tasks)
           ended == [type |-> "TileReadEnded", key |-> doing.task.key]
           keys == {key \in active : key.tile = doing.task.key.tile}
           finished == [type |-> "FinishTileRead", keys |-> keys]
           q1 == IF doing.step = "end" THEN Append(queue, ended) ELSE queue
           q2 == IF counter = 1 THEN Append(q1, FinishReading) ELSE q1
<1>1. queue \in Seq(B) /\ keys \in SUBSET KeysUpTo(generation) /\ doing.task.key \in KeysUpTo(generation)
  BY DEF TypesOK, BackOK, ReadOK, TasksUpTo
<1>2. ended \in B /\ finished \in B /\ FinishReading \in B
  BY <1>1, BackMessageTypes
<1>3. queue' = queue \o (IF doing.step = "end" THEN <<ended>> ELSE <<>>)
               \o (IF counter = 1 THEN <<FinishReading>> ELSE <<>>)
               \o (IF doing.task \in infos THEN <<finished>> ELSE <<>>)
  BY DEF OnTaskFinished, EndsReading, FinishesItsTile, IsCancelled
<1>4. \A q \in Seq(B), m \in B : q \o <<m>> = Append(q, m) /\ q \o <<>> = q /\ Append(q, m) \in Seq(B)
  BY AppendIsConcat, ConcatEmptySeq, AppendProperties
<1> HIDE DEF B, ended, keys, finished
<1>5. q1 \in Seq(B) /\ q1 = queue \o (IF doing.step = "end" THEN <<ended>> ELSE <<>>)
  BY <1>1, <1>2, <1>4
<1> HIDE DEF q1
<1>6. q2 \in Seq(B) /\ q2 = q1 \o (IF counter = 1 THEN <<FinishReading>> ELSE <<>>)
  BY <1>2, <1>4, <1>5
<1> HIDE DEF q2
<1>7. queue' = q2 \o (IF doing.task \in infos THEN <<finished>> ELSE <<>>)
  BY <1>3, <1>5, <1>6
<1>8. queue' = q2 \/ queue' = Append(q2, finished)
  BY <1>2, <1>4, <1>6, <1>7
<1>9. /\ ended \in B /\ [type |-> "FinishTileRead", keys |-> keys] \in B
      /\ q1 = IF doing.step = "end" THEN Append(queue, ended) ELSE queue
      /\ q2 = IF counter = 1 THEN Append(q1, FinishReading) ELSE q1
      /\ \/ queue' = q2
         \/ queue' = Append(q2, [type |-> "FinishTileRead", keys |-> keys])
  BY <1>2, <1>8 DEF finished, q1, q2
<1>10. \E x1, x2 \in Seq(B), set \in SUBSET KeysUpTo(generation) :
         /\ ended \in B /\ [type |-> "FinishTileRead", keys |-> set] \in B
         /\ x1 = IF doing.step = "end" THEN Append(queue, ended) ELSE queue
         /\ x2 = IF counter = 1 THEN Append(x1, FinishReading) ELSE x1
         /\ \/ queue' = x2
            \/ queue' = Append(x2, [type |-> "FinishTileRead", keys |-> set])
  BY <1>1, <1>5, <1>6, <1>9
<1> QED
  BY <1>10 DEF B, ended

\* The steps that neither post nor draw shapes keep the overlays' promise.
LEMMA SentWithout ==
  ASSUME TypesOK, OverlaysAreSent, overlays' = overlays,
         counter' = counter \/ (counter \in Nat /\ counter' \in Nat /\ counter <= counter'),
         \/ queue' = queue
         \/ \E m \in BackMessages(generation, tasks) :
              m.type # "MapShapeReaded" /\ queue' = Append(queue, m)
  PROVE  OverlaysAreSent'
<1>1. SentIn(queue, overlays, counter) /\ queue \in Seq(BackMessages(generation, tasks))
  BY SentIsSent DEF TypesOK, BackOK
<1>2. SentIn(queue', overlays', counter)
  BY <1>1, SentAppended
<1>3. SentIn(queue', overlays', counter')
  BY <1>2 DEF SentIn
<1> QED
  BY <1>3 DEF OverlaysAreSent, SentIn, Index, Of

\* Each step keeps the overlays' promise.
LEMMA SentStep ==
  ASSUME TypesOK, ReadingInv, OverlaysAreSent, [Next]_vars
  PROVE  OverlaysAreSent'
<1> USE DEF frontVars, managerVars, drawVars, readVars, seenVars
<1> DEFINE B == BackMessages(generation, tasks)
<1>1. SentIn(queue, overlays, counter) /\ queue \in Seq(B) /\ FinishReading \in B
  BY SentIsSent, BackMessageTypes DEF TypesOK, BackOK
<1>2. /\ CounterMatchesTasks /\ TasksOK /\ IsFiniteSet(Pending) /\ Cardinality(Pending) \in Nat
      /\ \A S : S \subseteq Tiles => IsFiniteSet(S) /\ Cardinality(S) \in Nat
      /\ tiles \subseteq Tiles
  BY TilesAreFinite, FS_CardinalityType DEF ReadingInv, TasksOK, TypesOK, BackOK
<1>3. counter \in Nat
  BY <1>2 DEF CounterMatchesTasks
<1>4. \A x \in Pending : counter > 0
  <2>1. SUFFICES ASSUME NEW x \in Pending PROVE Cardinality(Pending) > 0
    BY <1>2 DEF CounterMatchesTasks
  <2>2. Cardinality(Pending) # 0
    BY <1>2, FS_EmptySet
  <2> QED
    BY <1>2, <2>2
<1>5. ASSUME SentIn(queue', overlays', counter')
      PROVE  OverlaysAreSent'
  BY <1>5 DEF OverlaysAreSent, SentIn, Index, Of
<1>6. CASE UNCHANGED <<queue, overlays, counter>>
  BY <1>6, SentWithout
<1>7. CASE UpdateScene \/ InvalidateRect \/ PostUpdate \/ Unblock \/ FrontendAccept
           \/ GetTiles \/ CancelOutdated \/ PushTaskBackForTileKey \/ Invalidate \/ Start
  BY <1>6, <1>7 DEF UpdateScene, InvalidateRect, PostUpdate, Unblock, FrontendAccept,
     GetTiles, CancelOutdated, PushTaskBackForTileKey, Invalidate, Start
<1>8. CASE UpdateAll \/ PostSwitch
  <2>1. \E type \in {"Restart", "SwitchMapStyle"} : queue' = Append(queue, [type |-> type])
    BY <1>8 DEF UpdateAll, PostSwitch
  <2>2. \A type \in {"Restart", "SwitchMapStyle"} :
          [type |-> type] \in B /\ [type |-> type].type # "MapShapeReaded"
    BY BackMessageTypes
  <2>3. UNCHANGED <<overlays, counter>>
    BY <1>8 DEF UpdateAll, PostSwitch
  <2> QED
    BY <2>1, <2>2, <2>3, SentWithout
<1>9. CASE CountNewTiles
  <2>1. tiles' \subseteq Tiles /\ counter' = counter + Cardinality(tiles') /\ UNCHANGED <<queue, overlays>>
    BY <1>2, <1>9 DEF CountNewTiles, Increased
  <2>2. Cardinality(tiles') \in Nat
    BY <1>2, <2>1
  <2> QED
    BY <1>3, <2>1, <2>2, SentWithout
<1>10. CASE CheckFinishedTiles
  <2> DEFINE keys == {Key(tile, generation) : tile \in Finished}
  <2>1. keys \subseteq KeysUpTo(generation)
    <3>1. TypesOK' /\ infos \subseteq TasksUpTo(generation, tasks) /\ generation \in Nat
      BY TypesStep DEF TypesOK, BackOK
    <3>2. Finished \subseteq Tiles
      BY <3>1 DEF Finished, TilesOf, TasksUpTo, KeysUpTo
    <3> QED
      BY <3>1, <3>2 DEF KeysUpTo, Key
  <2>2. [type |-> "FinishTileRead", keys |-> keys] \in B
    BY <2>1, BackMessageTypes
  <2>3. queue' = queue \/ queue' = Append(queue, [type |-> "FinishTileRead", keys |-> keys])
    BY <1>10 DEF CheckFinishedTiles
  <2> HIDE DEF keys
  <2>4. [type |-> "FinishTileRead", keys |-> keys].type # "MapShapeReaded"
    OBVIOUS
  <2>5. UNCHANGED <<overlays, counter>>
    BY <1>10 DEF CheckFinishedTiles
  <2> QED
    BY <2>2, <2>3, <2>4, <2>5, SentWithout
<1>11. CASE Stop
  <2>1. UNCHANGED <<overlays, counter>> /\ queue' = Tail(queue) /\ queue # <<>> /\ Head(queue).type = "Restart"
    BY <1>11 DEF Stop, NextMessage
  <2>2. SentIn(Tail(queue), overlays, counter)
    BY <1>1, <2>1, SentOfTail
  <2> QED
    BY <1>5, <2>1, <2>2
<1>12. CASE FinishLeftTasks
  <2>1. /\ UNCHANGED overlays /\ counter' = counter - Len(pool) /\ at = "stopping" /\ reading = {}
        /\ queue' = queue \o (IF pool # <<>> /\ counter' = 0 THEN <<FinishReading>> ELSE <<>>)
    BY <1>12 DEF FinishLeftTasks
  <2>2. counter' = 0
    <3>1. Pending = Range(pool) /\ pool \in Seq(TasksUpTo(generation, tasks))
      BY <2>1 DEF Pending, TypesOK, ReadOK
    <3>2. Cardinality(Pending) = Len(pool) /\ Len(pool) \in Nat
      BY <1>2, <3>1, RangeOfDistinct, LenProperties DEF TasksOK
    <3> QED
      BY <1>2, <2>1, <3>2 DEF CounterMatchesTasks
  <2>3. CASE pool # <<>>
    <3>1. queue' = Append(queue, FinishReading)
      BY <1>1, <2>1, <2>2, <2>3, AppendIsConcat
    <3>2. SentIn(Append(queue, FinishReading), overlays, counter')
      BY <1>1, SentByFinishReading
    <3> QED
      BY <1>5, <2>1, <3>1, <3>2
  <2>4. CASE pool = <<>>
    <3>1. queue' = queue
      BY <1>1, <2>1, <2>4, ConcatEmptySeq
    <3>2. counter' = counter
      BY <1>3, <2>1, <2>4, EmptySeq
    <3> QED
      BY <1>6, <2>1, <3>1, <3>2
  <2> QED
    BY <2>3, <2>4
<1>13. CASE ReserveBatcher \/ BatchShapes \/ ReleaseBatcher \/ PassOn
  <2>1. queue # <<>> /\ queue' = Tail(queue) /\ UNCHANGED counter
    BY <1>13 DEF ReserveBatcher, BatchShapes, ReleaseBatcher, PassOn, NextMessage
  <2>2. Head(queue).type = "FinishReading" => overlays' = {}
    BY <1>13 DEF ReserveBatcher, BatchShapes, ReleaseBatcher, PassOn, NextMessage
  <2>3. overlays' # {} => overlays # {} \/ Head(queue).type = "MapShapeReaded"
    BY <1>13 DEF ReserveBatcher, BatchShapes, ReleaseBatcher, PassOn, NextMessage
  <2>4. SentIn(Tail(queue), overlays', counter)
    <3>1. \A set : (Head(queue).type = "FinishReading" => set = {})
                   /\ (set # {} => overlays # {} \/ Head(queue).type = "MapShapeReaded")
                   => SentIn(Tail(queue), set, counter)
      BY <1>1, <2>1, SentOfTail
    <3> QED
      BY <2>2, <2>3, <3>1
  <2> QED
    BY <1>5, <2>1, <2>4
<1>14. CASE PopFront
  <2>1. Head(pool) \in TasksUpTo(generation, tasks)
    BY <1>14, HeadTailProperties DEF PopFront, TypesOK, ReadOK
  <2>2. [type |-> "TileReadStarted", key |-> Head(pool).key] \in B
    BY <2>1, BackMessageTypes DEF TasksUpTo
  <2>3. queue' = queue \/ queue' = Append(queue, [type |-> "TileReadStarted", key |-> Head(pool).key])
    BY <1>14 DEF PopFront
  <2>4. [type |-> "TileReadStarted", key |-> Head(pool).key].type # "MapShapeReaded"
    OBVIOUS
  <2>5. UNCHANGED <<overlays, counter>>
    BY <1>14 DEF PopFront
  <2> QED
    BY <2>2, <2>3, <2>4, <2>5, SentWithout
<1>15. ASSUME NEW doing \in reading, ReadFeatures(doing.task)
       PROVE  OverlaysAreSent'
  <2>1. UNCHANGED <<overlays, counter>>
    BY <1>15 DEF ReadFeatures
  <2>2. counter > 0
    BY <1>4 DEF Pending
  <2> QED
    BY <2>1, <2>2 DEF OverlaysAreSent
<1>16. ASSUME NEW doing \in reading, OnTaskFinished(doing.task, doing.step = "end")
       PROVE  OverlaysAreSent'
  <2>1. UNCHANGED overlays /\ counter' = counter - 1
    BY <1>16 DEF OnTaskFinished
  <2>2. counter > 0
    BY <1>4 DEF Pending
  <2>3. PICK q1, q2 \in Seq(B), keys \in SUBSET KeysUpTo(generation) :
          /\ [type |-> "FinishTileRead", keys |-> keys] \in B
          /\ q2 = IF counter = 1 THEN Append(q1, FinishReading) ELSE q1
          /\ \/ queue' = q2
             \/ queue' = Append(q2, [type |-> "FinishTileRead", keys |-> keys])
    BY <1>16, FinishedPosts
  <2>4. CASE counter = 1
    <3>1. SentIn(q2, overlays, counter')
      BY <1>1, <2>3, <2>4, SentByFinishReading
    <3>2. [type |-> "FinishTileRead", keys |-> keys].type # "MapShapeReaded"
      OBVIOUS
    <3>3. SentIn(Append(q2, [type |-> "FinishTileRead", keys |-> keys]), overlays, counter')
      BY <2>3, <3>1, <3>2, SentAppended
    <3> QED
      BY <1>5, <2>1, <2>3, <3>1, <3>3
  <2>5. CASE counter # 1
    <3>1. counter' > 0
      BY <1>3, <2>1, <2>2, <2>5
    <3> QED
      BY <3>1 DEF OverlaysAreSent
  <2> QED
    BY <2>4, <2>5
<1>17. CASE UNCHANGED vars
  BY <1>6, <1>17 DEF vars
<1> QED
  BY <1>7, <1>8, <1>9, <1>10, <1>11, <1>12, <1>13, <1>14, <1>15, <1>16, <1>17
     DEF Next, Frontend, Backend, Reader

\* Overlays are sent when the last task has finished: none stays behind.
THEOREM NoOverlayStaysBehind == Spec => []OverlaysAreSent
<1>1. Init => OverlaysAreSent
  BY DEF Init, OverlaysAreSent, Index
<1>2. TypesOK /\ ReadingInv /\ OverlaysAreSent /\ [Next]_vars => OverlaysAreSent'
  BY SentStep
<1> QED
  BY <1>1, <1>2, ReadingIsSound, PTL DEF Spec

-----------------------------------------------------------------------------
(* The third invariant: the users of the batchers. *)

\* What threads do with tiles of this key that were begun.
ReadsIn(doings, key) == {x \in doings : x.step # "finish" /\ x.task.key = key}

\* How many readings of this key are begun for the batchers and not ended.
DueIn(q, doings, key) ==
  Count(q, "TileReadEnded", key) + Cardinality(ReadsIn(doings, key)) - Count(q, "TileReadStarted", key)

BatchOK ==
  /\ \A a, b \in batchers : a.key = b.key => a = b
  /\ \A b \in batchers : b.users = DueIn(queue, reading, b.key)
  /\ \A key \in Keys : DueIn(queue, reading, key) # 0 => \E b \in batchers : b.key = key

\* The numbers that DueIn adds.
LEMMA DueType ==
  ASSUME NEW S, NEW q \in Seq(S), NEW doings, IsFiniteSet(doings), NEW key
  PROVE  /\ Count(q, "TileReadEnded", key) \in Nat /\ Count(q, "TileReadStarted", key) \in Nat
         /\ IsFiniteSet(ReadsIn(doings, key)) /\ Cardinality(ReadsIn(doings, key)) \in Nat
         /\ DueIn(q, doings, key) \in Int
<1>1. Count(q, "TileReadEnded", key) \in Nat /\ Count(q, "TileReadStarted", key) \in Nat
  BY CountType
<1>2. IsFiniteSet(ReadsIn(doings, key))
  BY FS_Subset DEF ReadsIn
<1>3. Cardinality(ReadsIn(doings, key)) \in Nat
  BY <1>2, FS_CardinalityType
<1> QED
  BY <1>1, <1>2, <1>3 DEF DueIn

\* A message that is posted.
LEMMA DueAppended ==
  ASSUME NEW S, NEW q \in Seq(S), NEW m \in S, NEW doings, IsFiniteSet(doings), NEW key
  PROVE  /\ DueIn(q, doings, key) \in Int
         /\ m.type \notin {"TileReadStarted", "TileReadEnded"} \/ m.key # key =>
              DueIn(Append(q, m), doings, key) = DueIn(q, doings, key)
         /\ m.type = "TileReadStarted" /\ m.key = key =>
              DueIn(Append(q, m), doings, key) = DueIn(q, doings, key) - 1
         /\ m.type = "TileReadEnded" /\ m.key = key =>
              DueIn(Append(q, m), doings, key) = DueIn(q, doings, key) + 1
<1>1. /\ Count(Append(q, m), "TileReadEnded", key) =
           IF Matches(m, "TileReadEnded", key) THEN Count(q, "TileReadEnded", key) + 1
                                               ELSE Count(q, "TileReadEnded", key)
      /\ Count(Append(q, m), "TileReadStarted", key) =
           IF Matches(m, "TileReadStarted", key) THEN Count(q, "TileReadStarted", key) + 1
                                                 ELSE Count(q, "TileReadStarted", key)
  BY CountAppended
<1>2. /\ Count(q, "TileReadEnded", key) \in Nat /\ Count(q, "TileReadStarted", key) \in Nat
      /\ Cardinality(ReadsIn(doings, key)) \in Nat /\ DueIn(q, doings, key) \in Int
  BY DueType
<1> QED
  BY <1>1, <1>2 DEF DueIn, Matches

\* A message that is handled.
LEMMA DueOfTail ==
  ASSUME NEW S, NEW q \in Seq(S), q # <<>>, NEW doings, IsFiniteSet(doings), NEW key
  PROVE  /\ DueIn(q, doings, key) \in Int
         /\ Head(q).type \notin {"TileReadStarted", "TileReadEnded"} \/ Head(q).key # key =>
              DueIn(Tail(q), doings, key) = DueIn(q, doings, key)
         /\ Head(q).type = "TileReadStarted" /\ Head(q).key = key =>
              DueIn(Tail(q), doings, key) = DueIn(q, doings, key) + 1
         /\ Head(q).type = "TileReadEnded" /\ Head(q).key = key =>
              DueIn(Tail(q), doings, key) = DueIn(q, doings, key) - 1
<1>1. /\ Count(q, "TileReadEnded", key) =
           IF Matches(Head(q), "TileReadEnded", key) THEN Count(Tail(q), "TileReadEnded", key) + 1
                                                     ELSE Count(Tail(q), "TileReadEnded", key)
      /\ Count(q, "TileReadStarted", key) =
           IF Matches(Head(q), "TileReadStarted", key) THEN Count(Tail(q), "TileReadStarted", key) + 1
                                                       ELSE Count(Tail(q), "TileReadStarted", key)
  BY CountOfTail
<1>2. Tail(q) \in Seq(S)
  BY HeadTailProperties
<1>3. /\ Count(Tail(q), "TileReadEnded", key) \in Nat /\ Count(Tail(q), "TileReadStarted", key) \in Nat
      /\ Cardinality(ReadsIn(doings, key)) \in Nat /\ DueIn(q, doings, key) \in Int
  BY <1>2, DueType
<1> QED
  BY <1>1, <1>3 DEF DueIn, Matches

\* Something that a thread begins to do.
LEMMA DueBegun ==
  ASSUME NEW S, NEW q \in Seq(S), NEW doings, IsFiniteSet(doings), NEW x, x \notin doings, NEW key,
         NEW more, more = doings \cup {x}
  PROVE  /\ IsFiniteSet(more) /\ DueIn(q, doings, key) \in Int
         /\ x.step = "finish" \/ x.task.key # key => DueIn(q, more, key) = DueIn(q, doings, key)
         /\ x.step # "finish" /\ x.task.key = key => DueIn(q, more, key) = DueIn(q, doings, key) + 1
<1> DEFINE R == ReadsIn(doings, key)
<1>1. /\ Count(q, "TileReadEnded", key) \in Nat /\ Count(q, "TileReadStarted", key) \in Nat
      /\ IsFiniteSet(R) /\ Cardinality(R) \in Nat /\ DueIn(q, doings, key) \in Int
  BY DueType
<1>2. IF x.step # "finish" /\ x.task.key = key THEN ReadsIn(more, key) = R \cup {x}
                                                ELSE ReadsIn(more, key) = R
  BY DEF ReadsIn
<1>3. x \notin R
  BY DEF ReadsIn
<1> HIDE DEF R
<1>4. Cardinality(R \cup {x}) = Cardinality(R) + 1
  BY <1>1, <1>3, FS_AddElement
<1>5. IF x.step # "finish" /\ x.task.key = key
        THEN Cardinality(ReadsIn(more, key)) = Cardinality(R) + 1
        ELSE Cardinality(ReadsIn(more, key)) = Cardinality(R)
  BY <1>2, <1>4
<1>6. IsFiniteSet(more)
  BY FS_AddElement
<1> QED
  BY <1>1, <1>5, <1>6 DEF DueIn, R

\* Something that a thread has done.
LEMMA DueDone ==
  ASSUME NEW S, NEW q \in Seq(S), NEW doings, IsFiniteSet(doings), NEW x \in doings, NEW key,
         NEW rest, rest = doings \ {x}
  PROVE  /\ IsFiniteSet(rest) /\ DueIn(q, rest, key) \in Int
         /\ x.step = "finish" \/ x.task.key # key => DueIn(q, rest, key) = DueIn(q, doings, key)
         /\ x.step # "finish" /\ x.task.key = key => DueIn(q, rest, key) = DueIn(q, doings, key) - 1
<1>1. IsFiniteSet(rest) /\ x \notin rest /\ doings = rest \cup {x}
  BY FS_RemoveElement
<1>2. /\ DueIn(q, rest, key) \in Int
      /\ x.step = "finish" \/ x.task.key # key => DueIn(q, doings, key) = DueIn(q, rest, key)
      /\ x.step # "finish" /\ x.task.key = key => DueIn(q, doings, key) = DueIn(q, rest, key) + 1
  BY <1>1, DueBegun
<1> QED
  BY <1>1, <1>2

\* The batchers stay as they are, and what is due as well.
LEMMA BatchersLeft ==
  ASSUME BatchOK, batchers' = batchers,
         \A key : DueIn(queue', reading', key) = DueIn(queue, reading, key)
  PROVE  BatchOK'
BY DEF BatchOK

\* Each step of a reader thread keeps what is due.
LEMMA ReaderBatches ==
  ASSUME TypesOK, ReadingInv, BatchOK, Reader
  PROVE  BatchOK'
<1> DEFINE B == BackMessages(generation, tasks)
           T == TasksUpTo(generation, tasks)
<1>1. /\ queue \in Seq(B) /\ pool \in Seq(T)
      /\ reading \subseteq [task : T, step : {"read", "end", "finish"}]
      /\ FinishReading \in B
  BY BackMessageTypes DEF TypesOK, BackOK, ReadOK
<1>2. TasksOK /\ IsFiniteSet(reading)
  BY DEF ReadingInv, TasksOK
<1>3. batchers' = batchers
  BY DEF Reader, PopFront, ReadFeatures, OnTaskFinished, drawVars
<1>4. \A task, step : Does(task, step).task = task /\ Does(task, step).step = step
  BY DEF Does
<1>5. \A doing \in reading : doing = Does(doing.task, doing.step)
  BY <1>1 DEF Does
<1>6. \A key : DueIn(queue, reading, key) \in Int
  BY <1>1, <1>2, DueType
<1>7. CASE PopFront
  <2> DEFINE task == Head(pool)
             m == [type |-> "TileReadStarted", key |-> task.key]
  <2>1. task \in T /\ task \in Range(pool)
    BY <1>1, <1>7, HeadTailProperties, RangeOfTail DEF PopFront
  <2>2. \A x \in reading : x.task # task
    BY <1>2, <2>1 DEF TasksOK
  <2>3. m \in B
    BY <2>1, BackMessageTypes DEF TasksUpTo
  <2>4. \/ queue' = queue /\ reading' = reading \cup {Does(task, "finish")}
        \/ queue' = Append(queue, m) /\ reading' = reading \cup {Does(task, "read")}
    BY <1>7 DEF PopFront
  <2>5. m.type = "TileReadStarted" /\ m.key = task.key
    OBVIOUS
  <2> HIDE DEF task, m
  <2>6. SUFFICES ASSUME NEW key
                 PROVE  DueIn(queue', reading', key) = DueIn(queue, reading, key)
    BY <1>3, BatchersLeft
  <2>7. \A step : Does(task, step) \notin reading
    BY <1>4, <2>2
  <2>8. CASE queue' = queue /\ reading' = reading \cup {Does(task, "finish")}
    BY <1>1, <1>2, <1>4, <2>7, <2>8, DueBegun
  <2>9. CASE queue' = Append(queue, m) /\ reading' = reading \cup {Does(task, "read")}
    <3>1. /\ IsFiniteSet(reading') /\ DueIn(queue, reading, key) \in Int
          /\ task.key # key => DueIn(queue, reading', key) = DueIn(queue, reading, key)
          /\ task.key = key => DueIn(queue, reading', key) = DueIn(queue, reading, key) + 1
      BY <1>1, <1>2, <1>4, <2>7, <2>9, DueBegun
    <3>2. /\ task.key # key => DueIn(Append(queue, m), reading', key) = DueIn(queue, reading', key)
          /\ task.key = key => DueIn(Append(queue, m), reading', key) = DueIn(queue, reading', key) - 1
      BY <1>1, <2>3, <2>5, <3>1, DueAppended
    <3>3. queue' = Append(queue, m)
      BY <2>9
    <3> QED
      BY <3>1, <3>2, <3>3
  <2> QED
    BY <2>4, <2>8, <2>9
<1>8. ASSUME NEW doing \in reading, doing.step = "read", ReadFeatures(doing.task)
      PROVE  BatchOK'
  <2> DEFINE x == Does(doing.task, "end")
             m == [type |-> "MapShapeReaded", key |-> doing.task.key, id |-> doing.task.id]
  <2>1. reading' = (reading \ {doing}) \cup {x} /\ (queue' = queue \/ queue' = Append(queue, m))
    BY <1>5, <1>8 DEF ReadFeatures
  <2>2. x.task = doing.task /\ x.step = "end" /\ x \notin reading \ {doing} /\ doing.step # "finish"
    BY <1>2, <1>4, <1>8 DEF TasksOK
  <2>3. m \in B /\ m.type = "MapShapeReaded"
    BY <1>1, BackMessageTypes
  <2> HIDE DEF x, m
  <2>4. SUFFICES ASSUME NEW key
                 PROVE  DueIn(queue', reading', key) = DueIn(queue, reading, key)
    BY <1>3, BatchersLeft
  <2> DEFINE rest == reading \ {doing}
  <2>5. /\ IsFiniteSet(rest) /\ DueIn(queue, rest, key) \in Int
        /\ doing.task.key # key => DueIn(queue, rest, key) = DueIn(queue, reading, key)
        /\ doing.task.key = key => DueIn(queue, rest, key) = DueIn(queue, reading, key) - 1
    BY <1>1, <1>2, <2>2, DueDone
  <2>6. x \notin rest /\ reading' = rest \cup {x}
    BY <2>1, <2>2
  <2> HIDE DEF rest
  <2>7. /\ IsFiniteSet(reading')
        /\ doing.task.key # key => DueIn(queue, reading', key) = DueIn(queue, rest, key)
        /\ doing.task.key = key => DueIn(queue, reading', key) = DueIn(queue, rest, key) + 1
    BY <1>1, <2>2, <2>5, <2>6, DueBegun
  <2>8. DueIn(queue, reading', key) = DueIn(queue, reading, key)
    BY <1>6, <2>5, <2>7
  <2>9. DueIn(Append(queue, m), reading', key) = DueIn(queue, reading', key)
    BY <1>1, <2>3, <2>7, DueAppended
  <2>10. queue' = queue \/ queue' = Append(queue, m)
    BY <2>1
  <2> QED
    BY <2>8, <2>9, <2>10
<1>9. ASSUME NEW doing \in reading, doing.step # "read", OnTaskFinished(doing.task, doing.step = "end")
      PROVE  BatchOK'
  <2> DEFINE ended == [type |-> "TileReadEnded", key |-> doing.task.key]
  <2>1. reading' = reading \ {doing}
    <3>1. reading' = {x \in reading : x.task # doing.task}
      BY <1>9 DEF OnTaskFinished
    <3> QED
      BY <1>2, <3>1 DEF TasksOK
  <2>2. doing.step \in {"end", "finish"}
    BY <1>1, <1>9
  <2>3. PICK q1, q2 \in Seq(B), keys \in SUBSET KeysUpTo(generation) :
          /\ ended \in B /\ [type |-> "FinishTileRead", keys |-> keys] \in B
          /\ q1 = IF doing.step = "end" THEN Append(queue, ended) ELSE queue
          /\ q2 = IF counter = 1 THEN Append(q1, FinishReading) ELSE q1
          /\ \/ queue' = q2
             \/ queue' = Append(q2, [type |-> "FinishTileRead", keys |-> keys])
    BY <1>9, FinishedPosts
  <2>4. ended.type = "TileReadEnded" /\ ended.key = doing.task.key /\ FinishReading.type = "FinishReading"
        /\ [type |-> "FinishTileRead", keys |-> keys].type = "FinishTileRead"
    BY DEF FinishReading
  <2> HIDE DEF ended
  <2>5. SUFFICES ASSUME NEW key
                 PROVE  DueIn(queue', reading', key) = DueIn(queue, reading, key)
    BY <1>3, BatchersLeft
  <2>6. /\ IsFiniteSet(reading') /\ DueIn(queue, reading', key) \in Int
        /\ doing.step = "end" /\ doing.task.key = key
             => DueIn(queue, reading', key) = DueIn(queue, reading, key) - 1
        /\ doing.step # "end" \/ doing.task.key # key
             => DueIn(queue, reading', key) = DueIn(queue, reading, key)
    BY <1>1, <1>2, <2>1, <2>2, DueDone
  <2>7. /\ doing.task.key = key => DueIn(Append(queue, ended), reading', key) = DueIn(queue, reading', key) + 1
        /\ doing.task.key # key => DueIn(Append(queue, ended), reading', key) = DueIn(queue, reading', key)
    BY <1>1, <2>3, <2>4, <2>6, DueAppended
  <2>8. DueIn(q1, reading', key) = DueIn(queue, reading, key)
    BY <1>6, <2>2, <2>3, <2>6, <2>7
  <2>9. DueIn(q2, reading', key) = DueIn(q1, reading', key)
    <3>1. DueIn(Append(q1, FinishReading), reading', key) = DueIn(q1, reading', key)
      BY <1>1, <2>4, <2>6, DueAppended
    <3> QED
      BY <2>3, <3>1
  <2>10. DueIn(queue', reading', key) = DueIn(q2, reading', key)
    <3> DEFINE m == [type |-> "FinishTileRead", keys |-> keys]
    <3>1. m \in B /\ m.type = "FinishTileRead" /\ (queue' = q2 \/ queue' = Append(q2, m))
      BY <2>3
    <3> HIDE DEF m
    <3>2. DueIn(Append(q2, m), reading', key) = DueIn(q2, reading', key)
      BY <2>6, <3>1, DueAppended
    <3> QED
      BY <3>1, <3>2
  <2> QED
    BY <2>8, <2>9, <2>10
<1> QED
  BY <1>7, <1>8, <1>9 DEF Reader

\* Each message that the backend handles keeps the batchers' users.
LEMMA MessageBatches ==
  ASSUME TypesOK, ReadingInv, BatchOK,
         ReserveBatcher \/ BatchShapes \/ ReleaseBatcher \/ PassOn \/ Stop
  PROVE  BatchOK'
<1> USE DEF readVars
<1> DEFINE B == BackMessages(generation, tasks)
           m == Head(queue)
           due(key) == DueIn(queue, reading, key)
<1>1. /\ queue \in Seq(B) /\ IsFiniteSet(reading)
      /\ \A b \in batchers : b.users \in Nat \ {0} /\ b.key \in Keys
      /\ \A b \in batchers : b = [key |-> b.key, users |-> b.users, shapes |-> b.shapes]
  <2>1. queue \in Seq(B) /\ IsFiniteSet(reading) /\ generation \in Nat
        /\ batchers \subseteq [key : KeysUpTo(generation), users : Nat \ {0}, shapes : SUBSET (0..tasks)]
    BY DEF TypesOK, BackOK, ReadingInv, TasksOK
  <2>2. KeysUpTo(generation) \subseteq Keys
    BY <2>1 DEF KeysUpTo, Keys
  <2> QED
    BY <2>1, <2>2
<1>2. queue # <<>> /\ queue' = Tail(queue) /\ UNCHANGED reading
  BY DEF ReserveBatcher, BatchShapes, ReleaseBatcher, PassOn, Stop, NextMessage
<1>3. m \in B /\ (m.type \in {"TileReadStarted", "TileReadEnded"} => m.key \in KeysUpTo(generation))
  BY <1>1, <1>2, HeadTailProperties, BackMessageFields
<1>4. \A key :
         /\ due(key) \in Int
         /\ m.type \notin {"TileReadStarted", "TileReadEnded"} \/ m.key # key =>
              DueIn(queue', reading', key) = due(key)
         /\ m.type = "TileReadStarted" /\ m.key = key => DueIn(queue', reading', key) = due(key) + 1
         /\ m.type = "TileReadEnded" /\ m.key = key => DueIn(queue', reading', key) = due(key) - 1
  BY <1>1, <1>2, DueOfTail
<1>5. /\ \A a, b \in batchers : a.key = b.key => a = b
      /\ \A b \in batchers : b.users = due(b.key)
      /\ \A key \in Keys : due(key) # 0 => \E b \in batchers : b.key = key
  BY DEF BatchOK
<1> HIDE DEF m, due
<1>6. CASE m.type \notin {"TileReadStarted", "TileReadEnded"}
  <2>1. \A key : DueIn(queue', reading', key) = due(key)
    BY <1>4, <1>6
  <2>2. CASE batchers' = batchers
    BY <2>1, <2>2, BatchersLeft DEF due
  <2>3. CASE BatchShapes /\ batchers' # batchers
    <3> DEFINE with(b) == IF b.key = m.key THEN [b EXCEPT !.shapes = @ \cup {m.id}] ELSE b
    <3>1. batchers' = {with(b) : b \in batchers}
      BY <2>3 DEF BatchShapes, m, drawVars
    <3>2. \A b \in batchers : with(b).key = b.key /\ with(b).users = b.users
      BY <1>1
    <3> HIDE DEF with
    <3>3. \A b, c \in batchers' : b.key = c.key => b = c
      BY <1>5, <3>1, <3>2
    <3>4. \A b \in batchers' : b.users = DueIn(queue', reading', b.key)
      BY <1>5, <2>1, <3>1, <3>2
    <3>5. \A key \in Keys : DueIn(queue', reading', key) # 0 => \E b \in batchers' : b.key = key
      BY <1>5, <2>1, <3>1, <3>2
    <3> QED
      BY <3>3, <3>4, <3>5 DEF BatchOK
  <2> QED
    BY <1>6, <2>2, <2>3
       DEF ReserveBatcher, BatchShapes, ReleaseBatcher, PassOn, Stop, NextMessage, m, drawVars
<1>7. CASE m.type = "TileReadStarted"
  <2>1. \A key : DueIn(queue', reading', key) = IF key = m.key THEN due(key) + 1 ELSE due(key)
    BY <1>4, <1>7
  <2>2. batchers' = Reserved(m.key)
    BY <1>7 DEF ReserveBatcher, BatchShapes, ReleaseBatcher, PassOn, Stop, NextMessage, m
  <2>3. m.key \in Keys
    BY <1>3, <1>7 DEF TypesOK, BackOK, KeysUpTo, Keys
  <2>4. CASE \E b \in batchers : b.key = m.key
    <3> DEFINE with(b) == IF b.key = m.key THEN [b EXCEPT !.users = @ + 1] ELSE b
    <3>1. batchers' = {with(b) : b \in batchers}
      BY <2>2, <2>4 DEF Reserved
    <3>2. \A b \in batchers : with(b).key = b.key
                              /\ with(b).users = IF b.key = m.key THEN b.users + 1 ELSE b.users
      BY <1>1
    <3> HIDE DEF with
    <3>3. \A b, c \in batchers' : b.key = c.key => b = c
      BY <1>5, <3>1, <3>2
    <3>4. \A b \in batchers' : b.users = DueIn(queue', reading', b.key)
      BY <1>5, <2>1, <3>1, <3>2
    <3>5. \A key \in Keys : DueIn(queue', reading', key) # 0 => \E b \in batchers' : b.key = key
      <4>1. SUFFICES ASSUME NEW key \in Keys, DueIn(queue', reading', key) # 0
                     PROVE  \E b \in batchers : b.key = key
        BY <3>1, <3>2
      <4> QED
        BY <1>5, <2>1, <2>4, <4>1
    <3> QED
      BY <3>3, <3>4, <3>5 DEF BatchOK
  <2>5. CASE ~ \E b \in batchers : b.key = m.key
    <3> DEFINE new == [key |-> m.key, users |-> 1, shapes |-> {}]
    <3>1. batchers' = batchers \cup {new} /\ new.key = m.key /\ new.users = 1
      BY <2>2, <2>5 DEF Reserved
    <3>2. due(m.key) = 0
      BY <1>5, <2>3, <2>5
    <3> HIDE DEF new
    <3>3. \A b, c \in batchers' : b.key = c.key => b = c
      BY <1>5, <2>5, <3>1
    <3>4. \A b \in batchers' : b.users = DueIn(queue', reading', b.key)
      BY <1>5, <2>1, <2>5, <3>1, <3>2
    <3>5. \A key \in Keys : DueIn(queue', reading', key) # 0 => \E b \in batchers' : b.key = key
      BY <1>5, <2>1, <3>1
    <3> QED
      BY <3>3, <3>4, <3>5 DEF BatchOK
  <2> QED
    BY <2>4, <2>5
<1>8. CASE m.type = "TileReadEnded"
  <2>1. \A key : DueIn(queue', reading', key) = IF key = m.key THEN due(key) - 1 ELSE due(key)
    BY <1>4, <1>8
  <2>2. ReleaseBatcher
    BY <1>8 DEF ReserveBatcher, BatchShapes, ReleaseBatcher, PassOn, Stop, NextMessage, m
  <2>3. PICK b \in batchers :
          /\ b.key = m.key
          /\ IF b.users > 1 THEN batchers' = (batchers \ {b}) \cup {[b EXCEPT !.users = @ - 1]}
                            ELSE batchers' = batchers \ {b}
    BY <2>2 DEF ReleaseBatcher, m
  <2>4. \A c \in batchers : c # b => c.key # b.key
    BY <1>5, <2>3
  <2>5. CASE b.users > 1
    <3> DEFINE new == [b EXCEPT !.users = @ - 1]
    <3>1. batchers' = (batchers \ {b}) \cup {new} /\ new.key = m.key /\ new.users = due(m.key) - 1
      BY <1>1, <1>5, <2>3, <2>5
    <3> HIDE DEF new
    <3>2. \A c, d \in batchers' : c.key = d.key => c = d
      BY <1>5, <2>3, <2>4, <3>1
    <3>3. \A c \in batchers' : c.users = DueIn(queue', reading', c.key)
      BY <1>5, <2>1, <2>3, <2>4, <3>1
    <3>4. \A key \in Keys : DueIn(queue', reading', key) # 0 => \E c \in batchers' : c.key = key
      BY <1>5, <2>1, <2>3, <3>1
    <3> QED
      BY <3>2, <3>3, <3>4 DEF BatchOK
  <2>6. CASE ~(b.users > 1)
    <3>1. batchers' = batchers \ {b} /\ due(m.key) = 1
      BY <1>1, <1>5, <2>3, <2>6
    <3>2. \A c, d \in batchers' : c.key = d.key => c = d
      BY <1>5, <3>1
    <3>3. \A c \in batchers' : c.users = DueIn(queue', reading', c.key)
      BY <1>5, <2>1, <2>3, <2>4, <3>1
    <3>4. \A key \in Keys : DueIn(queue', reading', key) # 0 => \E c \in batchers' : c.key = key
      BY <1>5, <2>1, <2>3, <3>1
    <3> QED
      BY <3>2, <3>3, <3>4 DEF BatchOK
  <2> QED
    BY <2>5, <2>6
<1> QED
  BY <1>6, <1>7, <1>8

\* Each step keeps the batchers' users.
LEMMA BatchStep ==
  ASSUME TypesOK, ReadingInv, BatchOK, [Next]_vars
  PROVE  BatchOK'
<1> USE DEF frontVars, managerVars, drawVars, readVars, seenVars
<1> DEFINE B == BackMessages(generation, tasks)
<1>1. queue \in Seq(B) /\ FinishReading \in B /\ IsFiniteSet(reading)
  BY BackMessageTypes DEF TypesOK, BackOK, ReadingInv, TasksOK
<1>2. CASE UNCHANGED <<queue, reading, batchers>>
  BY <1>2 DEF BatchOK
<1>3. ASSUME NEW m \in B, m.type \notin {"TileReadStarted", "TileReadEnded"},
             queue' = Append(queue, m), UNCHANGED <<reading, batchers>>
      PROVE  BatchOK'
  <2>1. \A key : DueIn(queue', reading', key) = DueIn(queue, reading, key)
    BY <1>1, <1>3, DueAppended
  <2> QED
    BY <1>3, <2>1, BatchersLeft
<1>4. CASE UpdateScene \/ InvalidateRect \/ PostUpdate \/ Unblock \/ FrontendAccept
           \/ GetTiles \/ CancelOutdated \/ CountNewTiles \/ PushTaskBackForTileKey \/ Invalidate \/ Start
           \/ UNCHANGED vars
  BY <1>2, <1>4 DEF vars, UpdateScene, InvalidateRect, PostUpdate, Unblock, FrontendAccept,
     GetTiles, CancelOutdated, CountNewTiles, PushTaskBackForTileKey, Invalidate, Start
<1>5. CASE UpdateAll \/ PostSwitch
  <2>1. \E type \in {"Restart", "SwitchMapStyle"} : queue' = Append(queue, [type |-> type])
    BY <1>5 DEF UpdateAll, PostSwitch
  <2>2. \A type \in {"Restart", "SwitchMapStyle"} :
          [type |-> type] \in B /\ [type |-> type].type \notin {"TileReadStarted", "TileReadEnded"}
    BY BackMessageTypes
  <2>3. UNCHANGED <<reading, batchers>>
    BY <1>5 DEF UpdateAll, PostSwitch
  <2> QED
    BY <1>3, <2>1, <2>2, <2>3
<1>6. CASE CheckFinishedTiles
  <2> DEFINE keys == {Key(tile, generation) : tile \in Finished}
  <2>1. keys \subseteq KeysUpTo(generation)
    <3>1. infos \subseteq TasksUpTo(generation, tasks) /\ generation \in Nat
      BY DEF TypesOK, BackOK
    <3>2. Finished \subseteq Tiles
      BY <3>1 DEF Finished, TilesOf, TasksUpTo, KeysUpTo
    <3> QED
      BY <3>1, <3>2 DEF KeysUpTo, Key
  <2>2. [type |-> "FinishTileRead", keys |-> keys] \in B
    BY <2>1, BackMessageTypes
  <2>3. queue' = queue \/ queue' = Append(queue, [type |-> "FinishTileRead", keys |-> keys])
    BY <1>6 DEF CheckFinishedTiles
  <2> HIDE DEF keys
  <2>4. [type |-> "FinishTileRead", keys |-> keys].type \notin {"TileReadStarted", "TileReadEnded"}
    OBVIOUS
  <2>5. UNCHANGED <<reading, batchers>>
    BY <1>6 DEF CheckFinishedTiles
  <2> QED
    BY <1>2, <1>3, <2>2, <2>3, <2>4, <2>5
<1>7. CASE FinishLeftTasks
  <2>1. queue' = queue \o <<FinishReading>> \/ queue' = queue \o <<>>
    BY <1>7 DEF FinishLeftTasks
  <2>2. queue' = Append(queue, FinishReading) \/ queue' = queue
    BY <1>1, <2>1, AppendIsConcat, ConcatEmptySeq
  <2>3. UNCHANGED <<reading, batchers>> /\ FinishReading.type \notin {"TileReadStarted", "TileReadEnded"}
    BY <1>7 DEF FinishLeftTasks, FinishReading
  <2> QED
    BY <1>1, <1>2, <1>3, <2>2, <2>3
<1> QED
  BY <1>4, <1>5, <1>6, <1>7, ReaderBatches, MessageBatches DEF Next, Frontend, Backend

\* The batchers' users are counted, always.
THEOREM BatchersAreCounted == Spec => []BatchOK
<1>1. Init => BatchOK
  <2> SUFFICES ASSUME Init PROVE BatchOK
    OBVIOUS
  <2>1. \A key, type : Places(queue, type, key) = {}
    BY DEF Init, Places
  <2>2. \A key : ReadsIn(reading, key) = {}
    BY DEF Init, ReadsIn
  <2>3. \A key : DueIn(queue, reading, key) = 0
    BY <2>1, <2>2, FS_EmptySet DEF DueIn, Count
  <2> QED
    BY <2>3 DEF Init, BatchOK
<1>2. TypesOK /\ ReadingInv /\ BatchOK /\ [Next]_vars => BatchOK'
  BY BatchStep
<1> QED
  BY <1>1, <1>2, ReadingIsSound, PTL DEF Spec

\* A batcher has as many users as readings of its tile have begun and will end.
THEOREM BatchersAreReleased == Spec => []BatchersMatchReadings
<1>1. TypesOK /\ BatchOK => BatchersMatchReadings
  <2> SUFFICES ASSUME TypesOK, BatchOK PROVE BatchersMatchReadings
    OBVIOUS
  <2>1. \A key : /\ Count(queue, "TileReadStarted", key)
                      = Cardinality({n \in Index("TileReadStarted") : queue[n].key = key})
                 /\ Count(queue, "TileReadEnded", key)
                      = Cardinality({n \in Index("TileReadEnded") : queue[n].key = key})
                 /\ ReadsIn(reading, key) = {x \in reading : x.step # "finish" /\ x.task.key = key}
    <3>1. \A key, type : Places(queue, type, key) = {n \in Index(type) : queue[n].key = key}
      BY DEF Places, Index
    <3> QED
      BY <3>1 DEF Count, ReadsIn
  <2>2. \A n \in Index("TileReadEnded") \cup Index("TileReadStarted") : queue[n].key \in Keys
    <3>1. queue \in Seq(BackMessages(generation, tasks)) /\ generation \in Nat
      BY DEF TypesOK, BackOK
    <3>2. \A n \in DOMAIN queue : queue[n] \in BackMessages(generation, tasks)
      BY <3>1, LenProperties
    <3>3. KeysUpTo(generation) \subseteq Keys
      BY <3>1 DEF KeysUpTo, Keys
    <3> QED
      BY <3>2, <3>3, BackMessageFields DEF Index
  <2> QED
    BY <2>1, <2>2 DEF BatchOK, DueIn, BatchersMatchReadings
<1> QED
  BY <1>1, ReadingIsSound, BatchersAreCounted, PTL

-----------------------------------------------------------------------------
(* The fourth invariant: what was read before a restart. *)

\* What a sequence holds when another one follows it.
LEMMA RangeOfConcat ==
  ASSUME NEW S, NEW s \in Seq(S), NEW u \in Seq(S)
  PROVE  Range(s \o u) = Range(s) \cup Range(u)
<1> DEFINE w == s \o u
<1>1. /\ DOMAIN s = 1..Len(s) /\ Len(s) \in Nat /\ DOMAIN u = 1..Len(u) /\ Len(u) \in Nat
      /\ DOMAIN w = 1..(Len(s) + Len(u))
      /\ \A n \in 1..(Len(s) + Len(u)) : w[n] = IF n <= Len(s) THEN s[n] ELSE u[n - Len(s)]
  BY ConcatProperties, LenProperties
<1> HIDE DEF w
<1>2. ASSUME NEW x \in Range(w)
      PROVE  x \in Range(s) \cup Range(u)
  <2>1. PICK n \in 1..(Len(s) + Len(u)) : x = w[n]
    BY <1>1, <1>2 DEF Range
  <2>2. CASE n <= Len(s)
    BY <1>1, <2>1, <2>2 DEF Range
  <2>3. CASE ~(n <= Len(s))
    <3>1. n - Len(s) \in DOMAIN u /\ x = u[n - Len(s)]
      BY <1>1, <2>1, <2>3
    <3> QED
      BY <3>1 DEF Range
  <2> QED
    BY <2>2, <2>3
<1>3. ASSUME NEW n \in DOMAIN s
      PROVE  s[n] \in Range(w)
  <2>1. n \in DOMAIN w /\ w[n] = s[n]
    BY <1>1
  <2> QED
    BY <2>1 DEF Range
<1>4. ASSUME NEW n \in DOMAIN u
      PROVE  u[n] \in Range(w)
  <2>1. n + Len(s) \in DOMAIN w /\ w[n + Len(s)] = u[n]
    BY <1>1
  <2> QED
    BY <2>1 DEF Range
<1>5. Range(s) \subseteq Range(w) /\ Range(u) \subseteq Range(w)
  BY <1>3, <1>4 DEF Range
<1>6. Range(w) = Range(s) \cup Range(u)
  BY <1>2, <1>5
<1> QED
  BY <1>6 DEF w

\* All that is read, batched, sent or shown was read by tasks since the last Restart.
FreshTasks == \A x \in infos \cup Pending : x.id > restartedAt

FreshShapes ==
  /\ \A x \in shown \cup overlays : x.id > restartedAt
  /\ \A b \in batchers : \A id \in b.shapes : id > restartedAt
  /\ \A m \in Range(queue) : m.type = "MapShapeReaded" => m.id > restartedAt
  /\ \A m \in Range(frontQueue) :
       m.type # "FinishTileRead" => \A group \in m.groups : group.id > restartedAt

\* The readers are stopped, or have been, and nobody asks them to read.
Stopped ==
  /\ infos = {} /\ ~update /\ at \in {"stopping", "starting", "idle"}
  /\ at # "stopping" => pool = <<>> /\ reading = {}

\* Between Restart and SwitchMapStyle the frontend shows nothing and requests nothing;
\* at SwitchMapStyle nothing is left of what was read before.
Phase ==
  /\ restartedAt \in 0..tasks
  /\ invalidate # {} => frontend = "invalidating"
  /\ frontend \notin {"restarting", "switching"} =>
       /\ Of(queue, "Restart") = {} /\ Of(queue, "SwitchMapStyle") = {}
       /\ at \notin {"stopping", "starting"} /\ FreshTasks /\ FreshShapes
  /\ frontend = "restarting" =>
       /\ shown = {} /\ Of(queue, "SwitchMapStyle") = {}
       /\ \/ /\ \E n \in Of(queue, "Restart") : Of(queue, "Restart") = {n}
             /\ at \notin {"stopping", "starting"} /\ FreshTasks /\ FreshShapes
          \/ Of(queue, "Restart") = {} /\ Stopped
  /\ frontend = "switching" =>
       /\ shown = {} /\ Of(queue, "Restart") = {} /\ Stopped /\ at = "idle"
       /\ \/ queue # <<>> /\ Of(queue, "SwitchMapStyle") = {Len(queue)}
          \/ queue = <<>> /\ FreshShapes

\* How a step of the backend or of a reader changes the backend's queue.
LEMMA QueueSteps ==
  ASSUME TypesOK, Reader \/ Backend
  PROVE  /\ \/ queue # <<>> /\ queue' = Tail(queue) /\ (Head(queue).type = "Restart" => Stop)
            \/ \A type \in {"Restart", "SwitchMapStyle"} : Of(queue', type) = Of(queue, type)
         /\ \A m \in Range(queue') :
              m \in Range(queue) \/ m.type # "MapShapeReaded" \/ \E x \in Pending : m.id = x.id
<1> USE DEF frontVars, managerVars, drawVars, readVars, seenVars
<1> DEFINE B == BackMessages(generation, tasks)
           Goal == /\ \/ queue # <<>> /\ queue' = Tail(queue) /\ (Head(queue).type = "Restart" => Stop)
                      \/ \A type \in {"Restart", "SwitchMapStyle"} : Of(queue', type) = Of(queue, type)
                   /\ \A m \in Range(queue') : m \in Range(queue) \/ m.type # "MapShapeReaded"
                                                \/ \E x \in Pending : m.id = x.id
<1>1. queue \in Seq(B) /\ FinishReading \in B
  BY BackMessageTypes DEF TypesOK, BackOK
<1>2. ASSUME queue' = queue PROVE Goal
  BY <1>2
<1>3. ASSUME queue # <<>>, queue' = Tail(queue), Head(queue).type = "Restart" => Stop PROVE Goal
  <2>1. Range(queue') \subseteq Range(queue)
    BY <1>1, <1>3, RangeOfTail
  <2> QED
    BY <1>3, <2>1
<1>4. ASSUME NEW q \in Seq(B), NEW m \in B, m.type \notin {"Restart", "SwitchMapStyle"}
      PROVE  /\ \A type \in {"Restart", "SwitchMapStyle"} : Of(Append(q, m), type) = Of(q, type)
             /\ Range(Append(q, m)) = Range(q) \cup {m} /\ Append(q, m) \in Seq(B)
  <2>1. \A type \in {"Restart", "SwitchMapStyle"} : Of(Append(q, m), type) = Of(q, type)
    BY <1>4, OfAppended
  <2>2. Range(Append(q, m)) = Range(q) \cup {m}
    BY RangeOfAppended
  <2> QED
    BY <2>1, <2>2, AppendProperties
<1>5. ASSUME NEW m \in B, m.type \notin {"Restart", "SwitchMapStyle"}, queue' = Append(queue, m),
             m.type = "MapShapeReaded" => \E x \in Pending : m.id = x.id
      PROVE  Goal
  BY <1>1, <1>4, <1>5
<1>6. CASE ReserveBatcher \/ BatchShapes \/ ReleaseBatcher \/ PassOn \/ Stop
  <2>1. queue # <<>> /\ queue' = Tail(queue) /\ (Head(queue).type = "Restart" => Stop)
    BY <1>6 DEF ReserveBatcher, BatchShapes, ReleaseBatcher, PassOn, Stop, NextMessage
  <2> QED
    BY <1>3, <2>1
<1>7. CASE GetTiles \/ CancelOutdated \/ CountNewTiles \/ PushTaskBackForTileKey \/ Invalidate \/ Start
  BY <1>2, <1>7 DEF GetTiles, CancelOutdated, CountNewTiles, PushTaskBackForTileKey, Invalidate, Start
<1>8. CASE CheckFinishedTiles
  <2> DEFINE m == [type |-> "FinishTileRead", keys |-> {Key(tile, generation) : tile \in Finished}]
  <2>1. m \in B
    <3>1. infos \subseteq TasksUpTo(generation, tasks) /\ generation \in Nat
      BY DEF TypesOK, BackOK
    <3>2. {Key(tile, generation) : tile \in Finished} \subseteq KeysUpTo(generation)
      BY <3>1 DEF Finished, TilesOf, TasksUpTo, KeysUpTo, Key
    <3> QED
      BY <3>2, BackMessageTypes
  <2>2. m.type = "FinishTileRead" /\ (queue' = queue \/ queue' = Append(queue, m))
    BY <1>8 DEF CheckFinishedTiles
  <2> HIDE DEF m
  <2> QED
    BY <1>2, <1>5, <2>1, <2>2
<1>9. CASE FinishLeftTasks
  <2>1. queue' = queue \o <<FinishReading>> \/ queue' = queue \o <<>>
    BY <1>9 DEF FinishLeftTasks
  <2>2. queue' = Append(queue, FinishReading) \/ queue' = queue
    BY <1>1, <2>1, AppendIsConcat, ConcatEmptySeq
  <2>3. FinishReading.type = "FinishReading"
    BY DEF FinishReading
  <2> QED
    BY <1>1, <1>2, <1>5, <2>2, <2>3
<1>10. CASE PopFront
  <2> DEFINE m == [type |-> "TileReadStarted", key |-> Head(pool).key]
  <2>1. Head(pool) \in TasksUpTo(generation, tasks)
    BY <1>10, HeadTailProperties DEF PopFront, TypesOK, ReadOK
  <2>2. m \in B /\ m.type = "TileReadStarted" /\ (queue' = queue \/ queue' = Append(queue, m))
    BY <1>10, <2>1, BackMessageTypes DEF PopFront, TasksUpTo
  <2> HIDE DEF m
  <2> QED
    BY <1>2, <1>5, <2>2
<1>11. ASSUME NEW doing \in reading, ReadFeatures(doing.task)
       PROVE  Goal
  <2> DEFINE m == [type |-> "MapShapeReaded", key |-> doing.task.key, id |-> doing.task.id]
  <2>1. m \in B /\ m.type = "MapShapeReaded" /\ (queue' = queue \/ queue' = Append(queue, m))
    BY <1>11, BackMessageTypes DEF ReadFeatures, TypesOK, ReadOK
  <2>2. \E x \in Pending : m.id = x.id
    BY DEF Pending
  <2> HIDE DEF m
  <2> QED
    BY <1>2, <1>5, <2>1, <2>2
<1>12. ASSUME NEW doing \in reading, OnTaskFinished(doing.task, doing.step = "end")
       PROVE  Goal
  <2> DEFINE ended == [type |-> "TileReadEnded", key |-> doing.task.key]
  <2>1. PICK q1, q2 \in Seq(B), keys \in SUBSET KeysUpTo(generation) :
          /\ ended \in B /\ [type |-> "FinishTileRead", keys |-> keys] \in B
          /\ q1 = IF doing.step = "end" THEN Append(queue, ended) ELSE queue
          /\ q2 = IF counter = 1 THEN Append(q1, FinishReading) ELSE q1
          /\ \/ queue' = q2
             \/ queue' = Append(q2, [type |-> "FinishTileRead", keys |-> keys])
    BY <1>12, FinishedPosts
  <2> DEFINE finished == [type |-> "FinishTileRead", keys |-> keys]
  <2>2. /\ ended \in B /\ ended.type = "TileReadEnded" /\ finished \in B /\ finished.type = "FinishTileRead"
        /\ FinishReading.type = "FinishReading"
        /\ (queue' = q2 \/ queue' = Append(q2, finished))
    BY <2>1 DEF FinishReading
  <2> HIDE DEF ended, finished
  <2> DEFINE kept(q) == /\ \A type \in {"Restart", "SwitchMapStyle"} : Of(q, type) = Of(queue, type)
                        /\ \A m \in Range(q) : m \in Range(queue) \/ m.type # "MapShapeReaded"
  <2>3. \A q \in Seq(B) : kept(q) =>
          kept(Append(q, ended)) /\ kept(Append(q, FinishReading)) /\ kept(Append(q, finished))
    BY <1>1, <1>4, <2>2
  <2>4. kept(queue)
    OBVIOUS
  <2> HIDE DEF kept
  <2>5. kept(q1)
    BY <1>1, <2>1, <2>3, <2>4
  <2>6. kept(q2)
    BY <2>1, <2>3, <2>5
  <2>7. kept(queue')
    BY <2>2, <2>3, <2>6
  <2> QED
    BY <2>7 DEF kept
<1>13. CASE Reader
  BY <1>10, <1>11, <1>12, <1>13 DEF Reader
<1>14. CASE Backend
  BY <1>6, <1>7, <1>8, <1>9, <1>14 DEF Backend
<1> QED
  BY <1>13, <1>14

\* New tasks are those that are pushed.
LEMMA NewTasks ==
  ASSUME TypesOK, Next
  PROVE  /\ tasks' \in Nat /\ tasks <= tasks'
         /\ \A x \in infos' \cup Pending' : x \in infos \cup Pending \/ x.id = tasks + 1
<1> USE DEF frontVars, managerVars, drawVars, readVars, seenVars
<1>1. tasks \in Nat /\ pool \in Seq(TasksUpTo(generation, tasks))
  BY DEF TypesOK, BackOK, ReadOK
<1>2. CASE Reader
  <2>1. tasks' = tasks /\ infos' = infos
    BY <1>2 DEF Reader, PopFront, ReadFeatures, OnTaskFinished
  <2>2. Pending' \subseteq Pending
    <3>1. CASE PopFront
      <4>1. Range(pool) = Range(pool') \cup {Head(pool)}
        BY <1>1, <3>1, RangeOfTail DEF PopFront
      <4>2. \A x \in reading' : x \in reading \/ x.task = Head(pool)
        BY <3>1 DEF PopFront, Does
      <4> QED
        BY <4>1, <4>2 DEF Pending
    <3>2. ASSUME NEW doing \in reading, ReadFeatures(doing.task)
          PROVE  Pending' \subseteq Pending
      <4>1. pool' = pool /\ reading' = (reading \ {Does(doing.task, "read")}) \cup {Does(doing.task, "end")}
        BY <3>2 DEF ReadFeatures
      <4>2. \A x \in reading' : x \in reading \/ x.task = doing.task
        BY <4>1 DEF Does
      <4> QED
        BY <4>1, <4>2 DEF Pending
    <3>3. ASSUME NEW doing \in reading, OnTaskFinished(doing.task, doing.step = "end")
          PROVE  Pending' \subseteq Pending
      <4>1. pool' = pool /\ reading' \subseteq reading
        BY <3>3 DEF OnTaskFinished
      <4> QED
        BY <4>1 DEF Pending
    <3> QED
      BY <1>2, <3>1, <3>2, <3>3 DEF Reader
  <2> QED
    BY <1>1, <2>1, <2>2
<1>3. CASE PushTaskBackForTileKey
  <2> DEFINE task == [key |-> Key(CHOOSE x \in tiles : TRUE, generation), id |-> tasks + 1]
  <2>1. infos' = infos \cup {task} /\ pool' = Append(pool, task) /\ UNCHANGED reading /\ tasks' = tasks + 1
        /\ task.id = tasks + 1
    BY <1>3 DEF PushTaskBackForTileKey
  <2> HIDE DEF task
  <2>2. Range(pool') = Range(pool) \cup {task}
    <3>1. pool \in Seq(TasksUpTo(generation, tasks) \cup {task})
      BY <1>1, SeqMonotonic
    <3> QED
      BY <2>1, <3>1, RangeOfAppended
  <2> QED
    BY <1>1, <2>1, <2>2 DEF Pending
<1>4. CASE UNCHANGED tasks /\ infos' \subseteq infos /\ UNCHANGED reading /\ Range(pool') \subseteq Range(pool)
  BY <1>1, <1>4 DEF Pending
<1>5. CASE FinishLeftTasks
  <2>1. Range(<<>>) = {}
    BY DEF Range
  <2> QED
    BY <1>4, <1>5, <2>1 DEF FinishLeftTasks
<1>6. CASE Next /\ ~Reader /\ ~PushTaskBackForTileKey /\ ~FinishLeftTasks
  <2>1. UNCHANGED <<tasks, reading, pool>>
    BY <1>6 DEF Next, UpdateScene, InvalidateRect, UpdateAll, Frontend, PostUpdate, PostSwitch, Unblock,
       FrontendAccept, Backend, ReserveBatcher, BatchShapes, ReleaseBatcher, PassOn, GetTiles,
       CancelOutdated, CountNewTiles, CheckFinishedTiles, Invalidate, Stop, Start
  <2>2. infos' \subseteq infos
    BY <1>6 DEF Next, UpdateScene, InvalidateRect, UpdateAll, Frontend, PostUpdate, PostSwitch, Unblock,
       FrontendAccept, Backend, ReserveBatcher, BatchShapes, ReleaseBatcher, PassOn, GetTiles,
       CancelOutdated, CountNewTiles, CheckFinishedTiles, Invalidate, Stop, Start
  <2> QED
    BY <1>4, <2>1, <2>2
<1> QED
  BY <1>2, <1>3, <1>5, <1>6

\* Flush makes groups of what it is given only.
LEMMA FlushedGroups ==
  ASSUME NEW type, NEW groups, NEW n, \A x \in groups : x.id > n
  PROVE  \A m \in Range(Flush(type, groups)) : \A x \in m.groups : x.id > n
<1> DEFINE m == [type |-> type, keys |-> {group.key : group \in groups}, groups |-> groups]
<1>1. Flush(type, groups) = (IF groups = {} THEN <<>> ELSE <<m>>) /\ m.groups = groups
  BY DEF Flush
<1> HIDE DEF m
<1>2. Range(<<>>) = {} /\ Range(<<m>>) = {m}
  BY DEF Range
<1> QED
  BY <1>1, <1>2

\* What the frontend may draw stays fresh when the backend or the frontend changes its queue.
LEMMA FreshFront ==
  ASSUME TypesOK, Next, FreshShapes
  PROVE  \A m \in Range(frontQueue') :
           m.type # "FinishTileRead" => \A group \in m.groups : group.id > restartedAt
<1> USE DEF frontVars, managerVars, drawVars, readVars, seenVars
<1> DEFINE F == FrontMessages(generation, tasks)
           old(m) == m.type # "FinishTileRead" => \A group \in m.groups : group.id > restartedAt
<1>1. /\ frontQueue \in Seq(F) /\ queue \in Seq(BackMessages(generation, tasks))
      /\ overlays \subseteq TasksUpTo(generation, tasks)
      /\ batchers \subseteq [key : KeysUpTo(generation), users : Nat \ {0}, shapes : SUBSET (0..tasks)]
  BY DEF TypesOK, FrontOK, BackOK
<1>2. \A m \in Range(frontQueue) : old(m)
  BY DEF FreshShapes
<1>3. ASSUME NEW more \in Seq(F), \A m \in Range(more) : old(m), frontQueue' = frontQueue \o more
      PROVE  \A m \in Range(frontQueue') : old(m)
  <2>1. Range(frontQueue') = Range(frontQueue) \cup Range(more)
    BY <1>1, <1>3, RangeOfConcat
  <2> QED
    BY <1>2, <1>3, <2>1
<1> HIDE DEF old
<1>4. CASE FrontendAccept
  <2>1. frontQueue # <<>> /\ frontQueue' = Tail(frontQueue)
    BY <1>4 DEF FrontendAccept
  <2>2. Range(frontQueue') \subseteq Range(frontQueue)
    BY <1>1, <2>1, RangeOfTail
  <2> QED
    BY <1>2, <2>2 DEF old
<1>5. CASE ReleaseBatcher
  <2>1. PICK b \in batchers :
          \/ frontQueue' = frontQueue
          \/ frontQueue' = frontQueue \o Flush("FlushRenderBucket", [key : {b.key}, id : b.shapes])
    BY <1>5 DEF ReleaseBatcher
  <2> DEFINE groups == [key : {b.key}, id : b.shapes]
  <2>2. groups \in SUBSET TasksUpTo(generation, tasks) /\ \A x \in groups : x.id > restartedAt
    BY <1>1 DEF TasksUpTo, FreshShapes
  <2> HIDE DEF groups
  <2>3. Flush("FlushRenderBucket", groups) \in Seq(F)
    BY <2>2, FlushType
  <2>4. \A m \in Range(Flush("FlushRenderBucket", groups)) : old(m)
    BY <2>2, FlushedGroups DEF old
  <2>5. frontQueue' = frontQueue \/ frontQueue' = frontQueue \o Flush("FlushRenderBucket", groups)
    BY <2>1 DEF groups
  <2> QED
    BY <1>2, <1>3, <2>3, <2>4, <2>5 DEF old
<1>6. CASE PassOn
  <2>1. \/ Head(queue).type = "FinishTileRead" /\ queue # <<>> /\ frontQueue' = Append(frontQueue, Head(queue))
        \/ frontQueue' = frontQueue \o Flush("FlushOverlays", overlays)
        \/ frontQueue' = WithoutStates(frontQueue)
    BY <1>6 DEF PassOn, NextMessage
  <2>2. CASE Head(queue).type = "FinishTileRead" /\ queue # <<>> /\ frontQueue' = Append(frontQueue, Head(queue))
    <3>1. Head(queue) \in F
      BY <1>1, <2>2, HeadTailProperties, BackMessageFields
    <3>2. Range(frontQueue') = Range(frontQueue) \cup {Head(queue)}
      BY <1>1, <2>2, <3>1, RangeOfAppended
    <3> QED
      BY <1>2, <2>2, <3>2 DEF old
  <2>3. CASE frontQueue' = frontQueue \o Flush("FlushOverlays", overlays)
    <3>1. \A x \in overlays : x.id > restartedAt
      BY DEF FreshShapes
    <3>2. \A m \in Range(Flush("FlushOverlays", overlays)) : old(m)
      BY <3>1, FlushedGroups DEF old
    <3>3. Flush("FlushOverlays", overlays) \in Seq(F)
      BY <1>1, FlushType
    <3> QED
      BY <1>3, <2>3, <3>2, <3>3 DEF old
  <2>4. CASE frontQueue' = WithoutStates(frontQueue)
    <3>1. frontQueue' \in Seq({m \in F : m.type = "FinishTileRead"})
      BY <1>1, <2>4, WithoutStatesType
    <3>2. \A n \in DOMAIN frontQueue' : frontQueue'[n] \in {m \in F : m.type = "FinishTileRead"}
      BY <3>1, LenProperties
    <3> QED
      BY <3>2 DEF Range, old
  <2> QED
    BY <2>1, <2>2, <2>3, <2>4
<1>7. CASE ~FrontendAccept /\ ~ReleaseBatcher /\ ~PassOn
  <2>1. frontQueue' = frontQueue
    BY <1>7 DEF Next, UpdateScene, InvalidateRect, UpdateAll, Frontend, PostUpdate, PostSwitch, Unblock,
       Backend, ReserveBatcher, BatchShapes, GetTiles, CancelOutdated, CountNewTiles, CheckFinishedTiles,
       PushTaskBackForTileKey, Invalidate, Stop, FinishLeftTasks, Start, Reader, PopFront, ReadFeatures,
       OnTaskFinished
  <2> QED
    BY <1>2, <2>1 DEF old
<1> QED
  BY <1>4, <1>5, <1>6, <1>7 DEF old

\* What is fresh stays fresh.
LEMMA FreshStep ==
  ASSUME TypesOK, Next, restartedAt \in 0..tasks, restartedAt' = restartedAt, FreshTasks, FreshShapes
  PROVE  FreshTasks' /\ FreshShapes'
<1> USE DEF frontVars, managerVars, drawVars, readVars, seenVars
<1> DEFINE B == BackMessages(generation, tasks)
<1>1. /\ queue \in Seq(B) /\ frontQueue \in Seq(FrontMessages(generation, tasks)) /\ tasks \in Nat
      /\ batchers \subseteq [key : KeysUpTo(generation), users : Nat \ {0}, shapes : SUBSET (0..tasks)]
  BY DEF TypesOK, FrontOK, BackOK
<1>2. FreshTasks'
  BY <1>1, NewTasks DEF FreshTasks
<1>3. \A x \in shown' : x.id > restartedAt
  <2>1. CASE FrontendAccept
    <3>1. Head(frontQueue) \in Range(frontQueue)
      BY <1>1, <2>1, RangeOfTail DEF FrontendAccept
    <3>2. IF Head(frontQueue).type = "FinishTileRead" THEN shown' \subseteq shown
          ELSE shown' \subseteq shown \cup Head(frontQueue).groups
      BY <2>1 DEF FrontendAccept
    <3> QED
      BY <3>1, <3>2 DEF FreshShapes
  <2>2. CASE ~FrontendAccept
    <3>1. shown' \subseteq shown
      BY <2>2 DEF Next, UpdateScene, ShownIn, InvalidateRect, UpdateAll, Frontend, PostUpdate, PostSwitch,
         Unblock, Request, Backend, ReserveBatcher, BatchShapes, ReleaseBatcher, PassOn, GetTiles,
         CancelOutdated, CountNewTiles, CheckFinishedTiles, PushTaskBackForTileKey, Invalidate, Stop,
         FinishLeftTasks, Start, Reader, PopFront, ReadFeatures, OnTaskFinished
    <3> QED
      BY <3>1 DEF FreshShapes
  <2> QED
    BY <2>1, <2>2
<1>4. /\ \A x \in overlays' : x.id > restartedAt
      /\ \A b \in batchers' : \A id \in b.shapes : id > restartedAt
  <2>1. CASE BatchShapes
    <3> DEFINE m == Head(queue)
               with(b) == IF b.key = m.key THEN [b EXCEPT !.shapes = @ \cup {m.id}] ELSE b
    <3>1. m \in Range(queue) /\ m.type = "MapShapeReaded"
      BY <1>1, <2>1, RangeOfTail DEF BatchShapes, NextMessage
    <3>2. \/ overlays' = overlays /\ batchers' = batchers
          \/ overlays' = OverlaysWith([key |-> m.key, id |-> m.id]) /\ batchers' = {with(b) : b \in batchers}
      BY <2>1 DEF BatchShapes
    <3>3. m.id > restartedAt
      BY <3>1 DEF FreshShapes
    <3>4. \A b \in batchers : with(b).shapes \subseteq b.shapes \cup {m.id}
      BY <1>1
    <3>5. OverlaysWith([key |-> m.key, id |-> m.id]) \subseteq overlays \cup {[key |-> m.key, id |-> m.id]}
      BY DEF OverlaysWith
    <3> HIDE DEF m, with
    <3> QED
      BY <3>2, <3>3, <3>4, <3>5 DEF FreshShapes
  <2>2. CASE ReserveBatcher
    <3>1. overlays' = overlays /\ \A b \in batchers' : b.shapes = {} \/ \E c \in batchers : b.shapes = c.shapes
      <4>1. overlays' = overlays /\ batchers' = Reserved(Head(queue).key)
        BY <2>2 DEF ReserveBatcher
      <4>2. \A b \in batchers : [b EXCEPT !.users = @ + 1].shapes = b.shapes
        BY <1>1
      <4>3. [key |-> Head(queue).key, users |-> 1, shapes |-> {}].shapes = {}
        OBVIOUS
      <4> QED
        BY <4>1, <4>2, <4>3 DEF Reserved
    <3> QED
      BY <3>1 DEF FreshShapes
  <2>3. CASE ReleaseBatcher
    <3>1. overlays' = overlays
      BY <2>3 DEF ReleaseBatcher
    <3>2. PICK b \in batchers : \/ batchers' = (batchers \ {b}) \cup {[b EXCEPT !.users = @ - 1]}
                                \/ batchers' = batchers \ {b}
      BY <2>3 DEF ReleaseBatcher
    <3>3. [b EXCEPT !.users = @ - 1].shapes = b.shapes
      BY <1>1
    <3> QED
      BY <3>1, <3>2, <3>3 DEF FreshShapes
  <2>4. CASE ~BatchShapes /\ ~ReserveBatcher /\ ~ReleaseBatcher
    <3>1. overlays' \subseteq overlays /\ batchers' = batchers
      BY <2>4 DEF Next, UpdateScene, InvalidateRect, UpdateAll, Frontend, PostUpdate, PostSwitch, Unblock,
         FrontendAccept, Backend, PassOn, GetTiles, CancelOutdated, CountNewTiles, CheckFinishedTiles,
         PushTaskBackForTileKey, Invalidate, Stop, FinishLeftTasks, Start, Reader, PopFront,
         ReadFeatures, OnTaskFinished
    <3> QED
      BY <3>1 DEF FreshShapes
  <2> QED
    BY <2>1, <2>2, <2>3, <2>4
<1>5. \A m \in Range(queue') : m.type = "MapShapeReaded" => m.id > restartedAt
  <2>1. CASE Reader \/ Backend
    BY <2>1, QueueSteps DEF FreshShapes, FreshTasks
  <2>2. CASE UpdateAll \/ PostSwitch
    <3>1. \E type \in {"Restart", "SwitchMapStyle"} : queue' = Append(queue, [type |-> type])
      BY <2>2 DEF UpdateAll, PostSwitch
    <3>2. \A type \in {"Restart", "SwitchMapStyle"} :
            /\ Range(Append(queue, [type |-> type])) = Range(queue) \cup {[type |-> type]}
            /\ [type |-> type].type # "MapShapeReaded"
      BY <1>1, BackMessageTypes, RangeOfAppended
    <3> QED
      BY <3>1, <3>2 DEF FreshShapes
  <2>3. CASE queue' = queue
    BY <2>3 DEF FreshShapes
  <2> QED
    BY <2>1, <2>2, <2>3 DEF Next, UpdateScene, InvalidateRect, Frontend, PostUpdate, Unblock, FrontendAccept
<1>6. FreshShapes'
  BY <1>3, <1>4, <1>5, FreshFront DEF FreshShapes
<1> QED
  BY <1>2, <1>6

\* When the readers have been stopped and SwitchMapStyle is all that is left to handle,
\* no overlay and no batcher is left.
LEMMA NothingIsLeft ==
  ASSUME TypesOK, ReadingInv, OverlaysAreSent, BatchOK, Stopped, at = "idle",
         queue # <<>>, Of(queue, "SwitchMapStyle") = {Len(queue)}, Head(queue).type = "SwitchMapStyle"
  PROVE  overlays = {} /\ batchers = {} /\ Tail(queue) = <<>>
<1>1. /\ queue \in Seq(BackMessages(generation, tasks)) /\ pool = <<>> /\ reading = {}
      /\ batchers \subseteq [key : KeysUpTo(generation), users : Nat \ {0}, shapes : SUBSET (0..tasks)]
  BY DEF TypesOK, BackOK, Stopped
<1>2. /\ Len(queue) = 1 /\ Head(queue) = queue[1] /\ Len(Tail(queue)) = 0
      /\ DOMAIN queue = 1..1
  <2>1. /\ Head(queue) = queue[1] /\ Len(Tail(queue)) = Len(queue) - 1
        /\ (1 \in Of(queue, "SwitchMapStyle")) = (Head(queue).type = "SwitchMapStyle")
    BY <1>1, OfTail
  <2>2. DOMAIN queue = 1..Len(queue)
    BY <1>1, LenProperties
  <2> QED
    BY <2>1, <2>2
<1>3. Tail(queue) = <<>>
  <2>1. Tail(queue) \in Seq(BackMessages(generation, tasks))
    BY <1>1, HeadTailProperties
  <2> QED
    BY <1>2, <2>1, EmptySeq
<1>4. queue[1].type = "SwitchMapStyle" /\ \A n \in DOMAIN queue : n = 1
  BY <1>2
<1>5. counter = 0
  <2>1. Pending = {}
    <3>1. Range(<<>>) = {}
      BY DEF Range
    <3> QED
      BY <1>1, <3>1 DEF Pending
  <2> QED
    BY <2>1, FS_EmptySet DEF ReadingInv, CounterMatchesTasks
<1>6. overlays = {}
  <2>1. Index("FinishReading") = {}
    BY <1>4 DEF Index
  <2> QED
    BY <1>5, <2>1 DEF OverlaysAreSent
<1>7. \A key : DueIn(queue, reading, key) = 0
  <2>1. \A key : Places(queue, "TileReadEnded", key) = {} /\ Places(queue, "TileReadStarted", key) = {}
    BY <1>4 DEF Places
  <2>2. \A key : ReadsIn(reading, key) = {}
    BY <1>1 DEF ReadsIn
  <2>3. \A key : Count(queue, "TileReadEnded", key) = 0 /\ Count(queue, "TileReadStarted", key) = 0
    BY <2>1, FS_EmptySet DEF Count
  <2>4. \A key : Cardinality(ReadsIn(reading, key)) = 0
    BY <2>2, FS_EmptySet
  <2> QED
    BY <2>3, <2>4 DEF DueIn
<1>8. batchers = {}
  BY <1>1, <1>7 DEF BatchOK
<1> QED
  BY <1>3, <1>6, <1>8

\* Stopped readers stay stopped when the backend or a reader takes a step.
LEMMA StaysStopped ==
  ASSUME TypesOK, ReadingInv, Stopped, invalidate = {}, Of(queue, "Restart") = {}, Reader \/ Backend
  PROVE  /\ Stopped' /\ Of(queue', "Restart") = {}
         /\ at = "idle" => at' = "idle" /\ (ReserveBatcher \/ BatchShapes \/ ReleaseBatcher \/ PassOn)
         /\ UNCHANGED restartedAt
<1> USE DEF managerVars, readVars, seenVars
<1>1. queue \in Seq(BackMessages(generation, tasks)) /\ TasksOK
  BY DEF TypesOK, BackOK, ReadingInv
<1>2. Of(queue', "Restart") = {}
  <2>1. CASE queue # <<>> /\ queue' = Tail(queue)
    <3>1. \A n \in Of(Tail(queue), "Restart") : n + 1 \in Of(queue, "Restart")
      BY <1>1, <2>1, OfTail
    <3> QED
      BY <2>1, <3>1
  <2>2. CASE \A type \in {"Restart", "SwitchMapStyle"} : Of(queue', type) = Of(queue, type)
    BY <2>2
  <2> QED
    BY <2>1, <2>2, QueueSteps
<1>3. CASE ReserveBatcher \/ BatchShapes \/ ReleaseBatcher \/ PassOn
  <2>1. UNCHANGED <<update, at, infos, pool, reading, restartedAt>>
    BY <1>3 DEF ReserveBatcher, BatchShapes, ReleaseBatcher, PassOn
  <2> QED
    BY <1>2, <1>3, <2>1 DEF Stopped
<1>4. CASE FinishLeftTasks
  BY <1>2, <1>4 DEF FinishLeftTasks, Stopped
<1>5. CASE Start
  BY <1>2, <1>5 DEF Start, Stopped
<1>6. ~GetTiles /\ ~Invalidate /\ ~CancelOutdated /\ ~CountNewTiles /\ ~CheckFinishedTiles
      /\ ~PushTaskBackForTileKey
  BY DEF Stopped, NextMessage, GetTiles, Invalidate, CancelOutdated, CountNewTiles, CheckFinishedTiles,
     PushTaskBackForTileKey
<1>7. ~Stop
  <2>1. SUFFICES ASSUME Stop PROVE FALSE
    OBVIOUS
  <2>2. queue # <<>> /\ Head(queue).type = "Restart"
    BY <2>1 DEF Stop, NextMessage
  <2>3. (1 \in Of(queue, "Restart")) = (Head(queue).type = "Restart")
    BY <1>1, <2>2, OfTail
  <2> QED
    BY <2>2, <2>3
<1>8. CASE Reader
  <2>1. at = "stopping"
    <3>1. at # "stopping" => pool = <<>> /\ reading = {}
      BY DEF Stopped
    <3> QED
      BY <1>8, <3>1 DEF Reader, PopFront
  <2>2. UNCHANGED <<update, at, infos, restartedAt>>
    BY <1>8 DEF Reader, PopFront, ReadFeatures, OnTaskFinished
  <2> QED
    BY <1>2, <2>1, <2>2 DEF Stopped
<1> QED
  BY <1>3, <1>4, <1>5, <1>6, <1>7, <1>8 DEF Backend

\* What the frontend asks in the middle of UpdateAll.
LEMMA BackendLeaves ==
  ASSUME Reader \/ Backend
  PROVE  /\ UNCHANGED <<frontend, shown>> /\ invalidate' \subseteq invalidate
         /\ ~Stop => UNCHANGED restartedAt /\ (at' \in {"stopping", "starting"} => at \in {"stopping", "starting"})
BY DEF Reader, Backend, frontVars, seenVars, PopFront, ReadFeatures, OnTaskFinished, ReserveBatcher,
   BatchShapes, ReleaseBatcher, PassOn, GetTiles, CancelOutdated, CountNewTiles, CheckFinishedTiles,
   PushTaskBackForTileKey, Invalidate, Stop, FinishLeftTasks, Start

\* A step that is not Stop, while the readers are not stopped.
LEMMA PhaseBeforeStop ==
  ASSUME TypesOK, ReadingInv, Phase, Reader \/ Backend, FreshTasks, FreshShapes,
         at \notin {"stopping", "starting"}, Of(queue, "SwitchMapStyle") = {}, frontend # "switching",
         \/ frontend # "restarting" /\ Of(queue, "Restart") = {}
         \/ frontend = "restarting" /\ \E n \in Of(queue, "Restart") : Of(queue, "Restart") = {n}
  PROVE  Phase'
<1>1. queue \in Seq(BackMessages(generation, tasks)) /\ restartedAt \in 0..tasks /\ tasks \in Nat
      /\ (invalidate # {} => frontend = "invalidating") /\ Next
      /\ frontend \in {"free", "invalidating", "restarting", "switching", "posting"}
      /\ (frontend = "restarting" => shown = {})
  BY DEF TypesOK, BackOK, FrontOK, Phase, Next
<1>2. tasks' \in Nat /\ tasks <= tasks'
  BY <1>1, NewTasks
<1>3. /\ UNCHANGED <<frontend, shown>> /\ invalidate' \subseteq invalidate
      /\ ~Stop => UNCHANGED restartedAt /\ at' \notin {"stopping", "starting"}
  BY BackendLeaves
<1>4. queue # <<>> =>
        /\ \A type : \A n \in Of(Tail(queue), type) : n \in Nat /\ n + 1 \in Of(queue, type) /\ n + 1 # 1
        /\ \A type : \A n \in Of(queue, type) : n \in 1..Len(queue) /\ (n # 1 => n - 1 \in Of(Tail(queue), type))
        /\ \A type : (1 \in Of(queue, type)) = (Head(queue).type = type)
  BY <1>1, OfTail
<1>5. Of(queue', "SwitchMapStyle") = {}
  BY <1>4, QueueSteps
<1>6. CASE Stop
  <2>1. /\ queue # <<>> /\ queue' = Tail(queue) /\ Head(queue).type = "Restart" /\ ~update
        /\ at' = "stopping" /\ infos' = {} /\ restartedAt' = tasks /\ UNCHANGED <<update, tasks>>
    BY <1>6 DEF Stop, NextMessage, readVars
  <2>2. Of(queue, "Restart") = {1} /\ frontend = "restarting"
    BY <1>4, <2>1
  <2>3. Of(queue', "Restart") = {}
    BY <1>4, <2>1, <2>2
  <2>4. Stopped'
    BY <2>1 DEF Stopped
  <2> QED
    BY <1>1, <1>3, <1>5, <2>1, <2>2, <2>3, <2>4 DEF Phase
<1>7. CASE ~Stop
  <2>1. FreshTasks' /\ FreshShapes' /\ at' \notin {"stopping", "starting"} /\ restartedAt' \in 0..tasks'
    BY <1>1, <1>2, <1>3, <1>7, FreshStep
  <2>2. frontend # "restarting" => Of(queue', "Restart") = {}
    BY <1>4, QueueSteps
  <2>3. frontend = "restarting" => \E n \in Of(queue', "Restart") : Of(queue', "Restart") = {n}
    <3>1. SUFFICES ASSUME frontend = "restarting"
                   PROVE  \E n \in Of(queue', "Restart") : Of(queue', "Restart") = {n}
      OBVIOUS
    <3>2. PICK n \in Of(queue, "Restart") : Of(queue, "Restart") = {n}
      BY <3>1
    <3>3. CASE queue # <<>> /\ queue' = Tail(queue) /\ (Head(queue).type = "Restart" => Stop)
      <4>1. Head(queue).type # "Restart"
        BY <1>7, <3>3
      <4>2. n \in 1..Len(queue) /\ n # 1 /\ n - 1 \in Of(queue', "Restart")
        BY <1>4, <3>2, <3>3, <4>1
      <4>3. \A k \in Of(queue', "Restart") : k = n - 1
        BY <1>4, <3>2, <3>3, <4>2
      <4> QED
        BY <4>2, <4>3
    <3>4. CASE Of(queue', "Restart") = Of(queue, "Restart")
      BY <3>2, <3>4
    <3> QED
      BY <3>3, <3>4, QueueSteps
  <2> QED
    BY <1>1, <1>3, <1>5, <2>1, <2>2, <2>3 DEF Phase
<1> QED
  BY <1>6, <1>7

\* A step of the backend or of a reader keeps the order of UpdateAll.
LEMMA PhaseOfBackend ==
  ASSUME TypesOK, ReadingInv, OverlaysAreSent, BatchOK, Phase, Reader \/ Backend
  PROVE  Phase'
<1>1. /\ queue \in Seq(BackMessages(generation, tasks)) /\ restartedAt \in 0..tasks /\ tasks \in Nat
      /\ frontQueue \in Seq(FrontMessages(generation, tasks))
      /\ (invalidate # {} => frontend = "invalidating") /\ Next
      /\ frontend \in {"free", "invalidating", "restarting", "switching", "posting"}
  BY DEF TypesOK, BackOK, FrontOK, Phase, Next
<1>2. tasks' \in Nat /\ tasks <= tasks'
  BY <1>1, NewTasks
<1>3. /\ UNCHANGED <<frontend, shown>> /\ invalidate' \subseteq invalidate
      /\ ~Stop => UNCHANGED restartedAt
  BY BackendLeaves
<1>4. CASE frontend \notin {"restarting", "switching"}
  BY <1>4, PhaseBeforeStop DEF Phase
<1>5. CASE frontend = "restarting" /\ Of(queue, "Restart") # {}
  BY <1>5, PhaseBeforeStop DEF Phase
<1>6. CASE frontend = "restarting" /\ Of(queue, "Restart") = {}
  <2>1. Stopped /\ shown = {} /\ Of(queue, "SwitchMapStyle") = {} /\ invalidate = {}
    BY <1>1, <1>6 DEF Phase
  <2>2. Stopped' /\ Of(queue', "Restart") = {} /\ UNCHANGED restartedAt
    BY <1>6, <2>1, StaysStopped
  <2>3. Of(queue', "SwitchMapStyle") = {}
    <3>1. CASE queue # <<>> /\ queue' = Tail(queue)
      <4>1. \A n \in Of(Tail(queue), "SwitchMapStyle") : n + 1 \in Of(queue, "SwitchMapStyle")
        BY <1>1, <3>1, OfTail
      <4> QED
        BY <2>1, <3>1, <4>1
    <3> QED
      BY <2>1, <3>1, QueueSteps
  <2> QED
    BY <1>1, <1>2, <1>3, <1>6, <2>1, <2>2, <2>3 DEF Phase
<1>7. CASE frontend = "switching"
  <2>1. Stopped /\ at = "idle" /\ shown = {} /\ Of(queue, "Restart") = {} /\ invalidate = {}
        /\ \/ queue # <<>> /\ Of(queue, "SwitchMapStyle") = {Len(queue)}
           \/ queue = <<>> /\ FreshShapes
    BY <1>1, <1>7 DEF Phase
  <2>2. /\ Stopped' /\ Of(queue', "Restart") = {} /\ UNCHANGED restartedAt /\ at' = "idle"
        /\ (ReserveBatcher \/ BatchShapes \/ ReleaseBatcher \/ PassOn)
    BY <2>1, StaysStopped
  <2>3. queue # <<>> /\ queue' = Tail(queue) /\ Of(queue, "SwitchMapStyle") = {Len(queue)}
    BY <2>1, <2>2 DEF ReserveBatcher, BatchShapes, ReleaseBatcher, PassOn, NextMessage
  <2>4. /\ Len(queue) \in Nat \ {0} /\ Len(queue') = Len(queue) - 1
        /\ \A n \in Of(queue', "SwitchMapStyle") : n \in Nat /\ n + 1 \in Of(queue, "SwitchMapStyle")
        /\ \A n \in Of(queue, "SwitchMapStyle") : n # 1 => n - 1 \in Of(queue', "SwitchMapStyle")
        /\ (1 \in Of(queue, "SwitchMapStyle")) = (Head(queue).type = "SwitchMapStyle")
        /\ queue' \in Seq(BackMessages(generation, tasks))
    BY <1>1, <2>3, OfTail, HeadTailProperties
  <2>5. CASE Head(queue).type # "SwitchMapStyle"
    <3>1. Len(queue) # 1
      BY <2>3, <2>4, <2>5
    <3>2. Of(queue', "SwitchMapStyle") = {Len(queue')}
      BY <2>3, <2>4, <3>1
    <3>3. queue' # <<>>
      BY <2>4, <3>1, EmptySeq
    <3> QED
      BY <1>1, <1>2, <1>3, <1>7, <2>1, <2>2, <3>2, <3>3 DEF Phase
  <2>6. CASE Head(queue).type = "SwitchMapStyle"
    <3>1. overlays = {} /\ batchers = {} /\ queue' = <<>>
      BY <2>1, <2>3, <2>6, NothingIsLeft
    <3>2. overlays' = overlays /\ batchers' = batchers /\ frontQueue' = WithoutStates(frontQueue)
      BY <2>2, <2>6 DEF ReserveBatcher, BatchShapes, ReleaseBatcher, PassOn, NextMessage
    <3>3. \A m \in Range(frontQueue') : m.type = "FinishTileRead"
      <4> DEFINE F == {m \in FrontMessages(generation, tasks) : m.type = "FinishTileRead"}
      <4>1. frontQueue' \in Seq(F)
        BY <1>1, <3>2, WithoutStatesType
      <4>2. \A n \in DOMAIN frontQueue' : frontQueue'[n] \in F
        BY <4>1, LenProperties
      <4> QED
        BY <4>2 DEF Range
    <3>4. FreshShapes'
      <4>1. Range(queue') = {}
        BY <3>1 DEF Range
      <4> QED
        BY <1>3, <2>1, <3>1, <3>2, <3>3, <4>1 DEF FreshShapes
    <3> QED
      BY <1>1, <1>2, <1>3, <1>7, <2>1, <2>2, <3>1, <3>4 DEF Phase
  <2> QED
    BY <2>5, <2>6
<1> QED
  BY <1>1, <1>4, <1>5, <1>6, <1>7

\* A step of the frontend keeps the order of UpdateAll.
LEMMA PhaseOfFrontend ==
  ASSUME TypesOK, Phase, UpdateScene \/ InvalidateRect \/ UpdateAll \/ Frontend
  PROVE  Phase'
<1> USE DEF frontVars, managerVars, drawVars, readVars, seenVars
<1>1. /\ queue \in Seq(BackMessages(generation, tasks)) /\ restartedAt \in 0..tasks
      /\ (invalidate # {} => frontend = "invalidating") /\ Next
      /\ frontend \in {"free", "invalidating", "restarting", "switching", "posting"}
  BY DEF TypesOK, BackOK, FrontOK, Phase, Next
<1>2. UNCHANGED <<at, infos, pool, reading, tasks, restartedAt>>
  BY DEF UpdateScene, InvalidateRect, UpdateAll, Frontend, PostUpdate, PostSwitch, Unblock, FrontendAccept
<1>3. FreshTasks => FreshTasks'
  BY <1>2 DEF FreshTasks, Pending
<1>4. FreshTasks /\ FreshShapes => FreshShapes'
  BY <1>1, <1>2, FreshStep
<1>5. CASE UpdateScene \/ InvalidateRect \/ PostUpdate \/ FrontendAccept
  <2>1. /\ frontend \notin {"restarting", "switching"} /\ frontend' \notin {"restarting", "switching"}
        /\ UNCHANGED queue /\ (invalidate' # {} => frontend' = "invalidating")
    BY <1>1, <1>5 DEF UpdateScene, InvalidateRect, PostUpdate, FrontendAccept, MayHappen, Request
  <2> QED
    BY <1>1, <1>2, <1>3, <1>4, <2>1 DEF Phase
<1>6. CASE UpdateAll
  <2>1. /\ frontend = "free" /\ frontend' = "restarting" /\ shown' = {} /\ UNCHANGED invalidate
        /\ queue' = Append(queue, [type |-> "Restart"])
    BY <1>6 DEF UpdateAll, MayHappen
  <2>2. /\ Of(queue, "Restart") = {} /\ Of(queue, "SwitchMapStyle") = {}
        /\ at \notin {"stopping", "starting"} /\ FreshTasks /\ FreshShapes /\ invalidate = {}
    BY <1>1, <2>1 DEF Phase
  <2>3. Of(queue', "Restart") = {Len(queue) + 1} /\ Of(queue', "SwitchMapStyle") = {}
    <3>1. [type |-> "Restart"] \in BackMessages(generation, tasks) /\ [type |-> "Restart"].type = "Restart"
      BY BackMessageTypes
    <3> QED
      BY <1>1, <2>1, <2>2, <3>1, OfAppended
  <2> QED
    BY <1>1, <1>2, <1>3, <1>4, <2>1, <2>2, <2>3 DEF Phase
<1>7. CASE PostSwitch
  <2>1. /\ frontend = "restarting" /\ frontend' = "switching" /\ ~IsBlocked
        /\ queue' = Append(queue, [type |-> "SwitchMapStyle"])
        /\ UNCHANGED <<shown, invalidate, update>>
    BY <1>7 DEF PostSwitch
  <2>2. Of(queue, "Restart") = {} /\ at \notin {"stopping", "starting"} /\ invalidate = {}
    BY <2>1 DEF IsBlocked, Of
  <2>3. shown = {} /\ Of(queue, "SwitchMapStyle") = {} /\ Stopped
    BY <2>1, <2>2 DEF Phase
  <2>4. /\ Of(queue', "SwitchMapStyle") = {Len(queue')} /\ Of(queue', "Restart") = {} /\ queue' # <<>>
    <3>1. [type |-> "SwitchMapStyle"] \in BackMessages(generation, tasks)
          /\ [type |-> "SwitchMapStyle"].type = "SwitchMapStyle"
      BY BackMessageTypes
    <3>2. queue' # <<>> /\ Len(queue') = Len(queue) + 1
      BY <1>1, <2>1, <3>1, AppendProperties
    <3> QED
      BY <1>1, <2>1, <2>2, <2>3, <3>1, <3>2, OfAppended
  <2>5. Stopped' /\ at' = "idle"
    BY <1>2, <2>1, <2>2, <2>3 DEF Stopped
  <2> QED
    BY <1>1, <1>2, <2>1, <2>2, <2>3, <2>4, <2>5 DEF Phase
<1>8. CASE Unblock
  <2>1. /\ frontend \in {"invalidating", "switching"} /\ frontend' = "posting" /\ ~IsBlocked
        /\ UNCHANGED <<queue, invalidate>>
    BY <1>8 DEF Unblock, Request
  <2>2. /\ Of(queue, "Restart") = {} /\ at \notin {"stopping", "starting"} /\ invalidate = {}
        /\ Of(queue, "SwitchMapStyle") = {}
    BY <2>1 DEF IsBlocked, Of
  <2>3. FreshShapes /\ FreshTasks
    <3>1. CASE frontend = "invalidating"
      BY <3>1 DEF Phase
    <3>2. CASE frontend = "switching"
      <4>1. FreshShapes /\ Stopped /\ at = "idle"
        BY <2>2, <3>2 DEF Phase
      <4>2. Pending = {} /\ infos = {}
        <5>1. Range(<<>>) = {}
          BY DEF Range
        <5> QED
          BY <4>1, <5>1 DEF Stopped, Pending
      <4> QED
        BY <4>1, <4>2 DEF FreshTasks
    <3> QED
      BY <2>1, <3>1, <3>2
  <2> QED
    BY <1>1, <1>2, <1>3, <1>4, <2>1, <2>2, <2>3 DEF Phase
<1> QED
  BY <1>5, <1>6, <1>7, <1>8 DEF Frontend

\* The order of UpdateAll, always.
THEOREM RestartIsOrderly == Spec => []Phase
<1>1. Init => Phase
  <2> SUFFICES ASSUME Init PROVE Phase
    OBVIOUS
  <2>1. Range(<<>>) = {} /\ \A type : Of(<<>>, type) = {}
    BY DEF Range, Of
  <2>2. Pending = {}
    BY <2>1 DEF Init, Pending
  <2> QED
    BY <2>1, <2>2 DEF Init, Phase, FreshTasks, FreshShapes
<1>2. TypesOK /\ ReadingInv /\ OverlaysAreSent /\ BatchOK /\ Phase /\ [Next]_vars => Phase'
  <2> SUFFICES ASSUME TypesOK, ReadingInv, OverlaysAreSent, BatchOK, Phase, [Next]_vars
               PROVE  Phase'
    OBVIOUS
  <2>1. CASE UNCHANGED vars
    BY <2>1 DEF vars, frontVars, managerVars, drawVars, readVars, seenVars, Phase, FreshTasks,
       FreshShapes, Stopped, Pending, Of, Range
  <2> QED
    BY <2>1, PhaseOfBackend, PhaseOfFrontend DEF Next
<1> QED
  BY <1>1, <1>2, ReadingIsSound, NoOverlayStaysBehind, BatchersAreCounted, PTL DEF Spec

\* UpdateAll: nothing that was read before the style was switched is drawn after.
THEOREM OldShapesAreGone == Spec => []RestartedShapesAreGone
<1>1. TypesOK /\ Phase => RestartedShapesAreGone
  <2> SUFFICES ASSUME TypesOK, Phase, NEW group \in shown PROVE group.id > restartedAt
    BY DEF RestartedShapesAreGone
  <2>1. frontend \notin {"restarting", "switching"}
    BY DEF Phase
  <2> QED
    BY <2>1 DEF Phase, FreshShapes
<1> QED
  BY <1>1, ReadingIsSound, RestartIsOrderly, PTL

\* Types, in the terms of the model.
THEOREM TypesAreSafe == Spec => []TypeOK
<1>1. TypesOK /\ ReadingInv => TypeOK
  <2> SUFFICES ASSUME TypesOK, ReadingInv PROVE TypeOK
    OBVIOUS
  <2>1. generation \in Nat /\ tasks \in Nat
    BY DEF TypesOK, BackOK
  <2>2. KeysUpTo(generation) \subseteq Keys
    BY <2>1 DEF KeysUpTo, Keys
  <2>3. TasksUpTo(generation, tasks) \subseteq Task
    BY <2>1, <2>2 DEF TasksUpTo, Task
  <2>4. /\ shown \subseteq Task /\ infos \subseteq Task /\ active \subseteq Keys
        /\ pool \in Seq(Task)
    BY <2>2, <2>3, SeqMonotonic DEF TypesOK, FrontOK, BackOK, ReadOK
  <2>5. batchers \subseteq [key : Keys, users : Nat \ {0}, shapes : SUBSET Nat]
    <3>1. 0..tasks \subseteq Nat
      BY <2>1
    <3> QED
      BY <2>2, <3>1 DEF TypesOK, BackOK
  <2>6. reading \subseteq [task : Task, step : {"read", "end", "finish"}] /\ Cardinality(reading) <= Readers
    BY <2>3 DEF TypesOK, ReadOK, ReadingInv, TasksOK
  <2>7. counter \in Nat
    <3>1. Cardinality(Pending) \in Nat /\ Cardinality(tiles) \in Nat
      BY TilesAreFinite, FS_CardinalityType DEF ReadingInv, TasksOK, TypesOK, BackOK
    <3> QED
      BY <3>1 DEF ReadingInv, CounterMatchesTasks
  <2> QED
    BY <2>4, <2>5, <2>6, <2>7 DEF TypesOK, FrontOK, BackOK, ReadOK, TypeOK
<1> QED
  BY <1>1, ReadingIsSound, PTL
=============================================================================
