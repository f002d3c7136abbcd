------------------------- MODULE ChunksDownloadProofs -------------------------
(***************************************************************************)
(* What holds of a download in chunks, for any number of servers, chunks   *)
(* and events: type correctness, and for a client that is not killed       *)
(* between the two removals of a cancelled download (that one loses the    *)
(* agreement of the two files) that .resume is true and that a file which  *)
(* gets its name is whole.                                                 *)
(*                                                                         *)
(* The invariant follows a chunk that is called complete: by the strategy  *)
(* only if its data were written, to .downloading or to the buffer; by     *)
(* .resume only if they are in .downloading.  Both have the chunks of the  *)
(* whole file, so that none is missing when all are complete.  Nothing is  *)
(* needed about which server downloads what, nor about where GetChunk      *)
(* finds a chunk: one that it does not find is left as it is.              *)
(***************************************************************************)
EXTENDS ChunksDownload, SequenceTheorems, WellFoundedInduction, TLAPS

-----------------------------------------------------------------------------
(* Numbers and sequences.  Induction takes the form of a least number. *)

\* A set of natural numbers that is not empty has a least one.
LEMMA LeastNumber ==
  ASSUME NEW T, T \subseteq Nat, T # {}
  PROVE  \E n \in T : \A m \in T : n <= m
<1> DEFINE R == OpToRel(<, Nat)
<1>1. IsWellFoundedOn(R, Nat)
  BY NatLessThanWellFounded
<1>2. \A m, n \in Nat : m < n => <<m, n>> \in R
  BY DEF OpToRel
<1> HIDE DEF R
<1>3. PICK n \in T : \A m \in T : ~(<<m, n>> \in R)
  BY <1>1, WFMin
<1>4. \A m \in T : ~(m < n)
  BY <1>2, <1>3
<1>5. \A m \in T : n <= m
  BY <1>4
<1> QED
  BY <1>5

\* What holds of 0 and goes from each number to the next holds up to n.
LEMMA Climb ==
  ASSUME NEW T, NEW n \in Nat, 0 \in T, \A k \in 1..n : k - 1 \in T => k \in T
  PROVE  n \in T
<1> DEFINE F == {k \in 0..n : k \notin T}
<1>1. SUFFICES ASSUME n \notin T PROVE FALSE
  OBVIOUS
<1>2. n \in F /\ F \subseteq Nat
  BY <1>1
<1>3. PICK k \in F : \A m \in F : k <= m
  BY <1>2, LeastNumber
<1>4. k \in 1..n /\ k \notin T
  BY <1>3
<1>5. k - 1 \in 0..n /\ k - 1 \notin T
  BY <1>4
<1> QED
  BY <1>3, <1>4, <1>5

\* The least of some numbers is one of them.
LEMMA MinIsOne ==
  ASSUME NEW S, S \subseteq Nat, S # {}
  PROVE  Min(S) \in S
<1>1. PICK n \in S : \A m \in S : n <= m
  BY LeastNumber
<1> QED
  BY <1>1 DEF Min

\* A sequence without one of its elements.
LEMMA RemoveAtType ==
  ASSUME NEW S, NEW s \in Seq(S), NEW k \in 1..Len(s)
  PROVE  RemoveAt(s, k) \in Seq(S)
<1>1. Len(s) \in Nat /\ k \in Nat
  BY LenProperties
<1>2. SubSeq(s, 1, k - 1) \in Seq(S)
  OBVIOUS
<1>3. SubSeq(s, k + 1, Len(s)) \in Seq(S)
  OBVIOUS
<1> QED
  BY <1>2, <1>3, ConcatProperties DEF RemoveAt

\* A sequence without the first occurrence of an element.
LEMMA RemoveFirstType ==
  ASSUME NEW S, NEW s \in Seq(S), NEW e
  PROVE  RemoveFirst(s, e) \in Seq(S)
<1>1. CASE \E k \in 1..Len(s) : s[k] = e
  <2> DEFINE I == {k \in 1..Len(s) : s[k] = e}
  <2>1. RemoveFirst(s, e) = RemoveAt(s, Min(I))
    BY <1>1 DEF RemoveFirst, SelectInSeq
  <2>2. I \subseteq Nat /\ I # {}
    BY <1>1, LenProperties
  <2>3. Min(I) \in 1..Len(s)
    BY <2>2, MinIsOne
  <2> QED
    BY <2>1, <2>3, RemoveAtType
<1>2. CASE ~(\E k \in 1..Len(s) : s[k] = e)
  BY <1>2 DEF RemoveFirst
<1> QED
  BY <1>1, <1>2


-----------------------------------------------------------------------------
(* The invariants. *)

ChunkRecord == [pos : 0..ChunksCount, status : {"free", "downloading", "complete", "aux"}]

\* Where a thread may begin.
Begins == 0..ChunksCount

\* A list of chunks that ends with the end of the file.
WellFormed(c) ==
  /\ c \in Seq(ChunkRecord) /\ Len(c) > 0
  /\ c[Len(c)].pos = ChunksCount /\ c[Len(c)].status = "aux"
  /\ \A k \in DOMAIN c : /\ c[k].status = "aux" => c[k].pos = ChunksCount
                         /\ c[k].status = "complete" => c[k].pos # ChunksCount

\* The chunks of the whole file, in their order.
WholeFile(c) == DOMAIN c = 1..ChunksCount + 1 /\ \A k \in 1..ChunksCount : c[k].pos = k - 1

\* The positions that a list of chunks calls complete.
Completes(c) == {c[k].pos : k \in {j \in DOMAIN c : c[j].status = "complete"}}

\* The chunks d are those of c, and none but those in more became complete.
Follows(d, c, more) ==
  /\ DOMAIN d = DOMAIN c /\ \A k \in DOMAIN c : d[k].pos = c[k].pos
  /\ Completes(d) \subseteq Completes(c) \cup more

\* A state of the strategy with chunks that are well formed.
Typed(s) ==
  /\ s \in [chunks : Seq(ChunkRecord), servers : Seq(Nat), threads : Seq(Begins)]
  /\ WellFormed(s.chunks)
  /\ \A n \in DOMAIN s.servers : s.servers[n] \in 0..Len(s.chunks) - 1

\* A request that was never made, or is no more, has no strategy.
StrategyOK ==
  \/ chunks = <<>> /\ servers = <<>> /\ threads = <<>> /\ status # "inProgress"
  \/ Typed(Strategy)

TypesInv ==
  /\ StrategyOK
  /\ status \in {"none", "inProgress", "completed", "failed"}
  /\ cleans \in BOOLEAN
  /\ todo \in {"nothing", "removeResume", "rename"}
  /\ buffered \in SUBSET Positions
  /\ partial \in (SUBSET Positions) \cup {NoFile} /\ target \in (SUBSET Positions) \cup {NoFile}
  /\ status = "inProgress" => todo = "nothing" /\ partial \in SUBSET Positions
  /\ resume # NoFile => WellFormed(resume)
  /\ left \in 0..MaxEvents

\* What .downloading has.
Stored == IF partial = NoFile THEN {} ELSE partial

\* While the request is in progress its chunks are those of the file, and what they
\* call complete was written.
RequestIsTrue ==
  status = "inProgress" =>
    WholeFile(chunks) /\ Completes(chunks) \subseteq partial \cup buffered

\* .resume calls complete what .downloading has, but between the removals of a
\* finished or cancelled request.
SavedIsTrue ==
  resume # NoFile =>
    /\ WholeFile(resume)
    /\ todo # "removeResume" => Completes(resume) \subseteq Stored

\* What the removals and the renaming find.
Removals ==
  /\ todo = "removeResume" => \/ status = "completed" /\ partial = Positions
                              \/ status = "none" /\ partial = NoFile
  /\ todo = "rename" => partial = Positions /\ resume = NoFile

FilesInv == RequestIsTrue /\ SavedIsTrue /\ Removals /\ TargetIsWhole

-----------------------------------------------------------------------------
(* The strategy. *)

\* A chunk that gets another status stays where it is.
LEMMA FollowsWith ==
  ASSUME NEW c, WellFormed(c), NEW k \in 1..Len(c) - 1,
         NEW st \in {"free", "downloading", "complete"},
         st = "complete" => c[k].pos # ChunksCount
  PROVE  LET d == [c EXCEPT ![k].status = st] IN
         /\ WellFormed(d) /\ Len(d) = Len(c)
         /\ Follows(d, c, IF st = "complete" THEN {c[k].pos} ELSE {})
<1> DEFINE r == [pos |-> c[k].pos, status |-> st]
           d == [c EXCEPT ![k].status = st]
<1>1. c \in Seq(ChunkRecord) /\ Len(c) \in Nat /\ DOMAIN c = 1..Len(c) /\ Len(c) > 0
  BY LenProperties DEF WellFormed
<1>2. c[k] \in ChunkRecord /\ k \in 1..Len(c)
  BY <1>1, ElementOfSeq
<1>3. d = [c EXCEPT ![k] = r] /\ r \in ChunkRecord
  <2>1. r \in ChunkRecord
    BY <1>2 DEF ChunkRecord
  <2>2. [c[k] EXCEPT !.status = st] = r
    BY <1>2 DEF ChunkRecord
  <2>3. d = [c EXCEPT ![k] = [c[k] EXCEPT !.status = st]]
    OBVIOUS
  <2> QED
    BY <2>1, <2>2, <2>3
<1> HIDE DEF d
<1>4. /\ d \in Seq(ChunkRecord) /\ Len(d) = Len(c)
      /\ \A j \in 1..Len(c) : d[j] = IF j = k THEN r ELSE c[j]
  BY <1>1, <1>3, ExceptSeq
<1>5. DOMAIN d = 1..Len(c)
  BY <1>4, LenProperties
<1>6. WellFormed(d)
  <2>1. \A j \in 1..Len(c) : /\ d[j].status = "aux" => d[j].pos = ChunksCount
                             /\ d[j].status = "complete" => d[j].pos # ChunksCount
    BY <1>1, <1>4 DEF WellFormed
  <2>2. Len(c) # k /\ Len(c) \in 1..Len(c)
    <3>1. Len(c) \in Nat /\ Len(c) > 0
      BY <1>1
    <3>2. \A n \in Nat : n > 0 => n \in 1..n /\ n \notin 1..n - 1
      OBVIOUS
    <3> QED
      BY <3>1, <3>2
  <2>3. d[Len(d)] = c[Len(c)]
    BY <1>4, <2>2
  <2> QED
    BY <1>1, <1>4, <1>5, <2>1, <2>3 DEF WellFormed
<1>7. \A j \in 1..Len(c) : d[j].pos = c[j].pos
  BY <1>4
<1>8. Completes(d) \subseteq Completes(c) \cup (IF st = "complete" THEN {c[k].pos} ELSE {})
  <2>1. SUFFICES ASSUME NEW j \in 1..Len(c), d[j].status = "complete"
                 PROVE  d[j].pos \in Completes(c) \cup (IF st = "complete" THEN {c[k].pos} ELSE {})
    BY <1>5 DEF Completes
  <2>2. CASE j = k
    BY <2>1, <2>2, <1>4
  <2>3. CASE j # k
    BY <2>1, <2>3, <1>1, <1>4 DEF Completes
  <2> QED
    BY <2>2, <2>3
<1>9. /\ WellFormed(d) /\ Len(d) = Len(c)
      /\ Follows(d, c, IF st = "complete" THEN {c[k].pos} ELSE {})
  BY <1>1, <1>4, <1>5, <1>6, <1>7, <1>8 DEF Follows
<1> QED
  BY <1>9 DEF d

\* Several steps of the strategy are one.
LEMMA FollowsFollows ==
  ASSUME NEW c, NEW d, NEW e, NEW more, Follows(d, c, more), Follows(e, d, {})
  PROVE  Follows(e, c, more)
BY DEF Follows

\* NextChunk calls nothing complete.
LEMMA NextChunkKeeps ==
  ASSUME NEW s, Typed(s)
  PROVE  Typed(NextChunk(s)) /\ Follows(NextChunk(s).chunks, s.chunks, {})
<1>1. CASE Result(s) # "nextChunk"
  BY <1>1 DEF NextChunk, Follows
<1>2. CASE Result(s) = "nextChunk"
  <2> DEFINE server == Min(FreeServers(s))
             k == Min(With(s, "free"))
             t == Assign(s)
  <2>1. /\ s \in [chunks : Seq(ChunkRecord), servers : Seq(Nat), threads : Seq(Begins)]
        /\ WellFormed(s.chunks)
        /\ \A n \in DOMAIN s.servers : s.servers[n] \in 0..Len(s.chunks) - 1
    BY DEF Typed
  <2>2. FreeServers(s) # {} /\ With(s, "free") # {}
    BY <1>2 DEF Result
  <2>3. FreeServers(s) \subseteq Nat /\ With(s, "free") \subseteq Nat
    BY <2>1, LenProperties DEF FreeServers, With
  <2>4. server \in DOMAIN s.servers
    BY <2>2, <2>3, MinIsOne DEF FreeServers
  <2>5. k \in 1..Len(s.chunks) - 1 /\ k \in Nat
    <3>1. k \in With(s, "free") /\ Len(s.chunks) \in Nat
      BY <2>1, <2>2, <2>3, MinIsOne, LenProperties
    <3> QED
      BY <3>1 DEF With
  <2>6. /\ t.servers = [s.servers EXCEPT ![server] = k]
        /\ t.chunks = [s.chunks EXCEPT ![k].status = "downloading"]
        /\ t.threads = Append(s.threads, s.chunks[k].pos)
        /\ t = [chunks |-> t.chunks, servers |-> t.servers, threads |-> t.threads]
    <3>1. t = [s EXCEPT !.servers[server] = k, !.chunks[k].status = "downloading",
                        !.threads = Append(@, s.chunks[k].pos)]
      BY DEF Assign
    <3> HIDE DEF t
    <3> QED
      BY <3>1, <2>1
  <2> HIDE DEF server, k, t
  <2>7. WellFormed(t.chunks) /\ Len(t.chunks) = Len(s.chunks) /\ Follows(t.chunks, s.chunks, {})
    <3>1. LET d == [s.chunks EXCEPT ![k].status = "downloading"] IN
          /\ WellFormed(d) /\ Len(d) = Len(s.chunks)
          /\ Follows(d, s.chunks, IF "downloading" = "complete" THEN {s.chunks[k].pos} ELSE {})
      BY <2>1, <2>5, FollowsWith
    <3> QED
      BY <3>1, <2>6
  <2>8. DOMAIN t.chunks = DOMAIN s.chunks /\ k \in DOMAIN s.chunks
    BY <2>7, <2>1, <2>5, LenProperties DEF Follows
  <2>9. t.servers \in Seq(Nat)
    BY <2>1, <2>4, <2>5, <2>6
  <2>10. \A n \in DOMAIN t.servers : t.servers[n] \in 0..Len(t.chunks) - 1
    BY <2>1, <2>4, <2>5, <2>6, <2>7
  <2>11. t.threads \in Seq(Begins)
    <3>1. s.chunks[k] \in ChunkRecord
      BY <2>1, <2>5, ElementOfSeq
    <3>2. s.chunks[k].pos \in Begins /\ s.threads \in Seq(Begins)
      BY <3>1, <2>1 DEF ChunkRecord, Begins
    <3> QED
      BY <3>2, <2>6, AppendProperties
  <2>12. t.chunks \in Seq(ChunkRecord)
    BY <2>7 DEF WellFormed
  <2>13. Typed(t)
    BY <2>6, <2>7, <2>9, <2>10, <2>11, <2>12 DEF Typed
  <2> QED
    BY <2>7, <2>13, <1>2 DEF NextChunk, t
<1> QED
  BY <1>1, <1>2

\* The function that StartThreads reads, up to its n-th value.
Started(s, n, after) ==
  after = [i \in 0..n |->
             IF i = 0 THEN s ELSE CHOOSE t \in {NextChunk(u) : u \in {after[i - 1]}} : TRUE]

\* There is such a function.
LEMMA StartedExists ==
  ASSUME NEW s, NEW n \in Nat
  PROVE  \E after : Started(s, n, after)
<1> DEFINE T == {i \in 0..n : \E after : Started(s, i, after)}
<1>1. 0 \in T
  <2> DEFINE after == [i \in 0..0 |-> s]
  <2>1. Started(s, 0, after)
    BY DEF Started
  <2>2. 0 \in 0..n
    OBVIOUS
  <2> QED
    BY <2>1, <2>2
<1>2. ASSUME NEW k \in 1..n, k - 1 \in T
      PROVE  k \in T
  <2>1. PICK a : Started(s, k - 1, a)
    BY <1>2
  <2> DEFINE One(x) == CHOOSE t \in {NextChunk(u) : u \in {x}} : TRUE
             next == [i \in 0..k |-> IF i = k THEN One(a[k - 1]) ELSE a[i]]
  <2>2. k \in Nat /\ k # 0 /\ \A i \in 0..k : i # k => i \in 0..(k - 1)
    OBVIOUS
  <2>3. \A i \in 0..(k - 1) : a[i] = IF i = 0 THEN s ELSE One(a[i - 1])
    BY <2>1 DEF Started
  <2> HIDE DEF One
  <2>4. \A i \in 0..k : next[i] = IF i = 0 THEN s ELSE One(next[i - 1])
    <3>1. SUFFICES ASSUME NEW i \in 0..k
                   PROVE  next[i] = IF i = 0 THEN s ELSE One(next[i - 1])
      OBVIOUS
    <3>2. CASE i = k
      <4>1. i - 1 \in 0..k /\ i - 1 # k /\ i # 0
        BY <2>2, <3>2
      <4> QED
        BY <4>1, <3>2
    <3>3. CASE i # k /\ i # 0
      <4>1. i - 1 \in 0..k /\ i - 1 # k
        BY <3>3
      <4> QED
        BY <4>1, <3>3, <2>2, <2>3
    <3>4. CASE i # k /\ i = 0
      BY <3>4, <2>2, <2>3
    <3> QED
      BY <3>2, <3>3, <3>4
  <2>5. next = [i \in 0..k |-> IF i = 0 THEN s ELSE One(next[i - 1])]
    BY <2>4, Zenon
  <2>6. Started(s, k, next)
    BY <2>5 DEF Started, One
  <2> QED
    BY <2>6
<1>3. n \in T
  BY <1>1, <1>2, Climb
<1> QED
  BY <1>3

\* StartThreads calls nothing complete.
LEMMA StartThreadsKeeps ==
  ASSUME NEW s, Typed(s)
  PROVE  Typed(StartThreads(s)) /\ Follows(StartThreads(s).chunks, s.chunks, {})
<1> DEFINE n == Len(s.servers)
           after == CHOOSE f : Started(s, n, f)
           T == {i \in 0..n : Typed(after[i]) /\ Follows(after[i].chunks, s.chunks, {})}
<1>1. n \in Nat
  BY LenProperties DEF Typed
<1>2. StartThreads(s) = after[n]
  BY DEF StartThreads, Started
<1>3. Started(s, n, after)
  BY <1>1, StartedExists
<1> HIDE DEF after
<1>4. after[0] = s /\ \A i \in 1..n : after[i] = NextChunk(after[i - 1])
  <2>1. \A x : (CHOOSE t \in {NextChunk(u) : u \in {x}} : TRUE) = NextChunk(x)
    OBVIOUS
  <2>2. \A i \in 0..n : after[i] = IF i = 0 THEN s
                          ELSE CHOOSE t \in {NextChunk(u) : u \in {after[i - 1]}} : TRUE
    BY <1>3 DEF Started
  <2>3. 0 \in 0..n /\ \A i \in 1..n : i \in 0..n /\ i # 0
    BY <1>1
  <2> QED
    BY <2>1, <2>2, <2>3, Zenon
<1>5. 0 \in T
  <2>1. Follows(s.chunks, s.chunks, {})
    BY DEF Follows
  <2>2. 0 \in 0..n
    BY <1>1
  <2> QED
    BY <2>1, <2>2, <1>4
<1>6. ASSUME NEW k \in 1..n, k - 1 \in T
      PROVE  k \in T
  <2>1. Typed(after[k - 1]) /\ Follows(after[k - 1].chunks, s.chunks, {})
    BY <1>6
  <2>2. Typed(after[k]) /\ Follows(after[k].chunks, after[k - 1].chunks, {})
    BY <2>1, <1>4, NextChunkKeeps
  <2>3. Follows(after[k].chunks, s.chunks, {})
    BY <2>1, <2>2, FollowsFollows
  <2>4. k \in 0..n
    BY <1>1
  <2> QED
    BY <2>2, <2>3, <2>4
<1>7. n \in T
  BY <1>1, <1>5, <1>6, Climb
<1> QED
  BY <1>2, <1>7

\* A server of ServersOf downloads a chunk at pos.
LEMMA ServersOfType ==
  ASSUME NEW s, Typed(s), NEW pos, ServersOf(s, pos) # {}
  PROVE  LET n == Min(ServersOf(s, pos)) IN
         /\ n \in 1..Len(s.servers) /\ s.servers[n] \in 1..Len(s.chunks) - 1
         /\ s.chunks[s.servers[n]].pos = pos
<1> DEFINE found == ServersOf(s, pos)
           n == Min(found)
           k == LowerBound(s, pos)
<1>1. /\ s.servers \in Seq(Nat) /\ s.chunks \in Seq(ChunkRecord)
      /\ DOMAIN s.servers = 1..Len(s.servers) /\ DOMAIN s.chunks = 1..Len(s.chunks)
      /\ Len(s.servers) \in Nat
  BY LenProperties DEF Typed
<1>2. k \in DOMAIN s.chunks /\ s.chunks[k].pos = pos
  BY DEF ServersOf
<1>3. found = {j \in DOMAIN s.servers : s.servers[j] = k}
  BY <1>2 DEF ServersOf
<1>4. n \in found
  <2>1. found \subseteq Nat /\ found # {}
    BY <1>1, <1>3
  <2> QED
    BY <2>1, MinIsOne
<1> HIDE DEF k, found
<1>5. n \in 1..Len(s.servers) /\ s.servers[n] = k
  BY <1>1, <1>3, <1>4
<1>6. k \in 0..Len(s.chunks) - 1
  BY <1>1, <1>5 DEF Typed
<1>7. k \in 1..Len(s.chunks) - 1
  BY <1>1, <1>2, <1>6
<1> QED
  BY <1>2, <1>5, <1>7 DEF found

\* Only the chunk at pos becomes complete when its thread is done.
LEMMA ChunkSucceededKeeps ==
  ASSUME NEW s, Typed(s), NEW pos \in Positions
  PROVE  /\ Typed(ChunkSucceeded(s, pos))
         /\ Follows(ChunkSucceeded(s, pos).chunks, s.chunks, {pos})
<1>1. CASE ServersOf(s, pos) = {}
  BY <1>1 DEF ChunkSucceeded, Follows
<1>2. CASE ServersOf(s, pos) # {}
  <2> DEFINE n == Min(ServersOf(s, pos))
             k == s.servers[n]
             t == ChunkSucceeded(s, pos)
  <2>1. /\ s \in [chunks : Seq(ChunkRecord), servers : Seq(Nat), threads : Seq(Begins)]
        /\ WellFormed(s.chunks)
        /\ \A j \in DOMAIN s.servers : s.servers[j] \in 0..Len(s.chunks) - 1
    BY DEF Typed
  <2>2. /\ n \in 1..Len(s.servers) /\ k \in 1..Len(s.chunks) - 1
        /\ s.chunks[k].pos = pos
    BY <1>2, ServersOfType
  <2>3. /\ t.servers = [s.servers EXCEPT ![n] = SERVER_READY]
        /\ t.chunks = [s.chunks EXCEPT ![k].status = "complete"]
        /\ t.threads = s.threads
        /\ t = [chunks |-> t.chunks, servers |-> t.servers, threads |-> t.threads]
    <3>1. t = [s EXCEPT !.servers[n] = SERVER_READY, !.chunks[k].status = "complete"]
      BY <1>2 DEF ChunkSucceeded
    <3> HIDE DEF t
    <3> QED
      BY <3>1, <2>1
  <2> HIDE DEF n, k, t
  <2>4. WellFormed(t.chunks) /\ Len(t.chunks) = Len(s.chunks) /\ Follows(t.chunks, s.chunks, {pos})
    <3>1. LET d == [s.chunks EXCEPT ![k].status = "complete"] IN
          /\ WellFormed(d) /\ Len(d) = Len(s.chunks)
          /\ Follows(d, s.chunks, IF "complete" = "complete" THEN {s.chunks[k].pos} ELSE {})
      <4>1. pos # ChunksCount
        BY CountsAssumption DEF Positions
      <4> QED
        BY <2>1, <2>2, <4>1, FollowsWith
    <3> QED
      BY <3>1, <2>2, <2>3
  <2>5. t.servers \in Seq(Nat) /\ DOMAIN t.servers = DOMAIN s.servers
    BY <2>1, <2>2, <2>3, ExceptSeq DEF SERVER_READY
  <2>6. \A j \in DOMAIN t.servers : t.servers[j] \in 0..Len(t.chunks) - 1
    BY <2>1, <2>2, <2>3, <2>4, <2>5, LenProperties DEF SERVER_READY
  <2>7. Typed(t)
    BY <2>1, <2>3, <2>4, <2>5, <2>6 DEF Typed, WellFormed
  <2> QED
    BY <2>4, <2>7 DEF t
<1> QED
  BY <1>1, <1>2

\* No chunk becomes complete when a server fails.
LEMMA ChunkFailedKeeps ==
  ASSUME NEW s, Typed(s), NEW pos
  PROVE  Typed(ChunkFailed(s, pos)) /\ Follows(ChunkFailed(s, pos).chunks, s.chunks, {})
<1>1. CASE ServersOf(s, pos) = {}
  BY <1>1 DEF ChunkFailed, Follows
<1>2. CASE ServersOf(s, pos) # {}
  <2> DEFINE n == Min(ServersOf(s, pos))
             k == s.servers[n]
             t == ChunkFailed(s, pos)
             S == 0..Len(s.chunks) - 1
  <2>1. /\ s \in [chunks : Seq(ChunkRecord), servers : Seq(Nat), threads : Seq(Begins)]
        /\ WellFormed(s.chunks)
        /\ \A j \in DOMAIN s.servers : s.servers[j] \in S
    BY DEF Typed
  <2>2. /\ n \in 1..Len(s.servers) /\ k \in 1..Len(s.chunks) - 1
        /\ s.chunks[k].pos = pos
    BY <1>2, ServersOfType
  <2>3. /\ t.servers = RemoveAt(s.servers, n)
        /\ t.chunks = [s.chunks EXCEPT ![k].status = "free"]
        /\ t.threads = s.threads
        /\ t = [chunks |-> t.chunks, servers |-> t.servers, threads |-> t.threads]
    <3>1. t = [s EXCEPT !.servers = RemoveAt(@, n), !.chunks[k].status = "free"]
      BY <1>2 DEF ChunkFailed
    <3> HIDE DEF t
    <3> QED
      BY <3>1, <2>1
  <2> HIDE DEF n, k, t
  <2>4. WellFormed(t.chunks) /\ Len(t.chunks) = Len(s.chunks) /\ Follows(t.chunks, s.chunks, {})
    <3>1. LET d == [s.chunks EXCEPT ![k].status = "free"] IN
          /\ WellFormed(d) /\ Len(d) = Len(s.chunks)
          /\ Follows(d, s.chunks, IF "free" = "complete" THEN {s.chunks[k].pos} ELSE {})
      BY <2>1, <2>2, FollowsWith
    <3> QED
      BY <3>1, <2>3
  <2>5. t.servers \in Seq(S) /\ S \subseteq Nat
    <3>1. S \subseteq Nat
      BY <2>1, LenProperties DEF SERVER_READY
    <3>2. s.servers \in Seq(S)
      BY <2>1
    <3> QED
      BY <3>1, <3>2, <2>2, <2>3, RemoveAtType
  <2>6. \A j \in DOMAIN t.servers : t.servers[j] \in S
    BY <2>5
  <2>7. t.servers \in Seq(Nat)
    BY <2>5, SeqMonotonic
  <2>8. Typed(t)
    BY <2>1, <2>3, <2>4, <2>6, <2>7 DEF Typed, WellFormed
  <2> QED
    BY <2>4, <2>8 DEF t
<1> QED
  BY <1>1, <1>2

\* A thread less is a thread less.
LEMMA RemoveThreadKeeps ==
  ASSUME NEW s, Typed(s), NEW pos
  PROVE  LET t == [s EXCEPT !.threads = RemoveFirst(@, pos)] IN
         Typed(t) /\ t.chunks = s.chunks
<1> DEFINE t == [s EXCEPT !.threads = RemoveFirst(@, pos)]
<1>1. s \in [chunks : Seq(ChunkRecord), servers : Seq(Nat), threads : Seq(Begins)]
  BY DEF Typed
<1>2. RemoveFirst(s.threads, pos) \in Seq(Begins)
  BY <1>1, RemoveFirstType
<1>3. t = [chunks |-> s.chunks, servers |-> s.servers, threads |-> RemoveFirst(s.threads, pos)]
  BY <1>1
<1> HIDE DEF t
<1>4. Typed(t) /\ t.chunks = s.chunks
  BY <1>1, <1>2, <1>3 DEF Typed
<1> QED
  BY <1>4 DEF t

-----------------------------------------------------------------------------
(* The chunks of a new request. *)

\* InitChunks makes the chunks of the whole file.
LEMMA InitChunksType ==
  /\ WellFormed(InitChunks) /\ WholeFile(InitChunks) /\ Completes(InitChunks) = {}
<1> DEFINE body == [k \in 1..ChunksCount |-> Chunk(k - 1, "free")]
           end == Chunk(ChunksCount, "aux")
           c == InitChunks
<1> USE CountsAssumption
<1>1. body \in Seq(ChunkRecord) /\ Len(body) = ChunksCount
  <2>1. \A k \in 1..ChunksCount : body[k] \in ChunkRecord
    BY DEF Chunk, ChunkRecord
  <2> QED
    BY <2>1
<1>2. end \in ChunkRecord
  BY DEF Chunk, ChunkRecord
<1>3. c = Append(body, end)
  <2>1. c = body \o <<end>>
    BY DEF InitChunks
  <2> HIDE DEF body, end, c
  <2> QED
    BY <2>1, <1>1, <1>2
<1>4. /\ c \in Seq(ChunkRecord) /\ Len(c) = ChunksCount + 1
      /\ \A k \in 1..ChunksCount : c[k] = body[k]
      /\ c[ChunksCount + 1] = end
  <2> HIDE DEF body, end, c
  <2> QED
    BY <1>1, <1>2, <1>3
<1>5. DOMAIN c = 1..ChunksCount + 1
  BY <1>4, LenProperties
<1> HIDE DEF c
<1>6. \A k \in 1..ChunksCount : c[k].pos = k - 1 /\ c[k].status = "free"
  <2>1. \A k \in 1..ChunksCount : body[k] = [pos |-> k - 1, status |-> "free"]
    BY DEF Chunk
  <2> HIDE DEF body
  <2>2. \A k \in 1..ChunksCount : c[k] = [pos |-> k - 1, status |-> "free"]
    BY <2>1, <1>4, Zenon
  <2>3. ASSUME NEW k \in 1..ChunksCount
        PROVE  c[k].pos = k - 1 /\ c[k].status = "free"
    <3>1. c[k] = [pos |-> k - 1, status |-> "free"]
      BY <2>2
    <3> QED
      BY <3>1
  <2> QED
    BY <2>3
<1>7. c[ChunksCount + 1].pos = ChunksCount /\ c[ChunksCount + 1].status = "aux"
  BY <1>4 DEF Chunk
<1>8. \A k \in DOMAIN c : k \in 1..ChunksCount \/ k = ChunksCount + 1
  BY <1>5
<1>9. \A k \in DOMAIN c : /\ c[k].status = "aux" => c[k].pos = ChunksCount
                          /\ c[k].status = "complete" => c[k].pos # ChunksCount
  BY <1>6, <1>7, <1>8
<1>10. WellFormed(c)
  BY <1>4, <1>7, <1>9 DEF WellFormed
<1>11. WholeFile(c)
  BY <1>5, <1>6 DEF WholeFile
<1>12. Completes(c) = {}
  BY <1>6, <1>7, <1>8 DEF Completes
<1> QED
  BY <1>10, <1>11, <1>12 DEF c

\* LoadOrInitChunks keeps what .resume calls complete, and no more.
LEMMA LoadedType ==
  ASSUME resume # NoFile => WellFormed(resume)
  PROVE  /\ WellFormed(Loaded)
         /\ IF resume = NoFile THEN Loaded = InitChunks
            ELSE Follows(Loaded, resume, {}) /\ Completes(resume) \subseteq Completes(Loaded)
<1>1. CASE resume = NoFile
  BY <1>1, InitChunksType DEF Loaded
<1>2. CASE resume # NoFile
  <2> DEFINE Freed(k) == IF k < Len(resume) /\ resume[k].status # "complete"
                           THEN Chunk(resume[k].pos, "free") ELSE resume[k]
             c == Loaded
  <2>1. /\ resume \in Seq(ChunkRecord) /\ Len(resume) \in Nat /\ Len(resume) > 0
        /\ DOMAIN resume = 1..Len(resume)
        /\ \A k \in DOMAIN resume : resume[k] \in ChunkRecord
    BY <1>2, LenProperties, ElementOfSeq DEF WellFormed
  <2>2. c = [k \in 1..Len(resume) |-> Freed(k)]
    BY <1>2, <2>1 DEF Loaded
  <2>3. /\ \A k \in DOMAIN resume :
             /\ Freed(k) \in ChunkRecord /\ Freed(k).pos = resume[k].pos
             /\ Freed(k).status = "aux" => resume[k].status = "aux"
             /\ (Freed(k).status = "complete") <=> (resume[k].status = "complete")
        /\ Freed(Len(resume)) = resume[Len(resume)]
    BY <2>1 DEF Chunk, ChunkRecord
  <2> HIDE DEF Freed, c
  <2>4. /\ c \in Seq(ChunkRecord) /\ Len(c) = Len(resume) /\ DOMAIN c = DOMAIN resume
        /\ \A k \in DOMAIN resume : c[k] = Freed(k)
    BY <2>1, <2>2, <2>3
  <2>5. /\ \A k \in DOMAIN resume :
             /\ c[k].pos = resume[k].pos
             /\ c[k].status = "aux" => resume[k].status = "aux"
             /\ (c[k].status = "complete") <=> (resume[k].status = "complete")
        /\ c[Len(c)] = resume[Len(resume)]
    BY <2>1, <2>3, <2>4
  <2>6. WellFormed(c)
    BY <1>2, <2>1, <2>4, <2>5 DEF WellFormed
  <2>7. Completes(c) = Completes(resume)
    BY <2>4, <2>5 DEF Completes
  <2>8. Follows(c, resume, {})
    BY <2>4, <2>5, <2>7 DEF Follows
  <2> QED
    BY <1>2, <2>6, <2>7, <2>8 DEF c
<1> QED
  BY <1>1, <1>2

\* Chunks that are added to others end with the end of the file too.
LEMMA ConcatType ==
  ASSUME NEW c, NEW d, WellFormed(c), WellFormed(d)
  PROVE  WellFormed(c \o d)
<1>1. /\ c \in Seq(ChunkRecord) /\ d \in Seq(ChunkRecord)
      /\ Len(c) \in Nat /\ Len(d) \in Nat /\ Len(d) > 0
      /\ DOMAIN c = 1..Len(c) /\ DOMAIN d = 1..Len(d)
  BY LenProperties DEF WellFormed
<1> DEFINE e == c \o d
<1>2. /\ e \in Seq(ChunkRecord) /\ Len(e) = Len(c) + Len(d)
      /\ \A k \in 1..(Len(c) + Len(d)) : e[k] = IF k <= Len(c) THEN c[k] ELSE d[k - Len(c)]
  BY <1>1, ConcatProperties
<1> HIDE DEF e
<1>3. DOMAIN e = 1..(Len(c) + Len(d))
  BY <1>2, LenProperties
<1>4. \A k \in 1..(Len(c) + Len(d)) :
        \/ k \in DOMAIN c /\ e[k] = c[k]
        \/ k - Len(c) \in DOMAIN d /\ e[k] = d[k - Len(c)]
  BY <1>1, <1>2
<1>5. \A k \in DOMAIN e : /\ e[k].status = "aux" => e[k].pos = ChunksCount
                          /\ e[k].status = "complete" => e[k].pos # ChunksCount
  BY <1>3, <1>4 DEF WellFormed
<1>6. e[Len(e)] = d[Len(d)]
  BY <1>1, <1>2
<1>7. WellFormed(e)
  BY <1>1, <1>2, <1>5, <1>6 DEF WellFormed
<1> QED
  BY <1>7 DEF e

-----------------------------------------------------------------------------
(* The steps. *)

\* What GetFile starts with.
LEMMA GetFileStarts ==
  ASSUME TypesInv, GetFile
  PROVE  \E s : /\ Typed(s) /\ chunks' = s.chunks /\ servers' = s.servers /\ threads' = s.threads
                /\ (Completes(Loaded) = {} \/ partial # NoFile) => Follows(s.chunks, Loaded, {})
<1> DEFINE resumes == \E k \in DOMAIN Loaded : Loaded[k].status = "complete"
           given == IF resumes /\ partial = NoFile THEN Loaded \o InitChunks ELSE Loaded
           ready == [n \in 1..ServersCount |-> SERVER_READY]
           first == [chunks |-> given, servers |-> ready, threads |-> <<>>]
           s == StartThreads(first)
<1>1. WellFormed(Loaded) /\ WellFormed(InitChunks)
  BY LoadedType, InitChunksType DEF TypesInv
<1>2. WellFormed(given)
  BY <1>1, ConcatType
<1>3. ready \in Seq(Nat) /\ \A n \in DOMAIN ready : ready[n] = SERVER_READY
  BY CountsAssumption DEF SERVER_READY
<1>4. Typed(first)
  <2> HIDE DEF given, ready
  <2>1. given \in Seq(ChunkRecord) /\ Len(given) \in Nat /\ Len(given) > 0
    BY <1>2, LenProperties DEF WellFormed
  <2>2. SERVER_READY \in 0..Len(given) - 1
    BY <2>1 DEF SERVER_READY
  <2> QED
    BY <1>2, <1>3, <2>1, <2>2 DEF Typed
<1>5. Typed(s) /\ Follows(s.chunks, first.chunks, {})
  BY <1>4, StartThreadsKeeps
<1>6. (Completes(Loaded) = {} \/ partial # NoFile) => given = Loaded
  BY DEF Completes
<1>7. chunks' = s.chunks /\ servers' = s.servers /\ threads' = s.threads
  BY DEF GetFile
<1>8. first.chunks = given
  OBVIOUS
<1> HIDE DEF first, given, s
<1>9. (Completes(Loaded) = {} \/ partial # NoFile) => Follows(s.chunks, Loaded, {})
  BY <1>5, <1>6, <1>8
<1> QED
  BY <1>5, <1>7, <1>9

\* What is written when a thread ends.
Written(pos, ok) == IF ok THEN buffered \cup {pos} ELSE buffered

\* What OnFinish goes on with.
LEMMA OnFinishGoesOn ==
  ASSUME TypesInv, NEW pos, NEW ok \in BOOLEAN, ok => pos \in Positions, OnFinish(pos, ok)
  PROVE  /\ status = "inProgress" /\ cleans' = cleans
         /\ \E s : /\ Typed(s) /\ Follows(s.chunks, chunks, IF ok THEN {pos} ELSE {})
                   /\ chunks' = s.chunks /\ servers' = s.servers /\ threads' = s.threads
                   /\ \/ GoOn(s, ok, Written(pos, ok)) \/ Fail(s, Written(pos, ok))
                      \/ Complete(s, Written(pos, ok))
<1> DEFINE finished == IF ok THEN ChunkSucceeded(Strategy, pos) ELSE ChunkFailed(Strategy, pos)
           remaining == [finished EXCEPT !.threads = RemoveFirst(@, pos)]
           s == StartThreads(remaining)
           more == IF ok THEN {pos} ELSE {}
<1>1. status = "inProgress" /\ cleans' = cleans
  BY DEF OnFinish
<1>2. Typed(Strategy) /\ Strategy.chunks = chunks
  BY <1>1 DEF TypesInv, StrategyOK, Strategy
<1>3. Typed(finished) /\ Follows(finished.chunks, chunks, more)
  BY <1>2, ChunkSucceededKeeps, ChunkFailedKeeps
<1>4. Typed(remaining) /\ remaining.chunks = finished.chunks
  <2> HIDE DEF finished
  <2> QED
    BY <1>3, RemoveThreadKeeps
<1>5. Typed(s) /\ Follows(s.chunks, remaining.chunks, {})
  BY <1>4, StartThreadsKeeps
<1>6. /\ chunks' = s.chunks /\ servers' = s.servers /\ threads' = s.threads
      /\ \/ GoOn(s, ok, Written(pos, ok)) \/ Fail(s, Written(pos, ok))
         \/ Complete(s, Written(pos, ok))
  BY DEF OnFinish, Written
<1> HIDE DEF finished, remaining, s
<1>7. Follows(s.chunks, chunks, more)
  <2>1. Follows(s.chunks, finished.chunks, {})
    BY <1>4, <1>5
  <2> QED
    BY <2>1, <1>3, FollowsFollows
<1> QED
  BY <1>1, <1>5, <1>6, <1>7

\* The strategy of the next state.
LEMMA StrategyNext ==
  ASSUME NEW s, Typed(s), chunks' = s.chunks, servers' = s.servers, threads' = s.threads
  PROVE  Strategy' = s
BY DEF Typed, Strategy

\* The types are kept.
LEMMA TypesStep ==
  ASSUME TypesInv, [Next]_vars
  PROVE  TypesInv'
<1> USE DEF requestVars, fileVars
<1>8. UNCHANGED requestVars => StrategyOK'
  BY DEF TypesInv, StrategyOK, Strategy
<1>1. CASE GetFile
  <2>1. PICK s : Typed(s) /\ chunks' = s.chunks /\ servers' = s.servers /\ threads' = s.threads
    BY <1>1, GetFileStarts
  <2>2. StrategyOK'
    BY <2>1, StrategyNext DEF StrategyOK
  <2>3. /\ status' = "inProgress" /\ cleans' \in Cleans /\ todo' = "nothing" /\ buffered' = {}
        /\ resume' = resume /\ target' = target /\ left' = left
    BY <1>1 DEF GetFile
  <2>4. partial' \in SUBSET Positions
    <3>1. partial' = IF (\E k \in DOMAIN Loaded : Loaded[k].status = "complete") /\ partial # NoFile
                       THEN partial ELSE {}
      BY <1>1 DEF GetFile
    <3>2. partial # NoFile => partial \in SUBSET Positions
      BY DEF TypesInv
    <3> QED
      BY <3>1, <3>2
  <2> QED
    BY <2>2, <2>3, <2>4, CleansAssumption DEF TypesInv
<1>2. ASSUME NEW pos, NEW ok \in BOOLEAN, ok => pos \in Positions, OnFinish(pos, ok)
      PROVE  TypesInv'
  <2> DEFINE written == Written(pos, ok)
  <2>1. PICK s : /\ Typed(s)
                 /\ chunks' = s.chunks /\ servers' = s.servers /\ threads' = s.threads
                 /\ \/ GoOn(s, ok, written) \/ Fail(s, written) \/ Complete(s, written)
    BY <1>2, OnFinishGoesOn
  <2>2. StrategyOK'
    BY <2>1, StrategyNext DEF StrategyOK
  <2>3. status = "inProgress" /\ cleans' = cleans
    BY <1>2, OnFinishGoesOn
  <2>4. written \in SUBSET Positions /\ partial \in SUBSET Positions /\ WellFormed(s.chunks)
    BY <1>2, <2>1, <2>3 DEF TypesInv, Written, Typed
  <2> HIDE DEF written
  <2>5. /\ partial' \in SUBSET Positions /\ buffered' \in SUBSET Positions
        /\ status' \in {"inProgress", "completed", "failed"}
        /\ todo' \in {"nothing", "removeResume"} /\ (status' = "inProgress" => todo' = "nothing")
        /\ resume' \in {resume, s.chunks, NoFile}
        /\ \/ left' = left
           \/ left' = left - 1 /\ left > 0
        /\ target' = target
    <3>1. CASE GoOn(s, ok, written)
      BY <2>3, <2>4, <3>1 DEF GoOn, SaveResumeChunks, MayHappen, TypesInv
    <3>2. CASE Fail(s, written)
      BY <2>3, <2>4, <3>2 DEF Fail, MayHappen, TypesInv
    <3>3. CASE Complete(s, written)
      BY <2>3, <2>4, <3>3 DEF Complete, MayHappen, TypesInv
    <3> QED
      BY <2>1, <3>1, <3>2, <3>3
  <2>6. left' \in 0..MaxEvents
    BY <2>5, EventsAssumption DEF TypesInv
  <2> QED
    BY <2>2, <2>3, <2>4, <2>5, <2>6 DEF TypesInv
<1>3. CASE Cancel
  <2>1. left' \in 0..MaxEvents
    BY <1>3, EventsAssumption DEF Cancel, MayHappen, TypesInv
  <2>2. StrategyOK' /\ status' = "none" /\ cleans' = cleans
    BY <1>3 DEF Cancel, StrategyOK
  <2>3. /\ buffered' = {} /\ resume' = resume /\ target' = target
        /\ todo' \in {"removeResume", todo}
    BY <1>3 DEF Cancel
  <2>4. partial' \in (SUBSET Positions) \cup {NoFile}
    <3>1. partial \in SUBSET Positions /\ buffered \in SUBSET Positions
      BY <1>3 DEF Cancel, TypesInv
    <3> QED
      BY <1>3, <3>1 DEF Cancel
  <2> QED
    BY <2>1, <2>2, <2>3, <2>4 DEF TypesInv
<1>4. CASE RemoveResume
  <2>1. StrategyOK'
    BY <1>4, <1>8 DEF RemoveResume, TypesInv
  <2>2. todo' \in {"rename", "nothing"}
    BY <1>4 DEF RemoveResume
  <2> QED
    BY <1>4, <2>1, <2>2 DEF RemoveResume, TypesInv
<1>5. CASE Rename
  <2>1. StrategyOK'
    BY <1>5, <1>8 DEF Rename, TypesInv
  <2>2. status' # "inProgress"
    BY <1>5 DEF Rename, TypesInv
  <2> QED
    BY <1>5, <2>1, <2>2 DEF Rename, TypesInv
<1>6. CASE Crash
  <2>1. left' \in 0..MaxEvents
    BY <1>6, EventsAssumption DEF Crash, MayHappen, TypesInv
  <2>2. resume' \in {resume, NoFile}
    BY <1>6 DEF Crash
  <2>3. StrategyOK'
    BY <1>6 DEF Crash, StrategyOK
  <2>4. /\ status' = "none" /\ cleans' = cleans /\ todo' = "nothing" /\ buffered' = {}
        /\ partial' = partial /\ target' = target
    BY <1>6 DEF Crash
  <2> QED
    BY <2>1, <2>2, <2>3, <2>4 DEF TypesInv
<1>7. CASE UNCHANGED vars
  BY <1>7, <1>8 DEF vars, TypesInv
<1> QED
  BY <1>1, <1>2, <1>3, <1>4, <1>5, <1>6, <1>7 DEF Next, ThreadsEnd, OnFailure, GuiGoesOn

\* Well-formed chunks that are all complete, of the whole file, complete the file.
LEMMA AllComplete ==
  ASSUME NEW s, Typed(s), WholeFile(s.chunks), Result(s) = "succeeded"
  PROVE  Positions \subseteq Completes(s.chunks)
<1>1. /\ s.chunks \in Seq(ChunkRecord) /\ DOMAIN s.chunks = 1..ChunksCount + 1
      /\ \A k \in 1..ChunksCount : s.chunks[k].pos = k - 1
  BY DEF Typed, WholeFile
<1>2. Len(s.chunks) = ChunksCount + 1
  BY <1>1, LenProperties, CountsAssumption
<1>3. With(s, "free") = {} /\ With(s, "downloading") = {}
  BY DEF Result
<1>4. ASSUME NEW pos \in Positions
      PROVE  pos \in Completes(s.chunks)
  <2> DEFINE k == pos + 1
  <2>1. k \in 1..ChunksCount /\ k \in 1..ChunksCount + 1 /\ k \in 1..Len(s.chunks) - 1
    BY <1>2, CountsAssumption DEF Positions
  <2>2. s.chunks[k] \in ChunkRecord
    BY <1>1, <1>2, <2>1, ElementOfSeq
  <2>3. s.chunks[k].pos = pos /\ pos # ChunksCount
    BY <1>1, <2>1, CountsAssumption DEF Positions
  <2>4. s.chunks[k].status # "aux"
    BY <1>1, <2>1, <2>3 DEF Typed, WellFormed
  <2>5. s.chunks[k].status # "free" /\ s.chunks[k].status # "downloading"
    BY <1>3, <2>1 DEF With
  <2>6. s.chunks[k].status = "complete"
    BY <2>2, <2>4, <2>5 DEF ChunkRecord
  <2> HIDE DEF k
  <2> QED
    BY <1>1, <2>1, <2>3, <2>6 DEF Completes
<1> QED
  BY <1>4

\* Chunks of the whole file stay so.
LEMMA FollowsWhole ==
  ASSUME NEW c, NEW d, NEW more, WholeFile(c), Follows(d, c, more)
  PROVE  WholeFile(d)
<1>1. ChunksCount \in Nat
  BY CountsAssumption
<1>2. \A k \in 1..ChunksCount : k \in 1..ChunksCount + 1
  BY <1>1
<1> QED
  BY <1>2 DEF WholeFile, Follows

\* What is called complete is a position of the file.
LEMMA CompletesAreOfTheFile ==
  ASSUME NEW c, WellFormed(c)
  PROVE  Completes(c) \subseteq Positions
<1>1. SUFFICES ASSUME NEW k \in DOMAIN c, c[k].status = "complete"
               PROVE  c[k].pos \in Positions
  BY DEF Completes
<1>2. c[k] \in ChunkRecord
  BY ElementOfSeq, LenProperties DEF WellFormed
<1>3. c[k].pos # ChunksCount
  BY <1>1 DEF WellFormed
<1> QED
  BY <1>2, <1>3, CountsAssumption DEF ChunkRecord, Positions

\* The files keep their agreement, unless the client is killed between the removals
\* of a cancelled download.
LEMMA FilesStep ==
  ASSUME TypesInv, FilesInv, [Next]_vars, "crashInCancel" \notin Events
  PROVE  FilesInv'
<1> USE DEF requestVars, fileVars
<1>1. CASE GetFile
  <2>1. /\ status' = "inProgress" /\ todo = "nothing" /\ todo' = "nothing"
        /\ resume' = resume /\ target' = target /\ buffered' = {}
        /\ partial' = IF (\E k \in DOMAIN Loaded : Loaded[k].status = "complete") /\ partial # NoFile
                       THEN partial ELSE {}
    BY <1>1 DEF GetFile
  <2>2. PICK s : /\ chunks' = s.chunks
                 /\ (Completes(Loaded) = {} \/ partial # NoFile) => Follows(s.chunks, Loaded, {})
    BY <1>1, GetFileStarts
  <2>3. /\ WholeFile(Loaded) /\ Completes(Loaded) \subseteq Stored
        /\ resume # NoFile => Completes(resume) \subseteq Completes(Loaded)
    <3>1. CASE resume = NoFile
      BY <3>1, LoadedType, InitChunksType
    <3>2. CASE resume # NoFile
      <4>1. Follows(Loaded, resume, {}) /\ Completes(resume) \subseteq Completes(Loaded)
        BY <3>2, LoadedType DEF TypesInv
      <4>2. WholeFile(resume) /\ Completes(resume) \subseteq Stored
        BY <3>2, <2>1 DEF FilesInv, SavedIsTrue
      <4>3. WholeFile(Loaded)
        BY <4>1, <4>2, FollowsWhole
      <4> QED
        BY <4>1, <4>2, <4>3 DEF Follows
    <3> QED
      BY <3>1, <3>2
  <2>4. Completes(Loaded) = {} \/ partial # NoFile
    BY <2>3 DEF Stored
  <2>5. WholeFile(chunks') /\ Completes(chunks') \subseteq Completes(Loaded)
    BY <2>2, <2>3, <2>4, FollowsWhole DEF Follows
  <2>6. Completes(Loaded) \subseteq partial' /\ Completes(Loaded) \subseteq Stored'
    <3>1. CASE \E k \in DOMAIN Loaded : Loaded[k].status = "complete"
      <4>1. Completes(Loaded) # {}
        BY <3>1 DEF Completes
      <4>2. partial' = partial
        BY <2>1, <2>4, <3>1, <4>1
      <4> QED
        BY <2>3, <2>4, <4>1, <4>2 DEF Stored
    <3>2. CASE ~(\E k \in DOMAIN Loaded : Loaded[k].status = "complete")
      <4>1. Completes(Loaded) = {}
        BY <3>2 DEF Completes
      <4> QED
        BY <4>1
    <3> QED
      BY <3>1, <3>2
  <2>7. RequestIsTrue'
    BY <2>5, <2>6 DEF RequestIsTrue
  <2>8. SavedIsTrue'
    <3>1. resume # NoFile => WholeFile(resume)
      BY DEF FilesInv, SavedIsTrue
    <3>2. resume # NoFile => Completes(resume) \subseteq Stored'
      BY <2>3, <2>6
    <3> QED
      BY <2>1, <3>1, <3>2 DEF SavedIsTrue
  <2>9. Removals'
    BY <2>1 DEF Removals
  <2>10. TargetIsWhole'
    BY <2>1 DEF FilesInv, TargetIsWhole
  <2> QED
    BY <2>7, <2>8, <2>9, <2>10 DEF FilesInv
<1>2. ASSUME NEW pos, NEW ok \in BOOLEAN, ok => pos \in Positions, OnFinish(pos, ok)
      PROVE  FilesInv'
  <2> DEFINE written == Written(pos, ok)
  <2>1. PICK s : /\ Typed(s) /\ Follows(s.chunks, chunks, IF ok THEN {pos} ELSE {})
                 /\ chunks' = s.chunks
                 /\ \/ GoOn(s, ok, written) \/ Fail(s, written) \/ Complete(s, written)
    BY <1>2, OnFinishGoesOn
  <2>2. status = "inProgress"
    BY <1>2, OnFinishGoesOn
  <2>3. todo = "nothing" /\ partial \in SUBSET Positions /\ written \in SUBSET Positions
    BY <1>2, <2>2 DEF TypesInv, Written
  <2>4. WholeFile(chunks) /\ Completes(chunks) \subseteq partial \cup buffered
    BY <2>2 DEF FilesInv, RequestIsTrue
  <2>5. WholeFile(s.chunks)
    BY <2>1, <2>4, FollowsWhole
  <2>6. Completes(s.chunks) \subseteq partial \cup written
    BY <2>1, <2>4 DEF Follows, Written
  <2>7. resume # NoFile => WholeFile(resume) /\ Completes(resume) \subseteq Stored
    BY <2>3 DEF FilesInv, SavedIsTrue
  <2> HIDE DEF written
  <2>8. /\ target' = target
        /\ partial' \in {partial, partial \cup written}
        /\ \/ resume' \in {resume, NoFile}
           \/ resume' = s.chunks /\ partial' = partial \cup written
        /\ status' = "inProgress" => \/ partial' = partial \cup written
                                     \/ partial' = partial /\ buffered' = written
        /\ \/ todo' = "nothing"
           \/ todo' = "removeResume" /\ status' = "completed" /\ partial' = partial \cup written
              /\ Result(s) = "succeeded"
    <3>1. CASE GoOn(s, ok, written)
      <4>1. CASE ok /\ SaveResumeChunks(s, written)
        BY <2>2, <2>3, <3>1, <4>1 DEF GoOn, SaveResumeChunks
      <4>2. CASE ~ok /\ buffered' = written /\ UNCHANGED <<resume, partial>>
        BY <2>2, <2>3, <3>1, <4>2 DEF GoOn
      <4> QED
        BY <3>1, <4>1, <4>2 DEF GoOn
    <3>2. CASE Fail(s, written)
      BY <2>3, <3>2 DEF Fail
    <3>3. CASE Complete(s, written)
      BY <2>3, <3>3 DEF Complete
    <3> QED
      BY <2>1, <3>1, <3>2, <3>3
  <2>9. RequestIsTrue'
    BY <2>1, <2>5, <2>6, <2>8 DEF RequestIsTrue
  <2>10. SavedIsTrue'
    <3>1. Stored = partial \/ Stored = {}
      BY DEF Stored
    <3>2. Stored \subseteq partial' /\ Stored' = partial'
      <4>1. partial' # NoFile
        BY <2>3, <2>8, NoFileAssumption DEF Positions
      <4> QED
        BY <3>1, <2>8, <4>1 DEF Stored
    <3>3. SUFFICES ASSUME resume' # NoFile
                   PROVE  WholeFile(resume') /\ (todo' # "removeResume" => Completes(resume') \subseteq Stored')
      BY DEF SavedIsTrue
    <3>4. WholeFile(resume')
      BY <2>5, <2>7, <2>8, <3>3
    <3>5. Completes(resume') \subseteq partial'
      <4>1. CASE resume' = resume
        BY <2>7, <3>2, <3>3, <4>1
      <4>2. CASE resume' = s.chunks /\ partial' = partial \cup written
        BY <2>6, <4>2
      <4> QED
        BY <2>8, <3>3, <4>1, <4>2
    <3> QED
      BY <3>2, <3>4, <3>5 DEF Stored
  <2>11. Removals'
    <3>1. Result(s) = "succeeded" => partial \cup written = Positions
      BY <2>1, <2>3, <2>5, <2>6, AllComplete
    <3> QED
      BY <2>8, <3>1 DEF Removals
  <2>12. TargetIsWhole'
    BY <2>8 DEF FilesInv, TargetIsWhole
  <2> QED
    BY <2>9, <2>10, <2>11, <2>12 DEF FilesInv
<1>3. CASE Cancel
  <2>1. /\ status = "inProgress" /\ status' = "none" /\ target' = target /\ resume' = resume
        /\ \/ ~cleans /\ partial' = partial \cup buffered /\ todo' = todo
           \/ cleans /\ partial' = NoFile /\ todo' = "removeResume"
    BY <1>3 DEF Cancel, TypesInv
  <2>2. todo = "nothing"
    BY <2>1 DEF TypesInv
  <2>3. RequestIsTrue' /\ Removals'
    BY <2>1, <2>2 DEF RequestIsTrue, Removals
  <2>4. SavedIsTrue'
    <3>1. CASE todo' = "removeResume"
      BY <2>1, <3>1 DEF FilesInv, SavedIsTrue
    <3>2. CASE partial' = partial \cup buffered
      <4>1. partial \cup buffered # NoFile
        BY <2>1, NoFileAssumption DEF TypesInv, Positions
      <4> QED
        BY <2>1, <2>2, <3>2, <4>1 DEF FilesInv, SavedIsTrue, Stored
    <3> QED
      BY <2>1, <3>1, <3>2
  <2> QED
    BY <2>1, <2>3, <2>4 DEF FilesInv, TargetIsWhole
<1>4. CASE RemoveResume
  <2>1. /\ todo = "removeResume" /\ resume' = NoFile /\ status' = status /\ target' = target
        /\ partial' = partial /\ todo' = IF status = "completed" THEN "rename" ELSE "nothing"
    BY <1>4 DEF RemoveResume
  <2>2. status # "inProgress"
    BY <2>1 DEF TypesInv
  <2> QED
    BY <2>1, <2>2 DEF FilesInv, RequestIsTrue, SavedIsTrue, Removals, TargetIsWhole
<1>5. CASE Rename
  <2>1. /\ todo = "rename" /\ resume' = resume /\ status' = status /\ target' = partial
        /\ todo' = "nothing"
    BY <1>5 DEF Rename
  <2>2. status # "inProgress"
    BY <2>1 DEF TypesInv
  <2>3. partial = Positions /\ resume = NoFile
    BY <2>1 DEF FilesInv, Removals
  <2> QED
    BY <2>1, <2>2, <2>3 DEF FilesInv, RequestIsTrue, SavedIsTrue, Removals, TargetIsWhole
<1>6. CASE Crash
  <2>1. /\ ~(todo = "removeResume" /\ status = "none")
        /\ status' = "none" /\ todo' = "nothing" /\ partial' = partial /\ target' = target
        /\ resume' \in {resume, NoFile}
    BY <1>6 DEF Crash, MayHappen
  <2>2. SavedIsTrue'
    <3>1. SUFFICES ASSUME resume # NoFile
                   PROVE  WholeFile(resume) /\ Completes(resume) \subseteq Stored
      BY <2>1 DEF SavedIsTrue, Stored
    <3>2. WholeFile(resume)
      BY <3>1 DEF FilesInv, SavedIsTrue
    <3>3. CASE todo # "removeResume"
      BY <3>1, <3>2, <3>3 DEF FilesInv, SavedIsTrue
    <3>4. CASE todo = "removeResume"
      <4>1. partial = Positions
        BY <2>1, <3>4 DEF FilesInv, Removals
      <4>2. Completes(resume) \subseteq Positions
        BY <3>1, CompletesAreOfTheFile DEF TypesInv
      <4>3. partial # NoFile
        BY <4>1, NoFileAssumption DEF Positions
      <4> QED
        BY <3>2, <4>1, <4>2, <4>3 DEF Stored
    <3> QED
      BY <3>3, <3>4
  <2> QED
    BY <2>1, <2>2 DEF FilesInv, RequestIsTrue, Removals, TargetIsWhole
<1>7. CASE UNCHANGED vars
  BY <1>7 DEF vars, FilesInv, RequestIsTrue, SavedIsTrue, Removals, TargetIsWhole, Stored
<1> QED
  BY <1>1, <1>2, <1>3, <1>4, <1>5, <1>6, <1>7 DEF Next, ThreadsEnd, OnFailure, GuiGoesOn

-----------------------------------------------------------------------------
(* The theorems. *)

\* The first state.
LEMMA InitIsOK ==
  ASSUME Init
  PROVE  TypesInv /\ FilesInv
<1>1. TypesInv
  <2>1. StrategyOK
    BY DEF Init, StrategyOK
  <2>2. left \in 0..MaxEvents
    BY EventsAssumption DEF Init
  <2> QED
    BY <2>1, <2>2 DEF Init, TypesInv
<1>2. FilesInv
  BY DEF Init, FilesInv, RequestIsTrue, SavedIsTrue, Removals, TargetIsWhole
<1> QED
  BY <1>1, <1>2

\* The types of the invariant are those of TypeOK.
LEMMA TypesAreOK ==
  ASSUME TypesInv
  PROVE  TypeOK
<1>1. \A c : WellFormed(c) => IsChunks(c) /\ Last(c) = Chunk(ChunksCount, "aux")
  <2>1. SUFFICES ASSUME NEW c, WellFormed(c)
                 PROVE  IsChunks(c) /\ Last(c) = Chunk(ChunksCount, "aux")
    OBVIOUS
  <2>2. /\ c \in Seq(ChunkRecord) /\ Len(c) \in Nat /\ Len(c) > 0 /\ DOMAIN c = 1..Len(c)
        /\ \A k \in DOMAIN c : c[k] \in ChunkRecord
    <3>1. c \in Seq(ChunkRecord) /\ Len(c) > 0
      BY <2>1 DEF WellFormed
    <3> QED
      BY <3>1, LenProperties, ElementOfSeq
  <2>3. IsChunks(c)
    BY <2>2 DEF IsChunks, ChunkRecord
  <2>4. Len(c) \in DOMAIN c
    BY <2>2
  <2>5. c[Len(c)].pos = ChunksCount /\ c[Len(c)].status = "aux" /\ c[Len(c)] \in ChunkRecord
    BY <2>1, <2>2, <2>4 DEF WellFormed
  <2> QED
    BY <2>3, <2>5 DEF Last, Chunk, ChunkRecord
<1>2. IsChunks(chunks) /\ (chunks # <<>> => Last(chunks) = Chunk(ChunksCount, "aux"))
  <2>1. CASE chunks = <<>>
    BY <2>1 DEF IsChunks
  <2>2. CASE Typed(Strategy)
    BY <2>2, <1>1 DEF Typed, Strategy
  <2> QED
    BY <2>1, <2>2 DEF TypesInv, StrategyOK
<1>3. /\ \A n \in DOMAIN servers : servers[n] \in Indices \cup {SERVER_READY}
      /\ \A n \in DOMAIN threads : threads[n] \in 0..ChunksCount
  <2>1. CASE servers = <<>> /\ threads = <<>>
    BY <2>1
  <2>2. CASE Typed(Strategy)
    <3>1. /\ threads \in Seq(Begins) /\ chunks \in Seq(ChunkRecord)
          /\ \A n \in DOMAIN servers : servers[n] \in 0..Len(chunks) - 1
      BY <2>2 DEF Typed, Strategy
    <3>2. Len(chunks) \in Nat /\ Indices = 1..Len(chunks)
      BY <3>1, LenProperties DEF Indices
    <3>3. \A k \in 0..Len(chunks) - 1 : k \in Indices \cup {SERVER_READY}
      BY <3>2 DEF SERVER_READY
    <3>4. \A n \in DOMAIN threads : threads[n] \in 0..ChunksCount
      BY <3>1, LenProperties, ElementOfSeq DEF Begins
    <3> QED
      BY <3>1, <3>3, <3>4
  <2> QED
    BY <2>1, <2>2 DEF TypesInv, StrategyOK
<1> QED
  BY <1>1, <1>2, <1>3 DEF TypesInv, TypeOK

\* Type correctness, for every client: the strategy's chunks end with the end of
\* the file, its servers download chunks it has, and so do its threads.
THEOREM TypeCorrect == Spec => []TypeOK
<1>1. Init => TypesInv
  BY InitIsOK
<1>2. TypesInv /\ [Next]_vars => TypesInv'
  BY TypesStep
<1>3. TypesInv => TypeOK
  BY TypesAreOK
<1> QED
  BY <1>1, <1>2, <1>3, PTL DEF Spec

\* The inductive invariant of a client that is not killed between the removals of a
\* cancelled download.
THEOREM FilesAgree ==
  ASSUME "crashInCancel" \notin Events
  PROVE  Spec => [](TypesInv /\ FilesInv)
<1>1. Init => TypesInv /\ FilesInv
  BY InitIsOK
<1>2. TypesInv /\ FilesInv /\ [Next]_vars => (TypesInv /\ FilesInv)'
  BY TypesStep, FilesStep
<1> QED
  BY <1>1, <1>2, PTL DEF Spec

\* What .resume calls complete is in .downloading, whatever fails, is cancelled or is
\* killed (SaveResumeChunks, LoadOrInitChunks), but for that client.
THEOREM ResumeCanBeTrusted ==
  ASSUME "crashInCancel" \notin Events
  PROVE  Spec => []ResumeIsTrue
<1>1. TypesInv /\ FilesInv => ResumeIsTrue
  <2>1. SUFFICES ASSUME TypesInv, FilesInv, resume # NoFile, partial # NoFile
                 PROVE  Completes(resume) \subseteq partial
    BY DEF ResumeIsTrue, Completes
  <2>2. CASE todo # "removeResume"
    BY <2>1, <2>2 DEF FilesInv, SavedIsTrue, Stored
  <2>3. CASE todo = "removeResume"
    <3>1. partial = Positions
      BY <2>1, <2>3 DEF FilesInv, Removals
    <3> QED
      BY <2>1, <3>1, CompletesAreOfTheFile DEF TypesInv
  <2> QED
    BY <2>2, <2>3
<1> QED
  BY <1>1, FilesAgree, PTL

\* The file that gets its name has all of its data (OnFinish), but for that client.
THEOREM FilesAreWhole ==
  ASSUME "crashInCancel" \notin Events
  PROVE  Spec => []TargetIsWhole
<1>1. FilesInv => TargetIsWhole
  BY DEF FilesInv
<1> QED
  BY <1>1, FilesAgree, PTL
=============================================================================
