------------------------- MODULE StorageDownloadProofs -------------------------
(***************************************************************************)
(* What holds of the map storage, for any countries, versions and number   *)
(* of events: the types of its state and of its queues of tasks; that a    *)
(* check for updates is always in one place; that a version is replaced    *)
(* only by a newer one; that the queue is in the settings; that no country *)
(* is twice on its way from its request to its installation; and, if       *)
(* nobody kills the application (or not while it saves countries.txt),     *)
(* what becomes of the map files: none is forgotten, none is installed     *)
(* whose checksum is wrong, and the map that is shown has its file.        *)
(*                                                                         *)
(* The running event is a stack of calls.  What the proofs need of it is   *)
(* which calls may be on its top and which may wait below (IsStack): no    *)
(* call that waits goes on with a check, asks for a file or starts a       *)
(* request; and that the pending requests are moved to the queue by calls  *)
(* that follow each other (IsOrdered), up to the one that clears them.     *)
(***************************************************************************)
EXTENDS StorageDownload, SequenceTheorems, WellFoundedInduction, TLAPS

-----------------------------------------------------------------------------
(* Numbers and sequences.  Induction takes the form of a least number. *)

\* A set of natural numbers that is not empty has a least one.
LEMMA LeastNumber ==
  ASSUME NEW T, T \subseteq Nat, T # {}
  PROVE  \E n \in T : \A m \in T : n <= m
<1> DEFINE R == OpToRel(<, Nat)
<1>1. IsWellFoundedOn(R, Nat)
  BY NatLessThanWellFounded
<1>2. \A m, n \in Nat : m < n => <<m, n>> \in R
  BY DEF OpToRel
<1> HIDE DEF R
<1>3. PICK n \in T : \A m \in T : ~(<<m, n>> \in R)
  BY <1>1, WFMin
<1>4. \A m \in T : ~(m < n)
  BY <1>2, <1>3
<1>5. \A m \in T : n <= m
  BY <1>4
<1> QED
  BY <1>5

\* What holds of 0 and goes from each number to the next holds up to n.
LEMMA Climb ==
  ASSUME NEW T, NEW n \in Nat, 0 \in T, \A k \in 1..n : k - 1 \in T => k \in T
  PROVE  n \in T
<1> DEFINE F == {k \in 0..n : k \notin T}
<1>1. SUFFICES ASSUME n \notin T PROVE FALSE
  OBVIOUS
<1>2. n \in F /\ F \subseteq Nat
  BY <1>1
<1>3. PICK k \in F : \A m \in F : k <= m
  BY <1>2, LeastNumber
<1>4. k \in 1..n /\ k \notin T
  BY <1>3
<1>5. k - 1 \in 0..n /\ k - 1 \notin T
  BY <1>4
<1> QED
  BY <1>3, <1>4, <1>5

\* The largest of some numbers, if they are bounded.
LEMMA MaxIsLargest ==
  ASSUME NEW b \in Nat, NEW S, S \subseteq 0..b, S # {}
  PROVE  Max(S) \in S /\ \A x \in S : x <= Max(S)
<1> DEFINE T == {b - x : x \in S}
<1>1. T \subseteq Nat /\ T # {}
  <2>1. \A x \in S : b - x \in Nat /\ x \in Nat
    OBVIOUS
  <2> QED
    BY <2>1
<1>2. PICK d \in T : \A m \in T : d <= m
  BY <1>1, LeastNumber
<1>3. PICK c \in S : d = b - c
  BY <1>2
<1>4. \A x \in S : c >= x
  <2>1. SUFFICES ASSUME NEW x \in S PROVE c >= x
    OBVIOUS
  <2>2. d <= b - x /\ d = b - c /\ x \in Nat /\ c \in Nat
    BY <1>2, <1>3
  <2> QED
    BY <2>2
<1>5. Max(S) \in S /\ \A x \in S : Max(S) >= x
  BY <1>3, <1>4 DEF Max
<1> QED
  BY <1>5

\* The least of some numbers is one of them.
LEMMA MinIsOne ==
  ASSUME NEW S, S \subseteq Nat, S # {}
  PROVE  Min(S) \in S
<1>1. PICK n \in S : \A m \in S : n <= m
  BY LeastNumber
<1> QED
  BY <1>1 DEF Min

\* A sequence without one of its elements.
LEMMA RemoveAtType ==
  ASSUME NEW S, NEW s \in Seq(S), NEW k \in 1..Len(s)
  PROVE  RemoveAt(s, k) \in Seq(S)
<1>1. Len(s) \in Nat /\ k \in Nat
  BY LenProperties
<1>2. SubSeq(s, 1, k - 1) \in Seq(S)
  OBVIOUS
<1>3. SubSeq(s, k + 1, Len(s)) \in Seq(S)
  OBVIOUS
<1> QED
  BY <1>2, <1>3, ConcatProperties DEF RemoveAt

\* A sequence without the first occurrence of an element.
LEMMA RemoveFirstType ==
  ASSUME NEW S, NEW s \in Seq(S), NEW e
  PROVE  RemoveFirst(s, e) \in Seq(S)
<1>1. CASE \E k \in 1..Len(s) : s[k] = e
  <2> DEFINE I == {k \in 1..Len(s) : s[k] = e}
  <2>1. RemoveFirst(s, e) = RemoveAt(s, Min(I))
    BY <1>1 DEF RemoveFirst, SelectInSeq
  <2>2. I \subseteq Nat /\ I # {}
    BY <1>1, LenProperties
  <2>3. Min(I) \in 1..Len(s)
    BY <2>2, MinIsOne
  <2> QED
    BY <2>1, <2>3, RemoveAtType
<1>2. CASE ~(\E k \in 1..Len(s) : s[k] = e)
  BY <1>2 DEF RemoveFirst
<1> QED
  BY <1>1, <1>2

\* The function that FlattenSeq reads, up to its n-th value.
Joined(s, n, joined) ==
  joined = [i \in 1..n |-> IF i = 1 THEN s[i] ELSE joined[i - 1] \o s[i]]

\* Sequences of one type, one after the other, are a sequence of that type.
LEMMA FlattenType ==
  ASSUME NEW S, NEW s \in Seq(Seq(S))
  PROVE  FlattenSeq(s) \in Seq(S)
<1>1. Len(s) \in Nat /\ \A k \in 1..Len(s) : s[k] \in Seq(S)
  BY ElementOfSeq, LenProperties
<1>2. CASE Len(s) = 0
  <2>1. FlattenSeq(s) = s /\ s = << >>
    BY <1>2, EmptySeq DEF FlattenSeq
  <2> QED
    BY <2>1
<1>3. CASE Len(s) # 0
  <2> DEFINE n == Len(s)
             F == CHOOSE f : Joined(s, n, f)
             T == {k \in 0..n : \E f \in [1..k -> Seq(S)] : Joined(s, k, f)}
  <2>1. FlattenSeq(s) = F[n]
    BY <1>3 DEF FlattenSeq, Joined
  <2>2. 0 \in T
    <3> DEFINE f == [i \in 1..0 |-> << >>]
    <3>1. f \in [1..0 -> Seq(S)] /\ Joined(s, 0, f)
      BY DEF Joined
    <3>2. 0 \in 0..n
      BY <1>1
    <3> QED
      BY <3>1, <3>2
  <2>3. ASSUME NEW k \in 1..n, k - 1 \in T
        PROVE  k \in T
    <3>1. PICK f \in [1..(k - 1) -> Seq(S)] : Joined(s, k - 1, f)
      BY <2>3
    <3>2. k \in Nat /\ k \in 1..Len(s) /\ s[k] \in Seq(S)
      BY <1>1
    <3> DEFINE last == IF k = 1 THEN s[k] ELSE f[k - 1] \o s[k]
               g == [i \in 1..k |-> IF i = k THEN last ELSE f[i]]
    <3>3. last \in Seq(S)
      <4>1. CASE k = 1
        BY <4>1, <3>2
      <4>2. CASE k # 1
        <5>1. f[k - 1] \in Seq(S)
          BY <4>2, <3>2
        <5> QED
          BY <4>2, <5>1, <3>2, ConcatProperties
      <4> QED
        BY <4>1, <4>2
    <3>4. \A i \in 1..k : i # k => i \in 1..(k - 1)
      BY <3>2
    <3>5. g \in [1..k -> Seq(S)]
      BY <3>3, <3>4
    <3>6. \A i \in 1..(k - 1) : f[i] = IF i = 1 THEN s[i] ELSE f[i - 1] \o s[i]
      BY <3>1 DEF Joined
    <3> HIDE DEF last
    <3>7. \A i \in 1..k : g[i] = IF i = 1 THEN s[i] ELSE g[i - 1] \o s[i]
      <4>1. SUFFICES ASSUME NEW i \in 1..k
                     PROVE  g[i] = IF i = 1 THEN s[i] ELSE g[i - 1] \o s[i]
        OBVIOUS
      <4>2. CASE i = k /\ i # 1
        <5>1. i - 1 \in 1..k /\ i - 1 # k
          BY <4>2, <3>2
        <5> QED
          BY <5>1, <4>2 DEF last
      <4>3. CASE i = k /\ i = 1
        BY <4>3 DEF last
      <4>4. CASE i # k /\ i # 1
        <5>1. i - 1 \in 1..k /\ i - 1 # k
          BY <4>4, <3>2
        <5> QED
          BY <5>1, <4>4, <3>4, <3>6
      <4>5. CASE i # k /\ i = 1
        BY <4>5, <3>4, <3>6
      <4> QED
        BY <4>2, <4>3, <4>4, <4>5
    <3>8. g = [i \in 1..k |-> IF i = 1 THEN s[i] ELSE g[i - 1] \o s[i]]
      BY <3>7, Zenon
    <3>9. k \in 0..n
      BY <1>1
    <3> HIDE DEF g
    <3>10. Joined(s, k, g)
      BY <3>8 DEF Joined
    <3> QED
      BY <3>5, <3>9, <3>10
  <2>4. n \in T
    BY <1>1, <2>2, <2>3, Climb
  <2>5. \E f : Joined(s, n, f)
    BY <2>4
  <2>6. Joined(s, n, F)
    BY <2>5
  <2> HIDE DEF F
  <2> DEFINE U == {k \in 0..n : k = 0 \/ F[k] \in Seq(S)}
  <2>7. \A k \in 1..n : F[k] = IF k = 1 THEN s[k] ELSE F[k - 1] \o s[k]
    BY <2>6 DEF Joined
  <2>8. ASSUME NEW k \in 1..n, k - 1 \in U
        PROVE  k \in U
    <3>1. k \in 0..n /\ s[k] \in Seq(S)
      BY <1>1
    <3>2. CASE k = 1
      BY <3>1, <3>2, <2>7
    <3>3. CASE k # 1
      <4>1. k - 1 # 0 /\ F[k - 1] \in Seq(S)
        BY <3>3, <2>8
      <4>2. F[k - 1] \o s[k] \in Seq(S)
        BY <4>1, <3>1, ConcatProperties
      <4> QED
        BY <4>2, <3>1, <3>3, <2>7
    <3> QED
      BY <3>2, <3>3
  <2>9. 0 \in U
    BY <1>1
  <2>10. n \in U
    BY <1>1, <2>8, <2>9, Climb
  <2> QED
    BY <1>3, <2>1, <2>10
<1> QED
  BY <1>2, <1>3

-----------------------------------------------------------------------------
(* The invariants. *)

\* The calls and tasks there are: for a country, for a file, for a version, or for
\* nothing in particular.
LeafOps == {"download", "retry", "enqueue", "verified", "rejected", "register", "remove",
            "forgive", "stop", "cleanup", "delete"}
PlainOps == {"startPending", "downloadPending", "countries", "signature", "clearPending",
             "request", "next", "finish"}
CheckOps == {"applyOrDefer", "apply"}
ServerOps == {"countries", "signature"}
LeafTask(ops) == [op : ops, id : Leaves, arg : {0}]
FileTask(ops) == [op : ops, id : Leaves, arg : Versions]
VersionTask(ops) == [op : ops, id : {NoCountry}, arg : Versions]
PlainTask(ops) == [op : ops, id : {NoCountry}, arg : {0}]

\* What an event may begin with, and what may follow when the call before returns.
FirstCall == LeafTask(LeafOps) \cup FileTask({"deleteFile"}) \cup VersionTask(CheckOps)
               \cup PlainTask(PlainOps)
LaterCall == LeafTask({"download", "retry", "enqueue", "remove", "forgive", "stop",
                       "cleanup", "delete"})
               \cup PlainTask({"clearPending", "next", "finish"})
GuiTask == LeafTask({"verified", "rejected"}) \cup FileTask({"deleteFile"})
             \cup VersionTask({"applyOrDefer"})
             \cup PlainTask(ServerOps \cup {"downloadPending"})
ThreadTask == FileTask({"sha"}) \cup VersionTask({"save", "rename"})
NetworkTask == PlainTask(ServerOps \cup {"downloadPending"})

IsStack(s) == /\ s \in Seq(FirstCall)
              /\ s # <<>> => Head(s) \in FirstCall /\ Tail(s) \in Seq(LaterCall)

\* Every queue of tasks has its type, and a request is made only for a queue that
\* is not empty.
TypesInv ==
  /\ TypeOK
  /\ IsStack(calls) /\ gui \in Seq(GuiTask)
  /\ fileThread \in Seq(ThreadTask) /\ network \in Seq(NetworkTask)
  /\ Doing("request") => queue # <<>>

\* How many of the tasks do one of ops.
Nobody(tasks, ops) == \A k \in DOMAIN tasks : tasks[k].op \notin ops
OnlyOne(tasks, ops) ==
  \A j, k \in DOMAIN tasks : tasks[j].op \in ops /\ tasks[k].op \in ops => j = k
Calling(ops) == ~Idle /\ Head(calls).op \in ops

\* A check is in one place, or in none when no check is running.
CheckInv ==
  /\ OnlyOne(gui, CheckOps)
  /\ fetch # "none" => deferred = 0 /\ ~Calling(CheckOps) /\ Nobody(gui, CheckOps)
  /\ deferred # 0 => ~Calling(CheckOps) /\ Nobody(gui, CheckOps)
  /\ Calling(CheckOps) => Nobody(gui, CheckOps)
  /\ checking = (fetch # "none" \/ deferred # 0 \/ Calling(CheckOps) \/ ~Nobody(gui, CheckOps))
  /\ Doing("startPending") => ~checking

\* So is the answer of the metaserver, if the check waits for it.
ServerInv ==
  /\ OnlyOne(gui, ServerOps) /\ OnlyOne(network, ServerOps)
  /\ Calling(ServerOps) => Nobody(gui, ServerOps) /\ Nobody(network, ServerOps)
  /\ ~Nobody(gui, ServerOps) => Nobody(network, ServerOps)
  /\ (fetch = "servers") =
       (Calling(ServerOps) \/ ~Nobody(gui, ServerOps) \/ ~Nobody(network, ServerOps))
  /\ fetch \in {"countries", "signature"} => ~requested

\* The version a check is about is newer than the one it would replace.
NewerInv ==
  /\ fetch \in {"servers", "countries", "signature"} => latest > version
  /\ deferred # 0 => deferred > version
  /\ \A k \in DOMAIN gui : gui[k].op \in CheckOps => gui[k].arg > version
  /\ Calling(CheckOps) => Head(calls).arg > version

-----------------------------------------------------------------------------
(* The types of calls and tasks. *)

\* What a task of each kind consists of.
LEMMA TaskFields ==
  /\ \A t \in FirstCall :
       /\ t = Task(t.op, t.id, t.arg)
       /\ t.op \in LeafOps => t.id \in Leaves /\ t.arg = 0
       /\ t.op = "deleteFile" => t.id \in Leaves /\ t.arg \in Versions
       /\ t.op \in CheckOps => t.id = NoCountry /\ t.arg \in Versions
       /\ t.op \in PlainOps => t.id = NoCountry /\ t.arg = 0
  /\ \A t \in ThreadTask :
       /\ t.op = "sha" => t.id \in Leaves /\ t.arg \in Versions
       /\ t.op # "sha" => t.op \in {"save", "rename"} /\ t.id = NoCountry /\ t.arg \in Versions
BY DEF FirstCall, ThreadTask, LeafTask, FileTask, VersionTask, PlainTask, LeafOps, PlainOps,
       CheckOps, Task

\* The tasks there are.
LEMMA TaskTypes ==
  /\ LaterCall \subseteq FirstCall /\ GuiTask \subseteq FirstCall /\ NetworkTask \subseteq GuiTask
  /\ \A op \in LeafOps, c \in Leaves : Task(op, c, 0) \in FirstCall
  /\ \A op \in {"download", "retry", "enqueue", "remove", "forgive", "stop", "cleanup", "delete"},
        c \in Leaves : Task(op, c, 0) \in LaterCall
  /\ \A op \in CheckOps, v \in Versions : Task(op, NoCountry, v) \in FirstCall
  /\ \A op \in PlainOps : Do(op) \in FirstCall
  /\ \A op \in {"clearPending", "next", "finish"} : Do(op) \in LaterCall
  /\ \A op \in {"verified", "rejected"}, c \in Leaves : Task(op, c, 0) \in GuiTask
  /\ \A c \in Leaves, v \in Versions : Task("deleteFile", c, v) \in GuiTask
  /\ \A v \in Versions : Task("applyOrDefer", NoCountry, v) \in GuiTask
  /\ \A op \in ServerOps \cup {"downloadPending"} : Do(op) \in NetworkTask
  /\ \A c \in Leaves, v \in Versions : Task("sha", c, v) \in ThreadTask
  /\ \A op \in {"save", "rename"}, v \in Versions : Task(op, NoCountry, v) \in ThreadTask
BY DEF FirstCall, LaterCall, GuiTask, NetworkTask, ThreadTask, LeafTask, FileTask, VersionTask,
       PlainTask, LeafOps, PlainOps, CheckOps, ServerOps, Task, Do

\* A call returns.
LEMMA ReturnType ==
  ASSUME NEW s, IsStack(s), s # <<>>
  PROVE  IsStack(Tail(s))
<1>1. s \in Seq(FirstCall) /\ Tail(s) \in Seq(LaterCall) /\ LaterCall \subseteq FirstCall
  BY TaskTypes DEF IsStack
<1> DEFINE t == Tail(s)
<1>2. t \in Seq(FirstCall) /\ t \in Seq(LaterCall)
  BY <1>1, HeadTailProperties
<1> HIDE DEF t
<1>3. t # <<>> => Head(t) \in FirstCall /\ Tail(t) \in Seq(LaterCall)
  BY <1>2, HeadTailProperties
<1> QED
  BY <1>2, <1>3 DEF IsStack, t

\* The calls an event begins with are a stack, if only the first may be of any kind.
LEMMA StackOf ==
  ASSUME NEW t \in FirstCall, NEW s \in Seq(LaterCall)
  PROVE  IsStack(<<t>> \o s)
<1>1. s \in Seq(FirstCall)
  BY TaskTypes
<1>2. <<t>> \in Seq(FirstCall) /\ <<t>> # <<>> /\ Head(<<t>>) = t /\ Tail(<<t>>) = <<>>
  OBVIOUS
<1>3. <<t>> \o s \in Seq(FirstCall) /\ Head(<<t>> \o s) = t /\ Tail(<<t>> \o s) = s
  BY <1>1, <1>2, ConcatProperties, HeadTailProperties
<1> QED
  BY <1>3 DEF IsStack

\* So are calls all of which may wait.
LEMMA LaterStack ==
  ASSUME NEW s \in Seq(LaterCall)
  PROVE  IsStack(s)
<1>1. s \in Seq(FirstCall)
  BY TaskTypes
<1>2. s # <<>> => Head(s) \in LaterCall /\ Tail(s) \in Seq(LaterCall)
  BY HeadTailProperties
<1> QED
  BY <1>1, <1>2, TaskTypes DEF IsStack

\* A call that calls others.
LEMMA CallType ==
  ASSUME NEW s, IsStack(s), NEW r \in Seq(LaterCall)
  PROVE  IsStack(s \o r)
<1>1. CASE s = <<>>
  <2>1. s \o r = r
    BY <1>1, ConcatEmptySeq
  <2> QED
    BY <2>1, LaterStack
<1>2. CASE s # <<>>
  <2>1. Head(s) \in FirstCall /\ Tail(s) \in Seq(LaterCall) /\ s \in Seq(FirstCall)
    BY <1>2 DEF IsStack
  <2>2. s = <<Head(s)>> \o Tail(s)
    BY <1>2, <2>1
  <2>3. s \o r = <<Head(s)>> \o (Tail(s) \o r)
    <3>1. <<Head(s)>> \in Seq(FirstCall) /\ Tail(s) \in Seq(FirstCall) /\ r \in Seq(FirstCall)
      BY <2>1, TaskTypes
    <3> QED
      BY <3>1, <2>2, ConcatAssociative
  <2>4. Tail(s) \o r \in Seq(LaterCall)
    BY <2>1, ConcatProperties
  <2> QED
    BY <2>1, <2>3, <2>4, StackOf
<1> QED
  BY <1>1, <1>2

\* A call that goes on with nothing of a check.
Quiet(s) == s # <<>> => Head(s).op \notin CheckOps \cup ServerOps \cup {"startPending"}

\* The call that runs.
LEMMA ThisCall ==
  ASSUME TypesInv, ~Idle
  PROVE  /\ calls \in Seq(FirstCall) /\ calls # <<>> /\ Head(calls) \in FirstCall
         /\ Tail(calls) \in Seq(LaterCall)
         /\ Head(calls).op \in LeafOps => This \in Leaves
         /\ Head(calls).op = "deleteFile" => This \in Leaves /\ Arg \in Versions
         /\ Head(calls).op \in CheckOps => Arg \in Versions
BY TaskFields DEF TypesInv, IsStack, Idle, This, Arg

\* When it returns, the next one is a call that may wait.
LEMMA Returns ==
  ASSUME TypesInv, ~Idle, Return
  PROVE  IsStack(calls') /\ Quiet(calls') /\ (calls' # <<>> => Head(calls').op # "request")
<1>1. IsStack(calls') /\ calls' \in Seq(LaterCall)
  BY ReturnType, ThisCall DEF TypesInv, Return
<1>2. calls' # <<>> => Head(calls') \in LaterCall
  BY <1>1
<1>3. \A t \in LaterCall : t.op \notin CheckOps \cup ServerOps \cup {"startPending", "request"}
  BY DEF LaterCall, LeafTask, PlainTask, CheckOps, ServerOps
<1> QED
  BY <1>1, <1>2, <1>3 DEF Quiet

\* When it calls others, the first of them is next.
LEMMA Calls ==
  ASSUME TypesInv, ~Idle, NEW t \in FirstCall, NEW s \in Seq(LaterCall), Call(<<t>> \o s)
  PROVE  IsStack(calls') /\ calls' # <<>> /\ Head(calls') = t
<1>1. IsStack(<<t>> \o s) /\ Tail(calls) \in Seq(LaterCall)
  BY StackOf, ThisCall
<1>2. IsStack(calls')
  BY <1>1, CallType DEF Call
<1>3. <<t>> \in Seq(FirstCall) /\ s \in Seq(FirstCall) /\ Tail(calls) \in Seq(FirstCall)
  BY <1>1, TaskTypes
<1> DEFINE r == s \o Tail(calls)
<1>4. calls' = <<t>> \o r /\ r \in Seq(FirstCall)
  BY <1>3, ConcatAssociative, ConcatProperties DEF Call
<1> HIDE DEF r
<1>5. calls' # <<>> /\ Head(calls') = t
  BY <1>4, ConcatProperties
<1> QED
  BY <1>2, <1>5

\* The same for one call.
LEMMA CallsOne ==
  ASSUME TypesInv, ~Idle, NEW t \in FirstCall, Call(<<t>>)
  PROVE  IsStack(calls') /\ calls' # <<>> /\ Head(calls') = t
<1>1. <<t>> \o <<>> = <<t>> /\ <<>> \in Seq(LaterCall)
  OBVIOUS
<1> QED
  BY <1>1, Calls

\* Two calls, in two parts.
LEMMA PairInParts ==
  ASSUME NEW t, NEW u
  PROVE  <<t>> \o <<u>> = <<t, u>>
<1> DEFINE S == {t, u}
<1>1. <<t>> \in Seq(S) /\ <<u>> \in Seq(S) /\ <<t, u>> \in Seq(S)
  OBVIOUS
<1> HIDE DEF S
<1>2. /\ Len(<<t>>) = 1 /\ Len(<<u>>) = 1 /\ Len(<<t, u>>) = 2
      /\ <<t>>[1] = t /\ <<u>>[1] = u /\ <<t, u>>[1] = t /\ <<t, u>>[2] = u
  OBVIOUS
<1> DEFINE a == <<t>>
           b == <<u>>
           c == <<t, u>>
<1>3. /\ a \in Seq(S) /\ b \in Seq(S) /\ c \in Seq(S)
      /\ Len(a) = 1 /\ Len(b) = 1 /\ Len(c) = 2
      /\ a[1] = t /\ b[1] = u /\ c[1] = t /\ c[2] = u
  BY <1>1, <1>2
<1> HIDE DEF a, b, c
<1>4. a \o b \in Seq(S) /\ Len(a \o b) = 2 /\ (a \o b)[1] = t /\ (a \o b)[2] = u
  BY <1>3, ConcatProperties
<1>5. \A i \in 1..2 : (a \o b)[i] = c[i]
  BY <1>3, <1>4
<1>6. a \o b = c
  BY <1>3, <1>4, <1>5, SeqEqual
<1> QED
  BY <1>6 DEF a, b, c

\* ... and for two.
LEMMA CallsTwo ==
  ASSUME TypesInv, ~Idle, NEW t \in FirstCall, NEW u \in LaterCall, Call(<<t, u>>)
  PROVE  IsStack(calls') /\ calls' # <<>> /\ Head(calls') = t
<1>1. <<u>> \in Seq(LaterCall)
  OBVIOUS
<1>2. Call(<<t>> \o <<u>>)
  BY PairInParts
<1> QED
  BY <1>1, <1>2, Calls

\* What an event begins with.
LEMMA Begins ==
  ASSUME NEW s \in Seq(LaterCall)
  PROVE  IsStack(s) /\ Quiet(s) /\ (s # <<>> => Head(s).op # "request")
<1>1. IsStack(s) /\ (s # <<>> => Head(s) \in LaterCall)
  BY LaterStack
<1>2. \A t \in LaterCall : t.op \notin CheckOps \cup ServerOps \cup {"startPending", "request"}
  BY DEF LaterCall, LeafTask, PlainTask, CheckOps, ServerOps
<1> QED
  BY <1>1, <1>2 DEF Quiet

\* A call for every country of a node, or of a queue.
LEMMA ForEach ==
  ASSUME NEW s \in Seq(Leaves),
         NEW op \in {"download", "retry", "enqueue", "delete"}
  PROVE  [k \in DOMAIN s |-> Task(op, s[k], 0)] \in Seq(LaterCall)
<1>1. Len(s) \in Nat /\ DOMAIN s = 1..Len(s) /\ \A k \in DOMAIN s : s[k] \in Leaves
  BY LenProperties, ElementOfSeq
<1>2. \A k \in DOMAIN s : Task(op, s[k], 0) \in LaterCall
  BY <1>1, TaskTypes
<1> QED
  BY <1>1, <1>2, IsASeq

-----------------------------------------------------------------------------
(* Every step keeps the types. *)

\* An event asks for countries.
LEMMA AskTypes ==
  ASSUME TypesInv, NEW n \in Nodes,
         DownloadNode(n) \/ RetryDownloadNode(n) \/ DeleteNode(n)
  PROVE  TypesInv' /\ Quiet(calls')
<1>1. Subtree[n] \in Seq(Leaves)
  BY TreeAssumption DEF Nodes
<1>2. calls' \in Seq(LaterCall)
  BY <1>1, ForEach DEF DownloadNode, RetryDownloadNode, DeleteNode
<1>3. IsStack(calls') /\ Quiet(calls') /\ ~Doing("request")'
  BY <1>2, Begins DEF Doing, Idle
<1>4. TypeOK'
  BY EventsAssumption
     DEF TypesInv, TypeOK, DownloadNode, RetryDownloadNode, DeleteNode, Event, MayHappen,
         queueVars, serverVars, countryVars, checkVars, threadVars, diskVars, mwmVars
<1> QED
  BY <1>3, <1>4 DEF TypesInv, DownloadNode, RetryDownloadNode, DeleteNode, queueVars, threadVars

\* DownloadCountry, if it does not have to ask a server.
LEMMA DownloadTypes ==
  ASSUME TypesInv, DownloadNothing \/ DownloadImpossible \/ DownloadFound
  PROVE  TypesInv' /\ Quiet(calls')
<1>1. ~Idle /\ This \in Leaves
  BY ThisCall DEF DownloadNothing, DownloadImpossible, DownloadFound, Wanted, Doing, LeafOps
<1>2. CASE DownloadNothing
  <2>1. IsStack(calls') /\ Quiet(calls') /\ ~Doing("request")'
    BY <1>1, <1>2, Returns DEF Doing, Idle, DownloadNothing
  <2>2. TypeOK'
    BY <1>1, <1>2 DEF TypesInv, TypeOK, DownloadNothing, queueVars, serverVars,
                      countryVars, checkVars, threadVars, diskVars, mwmVars
  <2> QED
    BY <1>2, <2>1, <2>2 DEF TypesInv, DownloadNothing, queueVars, threadVars
<1>3. CASE DownloadImpossible
  <2>1. IsStack(calls') /\ Quiet(calls') /\ ~Doing("request")'
    BY <1>1, <1>3, Returns DEF Doing, Idle, DownloadImpossible
  <2>2. TypeOK'
    BY <1>1, <1>3, EventsAssumption DEF TypesInv, TypeOK, DownloadImpossible, MayHappen,
                                        queueVars, serverVars, checkVars, threadVars,
                                        diskVars, mwmVars
  <2> QED
    BY <1>3, <2>1, <2>2 DEF TypesInv, DownloadImpossible, queueVars, threadVars
<1>4. CASE DownloadFound
  <2>1. Task("register", This, 0) \in FirstCall /\ Task("register", This, 0).op = "register"
    BY <1>1, TaskTypes DEF LeafOps, Task
  <2>2. IsStack(calls') /\ Quiet(calls') /\ ~Doing("request")'
    BY <1>1, <1>4, <2>1, CallsOne DEF Doing, Idle, DownloadFound, Quiet, CheckOps, ServerOps
  <2>3. TypeOK'
    BY <1>1, <1>4 DEF TypesInv, TypeOK, DownloadFound, queueVars, serverVars, checkVars,
                      threadVars, diskVars, mwmVars
  <2> QED
    BY <1>4, <2>2, <2>3 DEF TypesInv, DownloadFound, queueVars, threadVars
<1> QED
  BY <1>2, <1>3, <1>4

\* A downloaded map is verified, and registered.
LEMMA RegisterTypes ==
  ASSUME TypesInv, Verified \/ Rejected \/ RegisterDownloadedFiles \/
         RegisterMissingFile
  PROVE  TypesInv' /\ Quiet(calls')
<1>1. ~Idle /\ This \in Leaves
  BY ThisCall DEF Verified, Rejected, RegisterDownloadedFiles, RegisterMissingFile, Doing,
                  LeafOps
<1>2. CASE Verified
  <2>1. Task("register", This, 0) \in FirstCall /\ Task("register", This, 0).op = "register" /\ Do("finish") \in LaterCall
    BY <1>1, TaskTypes DEF LeafOps, PlainOps, Do, Task
  <2>2. IsStack(calls') /\ Quiet(calls') /\ ~Doing("request")'
    BY <1>1, <1>2, <2>1, CallsTwo DEF Doing, Idle, Verified, Quiet, CheckOps, ServerOps
  <2>3. TypeOK'
    BY <1>1, <1>2 DEF TypesInv, TypeOK, Verified, queueVars, serverVars, countryVars,
                      checkVars, threadVars, diskVars, mwmVars
  <2> QED
    BY <1>2, <2>2, <2>3 DEF TypesInv, Verified, queueVars, threadVars
<1>3. CASE Rejected
  <2>1. Do("finish") \in FirstCall /\ Do("finish").op = "finish"
    BY <1>1, TaskTypes DEF PlainOps, Do, Task
  <2>2. IsStack(calls') /\ Quiet(calls') /\ ~Doing("request")'
    BY <1>1, <1>3, <2>1, CallsOne DEF Doing, Idle, Rejected, Quiet, CheckOps, ServerOps
  <2>3. TypeOK'
    BY <1>1, <1>3 DEF TypesInv, TypeOK, Rejected, queueVars, serverVars, checkVars,
                      threadVars, diskVars, mwmVars
  <2> QED
    BY <1>3, <2>2, <2>3 DEF TypesInv, Rejected, queueVars, threadVars
<1>4. CASE RegisterDownloadedFiles
  <2>1. IsStack(calls') /\ Quiet(calls') /\ ~Doing("request")'
    BY <1>1, <1>4, Returns DEF Doing, Idle, RegisterDownloadedFiles
  <2>2. version \in Versions /\ version \in 0..MaxVersion /\ mwm[This] \in 0..MaxVersion
    BY <1>1, VersionAssumption DEF TypesInv, TypeOK, Versions
  <2>3. mwm' \in [Leaves -> 0..MaxVersion] /\ localFiles' \in [Leaves -> SUBSET Versions]
    BY <1>1, <1>4, <2>2 DEF TypesInv, TypeOK, RegisterDownloadedFiles
  <2>4. /\ doomed' \subseteq Leaves \X Versions
        /\ \A f \in disk' \cup ready' : f.id \in Leaves /\ f.version \in Versions
    <3>1. PICK held \in MayBeHeld :
            LET file == Of(ready, This, version)
                replaced == mwm[This] \notin {0, version}
            IN  /\ disk' = (disk \ (Of(disk, This, version)
                                \cup IF replaced THEN Deletes(This, held) ELSE {})) \cup file
                /\ doomed' = (doomed \ {<<This, version>>})
                               \cup IF replaced THEN Dooms(This, held) ELSE {}
                /\ ready' = ready \ file
      BY <1>4 DEF RegisterDownloadedFiles
    <3>2. mwm[This] \notin {0, version} => Dooms(This, held) \subseteq Leaves \X Versions
      BY <1>1, <2>2, VersionAssumption DEF Dooms, Versions
    <3>3. doomed' \subseteq Leaves \X Versions
      BY <3>1, <3>2 DEF TypesInv, TypeOK
    <3> QED
      BY <3>1, <3>3 DEF TypesInv, TypeOK, Of
  <2>5. TypeOK'
    BY <1>1, <1>4, <2>3, <2>4
    DEF TypesInv, TypeOK, RegisterDownloadedFiles, queueVars, serverVars, checkVars,
        threadVars, GetQueue
  <2> QED
    BY <1>4, <2>1, <2>5 DEF TypesInv, RegisterDownloadedFiles, queueVars, threadVars
<1>5. CASE RegisterMissingFile
  <2>1. IsStack(calls') /\ Quiet(calls') /\ ~Doing("request")'
    BY <1>1, <1>5, Returns DEF Doing, Idle, RegisterMissingFile
  <2>2. TypeOK'
    BY <1>1, <1>5 DEF TypesInv, TypeOK, RegisterMissingFile, queueVars, serverVars,
                      checkVars, threadVars, mwmVars, Of
  <2> QED
    BY <1>5, <2>1, <2>2 DEF TypesInv, RegisterMissingFile, queueVars, threadVars
<1> QED
  BY <1>2, <1>3, <1>4, <1>5

\* A download is cancelled, a map is deleted.
LEMMA CancelTypes ==
  ASSUME TypesInv, Forgive \/ Stop \/ CleanUp \/ DeleteCountry \/ DeleteNothing \/
         DeleteCustomCountryVersion
  PROVE  TypesInv' /\ Quiet(calls')
<1>1. ~Idle /\ This \in Leaves
  BY ThisCall DEF Forgive, Stop, CleanUp, DeleteCountry, DeleteNothing,
                  DeleteCustomCountryVersion, Doing, LeafOps
<1>2. CASE Forgive
  <2>1. IsStack(calls') /\ Quiet(calls') /\ ~Doing("request")'
    BY <1>1, <1>2, Returns DEF Doing, Idle, Forgive
  <2>2. TypeOK'
    BY <1>1, <1>2 DEF TypesInv, TypeOK, Forgive, queueVars, serverVars, checkVars,
                      threadVars, diskVars, mwmVars
  <2> QED
    BY <1>2, <2>1, <2>2 DEF TypesInv, Forgive, queueVars, threadVars
<1>3. CASE Stop
  <2>1. IsStack(calls') /\ Quiet(calls') /\ ~Doing("request")'
    BY <1>1, <1>3, Returns DEF Doing, Idle, Stop
  <2>2. TypeOK'
    BY <1>1, <1>3 DEF TypesInv, TypeOK, Stop, queueVars, serverVars, checkVars,
                      threadVars, diskVars, mwmVars
  <2> QED
    BY <1>3, <2>1, <2>2 DEF TypesInv, Stop, queueVars, threadVars
<1>4. CASE CleanUp
  <2>1. IsStack(calls') /\ Quiet(calls') /\ ~Doing("request")'
    BY <1>1, <1>4, Returns DEF Doing, Idle, CleanUp
  <2>2. TypeOK'
    BY <1>1, <1>4 DEF TypesInv, TypeOK, CleanUp, queueVars, serverVars, countryVars,
                      checkVars, threadVars, mwmVars, GetQueue, Of
  <2> QED
    BY <1>4, <2>1, <2>2 DEF TypesInv, CleanUp, queueVars, threadVars
<1>5. CASE DeleteCountry
  <2>1. /\ Task("remove", This, 0) \in FirstCall /\ Task("remove", This, 0).op = "remove"
        /\ Task("stop", This, 0) \in LaterCall
    BY <1>1, TaskTypes DEF LeafOps, PlainOps, Do, Task
  <2>2. IsStack(calls') /\ Quiet(calls') /\ ~Doing("request")'
    BY <1>1, <1>5, <2>1, CallsTwo DEF Doing, Idle, DeleteCountry, Quiet, CheckOps, ServerOps
  <2>3. mwm[This] \in 0..MaxVersion /\ 0 \in 0..MaxVersion
    BY <1>1, VersionAssumption DEF TypesInv, TypeOK
  <2>4. mwm' \in [Leaves -> 0..MaxVersion] /\ localFiles' \in [Leaves -> SUBSET Versions]
    BY <1>1, <1>5, <2>3 DEF TypesInv, TypeOK, DeleteCountry
  <2>5. doomed' \subseteq Leaves \X Versions /\ disk' \subseteq disk
    <3>1. PICK held \in MayBeHeld :
            /\ disk' = IF mwm[This] = 0 THEN disk ELSE disk \ Deletes(This, held)
            /\ doomed' = IF mwm[This] = 0 THEN doomed ELSE doomed \cup Dooms(This, held)
      BY <1>5 DEF DeleteCountry
    <3>2. mwm[This] # 0 => Dooms(This, held) \subseteq Leaves \X Versions
      BY <1>1, <2>3, VersionAssumption DEF Dooms, Versions
    <3> QED
      BY <3>1, <3>2 DEF TypesInv, TypeOK
  <2>6. TypeOK'
    BY <1>1, <1>5, <2>4, <2>5
    DEF TypesInv, TypeOK, DeleteCountry, queueVars, serverVars, checkVars, threadVars
  <2> QED
    BY <1>5, <2>2, <2>6 DEF TypesInv, DeleteCountry, queueVars, threadVars
<1>6. CASE DeleteNothing
  <2>1. IsStack(calls') /\ Quiet(calls') /\ ~Doing("request")'
    BY <1>1, <1>6, Returns DEF Doing, Idle, DeleteNothing
  <2>2. TypeOK'
    BY <1>1, <1>6 DEF TypesInv, TypeOK, DeleteNothing, queueVars, serverVars,
                      countryVars, checkVars, threadVars, diskVars, mwmVars
  <2> QED
    BY <1>6, <2>1, <2>2 DEF TypesInv, DeleteNothing, queueVars, threadVars
<1>7. CASE DeleteCustomCountryVersion
  <2>1. IsStack(calls') /\ Quiet(calls') /\ ~Doing("request")'
    BY <1>1, <1>7, Returns DEF Doing, Idle, DeleteCustomCountryVersion
  <2>2. TypeOK'
    BY <1>1, <1>7 DEF TypesInv, TypeOK, DeleteCustomCountryVersion, queueVars,
                      serverVars, countryVars, checkVars, threadVars, mwmVars
  <2> QED
    BY <1>7, <2>1, <2>2 DEF TypesInv, DeleteCustomCountryVersion, queueVars, threadVars
<1> QED
  BY <1>2, <1>3, <1>4, <1>5, <1>6, <1>7

\* The request for the top of the queue is made.
LEMMA RequestTypes ==
  ASSUME TypesInv, StartRequest \/ StartRequestWithoutFile \/ RequestForbidden
  PROVE  TypesInv' /\ Quiet(calls')
<1>1. ~Idle /\ queue # <<>> /\ Head(queue) \in Leaves /\ Tail(queue) \in Seq(Leaves)
  BY HeadTailProperties DEF StartRequest, StartRequestWithoutFile, RequestForbidden,
                            Doing, TypesInv, TypeOK
<1>2. CASE StartRequest
  <2>1. IsStack(calls') /\ Quiet(calls') /\ ~Doing("request")'
    BY <1>1, <1>2, Returns DEF Doing, Idle, StartRequest
  <2>2. TypeOK'
    BY <1>1, <1>2 DEF TypesInv, TypeOK, StartRequest, serverVars, checkVars, threadVars,
                      diskVars, mwmVars, Request
  <2> QED
    BY <1>2, <2>1, <2>2 DEF TypesInv, StartRequest, threadVars
<1>3. CASE StartRequestWithoutFile
  <2>1. IsStack(calls') /\ Quiet(calls') /\ ~Doing("request")'
    BY <1>1, <1>3, Returns DEF Doing, Idle, StartRequestWithoutFile
  <2>2. TypeOK'
    BY <1>1, <1>3, EventsAssumption DEF TypesInv, TypeOK, StartRequestWithoutFile,
                                        MayHappen, serverVars, checkVars, threadVars,
                                        diskVars, mwmVars
  <2> QED
    BY <1>3, <2>1, <2>2 DEF TypesInv, StartRequestWithoutFile, threadVars
<1>4. CASE RequestForbidden
  <2>1. Do("finish") \in FirstCall /\ Do("finish").op = "finish" /\ Do("next") \in LaterCall
    BY <1>1, TaskTypes DEF LeafOps, PlainOps, Do, Task
  <2>2. IsStack(calls') /\ Quiet(calls') /\ ~Doing("request")'
    BY <1>1, <1>4, <2>1, CallsTwo DEF Doing, Idle, RequestForbidden, Quiet, CheckOps, ServerOps
  <2>3. TypeOK'
    BY <1>1, <1>4, EventsAssumption DEF TypesInv, TypeOK, RequestForbidden, MayHappen,
                                        serverVars, checkVars, threadVars, diskVars,
                                        mwmVars
  <2> QED
    BY <1>4, <2>2, <2>3 DEF TypesInv, RequestForbidden, threadVars
<1> QED
  BY <1>2, <1>3, <1>4

\* A queue is cleared, a download was not the last one.
LEMMA QuietTypes ==
  ASSUME TypesInv, ClearPending \/ FinishDownloading
  PROVE  TypesInv' /\ Quiet(calls')
<1>1. ~Idle
  BY ThisCall DEF ClearPending, FinishDownloading, Doing
<1>2. CASE ClearPending
  <2>1. IsStack(calls') /\ Quiet(calls') /\ ~Doing("request")'
    BY <1>1, <1>2, Returns DEF Doing, Idle, ClearPending
  <2>2. TypeOK'
    BY <1>1, <1>2 DEF TypesInv, TypeOK, ClearPending, serverVars, countryVars,
                      checkVars, threadVars, diskVars, mwmVars
  <2> QED
    BY <1>2, <2>1, <2>2 DEF TypesInv, ClearPending, threadVars
<1>3. CASE FinishDownloading
  <2>1. IsStack(calls') /\ Quiet(calls') /\ ~Doing("request")'
    BY <1>1, <1>3, Returns DEF Doing, Idle, FinishDownloading
  <2>2. TypeOK'
    BY <1>1, <1>3 DEF TypesInv, TypeOK, FinishDownloading, queueVars, serverVars,
                      countryVars, checkVars, threadVars, diskVars, mwmVars
  <2> QED
    BY <1>3, <2>1, <2>2 DEF TypesInv, FinishDownloading, queueVars, threadVars
<1> QED
  BY <1>2, <1>3

\* The queue is filled, goes on, or loses a country.
LEMMA QueueTypes ==
  ASSUME TypesInv, EnqueueCountry \/ NextRequest \/ RemoveFromQueue
  PROVE  TypesInv' /\ Quiet(calls')
<1>1. /\ Do("request") \in FirstCall /\ Do("request").op = "request"
      /\ Do("request").op \notin CheckOps \cup ServerOps \cup {"startPending"}
  BY TaskTypes DEF PlainOps, Do, Task, CheckOps, ServerOps
<1>2. CASE EnqueueCountry
  <2>1. ~Idle /\ This \in Leaves
    BY <1>2, ThisCall DEF EnqueueCountry, Doing, LeafOps
  <2>2. Append(queue, This) \in Seq(Leaves) /\ Append(queue, This) # <<>>
    <3>1. queue \in Seq(Leaves)
      BY DEF TypesInv, TypeOK
    <3> QED
      BY <2>1, <3>1, AppendProperties
  <2>3. IsStack(calls') /\ Quiet(calls')
    BY <1>1, <1>2, <2>1, CallsOne, Returns DEF EnqueueCountry, Quiet
  <2>4. TypeOK'
    BY <1>2, <2>1, <2>2
    DEF TypesInv, TypeOK, EnqueueCountry, serverVars, countryVars, checkVars, threadVars,
        diskVars, mwmVars
  <2> QED
    BY <1>2, <2>2, <2>3, <2>4 DEF TypesInv, EnqueueCountry, threadVars
<1>3. CASE NextRequest
  <2>1. ~Idle
    BY <1>3 DEF NextRequest, Doing
  <2>2. CASE queue # <<>>
    <3>1. IsStack(calls') /\ Quiet(calls')
      BY <1>1, <1>3, <2>1, <2>2, CallsOne DEF NextRequest, Quiet
    <3>2. TypeOK'
      BY <1>3
      DEF TypesInv, TypeOK, NextRequest, serverVars, countryVars, checkVars, threadVars,
          diskVars, mwmVars
    <3> QED
      BY <1>3, <2>2, <3>1, <3>2 DEF TypesInv, NextRequest, threadVars
  <2>3. CASE queue = <<>>
    <3>1. IsStack(calls') /\ Quiet(calls') /\ ~Doing("request")'
      BY <1>3, <2>1, <2>3, Returns DEF NextRequest, Doing, Idle
    <3>2. TypeOK'
      BY <1>3
      DEF TypesInv, TypeOK, NextRequest, serverVars, countryVars, checkVars, threadVars,
          diskVars, mwmVars
    <3> QED
      BY <1>3, <3>1, <3>2 DEF TypesInv, NextRequest, threadVars
  <2> QED
    BY <2>2, <2>3
<1>4. CASE RemoveFromQueue
  <2>1. ~Idle /\ This \in Leaves
    BY <1>4, ThisCall DEF RemoveFromQueue, Doing, LeafOps
  <2>2. /\ RemoveFirst(queue, This) \in Seq(Leaves)
        /\ RemoveFirst(pending, This) \in Seq(Leaves)
    BY RemoveFirstType DEF TypesInv, TypeOK
  <2> DEFINE cleanup == Task("cleanup", This, 0)
  <2>3. cleanup \in LaterCall /\ cleanup \in FirstCall /\ cleanup.op = "cleanup"
    BY <2>1, TaskTypes DEF LeafOps, Task
  <2>4. cleanup.op \notin CheckOps \cup ServerOps \cup {"startPending"}
    BY <2>3 DEF CheckOps, ServerOps
  <2>5. \/ queue' # <<>> /\ Call(<<Do("request")>> \o <<cleanup>>)
        \/ Call(<<>> \o <<cleanup>>)
    BY <1>4 DEF RemoveFromQueue
  <2> HIDE DEF cleanup
  <2>6. IsStack(calls') /\ Quiet(calls') /\ (Doing("request")' => queue' # <<>>)
    <3>1. CASE queue' # <<>> /\ Call(<<Do("request")>> \o <<cleanup>>)
      <4>1. <<cleanup>> \in Seq(LaterCall)
        BY <2>3
      <4>2. IsStack(calls') /\ calls' # <<>> /\ Head(calls') = Do("request")
        BY <1>1, <2>1, <3>1, <4>1, Calls
      <4> QED
        BY <1>1, <3>1, <4>2 DEF Quiet
    <3>2. CASE Call(<<>> \o <<cleanup>>)
      <4>1. <<>> \o <<cleanup>> = <<cleanup>>
        OBVIOUS
      <4>2. IsStack(calls') /\ calls' # <<>> /\ Head(calls') = cleanup
        BY <2>1, <2>3, <3>2, <4>1, CallsOne
      <4>3. ~Doing("request")'
        BY <4>2, <2>3 DEF Doing
      <4> QED
        BY <2>4, <4>2, <4>3 DEF Quiet
    <3> QED
      BY <2>5, <3>1, <3>2
  <2>7. TypeOK'
    BY <1>4, <2>2
    DEF TypesInv, TypeOK, RemoveFromQueue, serverVars, countryVars, checkVars, threadVars,
        diskVars, mwmVars
  <2> QED
    BY <1>4, <2>6, <2>7 DEF TypesInv, RemoveFromQueue, threadVars
<1> QED
  BY <1>2, <1>3, <1>4

\* A call that calls others which could as well have waited.
LEMMA CallsLater ==
  ASSUME TypesInv, ~Idle, NEW s \in Seq(LaterCall), Call(s)
  PROVE  IsStack(calls') /\ Quiet(calls') /\ ~Doing("request")'
<1>1. calls' \in Seq(LaterCall)
  BY ThisCall, ConcatProperties DEF Call
<1> QED
  BY <1>1, Begins DEF Doing, Idle

\* The pending requests become calls.
LEMMA EnqueueType ==
  ASSUME TypesInv
  PROVE  Enqueue(pending) \in Seq(LaterCall)
<1>1. pending \in Seq(Leaves)
  BY DEF TypesInv, TypeOK
<1>2. [k \in DOMAIN pending |-> Task("enqueue", pending[k], 0)] \in Seq(LaterCall)
  BY <1>1, ForEach
<1>3. Do("clearPending") \in LaterCall
  BY TaskTypes
<1>4. <<Do("clearPending")>> \in Seq(LaterCall)
  BY <1>3
<1> QED
  BY <1>2, <1>4, ConcatProperties DEF Enqueue

\* A task is added to those of a thread.
LEMMA PostType ==
  /\ \A t \in NetworkTask : TypesInv => Append(network, t) \in Seq(NetworkTask)
  /\ \A t \in GuiTask : TypesInv => Append(gui, t) \in Seq(GuiTask)
  /\ \A t \in ThreadTask : TypesInv => Append(fileThread, t) \in Seq(ThreadTask)
BY AppendProperties DEF TypesInv

\* ... and is taken from it.
LEMMA TakeType ==
  /\ TypesInv /\ network # <<>> => Head(network) \in NetworkTask /\ Tail(network) \in Seq(NetworkTask)
  /\ TypesInv /\ gui # <<>> => Head(gui) \in GuiTask /\ Tail(gui) \in Seq(GuiTask)
  /\ TypesInv /\ fileThread # <<>> =>
       Head(fileThread) \in ThreadTask /\ Tail(fileThread) \in Seq(ThreadTask)
BY HeadTailProperties DEF TypesInv

\* The pending requests are started, as soon as there are servers.
LEMMA PendingTypes ==
  ASSUME TypesInv, StartPending \/ GotServersForMaps \/ GotServersForText
  PROVE  TypesInv' /\ Quiet(calls')
<1>1. ~Idle
  BY DEF StartPending, GotServersForMaps, GotServersForText, Doing
<1>2. CASE StartPending
  <2>1. IsStack(calls') /\ Quiet(calls') /\ ~Doing("request")'
    BY <1>1, <1>2, Returns, EnqueueType, CallsLater DEF StartPending, Doing, Idle
  <2>2. network' \in Seq(NetworkTask) /\ requested' \in BOOLEAN
    <3>1. Do("downloadPending") \in NetworkTask
      BY TaskTypes
    <3> QED
      BY <1>2, <3>1, PostType DEF StartPending, AskMetaServer, TypesInv, TypeOK
  <2>3. TypeOK'
    BY <1>2, <2>2
    DEF TypesInv, TypeOK, StartPending, queueVars, countryVars, checkVars, diskVars, mwmVars
  <2> QED
    BY <1>2, <2>1, <2>2, <2>3 DEF TypesInv, StartPending
<1>3. CASE GotServersForMaps
  <2>1. IsStack(calls') /\ Quiet(calls') /\ ~Doing("request")'
    BY <1>1, <1>3, EnqueueType, CallsLater DEF GotServersForMaps
  <2>2. TypeOK'
    BY <1>3
    DEF TypesInv, TypeOK, GotServersForMaps, queueVars, countryVars, checkVars, threadVars,
        diskVars, mwmVars
  <2> QED
    BY <1>3, <2>1, <2>2 DEF TypesInv, GotServersForMaps, threadVars
<1>4. CASE GotServersForText
  <2>1. IsStack(calls') /\ Quiet(calls') /\ ~Doing("request")'
    BY <1>1, <1>4, Returns DEF GotServersForText, Doing, Idle
  <2>2. TypeOK'
    BY <1>4
    DEF TypesInv, TypeOK, GotServersForText, Doing, queueVars, countryVars, threadVars,
        diskVars, mwmVars
  <2> QED
    BY <1>4, <2>1, <2>2 DEF TypesInv, GotServersForText, threadVars
<1> QED
  BY <1>2, <1>3, <1>4

\* DownloadCountry puts a country among the pending requests.
LEMMA DownloadQueuedTypes ==
  ASSUME TypesInv, DownloadQueued
  PROVE  TypesInv'
<1>1. ~Idle /\ This \in Leaves
  BY ThisCall DEF DownloadQueued, Wanted, Doing, LeafOps
<1>2. /\ Do("startPending") \in FirstCall /\ Do("startPending").op = "startPending"
  BY TaskTypes DEF PlainOps, Do, Task
<1>3. Return \/ Call(<<Do("startPending")>>)
  BY DEF DownloadQueued
<1>4. IsStack(calls') /\ ~Doing("request")'
  BY <1>1, <1>2, <1>3, Returns, CallsOne DEF Doing, Idle
<1>5. Append(pending, This) \in Seq(Leaves)
  <2>1. pending \in Seq(Leaves)
    BY DEF TypesInv, TypeOK
  <2> QED
    BY <1>1, <2>1, AppendProperties
<1>6. pending' \in Seq(Leaves) /\ saved' \in Seq(Leaves)
  BY <1>5 DEF DownloadQueued, TypesInv, TypeOK
<1>7. checking' \in BOOLEAN /\ fetch' \in {"none", "maps", "servers", "countries", "signature"}
  BY DEF DownloadQueued, StartCheck, TypesInv, TypeOK
<1>8. TypeOK'
  BY <1>1, <1>6, <1>7
  DEF TypesInv, TypeOK, DownloadQueued, serverVars, threadVars, diskVars, mwmVars
<1> QED
  BY <1>4, <1>8 DEF TypesInv, DownloadQueued, threadVars

\* What RegisterAllLocalMaps finds: the latest of the maps of a country, if there is one.
LEMMA LocalMapsType ==
  ASSUME TypesInv, NEW v
  PROVE  /\ LocalMaps(v) \in [Leaves -> SUBSET Versions]
         /\ \A c \in Leaves : LocalMaps(v)[c] # {} =>
              \E w \in Known(disk, c, v) :
                /\ LocalMaps(v)[c] = {w} /\ Max(LocalMaps(v)[c]) = w /\ w \in Versions
                /\ \A u \in Known(disk, c, v) : u <= w
         /\ \A c \in Leaves : LocalMaps(v)[c] = {} => Known(disk, c, v) = {}
<1>1. \A c \in Leaves : Known(disk, c, v) \subseteq Versions
  BY DEF Known, TypesInv, TypeOK
<1>2. ASSUME NEW c \in Leaves, Known(disk, c, v) # {}
      PROVE  /\ Max(Known(disk, c, v)) \in Known(disk, c, v)
             /\ \A u \in Known(disk, c, v) : u <= Max(Known(disk, c, v))
  <2>1. Known(disk, c, v) \subseteq 0..MaxVersion /\ MaxVersion \in Nat
    BY <1>1, VersionAssumption DEF Versions
  <2> QED
    BY <1>2, <2>1, MaxIsLargest
<1>3. \A w \in Versions : Max({w}) = w
  BY DEF Max, Versions
<1>4. \A c \in Leaves : LocalMaps(v)[c] = IF Known(disk, c, v) = {} THEN {} ELSE {Max(Known(disk, c, v))}
  BY DEF LocalMaps
<1>5. LocalMaps(v) \in [Leaves -> SUBSET Versions]
  BY <1>1, <1>2 DEF LocalMaps
<1>6. ASSUME NEW c \in Leaves, LocalMaps(v)[c] # {}
      PROVE  \E w \in Known(disk, c, v) :
               /\ LocalMaps(v)[c] = {w} /\ Max(LocalMaps(v)[c]) = w /\ w \in Versions
               /\ \A u \in Known(disk, c, v) : u <= w
  <2> DEFINE w == Max(Known(disk, c, v))
  <2>1. Known(disk, c, v) # {} /\ LocalMaps(v)[c] = {w}
    BY <1>4, <1>6
  <2>2. w \in Known(disk, c, v) /\ w \in Versions /\ \A u \in Known(disk, c, v) : u <= w
    BY <1>1, <1>2, <2>1
  <2>3. Max(LocalMaps(v)[c]) = w
    BY <1>3, <2>1, <2>2
  <2> HIDE DEF w
  <2> QED
    BY <2>1, <2>2, <2>3
<1> QED
  BY <1>4, <1>5, <1>6

\* The maps that are registered again have their types.
LEMMA RegisterAllType ==
  ASSUME TypesInv, NEW v, RegisterAllLocalMaps(v)
  PROVE  /\ localFiles' \in [Leaves -> SUBSET Versions]
         /\ \A f \in disk' \cup ready' : f.id \in Leaves /\ f.version \in Versions
BY LocalMapsType DEF RegisterAllLocalMaps, TypesInv, TypeOK

\* One event of the user or of the environment less may come.
LEMMA OneEventLess ==
  ASSUME TypesInv, left > 0, left' = left - 1
  PROVE  left' \in 0..MaxEvents
BY EventsAssumption DEF TypesInv, TypeOK

\* A new version is applied, or put off.
LEMMA ApplyTypes ==
  ASSUME TypesInv, ApplyPendingCountries \/ ApplyCountriesInMemory \/ ApplyOrDefer
  PROVE  TypesInv'
<1>1. ~Idle
  BY DEF ApplyPendingCountries, ApplyCountriesInMemory, ApplyOrDefer, Doing
<1>2. /\ Do("startPending") \in FirstCall /\ Do("startPending").op = "startPending"
      /\ \A v \in Versions : /\ Task("apply", NoCountry, v) \in FirstCall
                             /\ Task("apply", NoCountry, v).op = "apply"
  BY TaskTypes DEF PlainOps, CheckOps, Do, Task
<1>3. \A v \in 0..MaxVersion : v # 0 => v \in Versions
  BY VersionAssumption DEF Versions
<1>4. 0 \in 0..MaxVersion /\ \A v \in Versions : v \in 0..MaxVersion
  BY VersionAssumption DEF Versions
<1>5. CASE ApplyPendingCountries
  <2>1. deferred \in Versions
    BY <1>3, <1>5 DEF TypesInv, TypeOK, ApplyPendingCountries
  <2>2. IsStack(calls') /\ ~Doing("request")'
    BY <1>1, <1>2, <1>5, <2>1, CallsOne DEF Doing, Idle, ApplyPendingCountries
  <2>3. TypeOK'
    BY <1>4, <1>5
    DEF TypesInv, TypeOK, ApplyPendingCountries, EndCheck, queueVars, serverVars, countryVars,
        threadVars, diskVars, mwmVars
  <2> QED
    BY <1>5, <2>2, <2>3 DEF TypesInv, ApplyPendingCountries, threadVars
<1>6. CASE ApplyCountriesInMemory
  <2>1. Arg \in Versions
    BY <1>1, <1>6, ThisCall DEF ApplyCountriesInMemory, Doing, CheckOps
  <2>2. IsStack(calls') /\ ~Doing("request")'
    BY <1>1, <1>2, <1>6, CallsOne DEF Doing, Idle, ApplyCountriesInMemory
  <2>3. /\ localFiles' \in [Leaves -> SUBSET Versions]
        /\ \A f \in disk' \cup ready' : f.id \in Leaves /\ f.version \in Versions
    BY <1>6, RegisterAllType DEF ApplyCountriesInMemory
  <2>4. TypeOK'
    BY <1>6, <2>1, <2>3
    DEF TypesInv, TypeOK, ApplyCountriesInMemory, EndCheck, queueVars, serverVars,
        threadVars, mwmVars
  <2> QED
    BY <1>6, <2>2, <2>4 DEF TypesInv, ApplyCountriesInMemory, threadVars
<1>7. CASE ApplyOrDefer
  <2>1. Arg \in Versions
    BY <1>1, <1>7, ThisCall DEF ApplyOrDefer, Doing, CheckOps
  <2>2. \/ Call(<<Task("apply", NoCountry, Arg)>>)
        \/ Return
        \/ Call(<<Do("startPending")>>)
    BY <1>7 DEF ApplyOrDefer
  <2>3. IsStack(calls') /\ ~Doing("request")'
    BY <1>1, <1>2, <2>1, <2>2, CallsOne, Returns DEF Doing, Idle
  <2>4. /\ deferred' \in 0..MaxVersion /\ checking' \in BOOLEAN
        /\ fetch' \in {"none", "maps", "servers", "countries", "signature"}
        /\ left' \in 0..MaxEvents
    <3>1. CASE left' = left /\ deferred' = deferred /\ UNCHANGED <<checking, fetch>>
      BY <3>1 DEF TypesInv, TypeOK
    <3>2. CASE left' \in {left, left - 1} /\ deferred' = Arg /\ UNCHANGED <<checking, fetch>>
      BY <1>4, <1>7, <2>1, <3>2, OneEventLess
      DEF TypesInv, TypeOK, ApplyOrDefer, MayHappen
    <3>3. CASE left' \in {left, left - 1} /\ deferred' = deferred /\ EndCheck
      BY <1>4, <1>7, <2>1, <3>3, OneEventLess
      DEF TypesInv, TypeOK, ApplyOrDefer, MayHappen, EndCheck
    <3> QED
      BY <1>7, <3>1, <3>2, <3>3 DEF ApplyOrDefer
  <2>5. TypeOK'
    BY <1>7, <2>4
    DEF TypesInv, TypeOK, ApplyOrDefer, queueVars, serverVars, countryVars, threadVars,
        diskVars, mwmVars
  <2> QED
    BY <1>7, <2>3, <2>5 DEF TypesInv, ApplyOrDefer, threadVars
<1> QED
  BY <1>5, <1>6, <1>7

\* A new event begins, or goes by without a call.
LEMMA EventTypes ==
  ASSUME TypesInv,
         RequestFailed \/ RunCountriesCheck \/ ResetMapDownloadMetaConfig \/ CountriesFetched
  PROVE  TypesInv' /\ Quiet(calls')
<1>1. Idle /\ calls = <<>> /\ ~Doing("request")
  BY DEF RequestFailed, RunCountriesCheck, ResetMapDownloadMetaConfig, CountriesFetched,
         Event, Doing, Idle
<1>2. CASE RequestFailed
  <2>1. calls' \in Seq(LaterCall)
    <3>1. Do("finish") \in LaterCall /\ Do("next") \in LaterCall
      BY TaskTypes
    <3>2. <<Do("finish"), Do("next")>> \in Seq(LaterCall)
      BY <3>1
    <3> QED
      BY <1>2, <3>2 DEF RequestFailed
  <2>2. IsStack(calls') /\ Quiet(calls') /\ ~Doing("request")'
    BY <2>1, Begins DEF Doing, Idle
  <2>3. request.id \in Leaves /\ queue # <<>>
    BY <1>2 DEF RequestFailed, IsOfTheTop, TypesInv, TypeOK, Request
  <2>4. Tail(queue) \in Seq(Leaves)
    BY <2>3, HeadTailProperties DEF TypesInv, TypeOK
  <2>5. left' \in 0..MaxEvents
    BY <1>2, OneEventLess DEF RequestFailed, Event, MayHappen
  <2>6. TypeOK'
    BY <1>2, <2>3, <2>4, <2>5
    DEF TypesInv, TypeOK, RequestFailed, serverVars, checkVars, threadVars, diskVars, mwmVars
  <2> QED
    BY <1>2, <2>2, <2>6 DEF TypesInv, RequestFailed, threadVars
<1>3. CASE RunCountriesCheck
  <2>1. left' \in 0..MaxEvents
    BY <1>3, OneEventLess DEF RunCountriesCheck, Event, MayHappen
  <2>2. TypeOK'
    BY <1>3, <2>1
    DEF TypesInv, TypeOK, RunCountriesCheck, StartCheck, queueVars, serverVars, countryVars,
        threadVars, diskVars, mwmVars
  <2>3. calls' = calls
    BY <1>3 DEF RunCountriesCheck
  <2> QED
    BY <1>1, <1>3, <2>2, <2>3
    DEF TypesInv, RunCountriesCheck, threadVars, queueVars, Doing, Idle, Quiet
<1>4. CASE ResetMapDownloadMetaConfig
  <2>1. left' \in 0..MaxEvents
    BY <1>4, OneEventLess DEF ResetMapDownloadMetaConfig, Event, MayHappen
  <2>2. TypeOK'
    BY <1>4, <2>1
    DEF TypesInv, TypeOK, ResetMapDownloadMetaConfig, queueVars, countryVars, checkVars,
        threadVars, diskVars, mwmVars
  <2>3. calls' = calls
    BY <1>4 DEF ResetMapDownloadMetaConfig
  <2> QED
    BY <1>1, <1>4, <2>2, <2>3
    DEF TypesInv, ResetMapDownloadMetaConfig, threadVars, queueVars, Doing, Idle, Quiet
<1>5. CASE CountriesFetched
  <2>1. network' \in Seq(NetworkTask) /\ requested' \in BOOLEAN
    <3>1. Do("signature") \in NetworkTask
      BY TaskTypes DEF ServerOps
    <3> QED
      BY <1>5, <3>1, PostType DEF CountriesFetched, AskMetaServer, TypesInv, TypeOK
  <2>2. TypeOK'
    BY <1>5, <2>1
    DEF TypesInv, TypeOK, CountriesFetched, queueVars, countryVars, diskVars, mwmVars
  <2>3. calls' = calls
    BY <1>5 DEF CountriesFetched
  <2> QED
    BY <1>1, <1>5, <2>1, <2>2, <2>3
    DEF TypesInv, CountriesFetched, queueVars, Doing, Idle, Quiet
<1> QED
  BY <1>2, <1>3, <1>4, <1>5

\* What the cancellation of a node calls.
CancelCall == LeafTask({"remove", "forgive", "stop"})

\* They are a sequence of such calls.
LEMMA CancelCalls ==
  ASSUME NEW n \in Nodes
  PROVE  CancelSteps(n) \in Seq(CancelCall)
<1> DEFINE queued == Range(GetQueue)
           Leaf(c) == (IF c \in queued THEN <<Task("remove", c, 0)>> ELSE <<>>)
                        \o <<Task("forgive", c, 0)>>
           leaves == [k \in DOMAIN Subtree[n] |-> Leaf(Subtree[n][k])]
           stop == IF n \in Leaves THEN <<Task("stop", n, 0)>> ELSE <<>>
<1> \A op \in {"remove", "forgive", "stop"}, c \in Leaves : Task(op, c, 0) \in CancelCall
  BY DEF CancelCall, LeafTask, Task
<1>1. \A c \in Leaves : Leaf(c) \in Seq(CancelCall)
  <2>1. SUFFICES ASSUME NEW c \in Leaves PROVE Leaf(c) \in Seq(CancelCall)
    OBVIOUS
  <2>2. Task("remove", c, 0) \in CancelCall /\ Task("forgive", c, 0) \in CancelCall
    OBVIOUS
  <2> DEFINE first == IF c \in queued THEN <<Task("remove", c, 0)>> ELSE <<>>
             second == <<Task("forgive", c, 0)>>
  <2>3. first \in Seq(CancelCall) /\ second \in Seq(CancelCall)
    BY <2>2
  <2> HIDE DEF first, second
  <2>4. first \o second \in Seq(CancelCall)
    BY <2>3, ConcatProperties
  <2> QED
    BY <2>4 DEF first, second
<1>2. Subtree[n] \in Seq(Leaves)
  BY TreeAssumption DEF Nodes
<1>3. leaves \in Seq(Seq(CancelCall))
  <2>1. Len(Subtree[n]) \in Nat /\ DOMAIN Subtree[n] = 1..Len(Subtree[n])
    BY <1>2, LenProperties
  <2>2. \A k \in DOMAIN Subtree[n] : Leaf(Subtree[n][k]) \in Seq(CancelCall)
    BY <1>1, <1>2, <2>1, ElementOfSeq
  <2> HIDE DEF Leaf
  <2> QED
    BY <2>1, <2>2, IsASeq
<1>4. stop \in Seq(CancelCall)
  OBVIOUS
<1>5. CancelSteps(n) = FlattenSeq(leaves) \o stop
  BY DEF CancelSteps
<1> HIDE DEF leaves, stop
<1> QED
  BY <1>3, <1>4, <1>5, FlattenType, ConcatProperties

\* A node is cancelled.
LEMMA CancelNodeTypes ==
  ASSUME TypesInv, NEW n \in Nodes, CancelDownloadNode(n)
  PROVE  TypesInv' /\ Quiet(calls')
<1>1. CancelCall \subseteq LaterCall
  BY DEF CancelCall, LaterCall, LeafTask
<1>2. calls' \in Seq(LaterCall)
  BY <1>1, CancelCalls DEF CancelDownloadNode
<1>3. IsStack(calls') /\ Quiet(calls') /\ ~Doing("request")'
  BY <1>2, Begins DEF Doing, Idle
<1>4. left' \in 0..MaxEvents
  BY OneEventLess DEF CancelDownloadNode, Event, MayHappen
<1>5. TypeOK'
  BY <1>4 DEF TypesInv, TypeOK, CancelDownloadNode, queueVars, serverVars, countryVars, checkVars,
         threadVars, diskVars, mwmVars
<1> QED
  BY <1>3, <1>5 DEF TypesInv, CancelDownloadNode, threadVars, queueVars

\* The requests for text files.  The new version is a version.
LEMMA FetchTypes ==
  ASSUME TypesInv, NewerInv,
         TextRefused \/ FetchFailed \/ SignatureFetched \/ \E v \in Versions : MapsFetched(v)
  PROVE  TypesInv'
<1>1. Idle
  BY DEF TextRefused, FetchFailed, SignatureFetched, MapsFetched, Event
<1>2. CASE TextRefused \/ FetchFailed
  <2>1. Do("startPending") \in FirstCall /\ Do("startPending").op = "startPending"
    BY TaskTypes DEF PlainOps, Do, Task
  <2>2. <<Do("startPending")>> \o <<>> = <<Do("startPending")>> /\ <<>> \in Seq(LaterCall)
    OBVIOUS
  <2>3. IsStack(<<Do("startPending")>>)
    BY <2>1, <2>2, StackOf
  <2>4. calls' = <<Do("startPending")>> /\ Head(calls') = Do("startPending")
    BY <1>2 DEF TextRefused, FetchFailed, GiveUpCheck
  <2>5. left' \in 0..MaxEvents
    <3>1. CASE TextRefused
      BY <3>1, OneEventLess DEF TextRefused, MayHappen, TypesInv, TypeOK
    <3>2. CASE FetchFailed
      BY <3>2, OneEventLess DEF FetchFailed, Event, MayHappen
    <3> QED
      BY <1>2, <3>1, <3>2
  <2>6. TypeOK'
    BY <1>2, <2>5
    DEF TypesInv, TypeOK, TextRefused, FetchFailed, GiveUpCheck, EndCheck, queueVars, serverVars,
        countryVars, threadVars, diskVars, mwmVars
  <2> QED
    BY <1>2, <2>1, <2>3, <2>4, <2>6 DEF TypesInv, TextRefused, FetchFailed, threadVars, Doing
<1>3. CASE SignatureFetched
  <2>1. latest \in Versions
    BY <1>3, VersionAssumption DEF NewerInv, SignatureFetched, TypesInv, TypeOK, Versions
  <2>2. gui' \in Seq(GuiTask) /\ fileThread' \in Seq(ThreadTask)
    BY <1>3, <2>1, TaskTypes, PostType DEF SignatureFetched
  <2>3. TypeOK'
    BY <1>3
    DEF TypesInv, TypeOK, SignatureFetched, queueVars, serverVars, countryVars, diskVars, mwmVars
  <2> QED
    BY <1>1, <1>3, <2>2, <2>3 DEF TypesInv, SignatureFetched, Doing, Idle
<1>4. ASSUME NEW v \in Versions, MapsFetched(v)
      PROVE  TypesInv'
  <2>1. network' \in Seq(NetworkTask) /\ requested' \in BOOLEAN
    <3>1. Do("countries") \in NetworkTask
      BY TaskTypes DEF ServerOps
    <3> QED
      BY <1>4, <3>1, PostType DEF MapsFetched, AskMetaServer
  <2>2. left' \in 0..MaxEvents /\ v \in 0..MaxVersion
    BY <1>4, OneEventLess DEF MapsFetched, Event, MayHappen, Versions
  <2>3. TypeOK'
    BY <1>4, <2>1, <2>2
    DEF TypesInv, TypeOK, MapsFetched, queueVars, countryVars, diskVars, mwmVars
  <2> QED
    BY <1>1, <1>4, <2>1, <2>3 DEF TypesInv, MapsFetched, Doing, Idle
<1> QED
  BY <1>2, <1>3, <1>4

\* A map is downloaded.
LEMMA CompletedTypes ==
  ASSUME TypesInv, NEW intact \in BOOLEAN, RequestCompleted(intact)
  PROVE  TypesInv' /\ Quiet(calls')
<1>1. Do("next") \in LaterCall
  BY TaskTypes
<1>2. <<Do("next")>> \in Seq(LaterCall)
  BY <1>1
<1>3. IsStack(calls') /\ Quiet(calls') /\ ~Doing("request")'
  BY <1>2, Begins DEF RequestCompleted, Doing, Idle
<1>4. request \in Request /\ queue # <<>>
  BY DEF RequestCompleted, IsOfTheTop, TypesInv, TypeOK
<1>5. request.id \in Leaves /\ request.version \in Versions /\ version \in Versions
  BY <1>4 DEF Request, TypesInv, TypeOK
<1>6. Tail(queue) \in Seq(Leaves)
  BY <1>4, HeadTailProperties DEF TypesInv, TypeOK
<1>7. fileThread' \in Seq(ThreadTask)
  <2>1. Task("sha", request.id, version) \in ThreadTask
    BY <1>5, TaskTypes
  <2> QED
    BY <2>1, PostType DEF RequestCompleted
<1>8. left' \in 0..MaxEvents
  BY OneEventLess DEF RequestCompleted, MayHappen, TypesInv, TypeOK
<1>9. \A f \in disk' \cup ready' : f.id \in Leaves /\ f.version \in Versions
  BY <1>5 DEF RequestCompleted, TypesInv, TypeOK
<1>10. TypeOK'
  BY <1>5, <1>6, <1>8, <1>9
  DEF TypesInv, TypeOK, RequestCompleted, serverVars, checkVars, mwmVars
<1> QED
  BY <1>3, <1>7, <1>10 DEF TypesInv, RequestCompleted

\* The other threads.
LEMMA ThreadTypes ==
  ASSUME TypesInv, FileThread \/ GetMetaConfig
  PROVE  TypesInv'
<1>1. CASE CheckSha
  <2>1. Head(fileThread) \in ThreadTask /\ Tail(fileThread) \in Seq(ThreadTask)
    BY <1>1, TakeType DEF CheckSha
  <2>2. Head(fileThread).id \in Leaves
    BY <1>1, <2>1, TaskFields DEF CheckSha
  <2>3. gui' \in Seq(GuiTask)
    <3>1. \A op \in {"verified", "rejected"} : Task(op, Head(fileThread).id, 0) \in GuiTask
      BY <2>2, TaskTypes
    <3>2. \E op \in {"verified", "rejected"} : gui' = Append(gui, Task(op, Head(fileThread).id, 0))
      BY <1>1 DEF CheckSha
    <3> QED
      BY <3>1, <3>2, PostType
  <2>4. TypeOK'
    BY <1>1
    DEF TypesInv, TypeOK, CheckSha, Of, queueVars, serverVars, countryVars, checkVars, mwmVars
  <2> QED
    BY <1>1, <2>1, <2>3, <2>4 DEF TypesInv, CheckSha, queueVars, Doing, Idle
<1>2. CASE RemoveCountriesTxt
  <2>1. Head(fileThread) \in ThreadTask /\ Tail(fileThread) \in Seq(ThreadTask)
    BY <1>2, TakeType DEF RemoveCountriesTxt
  <2>2. /\ Head(fileThread) = Task("save", NoCountry, Head(fileThread).arg)
        /\ Head(fileThread).arg \in Versions
    BY <1>2, <2>1, TaskFields
    DEF RemoveCountriesTxt, ThreadTask, FileTask, VersionTask, Task
  <2>3. [Head(fileThread) EXCEPT !.op = "rename"] = Task("rename", NoCountry, Head(fileThread).arg)
    BY <2>2 DEF Task
  <2>4. [Head(fileThread) EXCEPT !.op = "rename"] \in ThreadTask
    BY <2>2, <2>3, TaskTypes
  <2>5. fileThread' \in Seq(ThreadTask)
    <3> DEFINE t == [Head(fileThread) EXCEPT !.op = "rename"]
    <3>1. t \in ThreadTask /\ fileThread' = <<t>> \o Tail(fileThread)
      BY <1>2, <2>4 DEF RemoveCountriesTxt
    <3> HIDE DEF t
    <3>2. <<t>> \in Seq(ThreadTask)
      BY <3>1
    <3> QED
      BY <2>1, <3>1, <3>2, ConcatProperties
  <2>6. TypeOK'
    BY <1>2, VersionAssumption
    DEF TypesInv, TypeOK, RemoveCountriesTxt, queueVars, serverVars, countryVars, checkVars, mwmVars
  <2> QED
    BY <1>2, <2>5, <2>6 DEF TypesInv, RemoveCountriesTxt, queueVars, Doing, Idle
<1>3. CASE RenameCountriesTxt
  <2>1. Head(fileThread) \in ThreadTask /\ Tail(fileThread) \in Seq(ThreadTask)
    BY <1>3, TakeType DEF RenameCountriesTxt
  <2>2. Head(fileThread).arg \in 0..MaxVersion
    BY <1>3, <2>1, TaskFields DEF RenameCountriesTxt, Versions
  <2>3. TypeOK'
    BY <1>3, <2>2
    DEF TypesInv, TypeOK, RenameCountriesTxt, queueVars, serverVars, countryVars, checkVars, mwmVars
  <2> QED
    BY <1>3, <2>1, <2>3 DEF TypesInv, RenameCountriesTxt, queueVars, Doing, Idle
<1>4. CASE SaveCountriesFails
  <2>1. Tail(fileThread) \in Seq(ThreadTask)
    BY <1>4, TakeType DEF SaveCountriesFails
  <2>2. left' \in 0..MaxEvents
    BY <1>4, OneEventLess DEF SaveCountriesFails, MayHappen
  <2>3. TypeOK'
    BY <1>4, <2>2
    DEF TypesInv, TypeOK, SaveCountriesFails, queueVars, serverVars, countryVars, checkVars,
        diskVars, mwmVars
  <2> QED
    BY <1>4, <2>1, <2>3 DEF TypesInv, SaveCountriesFails, queueVars, Doing, Idle
<1>5. CASE GetMetaConfig
  <2>1. Head(network) \in NetworkTask /\ Tail(network) \in Seq(NetworkTask)
    BY <1>5, TakeType DEF GetMetaConfig
  <2>2. gui' \in Seq(GuiTask)
    BY <1>5, <2>1, TaskTypes, PostType DEF GetMetaConfig
  <2>3. TypeOK'
    BY <1>5
    DEF TypesInv, TypeOK, GetMetaConfig, queueVars, serverVars, countryVars, checkVars,
        diskVars, mwmVars
  <2> QED
    BY <1>5, <2>1, <2>2, <2>3 DEF TypesInv, GetMetaConfig, queueVars, Doing, Idle
<1> QED
  BY <1>1, <1>2, <1>3, <1>4, <1>5 DEF FileThread

\* A map that nobody uses any more, or a damaged one.
LEMMA MapTypes ==
  ASSUME TypesInv, NEW c \in Leaves
  PROVE  /\ \A v \in Versions : ReleaseMap(c, v) => TypesInv'
         /\ FindBadMap(c) => TypesInv'
<1>1. ASSUME NEW v \in Versions, ReleaseMap(c, v)
      PROVE  TypesInv'
  <2>1. gui' \in Seq(GuiTask)
    BY <1>1, TaskTypes, PostType DEF ReleaseMap
  <2>2. TypeOK'
    BY <1>1
    DEF TypesInv, TypeOK, ReleaseMap, queueVars, serverVars, countryVars, checkVars, diskVars
  <2> QED
    BY <1>1, <2>1, <2>2 DEF TypesInv, ReleaseMap, queueVars, threadVars, Doing, Idle
<1>2. ASSUME FindBadMap(c)
      PROVE  TypesInv'
  <2>1. mwm[c] \in Versions /\ 0 \in 0..MaxVersion
    BY <1>2, VersionAssumption DEF FindBadMap, TypesInv, TypeOK, Versions
  <2>2. gui' \in Seq(GuiTask)
    BY <1>2, <2>1, TaskTypes, PostType DEF FindBadMap
  <2>3. mwm' \in [Leaves -> 0..MaxVersion]
    BY <1>2, <2>1 DEF FindBadMap, TypesInv, TypeOK
  <2>4. left' \in 0..MaxEvents
    BY <1>2, OneEventLess DEF FindBadMap, MayHappen
  <2>5. TypeOK'
    BY <1>2, <2>3, <2>4
    DEF TypesInv, TypeOK, FindBadMap, queueVars, serverVars, countryVars, checkVars, diskVars
  <2> QED
    BY <1>2, <2>2, <2>5 DEF TypesInv, FindBadMap, queueVars, threadVars, Doing, Idle
<1> QED
  BY <1>1, <1>2

\* The next task of the GUI thread.
LEMMA GuiTypes ==
  ASSUME TypesInv, RunGuiTask
  PROVE  TypesInv'
<1>1. Head(gui) \in GuiTask /\ Tail(gui) \in Seq(GuiTask)
  BY TakeType DEF RunGuiTask
<1>2. Head(gui) \in FirstCall /\ Head(gui).op # "request"
  BY <1>1, TaskTypes DEF GuiTask, LeafTask, FileTask, VersionTask, PlainTask, ServerOps
<1> DEFINE t == Head(gui)
<1>3. t \in FirstCall /\ t.op # "request" /\ calls' = <<t>>
  BY <1>2 DEF RunGuiTask
<1> HIDE DEF t
<1>4. <<t>> \o <<>> = <<t>> /\ <<>> \in Seq(LaterCall) /\ Head(<<t>>) = t
  OBVIOUS
<1>5. IsStack(calls') /\ ~Doing("request")'
  BY <1>3, <1>4, StackOf DEF Doing
<1>6. TypeOK'
  BY DEF TypesInv, TypeOK, RunGuiTask, queueVars, serverVars, countryVars, checkVars, threadVars,
         diskVars, mwmVars
<1> QED
  BY <1>1, <1>5, <1>6 DEF TypesInv, RunGuiTask, threadVars

\* The application starts again.
LEMMA RestartTypes ==
  ASSUME TypesInv, Restart
  PROVE  TypesInv' /\ Quiet(calls')
<1> DEFINE v == NewerOf(Bundled, countriesTxt)
<1>1. v \in Versions
  BY VersionAssumption DEF NewerOf, TypesInv, TypeOK, Versions
<1>2. calls' \in Seq(LaterCall)
  BY ForEach DEF Restart, TypesInv, TypeOK
<1>3. IsStack(calls') /\ Quiet(calls') /\ ~Doing("request")'
  BY <1>2, Begins DEF Doing, Idle
<1>4. /\ version' = v /\ RegisterAllLocalMaps(v)
      /\ mwm' = [c \in Leaves |-> IF LocalMaps(v)[c] = {} THEN 0 ELSE Max(LocalMaps(v)[c])]
  BY DEF Restart
<1> HIDE DEF v
<1>5. /\ localFiles' \in [Leaves -> SUBSET Versions]
      /\ \A f \in disk' \cup ready' : f.id \in Leaves /\ f.version \in Versions
  BY <1>4, RegisterAllType
<1>6. mwm' \in [Leaves -> 0..MaxVersion]
  <2>1. \A c \in Leaves : LocalMaps(v)[c] # {} => Max(LocalMaps(v)[c]) \in Versions
    BY LocalMapsType
  <2>2. 0 \in 0..MaxVersion /\ Versions \subseteq 0..MaxVersion
    BY VersionAssumption DEF Versions
  <2> QED
    BY <1>4, <2>1, <2>2
<1>7. left' \in 0..MaxEvents
  BY OneEventLess DEF Restart, MayHappen
<1>8. /\ <<>> \in Seq(Leaves) /\ <<>> \in Seq(GuiTask)
      /\ <<>> \in Seq(ThreadTask) /\ <<>> \in Seq(NetworkTask)
  OBVIOUS
<1>9. /\ version' \in Versions /\ 0 \in 0..MaxVersion
      /\ countriesTxt' \in 0..MaxVersion /\ saved' \in Seq(Leaves)
  BY <1>1, <1>4, VersionAssumption DEF TypesInv, TypeOK, Restart
<1>10. /\ queue' = <<>> /\ pending' = <<>> /\ request' = NoRequest
       /\ servers' = FALSE /\ requested' = FALSE /\ checking' = FALSE
       /\ downloading' = {} /\ failed' = {} /\ doomed' = {}
       /\ fetch' = "none" /\ latest' = 0 /\ deferred' = 0
       /\ gui' = <<>> /\ fileThread' = <<>> /\ network' = <<>>
  BY DEF Restart
<1>11. TypeOK'
  BY <1>5, <1>6, <1>7, <1>8, <1>9, <1>10 DEF TypeOK
<1> QED
  BY <1>3, <1>8, <1>10, <1>11 DEF TypesInv

-----------------------------------------------------------------------------
(* Where a check is. *)

ChecksInv == CheckInv /\ ServerInv /\ NewerInv

\* The tasks when one is added.
LEMMA AddedElements ==
  ASSUME NEW S, NEW s \in Seq(S), NEW t \in S
  PROVE  /\ \A k \in DOMAIN Append(s, t) :
              (k \in DOMAIN s /\ Append(s, t)[k] = s[k]) \/ Append(s, t)[k] = t
         /\ \A k \in DOMAIN s : k \in DOMAIN Append(s, t) /\ Append(s, t)[k] = s[k]
<1>1. /\ Len(s) \in Nat /\ DOMAIN s = 1..Len(s) /\ DOMAIN Append(s, t) = 1..(Len(s) + 1)
      /\ \A k \in 1..Len(s) : Append(s, t)[k] = s[k]
      /\ Append(s, t)[Len(s) + 1] = t
  BY LenProperties, AppendProperties
<1> QED
  BY <1>1

\* Who does one of ops when a task is added.
LEMMA AddedTask ==
  ASSUME NEW S, NEW s \in Seq(S), NEW t \in S, NEW ops
  PROVE  /\ Nobody(Append(s, t), ops) = (Nobody(s, ops) /\ t.op \notin ops)
         /\ OnlyOne(s, ops) /\ (t.op \notin ops \/ Nobody(s, ops)) => OnlyOne(Append(s, t), ops)
<1> DEFINE r == Append(s, t)
<1>1. /\ Len(s) \in Nat /\ DOMAIN s = 1..Len(s) /\ DOMAIN r = 1..(Len(s) + 1)
      /\ \A k \in 1..Len(s) : r[k] = s[k]
      /\ r[Len(s) + 1] = t
  BY LenProperties, AppendProperties
<1> HIDE DEF r
<1>2. \A k \in DOMAIN r : 
        (k \in DOMAIN s /\ r[k] = s[k]) \/ (k = Len(s) + 1 /\ r[k] = t)
  BY <1>1
<1>3. \A k \in DOMAIN s : k \in DOMAIN r /\ r[k] = s[k]
  BY <1>1
<1>4. Len(s) + 1 \in DOMAIN r
  BY <1>1
<1>5. Nobody(r, ops) = (Nobody(s, ops) /\ t.op \notin ops)
  BY <1>1, <1>2, <1>3, <1>4 DEF Nobody
<1>6. OnlyOne(s, ops) /\ (t.op \notin ops \/ Nobody(s, ops)) => OnlyOne(r, ops)
  BY <1>2 DEF Nobody, OnlyOne
<1> QED
  BY <1>5, <1>6 DEF r

\* ... and when the first task is taken.
LEMMA TakenTask ==
  ASSUME NEW S, NEW s \in Seq(S), s # <<>>, NEW ops
  PROVE  /\ Nobody(s, ops) = (Head(s).op \notin ops /\ Nobody(Tail(s), ops))
         /\ OnlyOne(s, ops) =>
              OnlyOne(Tail(s), ops) /\ (Head(s).op \in ops => Nobody(Tail(s), ops))
<1> DEFINE r == Tail(s)
<1>1. /\ Len(s) \in Nat /\ Len(s) > 0 /\ DOMAIN s = 1..Len(s) /\ DOMAIN r = 1..(Len(s) - 1)
      /\ \A k \in 1..(Len(s) - 1) : r[k] = s[k + 1]
      /\ Head(s) = s[1]
  BY EmptySeq, LenProperties, HeadTailProperties
<1> HIDE DEF r
<1>2. \A k \in DOMAIN r : k + 1 \in DOMAIN s /\ k + 1 # 1 /\ k \in Nat /\ r[k] = s[k + 1]
  BY <1>1
<1>3. \A k \in DOMAIN s : 
        (k = 1 /\ s[k] = Head(s)) \/ (k - 1 \in DOMAIN r /\ s[k] = r[k - 1])
  BY <1>1
<1>4. 1 \in DOMAIN s /\ s[1] = Head(s)
  BY <1>1
<1>5. Nobody(s, ops) = (Head(s).op \notin ops /\ Nobody(r, ops))
  BY <1>2, <1>3, <1>4 DEF Nobody
<1>6. OnlyOne(s, ops) => OnlyOne(r, ops)
  <2>1. SUFFICES ASSUME OnlyOne(s, ops), NEW j \in DOMAIN r, NEW k \in DOMAIN r,
                        r[j].op \in ops, r[k].op \in ops
                 PROVE  j = k
    BY DEF OnlyOne
  <2>2. j + 1 = k + 1
    BY <2>1, <1>2 DEF OnlyOne
  <2> QED
    BY <2>2, <1>2
<1>7. OnlyOne(s, ops) /\ Head(s).op \in ops => Nobody(r, ops)
  <2>1. SUFFICES ASSUME OnlyOne(s, ops), Head(s).op \in ops, NEW k \in DOMAIN r, r[k].op \in ops
                 PROVE  FALSE
    BY DEF Nobody
  <2>2. k + 1 = 1
    BY <2>1, <1>2, <1>4 DEF OnlyOne
  <2> QED
    BY <2>2, <1>2
<1> QED
  BY <1>5, <1>6, <1>7 DEF r

\* The GUI thread gets no task of a check.
GuiGetsNoCheck ==
  \/ gui' = gui
  \/ \E t \in GuiTask : t.op \notin CheckOps \cup ServerOps /\ gui' = Append(gui, t)

\* A call that has nothing to do with a check returns, or calls one that has not either.
CallsNoCheck ==
  \/ calls' = calls
  \/ ~Calling(CheckOps) /\ ~Calling(ServerOps) /\ Quiet(calls')

\* What the checks do not notice.
QuietStep ==
  UNCHANGED <<checkVars, requested, network>> /\ GuiGetsNoCheck /\ CallsNoCheck

\* They do not.
LEMMA SameChecks ==
  ASSUME TypesInv, ChecksInv, QuietStep
  PROVE  ChecksInv'
<1>1. /\ Nobody(gui', CheckOps) = Nobody(gui, CheckOps)
      /\ Nobody(gui', ServerOps) = Nobody(gui, ServerOps)
      /\ OnlyOne(gui', CheckOps) /\ OnlyOne(gui', ServerOps)
  <2>1. CASE gui' = gui
    BY <2>1 DEF ChecksInv, CheckInv, ServerInv
  <2>2. CASE gui' # gui
    <3>1. PICK t \in GuiTask : t.op \notin CheckOps \cup ServerOps /\ gui' = Append(gui, t)
      BY <2>2 DEF QuietStep, GuiGetsNoCheck
    <3>2. gui \in Seq(GuiTask)
      BY DEF TypesInv
    <3>3. /\ Nobody(gui', CheckOps) = (Nobody(gui, CheckOps) /\ t.op \notin CheckOps)
          /\ OnlyOne(gui, CheckOps) => OnlyOne(gui', CheckOps)
      BY <3>1, <3>2, AddedTask
    <3>4. /\ Nobody(gui', ServerOps) = (Nobody(gui, ServerOps) /\ t.op \notin ServerOps)
          /\ OnlyOne(gui, ServerOps) => OnlyOne(gui', ServerOps)
      BY <3>1, <3>2, AddedTask
    <3>5. Nobody(gui, CheckOps) \in BOOLEAN /\ Nobody(gui, ServerOps) \in BOOLEAN
      BY DEF Nobody
    <3> QED
      BY <3>1, <3>3, <3>4, <3>5 DEF ChecksInv, CheckInv, ServerInv
  <2> QED
    BY <2>1, <2>2
<1>2. \A k \in DOMAIN gui' : gui'[k].op \in CheckOps => gui'[k].arg > version
  <2>1. CASE gui' = gui
    BY <2>1 DEF QuietStep, checkVars, ChecksInv, NewerInv
  <2>2. CASE gui' # gui
    <3>1. PICK t \in GuiTask : t.op \notin CheckOps \cup ServerOps /\ gui' = Append(gui, t)
      BY <2>2 DEF QuietStep, GuiGetsNoCheck
    <3>2. \A k \in DOMAIN gui' : (k \in DOMAIN gui /\ gui'[k] = gui[k]) \/ gui'[k] = t
      BY <3>1, AddedElements DEF TypesInv
    <3> QED
      BY <3>1, <3>2 DEF QuietStep, checkVars, ChecksInv, NewerInv
  <2> QED
    BY <2>1, <2>2
<1>3. /\ Calling(CheckOps)' = Calling(CheckOps) /\ Calling(ServerOps)' = Calling(ServerOps)
      /\ Doing("startPending")' => Doing("startPending")
      /\ Calling(CheckOps) => calls' = calls
  BY DEF QuietStep, CallsNoCheck, Calling, Quiet, Idle, Doing
<1>4. CheckInv'
  BY <1>1, <1>3 DEF ChecksInv, CheckInv, checkVars, QuietStep
<1>5. ServerInv'
  BY <1>1, <1>3 DEF ChecksInv, ServerInv, checkVars, QuietStep
<1>6. NewerInv'
  BY <1>2, <1>3 DEF ChecksInv, NewerInv, checkVars, QuietStep
<1> QED
  BY <1>4, <1>5, <1>6 DEF ChecksInv

\* The handlers that have nothing to do with a check.
LEMMA OtherHandlers ==
  ASSUME TypesInv, Quiet(calls'),
         \/ DownloadNothing \/ DownloadImpossible \/ DownloadFound
         \/ EnqueueCountry \/ ClearPending
         \/ StartRequest \/ StartRequestWithoutFile \/ RequestForbidden \/ NextRequest
         \/ Verified \/ Rejected \/ RegisterDownloadedFiles \/ RegisterMissingFile
         \/ FinishDownloading
         \/ Forgive \/ Stop \/ RemoveFromQueue \/ CleanUp
         \/ DeleteCountry \/ DeleteNothing \/ DeleteCustomCountryVersion
  PROVE  QuietStep
<1>1. ~Calling(CheckOps) /\ ~Calling(ServerOps)
  BY DEF DownloadNothing, DownloadImpossible, DownloadFound, EnqueueCountry, ClearPending,
         StartRequest, StartRequestWithoutFile, RequestForbidden, NextRequest,
         Verified, Rejected, RegisterDownloadedFiles, RegisterMissingFile, FinishDownloading,
         Forgive, Stop, RemoveFromQueue, CleanUp, DeleteCountry, DeleteNothing,
         DeleteCustomCountryVersion, Wanted, Doing, Calling, CheckOps, ServerOps
<1>2. UNCHANGED <<checkVars, requested, network, gui>>
  BY DEF DownloadNothing, DownloadImpossible, DownloadFound, EnqueueCountry, ClearPending,
         StartRequest, StartRequestWithoutFile, RequestForbidden, NextRequest,
         Verified, Rejected, RegisterDownloadedFiles, RegisterMissingFile, FinishDownloading,
         Forgive, Stop, RemoveFromQueue, CleanUp, DeleteCountry, DeleteNothing,
         DeleteCustomCountryVersion, serverVars, threadVars
<1>3. CallsNoCheck /\ GuiGetsNoCheck
  BY <1>1, <1>2 DEF CallsNoCheck, GuiGetsNoCheck
<1> QED
  BY <1>2, <1>3 DEF QuietStep

\* The events that have nothing to do with a check.
LEMMA OtherEvents ==
  ASSUME TypesInv, Quiet(calls'),
         \/ \E n \in Nodes : \/ DownloadNode(n) \/ RetryDownloadNode(n)
                             \/ CancelDownloadNode(n) \/ DeleteNode(n)
         \/ RequestFailed \/ \E intact \in BOOLEAN : RequestCompleted(intact)
  PROVE  QuietStep
<1>1. ~Calling(CheckOps) /\ ~Calling(ServerOps)
  BY DEF DownloadNode, RetryDownloadNode, CancelDownloadNode, DeleteNode, RequestFailed,
         RequestCompleted, Event, Calling
<1>2. UNCHANGED <<checkVars, requested, network, gui>>
  BY DEF DownloadNode, RetryDownloadNode, CancelDownloadNode, DeleteNode, RequestFailed,
         RequestCompleted, serverVars, threadVars
<1>3. CallsNoCheck /\ GuiGetsNoCheck
  BY <1>1, <1>2 DEF CallsNoCheck, GuiGetsNoCheck
<1> QED
  BY <1>2, <1>3 DEF QuietStep

\* The steps of other threads that have nothing to do with a check.
LEMMA OtherThreads ==
  ASSUME TypesInv,
         FileThread \/ \E c \in Leaves : FindBadMap(c) \/ \E v \in Versions : ReleaseMap(c, v)
  PROVE  QuietStep
<1>1. UNCHANGED <<checkVars, requested, network, calls>>
  BY DEF FileThread, CheckSha, RemoveCountriesTxt, RenameCountriesTxt, SaveCountriesFails,
         FindBadMap, ReleaseMap, serverVars, threadVars
<1>2. GuiGetsNoCheck
  <2>1. CASE CheckSha
    <3>1. Head(fileThread).id \in Leaves
      BY <2>1, TakeType, TaskFields DEF CheckSha
    <3>2. \A op \in {"verified", "rejected"} :
            /\ Task(op, Head(fileThread).id, 0) \in GuiTask
            /\ Task(op, Head(fileThread).id, 0).op \notin CheckOps \cup ServerOps
      BY <3>1, TaskTypes DEF Task, CheckOps, ServerOps
    <3>3. \E op \in {"verified", "rejected"} : gui' = Append(gui, Task(op, Head(fileThread).id, 0))
      BY <2>1 DEF CheckSha
    <3> QED
      BY <3>2, <3>3 DEF GuiGetsNoCheck
  <2>2. CASE RemoveCountriesTxt \/ RenameCountriesTxt \/ SaveCountriesFails
    BY <2>2 DEF RemoveCountriesTxt, RenameCountriesTxt, SaveCountriesFails, GuiGetsNoCheck
  <2>3. \A c \in Leaves, v \in Versions :
          /\ Task("deleteFile", c, v) \in GuiTask
          /\ Task("deleteFile", c, v).op \notin CheckOps \cup ServerOps
    BY TaskTypes DEF Task, CheckOps, ServerOps
  <2>4. ASSUME NEW c \in Leaves, NEW v \in Versions, ReleaseMap(c, v)
        PROVE  GuiGetsNoCheck
    BY <2>3, <2>4 DEF ReleaseMap, GuiGetsNoCheck
  <2>5. ASSUME NEW c \in Leaves, FindBadMap(c)
        PROVE  GuiGetsNoCheck
    <3>1. mwm[c] \in Versions
      BY <2>5, VersionAssumption DEF FindBadMap, TypesInv, TypeOK, Versions
    <3> QED
      BY <2>3, <2>5, <3>1 DEF FindBadMap, GuiGetsNoCheck
  <2> QED
    BY <2>1, <2>2, <2>4, <2>5 DEF FileThread
<1>3. CallsNoCheck
  BY <1>1 DEF CallsNoCheck
<1> QED
  BY <1>1, <1>2, <1>3 DEF QuietStep

\* Which operations belong to a check.
LEMMA Operations ==
  /\ \A op, c, v : Task(op, c, v).op = op /\ Task(op, c, v).id = c /\ Task(op, c, v).arg = v
  /\ \A op : Do(op).op = op
  /\ "startPending" \notin CheckOps \cup ServerOps
  /\ "downloadPending" \notin CheckOps \cup ServerOps
  /\ {"download", "retry", "next", "finish"} \cap (CheckOps \cup ServerOps) = {}
  /\ "apply" \in CheckOps /\ "applyOrDefer" \in CheckOps /\ CheckOps \cap ServerOps = {}
  /\ "countries" \in ServerOps /\ "signature" \in ServerOps
  /\ \A op \in CheckOps : op \in {"apply", "applyOrDefer"}
  /\ \A op \in ServerOps : op \in {"countries", "signature"}
BY DEF Task, Do, CheckOps, ServerOps

\* A check begins with the first download, or puts off the later ones.
LEMMA DownloadQueuedChecks ==
  ASSUME TypesInv, ChecksInv, DownloadQueued
  PROVE  ChecksInv' /\ ~Calling(CheckOps)'
<1>1. ~Idle /\ ~Calling(CheckOps) /\ ~Calling(ServerOps)
  BY Operations DEF DownloadQueued, Wanted, Doing, Calling
<1>2. UNCHANGED <<version, latest, deferred, requested, network, gui>>
  BY DEF DownloadQueued, serverVars, threadVars
<1>3. ~Calling(ServerOps)' /\ ~Calling(CheckOps)' /\ (Doing("startPending")' => ~checking')
  <2>1. CASE Return /\ calls # <<>>
    BY <1>1, <2>1, Returns DEF Quiet, Calling, Doing, Idle
  <2>2. CASE ~checking' /\ Call(<<Do("startPending")>>)
    <3>1. Do("startPending") \in FirstCall
      BY TaskTypes DEF PlainOps
    <3>2. calls' # <<>> /\ Head(calls') = Do("startPending")
      BY <1>1, <2>2, <3>1, CallsOne
    <3> QED
      BY <2>2, <3>2, Operations DEF Calling, Doing
  <2> QED
    BY <1>1, <2>1, <2>2 DEF DownloadQueued, Idle
<1>4. CASE checking' = checking /\ fetch' = fetch
  BY <1>1, <1>2, <1>3, <1>4 DEF ChecksInv, CheckInv, ServerInv, NewerInv
<1>5. CASE ~checking /\ StartCheck
  <2>1. fetch = "none" /\ fetch' = "maps" /\ checking' = TRUE
    BY <1>5 DEF StartCheck, ChecksInv, CheckInv
  <2>2. deferred = 0 /\ Nobody(gui, CheckOps)
    BY <1>5 DEF ChecksInv, CheckInv
  <2> QED
    BY <1>1, <1>2, <1>3, <2>1, <2>2 DEF ChecksInv, CheckInv, ServerInv, NewerInv
<1> QED
  BY <1>4, <1>5 DEF DownloadQueued

\* The user asks for a check.
LEMMA RunChecks ==
  ASSUME TypesInv, ChecksInv, RunCountriesCheck
  PROVE  ChecksInv'
<1>1. UNCHANGED <<version, latest, deferred, requested, network, gui, calls>> /\ Idle
  BY DEF RunCountriesCheck, Event, serverVars, threadVars
<1>2. CASE checking' = checking /\ fetch' = fetch
  BY <1>1, <1>2 DEF ChecksInv, CheckInv, ServerInv, NewerInv, Calling, Doing, Idle
<1>3. CASE ~checking /\ StartCheck
  <2>1. fetch = "none" /\ fetch' = "maps" /\ checking' = TRUE
    BY <1>3 DEF StartCheck, ChecksInv, CheckInv
  <2>2. deferred = 0 /\ Nobody(gui, CheckOps)
    BY <1>3 DEF ChecksInv, CheckInv
  <2> QED
    BY <1>1, <2>1, <2>2 DEF ChecksInv, CheckInv, ServerInv, NewerInv, Calling, Doing, Idle
<1> QED
  BY <1>2, <1>3 DEF RunCountriesCheck

\* The pending requests are started; no check is running, so that none waits for the
\* metaserver that may be asked.
LEMMA StartPendingChecks ==
  ASSUME TypesInv, ChecksInv, StartPending
  PROVE  ChecksInv' /\ ~Calling(CheckOps)'
<1>1. /\ ~Idle /\ Doing("startPending") /\ ~Calling(CheckOps) /\ ~Calling(ServerOps)
      /\ ~checking /\ fetch = "none" /\ Nobody(gui, ServerOps) /\ Nobody(network, ServerOps)
  BY Operations DEF StartPending, Doing, Calling, ChecksInv, CheckInv, ServerInv
<1>2. UNCHANGED <<checkVars, gui>>
  BY DEF StartPending
<1>3. Quiet(calls')
  BY PendingTypes
<1>4. ~Calling(CheckOps)' /\ ~Calling(ServerOps)' /\ ~Doing("startPending")'
  BY <1>3 DEF Quiet, Calling, Doing, Idle
<1>5. OnlyOne(network', ServerOps) /\ Nobody(network', ServerOps)
  <2>1. CASE network' = network
    BY <1>1, <2>1 DEF ChecksInv, ServerInv
  <2>2. CASE network' = Append(network, Do("downloadPending"))
    <3>1. network \in Seq(NetworkTask) /\ Do("downloadPending") \in NetworkTask
      BY TaskTypes DEF TypesInv
    <3>2. Do("downloadPending").op \notin ServerOps
      BY Operations
    <3>3. Nobody(network', ServerOps) =
            (Nobody(network, ServerOps) /\ Do("downloadPending").op \notin ServerOps)
      BY <2>2, <3>1, AddedTask
    <3>4. Nobody(network', ServerOps)
      BY <1>1, <3>2, <3>3
    <3> QED
      BY <3>4 DEF Nobody, OnlyOne
  <2> QED
    BY <2>1, <2>2 DEF StartPending, AskMetaServer
<1>6. CheckInv'
  BY <1>1, <1>2, <1>4 DEF ChecksInv, CheckInv, checkVars
<1>7. ServerInv'
  BY <1>1, <1>2, <1>4, <1>5 DEF ChecksInv, ServerInv, checkVars
<1>8. NewerInv'
  BY <1>1, <1>2, <1>4 DEF ChecksInv, NewerInv, checkVars
<1> QED
  BY <1>4, <1>6, <1>7, <1>8 DEF ChecksInv

\* The metaserver answers.
LEMMA GetMetaChecks ==
  ASSUME TypesInv, ChecksInv, GetMetaConfig
  PROVE  ChecksInv'
<1> DEFINE t == Head(network)
<1>1. /\ network \in Seq(NetworkTask) /\ network # <<>> /\ gui \in Seq(GuiTask)
      /\ t \in NetworkTask /\ t \in GuiTask
      /\ gui' = Append(gui, t) /\ network' = Tail(network)
  BY TakeType, TaskTypes DEF GetMetaConfig, TypesInv
<1>2. t.op \notin CheckOps
  BY <1>1 DEF NetworkTask, PlainTask, CheckOps, ServerOps
<1> HIDE DEF t
<1>3. /\ Nobody(gui', CheckOps) = (Nobody(gui, CheckOps) /\ t.op \notin CheckOps)
      /\ OnlyOne(gui, CheckOps) => OnlyOne(gui', CheckOps)
  BY <1>1, <1>2, AddedTask
<1>4. /\ Nobody(gui', ServerOps) = (Nobody(gui, ServerOps) /\ t.op \notin ServerOps)
      /\ OnlyOne(gui, ServerOps) /\ (t.op \notin ServerOps \/ Nobody(gui, ServerOps))
           => OnlyOne(gui', ServerOps)
  BY <1>1, AddedTask
<1>5. /\ Nobody(network, ServerOps) = (t.op \notin ServerOps /\ Nobody(network', ServerOps))
      /\ OnlyOne(network, ServerOps) =>
           OnlyOne(network', ServerOps) /\ (t.op \in ServerOps => Nobody(network', ServerOps))
  <2>1. Head(network) = t
    BY DEF t
  <2> QED
    BY <1>1, <2>1, TakenTask
<1>6. /\ Nobody(gui, CheckOps) \in BOOLEAN /\ Nobody(gui, ServerOps) \in BOOLEAN
      /\ Nobody(network', ServerOps) \in BOOLEAN
  BY DEF Nobody
<1>7. UNCHANGED <<checkVars, requested, calls>>
  BY DEF GetMetaConfig, serverVars
<1>8. Calling(CheckOps)' = Calling(CheckOps) /\ Calling(ServerOps)' = Calling(ServerOps)
      /\ Doing("startPending")' = Doing("startPending")
  BY <1>7 DEF Calling, Doing, Idle
<1>9. CheckInv'
  BY <1>2, <1>3, <1>6, <1>7, <1>8 DEF ChecksInv, CheckInv, checkVars
<1>10. ServerInv'
  BY <1>4, <1>5, <1>6, <1>7, <1>8 DEF ChecksInv, ServerInv, checkVars
<1>11. NewerInv'
  <2>1. \A k \in DOMAIN gui' : (k \in DOMAIN gui /\ gui'[k] = gui[k]) \/ gui'[k] = t
    BY <1>1, AddedElements
  <2> QED
    BY <1>2, <1>7, <1>8, <2>1 DEF ChecksInv, NewerInv, checkVars
<1> QED
  BY <1>9, <1>10, <1>11 DEF ChecksInv

\* There are servers for the maps, or the user wants others.
LEMMA ServersForMapsChecks ==
  ASSUME TypesInv, ChecksInv, GotServersForMaps \/ ResetMapDownloadMetaConfig
  PROVE  ChecksInv'
<1>1. UNCHANGED <<checkVars, network, gui>> /\ requested' = FALSE
  BY DEF GotServersForMaps, ResetMapDownloadMetaConfig, threadVars
<1>2. /\ ~Calling(CheckOps) /\ ~Calling(ServerOps)
      /\ ~Calling(CheckOps)' /\ ~Calling(ServerOps)' /\ ~Doing("startPending")'
  <2>1. CASE GotServersForMaps
    <3>1. Quiet(calls')
      BY <2>1, PendingTypes
    <3> QED
      BY <2>1, <3>1, Operations DEF GotServersForMaps, Quiet, Calling, Doing, Idle
  <2>2. CASE ResetMapDownloadMetaConfig
    BY <2>2 DEF ResetMapDownloadMetaConfig, Event, Calling, Doing, Idle
  <2> QED
    BY <2>1, <2>2
<1>3. CheckInv'
  BY <1>1, <1>2 DEF ChecksInv, CheckInv, checkVars
<1>4. ServerInv'
  BY <1>1, <1>2 DEF ChecksInv, ServerInv, checkVars
<1>5. NewerInv'
  BY <1>1, <1>2 DEF ChecksInv, NewerInv, checkVars
<1> QED
  BY <1>3, <1>4, <1>5 DEF ChecksInv

\* There are servers for a text file.
LEMMA ServersForTextChecks ==
  ASSUME TypesInv, ChecksInv, GotServersForText
  PROVE  ChecksInv' /\ ~Calling(CheckOps)'
<1>1. /\ Calling(ServerOps) /\ ~Calling(CheckOps) /\ ~Idle
      /\ fetch = "servers" /\ fetch' \in {"countries", "signature"}
      /\ Nobody(gui, ServerOps) /\ Nobody(network, ServerOps)
  BY Operations DEF GotServersForText, Doing, Calling, ChecksInv, ServerInv, CheckInv
<1>2. /\ UNCHANGED <<version, checking, latest, deferred, network, gui>> /\ requested' = FALSE
      /\ Return
  BY DEF GotServersForText, threadVars
<1>3. Quiet(calls')
  BY <1>1, <1>2, Returns
<1>4. ~Calling(CheckOps)' /\ ~Calling(ServerOps)' /\ ~Doing("startPending")'
  BY <1>3 DEF Quiet, Calling, Doing, Idle
<1>5. CheckInv'
  BY <1>1, <1>2, <1>4 DEF ChecksInv, CheckInv
<1>6. ServerInv'
  BY <1>1, <1>2, <1>4 DEF ChecksInv, ServerInv
<1>7. NewerInv'
  BY <1>1, <1>2, <1>4 DEF ChecksInv, NewerInv
<1> QED
  BY <1>4, <1>5, <1>6, <1>7 DEF ChecksInv

\* A version that was put off is applied.
LEMMA ApplyPendingChecks ==
  ASSUME TypesInv, ChecksInv, ApplyPendingCountries
  PROVE  ChecksInv'
<1>1. /\ ~Idle /\ ~Calling(CheckOps) /\ ~Calling(ServerOps) /\ deferred # 0 /\ deferred > version
      /\ fetch = "none" /\ Nobody(gui, CheckOps) /\ checking = TRUE
  BY Operations DEF ApplyPendingCountries, Doing, Calling, ChecksInv, CheckInv, NewerInv
<1>2. /\ UNCHANGED <<version, checking, fetch, latest, serverVars, threadVars, gui>>
      /\ deferred' = 0 /\ Call(<<Task("apply", NoCountry, deferred)>>)
  BY <1>1 DEF ApplyPendingCountries
<1>3. calls' # <<>> /\ Head(calls') = Task("apply", NoCountry, deferred)
  <2>1. deferred \in Versions
    BY <1>1, VersionAssumption DEF TypesInv, TypeOK, Versions
  <2>2. Task("apply", NoCountry, deferred) \in FirstCall
    BY <2>1, TaskTypes DEF CheckOps
  <2> QED
    BY <1>1, <1>2, <2>2, CallsOne
<1>4. /\ Calling(CheckOps)' /\ ~Calling(ServerOps)' /\ ~Doing("startPending")'
      /\ Head(calls').arg = deferred
  BY <1>3, Operations DEF Calling, Doing, Idle
<1>5. CheckInv'
  BY <1>1, <1>2, <1>4 DEF ChecksInv, CheckInv
<1>6. ServerInv'
  BY <1>1, <1>2, <1>4 DEF ChecksInv, ServerInv, serverVars, threadVars
<1>7. NewerInv'
  BY <1>1, <1>2, <1>4 DEF ChecksInv, NewerInv
<1> QED
  BY <1>5, <1>6, <1>7 DEF ChecksInv

\* A version is applied, and the check ends.
LEMMA ApplyChecks ==
  ASSUME TypesInv, ChecksInv, ApplyCountriesInMemory
  PROVE  ChecksInv' /\ version' > version
<1>1. /\ ~Idle /\ Calling(CheckOps) /\ ~Calling(ServerOps) /\ deferred = 0
      /\ fetch = "none" /\ Nobody(gui, CheckOps) /\ Arg > version
  BY Operations DEF ApplyCountriesInMemory, Doing, Calling, Arg, ChecksInv, CheckInv, NewerInv
<1>2. /\ UNCHANGED <<latest, deferred, serverVars, threadVars, gui>>
      /\ version' = Arg /\ checking' = FALSE /\ fetch' = "none" /\ Call(<<Do("startPending")>>)
  BY DEF ApplyCountriesInMemory, EndCheck
<1>3. calls' # <<>> /\ Head(calls') = Do("startPending")
  <2>1. Do("startPending") \in FirstCall
    BY TaskTypes DEF PlainOps
  <2> QED
    BY <1>1, <1>2, <2>1, CallsOne
<1>4. ~Calling(CheckOps)' /\ ~Calling(ServerOps)'
  BY <1>3, Operations DEF Calling, Doing, Idle
<1>5. CheckInv'
  BY <1>1, <1>2, <1>4 DEF ChecksInv, CheckInv
<1>6. ServerInv'
  BY <1>1, <1>2, <1>4 DEF ChecksInv, ServerInv, serverVars, threadVars
<1>7. NewerInv'
  BY <1>1, <1>2, <1>4 DEF ChecksInv, NewerInv, Nobody
<1> QED
  BY <1>1, <1>2, <1>5, <1>6, <1>7 DEF ChecksInv

\* The new version is applied at once, or put off; none was put off before.
LEMMA ApplyOrDeferChecks ==
  ASSUME TypesInv, ChecksInv, ApplyOrDefer
  PROVE  ChecksInv'
<1>1. /\ ~Idle /\ Calling(CheckOps) /\ ~Calling(ServerOps) /\ deferred = 0 /\ checking = TRUE
      /\ fetch = "none" /\ Nobody(gui, CheckOps) /\ Arg > version
  BY Operations DEF ApplyOrDefer, Doing, Calling, Arg, ChecksInv, CheckInv, NewerInv
<1>2. Arg \in Versions /\ Arg # 0
  BY <1>1, ThisCall, VersionAssumption DEF Calling, Versions
<1>3. UNCHANGED <<version, checking, fetch, latest, serverVars, threadVars, gui>>
  BY <1>1 DEF ApplyOrDefer
<1>4. CASE Call(<<Task("apply", NoCountry, Arg)>>) /\ deferred' = deferred
  <2>1. Task("apply", NoCountry, Arg) \in FirstCall
    BY <1>2, TaskTypes DEF CheckOps
  <2>2. calls' # <<>> /\ Head(calls') = Task("apply", NoCountry, Arg)
    BY <1>1, <1>4, <2>1, CallsOne
  <2>3. /\ Calling(CheckOps)' /\ ~Calling(ServerOps)' /\ ~Doing("startPending")'
        /\ Head(calls').arg = Arg
    BY <2>2, Operations DEF Calling, Doing, Idle
  <2>4. CheckInv'
    BY <1>1, <1>3, <1>4, <2>3 DEF ChecksInv, CheckInv
  <2>5. ServerInv'
    BY <1>1, <1>3, <1>4, <2>3 DEF ChecksInv, ServerInv, serverVars, threadVars
  <2>6. NewerInv'
    BY <1>1, <1>3, <1>4, <2>3 DEF ChecksInv, NewerInv
  <2> QED
    BY <2>4, <2>5, <2>6 DEF ChecksInv
<1>5. CASE Return /\ deferred' = Arg
  <2>1. Quiet(calls')
    BY <1>1, <1>5, Returns
  <2>2. ~Calling(CheckOps)' /\ ~Calling(ServerOps)' /\ ~Doing("startPending")'
    BY <2>1 DEF Quiet, Calling, Doing, Idle
  <2>3. CheckInv'
    BY <1>1, <1>2, <1>3, <1>5, <2>2 DEF ChecksInv, CheckInv
  <2>4. ServerInv'
    BY <1>1, <1>3, <1>5, <2>2 DEF ChecksInv, ServerInv, serverVars, threadVars
  <2>5. NewerInv'
    BY <1>1, <1>3, <1>5, <2>2 DEF ChecksInv, NewerInv
  <2> QED
    BY <2>3, <2>4, <2>5 DEF ChecksInv
<1> QED
  BY <1>1, <1>4, <1>5 DEF ApplyOrDefer

\* The text files of a check come, or do not.
LEMMA FetchChecks ==
  ASSUME TypesInv, ChecksInv,
         TextRefused \/ FetchFailed \/ CountriesFetched \/ SignatureFetched \/ \E v \in Versions : MapsFetched(v)
  PROVE  ChecksInv'
<1>1. /\ Idle /\ fetch \notin {"none", "servers"} /\ checking = TRUE /\ deferred = 0
      /\ Nobody(gui, CheckOps) /\ Nobody(gui, ServerOps) /\ Nobody(network, ServerOps)
  BY DEF TextRefused, FetchFailed, CountriesFetched, SignatureFetched, MapsFetched, Event, ChecksInv,
         CheckInv, ServerInv
<1>2. CASE TextRefused \/ FetchFailed
  <2>1. /\ UNCHANGED <<version, latest, deferred, serverVars, threadVars, gui>>
        /\ checking' = FALSE /\ fetch' = "none" /\ calls' = <<Do("startPending")>>
    BY <1>2 DEF TextRefused, FetchFailed, GiveUpCheck, EndCheck
  <2>2. Head(<<Do("startPending")>>) = Do("startPending")
    OBVIOUS
  <2>3. ~Calling(CheckOps)' /\ ~Calling(ServerOps)'
    BY <2>1, <2>2, Operations DEF Calling
  <2>4. CheckInv'
    BY <1>1, <2>1, <2>3 DEF ChecksInv, CheckInv
  <2>5. ServerInv'
    BY <1>1, <2>1, <2>3 DEF ChecksInv, ServerInv, serverVars, threadVars
  <2>6. NewerInv'
    BY <1>1, <2>1, <2>3 DEF ChecksInv, NewerInv
  <2> QED
    BY <2>4, <2>5, <2>6 DEF ChecksInv
<1>3. ASSUME NEW op \in ServerOps, network' = Append(network, Do(op)), fetch' = "servers",
             UNCHANGED <<version, checking, deferred, gui, calls>>, latest' > version
      PROVE  ChecksInv'
  <2>1. network \in Seq(NetworkTask) /\ Do(op) \in NetworkTask /\ Do(op).op \in ServerOps
    BY <1>3, TaskTypes, Operations DEF TypesInv
  <2>2. OnlyOne(network', ServerOps) /\ ~Nobody(network', ServerOps)
    <3>1. OnlyOne(network, ServerOps)
      BY DEF ChecksInv, ServerInv
    <3>2. /\ Nobody(network', ServerOps) =
               (Nobody(network, ServerOps) /\ Do(op).op \notin ServerOps)
          /\ OnlyOne(network, ServerOps) /\ (Do(op).op \notin ServerOps \/ Nobody(network, ServerOps))
               => OnlyOne(network', ServerOps)
      BY <1>3, <2>1, AddedTask
    <3> QED
      BY <1>1, <2>1, <3>1, <3>2
  <2>3. ~Calling(CheckOps)' /\ ~Calling(ServerOps)' /\ ~Doing("startPending")'
    BY <1>1, <1>3 DEF Calling, Doing, Idle
  <2>4. CheckInv'
    BY <1>1, <1>3, <2>3 DEF ChecksInv, CheckInv
  <2>5. ServerInv'
    BY <1>1, <1>3, <2>2, <2>3 DEF ChecksInv, ServerInv
  <2>6. NewerInv'
    BY <1>1, <1>3, <2>3 DEF ChecksInv, NewerInv
  <2> QED
    BY <2>4, <2>5, <2>6 DEF ChecksInv
<1>4. ASSUME NEW v \in Versions, MapsFetched(v)
      PROVE  ChecksInv'
  <2>1. /\ network' = Append(network, Do("countries")) /\ fetch' = "servers"
        /\ UNCHANGED <<version, checking, deferred, gui, calls>> /\ latest' > version
    BY <1>4 DEF MapsFetched, AskMetaServer
  <2> QED
    BY <1>3, <2>1, Operations
<1>5. CASE CountriesFetched
  <2>1. /\ UNCHANGED <<version, checking, latest, deferred, gui, calls>>
        /\ latest > version /\ ~requested
    BY <1>5 DEF CountriesFetched, ChecksInv, ServerInv, NewerInv
  <2>2. CASE servers
    <3>1. fetch' = "signature" /\ network' = network /\ requested' = requested
      BY <1>5, <2>2 DEF CountriesFetched
    <3>2. ~Calling(CheckOps)' /\ ~Calling(ServerOps)' /\ ~Doing("startPending")'
      BY <1>1, <2>1 DEF Calling, Doing, Idle
    <3>3. CheckInv'
      BY <1>1, <2>1, <3>1, <3>2 DEF ChecksInv, CheckInv
    <3>4. ServerInv'
      BY <1>1, <2>1, <3>1, <3>2 DEF ChecksInv, ServerInv
    <3>5. NewerInv'
      BY <1>1, <2>1, <3>1, <3>2 DEF ChecksInv, NewerInv
    <3> QED
      BY <3>3, <3>4, <3>5 DEF ChecksInv
  <2>3. CASE ~servers
    <3>1. fetch' = "servers" /\ network' = Append(network, Do("signature"))
      BY <1>5, <2>1, <2>3 DEF CountriesFetched, AskMetaServer
    <3> QED
      BY <1>3, <2>1, <3>1, Operations
  <2> QED
    BY <2>2, <2>3
<1>6. CASE SignatureFetched
  <2>1. /\ UNCHANGED <<version, checking, latest, deferred, serverVars, network, calls>>
        /\ fetch' = "none" /\ gui' = Append(gui, Task("applyOrDefer", NoCountry, latest))
        /\ latest > version
    BY <1>6 DEF SignatureFetched, ChecksInv, NewerInv
  <2> DEFINE t == Task("applyOrDefer", NoCountry, latest)
  <2>2. t \in GuiTask /\ t.op \in CheckOps /\ t.op \notin ServerOps /\ t.arg > version
    <3>1. latest \in Versions
      BY <2>1, VersionAssumption DEF TypesInv, TypeOK, Versions
    <3>2. t.op = "applyOrDefer" /\ t.arg = latest
      BY Operations
    <3> QED
      BY <2>1, <3>1, <3>2, TaskTypes, Operations
  <2>3. gui \in Seq(GuiTask) /\ gui' = Append(gui, t)
    BY <2>1 DEF TypesInv
  <2> HIDE DEF t
  <2>4. /\ OnlyOne(gui, CheckOps) /\ OnlyOne(gui, ServerOps)
    BY DEF ChecksInv, CheckInv, ServerInv
  <2>5. /\ Nobody(gui', CheckOps) = (Nobody(gui, CheckOps) /\ t.op \notin CheckOps)
        /\ OnlyOne(gui, CheckOps) /\ (t.op \notin CheckOps \/ Nobody(gui, CheckOps))
             => OnlyOne(gui', CheckOps)
    BY <2>2, <2>3, AddedTask
  <2>6. /\ Nobody(gui', ServerOps) = (Nobody(gui, ServerOps) /\ t.op \notin ServerOps)
        /\ OnlyOne(gui, ServerOps) /\ (t.op \notin ServerOps \/ Nobody(gui, ServerOps))
             => OnlyOne(gui', ServerOps)
    BY <2>2, <2>3, AddedTask
  <2>7. ~Calling(CheckOps)' /\ ~Calling(ServerOps)' /\ ~Doing("startPending")'
    BY <1>1, <2>1 DEF Calling, Doing, Idle
  <2>8. CheckInv'
    BY <1>1, <2>1, <2>2, <2>4, <2>5, <2>7 DEF ChecksInv, CheckInv
  <2>9. ServerInv'
    BY <1>1, <2>1, <2>2, <2>4, <2>6, <2>7 DEF ChecksInv, ServerInv, serverVars
  <2>10. NewerInv'
    <3>1. \A k \in DOMAIN gui' : (k \in DOMAIN gui /\ gui'[k] = gui[k]) \/ gui'[k] = t
      BY <2>2, <2>3, AddedElements
    <3> QED
      BY <1>1, <2>1, <2>2, <2>7, <3>1 DEF ChecksInv, NewerInv
  <2> QED
    BY <2>8, <2>9, <2>10 DEF ChecksInv
<1> QED
  BY <1>2, <1>4, <1>5, <1>6

\* The next task of the GUI thread may be one of a check.
LEMMA GuiChecks ==
  ASSUME TypesInv, ChecksInv, RunGuiTask
  PROVE  ChecksInv'
<1> DEFINE t == Head(gui)
<1>1. /\ gui \in Seq(GuiTask) /\ gui # <<>> /\ t \in GuiTask
      /\ gui' = Tail(gui) /\ calls' = <<t>> /\ Idle
      /\ UNCHANGED <<checkVars, serverVars, threadVars>>
  BY TakeType DEF RunGuiTask, TypesInv
<1>2. t.op # "startPending"
  BY <1>1 DEF GuiTask, LeafTask, FileTask, VersionTask, PlainTask, ServerOps
<1>3. t = gui[1] /\ 1 \in DOMAIN gui
      /\ \A k \in DOMAIN gui' : k + 1 \in DOMAIN gui /\ gui'[k] = gui[k + 1]
  <2>1. /\ Len(gui) \in Nat /\ Len(gui) > 0 /\ DOMAIN gui = 1..Len(gui)
        /\ DOMAIN gui' = 1..(Len(gui) - 1)
        /\ \A k \in 1..(Len(gui) - 1) : gui'[k] = gui[k + 1]
    BY <1>1, EmptySeq, LenProperties, HeadTailProperties
  <2> QED
    BY <1>1, <2>1
<1>4. Head(<<t>>) = t /\ <<t>> # <<>>
  OBVIOUS
<1> HIDE DEF t
<1>5. /\ Calling(CheckOps)' = (t.op \in CheckOps) /\ Calling(ServerOps)' = (t.op \in ServerOps)
      /\ ~Doing("startPending")' /\ ~Calling(CheckOps) /\ ~Calling(ServerOps)
  BY <1>1, <1>2, <1>4 DEF Calling, Doing, Idle
<1>6. \A ops : /\ Nobody(gui, ops) = (t.op \notin ops /\ Nobody(gui', ops))
               /\ OnlyOne(gui, ops) =>
                    OnlyOne(gui', ops) /\ (t.op \in ops => Nobody(gui', ops))
  <2>1. Head(gui) = t
    BY DEF t
  <2> QED
    BY <1>1, <2>1, TakenTask
<1>7. /\ Nobody(gui', CheckOps) \in BOOLEAN /\ Nobody(gui', ServerOps) \in BOOLEAN
  BY DEF Nobody
<1>8. CheckInv'
  BY <1>1, <1>5, <1>6, <1>7 DEF ChecksInv, CheckInv, checkVars
<1>9. ServerInv'
  BY <1>1, <1>5, <1>6, <1>7 DEF ChecksInv, ServerInv, checkVars, serverVars, threadVars
<1>10. NewerInv'
  BY <1>1, <1>3, <1>4, <1>5 DEF ChecksInv, NewerInv, checkVars
<1> QED
  BY <1>8, <1>9, <1>10 DEF ChecksInv

\* The application starts again, without a check.
LEMMA RestartChecks ==
  ASSUME TypesInv, Restart
  PROVE  ChecksInv'
<1>1. /\ checking' = FALSE /\ fetch' = "none" /\ latest' = 0 /\ deferred' = 0
      /\ gui' = <<>> /\ network' = <<>> /\ requested' = FALSE
  BY DEF Restart
<1>2. \A ops : Nobody(<<>>, ops) /\ OnlyOne(<<>>, ops)
  BY DEF Nobody, OnlyOne
<1>3. Quiet(calls')
  BY RestartTypes
<1>4. ~Calling(CheckOps)' /\ ~Calling(ServerOps)' /\ ~Doing("startPending")'
  BY <1>3 DEF Quiet, Calling, Doing, Idle
<1>5. CheckInv'
  BY <1>1, <1>2, <1>4 DEF CheckInv
<1>6. ServerInv'
  BY <1>1, <1>2, <1>4 DEF ServerInv
<1>7. NewerInv'
  BY <1>1, <1>4 DEF NewerInv
<1> QED
  BY <1>5, <1>6, <1>7 DEF ChecksInv

-----------------------------------------------------------------------------
(* Types and checks together. *)

\* The handlers that have nothing to do with a check, as an action.
QuietHandlers ==
  \/ DownloadNothing \/ DownloadImpossible \/ DownloadFound
  \/ EnqueueCountry \/ ClearPending
  \/ StartRequest \/ StartRequestWithoutFile \/ RequestForbidden \/ NextRequest
  \/ Verified \/ Rejected \/ RegisterDownloadedFiles \/ RegisterMissingFile
  \/ FinishDownloading
  \/ Forgive \/ Stop \/ RemoveFromQueue \/ CleanUp
  \/ DeleteCountry \/ DeleteNothing \/ DeleteCustomCountryVersion

\* They keep the types, and the checks do not notice them.
LEMMA QuietHandlersStep ==
  ASSUME TypesInv, QuietHandlers
  PROVE  TypesInv' /\ QuietStep
<1>1. CASE DownloadNothing \/ DownloadImpossible \/ DownloadFound
  BY <1>1, DownloadTypes, OtherHandlers
<1>2. CASE Verified \/ Rejected \/ RegisterDownloadedFiles \/ RegisterMissingFile
  BY <1>2, RegisterTypes, OtherHandlers
<1>3. CASE \/ Forgive \/ Stop \/ CleanUp \/ DeleteCountry \/ DeleteNothing
           \/ DeleteCustomCountryVersion
  BY <1>3, CancelTypes, OtherHandlers
<1>4. CASE StartRequest \/ StartRequestWithoutFile \/ RequestForbidden
  BY <1>4, RequestTypes, OtherHandlers
<1>5. CASE ClearPending \/ FinishDownloading
  BY <1>5, QuietTypes, OtherHandlers
<1>6. CASE EnqueueCountry \/ NextRequest \/ RemoveFromQueue
  BY <1>6, QueueTypes, OtherHandlers
<1> QED
  BY <1>1, <1>2, <1>3, <1>4, <1>5, <1>6 DEF QuietHandlers

\* The other handlers belong to a check, or may begin one.
LEMMA HandlersStep ==
  ASSUME TypesInv, ChecksInv, Handlers
  PROVE  TypesInv' /\ ChecksInv'
<1>1. CASE QuietHandlers
  BY <1>1, QuietHandlersStep, SameChecks
<1>2. CASE StartPending
  BY <1>2, PendingTypes, StartPendingChecks
<1>3. CASE GotServersForMaps
  BY <1>3, PendingTypes, ServersForMapsChecks
<1>4. CASE GotServersForText
  BY <1>4, PendingTypes, ServersForTextChecks
<1>5. CASE DownloadQueued
  BY <1>5, DownloadQueuedTypes, DownloadQueuedChecks
<1>6. CASE ApplyPendingCountries
  BY <1>6, ApplyTypes, ApplyPendingChecks
<1>7. CASE ApplyCountriesInMemory
  BY <1>7, ApplyTypes, ApplyChecks
<1>8. CASE ApplyOrDefer
  BY <1>8, ApplyTypes, ApplyOrDeferChecks
<1> QED
  BY <1>1, <1>2, <1>3, <1>4, <1>5, <1>6, <1>7, <1>8 DEF Handlers, QuietHandlers

\* What users and the environment do.
LEMMA EnvironmentStep ==
  ASSUME TypesInv, ChecksInv, Environment
  PROVE  TypesInv' /\ ChecksInv'
<1>1. ASSUME NEW n \in Nodes, DownloadNode(n) \/ RetryDownloadNode(n) \/ DeleteNode(n)
      PROVE  TypesInv' /\ ChecksInv'
  BY <1>1, AskTypes, OtherEvents, SameChecks
<1>2. ASSUME NEW n \in Nodes, CancelDownloadNode(n)
      PROVE  TypesInv' /\ ChecksInv'
  BY <1>2, CancelNodeTypes, OtherEvents, SameChecks
<1>3. CASE ResetMapDownloadMetaConfig
  BY <1>3, EventTypes, ServersForMapsChecks
<1>4. CASE RunCountriesCheck
  BY <1>4, EventTypes, RunChecks
<1>5. CASE \E v \in Versions : MapsFetched(v)
  BY <1>5, FetchTypes, FetchChecks DEF ChecksInv
<1>6. ASSUME NEW c \in Leaves, FindBadMap(c)
      PROVE  TypesInv' /\ ChecksInv'
  BY <1>6, MapTypes, OtherThreads, SameChecks
<1>7. CASE Restart
  BY <1>7, RestartTypes, RestartChecks
<1> QED
  BY <1>1, <1>2, <1>3, <1>4, <1>5, <1>6, <1>7 DEF Environment

\* The types and the places of a check are kept by every step.
LEMMA TypesStep ==
  ASSUME TypesInv, ChecksInv, [Next]_vars
  PROVE  TypesInv' /\ ChecksInv'
<1>1. CASE Environment
  BY <1>1, EnvironmentStep
<1>2. CASE GuiThread
  BY <1>2, HandlersStep, GuiTypes, GuiChecks DEF GuiThread
<1>3. CASE Download
  BY <1>3, EventTypes, CompletedTypes, OtherEvents, SameChecks DEF Download
<1>4. CASE Fetch
  BY <1>4, FetchTypes, EventTypes, FetchChecks DEF Fetch, ChecksInv
<1>5. CASE FileThread
  BY <1>5, ThreadTypes, OtherThreads, SameChecks
<1>6. CASE GetMetaConfig
  BY <1>6, ThreadTypes, GetMetaChecks
<1>7. CASE Release
  BY <1>7, MapTypes, OtherThreads, SameChecks DEF Release
<1>8. CASE UNCHANGED vars
  <2>1. /\ UNCHANGED <<queueVars, serverVars, countryVars, checkVars, calls, gui, threadVars>>
        /\ UNCHANGED <<diskVars, saved, mwmVars, left>>
    BY <1>8 DEF vars
  <2>2. TypeOK'
    BY <2>1 DEF TypesInv, TypeOK, queueVars, serverVars, countryVars, checkVars, diskVars, mwmVars
  <2>3. TypesInv'
    BY <2>1, <2>2 DEF TypesInv, queueVars, threadVars, Doing, Idle
  <2>4. GuiGetsNoCheck /\ CallsNoCheck
    BY <2>1 DEF GuiGetsNoCheck, CallsNoCheck
  <2>5. QuietStep
    BY <2>1, <2>4 DEF QuietStep, serverVars, threadVars
  <2> QED
    BY <2>3, <2>5, SameChecks
<1> QED
  BY <1>1, <1>2, <1>3, <1>4, <1>5, <1>6, <1>7, <1>8 DEF Next

\* The first start.
LEMMA TypesInit == Init => TypesInv /\ ChecksInv
<1> SUFFICES ASSUME Init PROVE TypesInv /\ ChecksInv
  OBVIOUS
<1>1. /\ <<>> \in Seq(Leaves) /\ <<>> \in Seq(GuiTask) /\ <<>> \in Seq(FirstCall)
      /\ <<>> \in Seq(ThreadTask) /\ <<>> \in Seq(NetworkTask)
  OBVIOUS
<1>2. PICK installed \in SUBSET Leaves :
        /\ disk = {[id |-> c, version |-> Bundled, intact |-> TRUE] : c \in installed}
        /\ localFiles = [c \in Leaves |-> IF c \in installed THEN {Bundled} ELSE {}]
        /\ mwm = [c \in Leaves |-> IF c \in installed THEN Bundled ELSE 0]
  BY DEF Init
<1>3. Bundled \in Versions /\ Bundled \in 0..MaxVersion /\ 0 \in 0..MaxVersion
  BY VersionAssumption DEF Versions
<1>4. /\ localFiles \in [Leaves -> SUBSET Versions] /\ mwm \in [Leaves -> 0..MaxVersion]
      /\ \A f \in disk : f.id \in Leaves /\ f.version \in Versions
  BY <1>2, <1>3
<1>5. /\ version = Bundled /\ queue = <<>> /\ pending = <<>> /\ request = NoRequest
      /\ servers = FALSE /\ requested = FALSE /\ downloading = {} /\ failed = {}
      /\ checking = FALSE /\ fetch = "none" /\ latest = 0 /\ deferred = 0
      /\ calls = <<>> /\ gui = <<>> /\ fileThread = <<>> /\ network = <<>>
      /\ ready = {} /\ countriesTxt = 0 /\ saved = <<>> /\ doomed = {} /\ left = MaxEvents
  BY DEF Init
<1>6. TypeOK
  <2>1. version \in Versions /\ latest \in 0..MaxVersion /\ deferred \in 0..MaxVersion
    BY <1>3, <1>5
  <2>2. countriesTxt \in 0..MaxVersion /\ left \in 0..MaxEvents
    BY <1>3, <1>5, EventsAssumption
  <2>3. queue \in Seq(Leaves) /\ pending \in Seq(Leaves) /\ saved \in Seq(Leaves)
    BY <1>1, <1>5
  <2>4. /\ {servers, requested, checking} \subseteq BOOLEAN
        /\ fetch \in {"none", "maps", "servers", "countries", "signature"}
        /\ downloading \subseteq Leaves /\ failed \subseteq Leaves
        /\ doomed \subseteq Leaves \X Versions
    BY <1>5
  <2>5. \A f \in disk \cup ready : f.id \in Leaves /\ f.version \in Versions
    BY <1>4, <1>5
  <2> QED
    BY <1>4, <1>5, <2>1, <2>2, <2>3, <2>4, <2>5 DEF TypeOK
<1>7. TypesInv
  BY <1>1, <1>5, <1>6 DEF TypesInv, IsStack, Doing, Idle
<1>8. \A ops : Nobody(<<>>, ops) /\ OnlyOne(<<>>, ops)
  BY DEF Nobody, OnlyOne
<1>9. ~Calling(CheckOps) /\ ~Calling(ServerOps) /\ ~Doing("startPending")
  BY <1>5 DEF Calling, Doing, Idle
<1>10. CheckInv
  BY <1>5, <1>8, <1>9 DEF CheckInv
<1>11. ServerInv
  BY <1>5, <1>8, <1>9 DEF ServerInv
<1>12. NewerInv
  BY <1>5, <1>9 DEF NewerInv
<1> QED
  BY <1>7, <1>10, <1>11, <1>12 DEF ChecksInv

\* Types and checks, in every state.
LEMMA TypesAreOK == Spec => [](TypesInv /\ ChecksInv)
<1>1. Init => TypesInv /\ ChecksInv
  BY TypesInit
<1>2. (TypesInv /\ ChecksInv) /\ [Next]_vars => (TypesInv /\ ChecksInv)'
  BY TypesStep
<1> QED
  BY <1>1, <1>2, PTL DEF Spec

\* Every variable keeps its type, through every operation of Storage.
THEOREM TypeCorrect == Spec => []TypeOK
<1>1. TypesInv => TypeOK
  BY DEF TypesInv
<1> QED
  BY <1>1, TypesAreOK, PTL

\* A call of a check is the running one.
LEMMA CallPlaces ==
  ASSUME TypesInv, NEW ops, ops = CheckOps \/ ops = ServerOps
  PROVE  Tasks("calls", calls, ops) = IF Calling(ops) THEN {<<"calls", 1>>} ELSE {}
<1>1. CASE calls = <<>>
  BY <1>1 DEF Tasks, Calling, Idle
<1>2. CASE calls # <<>>
  <2>1. calls \in Seq(FirstCall) /\ Tail(calls) \in Seq(LaterCall)
    BY <1>2 DEF TypesInv, IsStack
  <2>2. /\ Len(calls) \in Nat /\ Len(calls) > 0 /\ DOMAIN calls = 1..Len(calls)
        /\ Head(calls) = calls[1] /\ Len(Tail(calls)) = Len(calls) - 1
        /\ \A k \in 1..(Len(calls) - 1) : Tail(calls)[k] = calls[k + 1]
    BY <1>2, <2>1, EmptySeq, LenProperties, HeadTailProperties
  <2>3. \A k \in DOMAIN calls : k # 1 => calls[k] \in LaterCall
    <3>1. SUFFICES ASSUME NEW k \in DOMAIN calls, k # 1 PROVE calls[k] \in LaterCall
      OBVIOUS
    <3>2. k - 1 \in 1..(Len(calls) - 1) /\ (k - 1) + 1 = k
      BY <2>2, <3>1
    <3>3. Tail(calls)[k - 1] \in LaterCall
      BY <2>1, <2>2, <3>2, ElementOfSeq
    <3> QED
      BY <2>2, <3>2, <3>3
  <2>4. \A t \in LaterCall : t.op \notin CheckOps \cup ServerOps
    BY DEF LaterCall, LeafTask, PlainTask, CheckOps, ServerOps
  <2>5. \A k \in DOMAIN calls : calls[k].op \in ops => k = 1
    BY <2>3, <2>4
  <2>6. 1 \in DOMAIN calls
    BY <2>2
  <2>7. {k \in DOMAIN calls : calls[k].op \in ops} = IF Calling(ops) THEN {1} ELSE {}
    BY <1>2, <2>2, <2>5, <2>6 DEF Calling, Idle
  <2> QED
    BY <2>7 DEF Tasks
<1> QED
  BY <1>1, <1>2

\* A thread has one task of a kind at most.
LEMMA TaskPlaces ==
  ASSUME NEW name, NEW tasks, NEW ops
  PROVE  /\ Nobody(tasks, ops) => Tasks(name, tasks, ops) = {}
         /\ OnlyOne(tasks, ops) /\ ~Nobody(tasks, ops) =>
              \E k \in DOMAIN tasks : Tasks(name, tasks, ops) = {<<name, k>>}
BY DEF Nobody, OnlyOne, Tasks

\* A check is in one place exactly, and when it waits for the metaserver the answer
\* is on its way.
THEOREM ChecksAreSomewhere == Spec => []CheckIsSomewhere
<1>1. ASSUME TypesInv, ChecksInv
      PROVE  CheckIsSomewhere
  <2>1. /\ Tasks("calls", calls, CheckOps) = IF Calling(CheckOps) THEN {<<"calls", 1>>} ELSE {}
        /\ Tasks("calls", calls, ServerOps) = IF Calling(ServerOps) THEN {<<"calls", 1>>} ELSE {}
    BY <1>1, CallPlaces
  <2>2. CheckPlaces = (IF fetch = "none" THEN {} ELSE {<<"fetch", 1>>})
                        \cup (IF deferred = 0 THEN {} ELSE {<<"deferred", 1>>})
                        \cup Tasks("calls", calls, CheckOps) \cup Tasks("gui", gui, CheckOps)
    BY DEF CheckPlaces, CheckOps
  <2>3. ServerPlaces = Tasks("calls", calls, ServerOps) \cup Tasks("gui", gui, ServerOps)
                         \cup Tasks("network", network, ServerOps)
    BY DEF ServerPlaces, ServerOps
  <2>4. /\ Nobody(gui, CheckOps) => Tasks("gui", gui, CheckOps) = {}
        /\ ~Nobody(gui, CheckOps) =>
             \E k \in DOMAIN gui : Tasks("gui", gui, CheckOps) = {<<"gui", k>>}
    BY <1>1, TaskPlaces DEF ChecksInv, CheckInv
  <2>5. /\ Nobody(gui, ServerOps) => Tasks("gui", gui, ServerOps) = {}
        /\ ~Nobody(gui, ServerOps) =>
             \E k \in DOMAIN gui : Tasks("gui", gui, ServerOps) = {<<"gui", k>>}
    BY <1>1, TaskPlaces DEF ChecksInv, ServerInv
  <2>6. /\ Nobody(network, ServerOps) => Tasks("network", network, ServerOps) = {}
        /\ ~Nobody(network, ServerOps) =>
             \E k \in DOMAIN network : Tasks("network", network, ServerOps) = {<<"network", k>>}
    BY <1>1, TaskPlaces DEF ChecksInv, ServerInv
  <2>7. IF checking THEN \E p \in CheckPlaces : CheckPlaces = {p} ELSE CheckPlaces = {}
    <3>1. CASE fetch # "none"
      BY <1>1, <2>1, <2>2, <2>4, <3>1 DEF ChecksInv, CheckInv
    <3>2. CASE fetch = "none" /\ deferred # 0
      BY <1>1, <2>1, <2>2, <2>4, <3>2 DEF ChecksInv, CheckInv
    <3>3. CASE fetch = "none" /\ deferred = 0 /\ Calling(CheckOps)
      BY <1>1, <2>1, <2>2, <2>4, <3>3 DEF ChecksInv, CheckInv
    <3>4. CASE fetch = "none" /\ deferred = 0 /\ ~Calling(CheckOps) /\ ~Nobody(gui, CheckOps)
      BY <1>1, <2>1, <2>2, <2>4, <3>4 DEF ChecksInv, CheckInv
    <3>5. CASE fetch = "none" /\ deferred = 0 /\ ~Calling(CheckOps) /\ Nobody(gui, CheckOps)
      BY <1>1, <2>1, <2>2, <2>4, <3>5 DEF ChecksInv, CheckInv
    <3> QED
      BY <3>1, <3>2, <3>3, <3>4, <3>5
  <2>8. IF fetch = "servers" THEN \E p \in ServerPlaces : ServerPlaces = {p}
                             ELSE ServerPlaces = {}
    <3>1. CASE Calling(ServerOps)
      BY <1>1, <2>1, <2>3, <2>5, <2>6, <3>1 DEF ChecksInv, ServerInv
    <3>2. CASE ~Calling(ServerOps) /\ ~Nobody(gui, ServerOps)
      BY <1>1, <2>1, <2>3, <2>5, <2>6, <3>2 DEF ChecksInv, ServerInv
    <3>3. CASE ~Calling(ServerOps) /\ Nobody(gui, ServerOps)
      BY <1>1, <2>1, <2>3, <2>5, <2>6, <3>3 DEF ChecksInv, ServerInv
    <3> QED
      BY <3>1, <3>2, <3>3
  <2> QED
    BY <2>7, <2>8 DEF CheckIsSomewhere
<1> QED
  BY <1>1, TypesAreOK, PTL

\* The version is replaced only by a newer one, as ApplyCountriesInMemory asserts
\* (ASSERT_GREATER), except by a restart.
UpdatesAreNewer == [][ApplyCountriesInMemory => version' > version]_vars

\* So it is.
THEOREM OnlyNewerVersions == Spec => UpdatesAreNewer
<1>1. TypesInv /\ ChecksInv /\ [Next]_vars => [ApplyCountriesInMemory => version' > version]_vars
  BY ApplyChecks
<1> QED
  BY <1>1, TypesAreOK, PTL DEF Spec, UpdatesAreNewer

-----------------------------------------------------------------------------
(* The files. *)

\* The deletion of a file was posted to the GUI thread.
IsPosted(c, v) == \/ Task("deleteFile", c, v) \in Range(gui)
                  \/ ~Idle /\ Head(calls) = Task("deleteFile", c, v)

\* The file is that of a map that is shown, or is going to be deleted.
IsKnown(f) == \/ mwm[f.id] = f.version /\ f.version \in localFiles[f.id]
              \/ <<f.id, f.version>> \in doomed
              \/ IsPosted(f.id, f.version)

\* No map is newer than the version of the application, and every file is known.
FilesInv == \A f \in disk : f.version <= version /\ IsKnown(f)

NobodyKills == "crash" \notin Events /\ "crashInSave" \notin Events

\* Nobody restarts.
LEMMA NoRestart ==
  ASSUME NobodyKills
  PROVE  ~Restart
BY DEF NobodyKills, Restart, MayHappen

\* What the files do not notice: some are deleted, tasks are added, other calls run.
FilesRest ==
  /\ disk' \subseteq disk /\ UNCHANGED <<version, mwm, localFiles>> /\ doomed \subseteq doomed'
  /\ Range(gui) \subseteq Range(gui')
  /\ calls' = calls \/ Idle \/ Head(calls).op # "deleteFile"

\* The files that are left are known as before.
LEMMA FilesKeep ==
  ASSUME FilesInv, FilesRest
  PROVE  FilesInv'
<1>1. SUFFICES ASSUME NEW f \in disk'
               PROVE  f.version <= version' /\ IsKnown(f)'
  BY DEF FilesInv
<1>2. f \in disk /\ f.version <= version /\ IsKnown(f)
  BY DEF FilesInv, FilesRest
<1>3. IsPosted(f.id, f.version) => IsPosted(f.id, f.version)'
  BY Operations DEF FilesRest, IsPosted, Idle
<1> QED
  BY <1>2, <1>3 DEF FilesRest, IsKnown

\* A task that is added to the GUI thread is there, and the others still are.
LEMMA PostedTask ==
  ASSUME TypesInv, NEW t \in GuiTask, gui' = Append(gui, t)
  PROVE  Range(gui) \subseteq Range(gui') /\ t \in Range(gui')
<1>1. gui \in Seq(GuiTask)
  BY DEF TypesInv
<1>2. \A k \in DOMAIN gui : k \in DOMAIN gui' /\ gui'[k] = gui[k]
  BY <1>1, AddedElements
<1>3. Len(gui) + 1 \in DOMAIN gui' /\ gui'[Len(gui) + 1] = t
  <2>1. Len(gui) \in Nat /\ DOMAIN gui' = 1..(Len(gui) + 1) /\ gui'[Len(gui) + 1] = t
    BY <1>1, LenProperties, AppendProperties
  <2> QED
    BY <2>1
<1> QED
  BY <1>2, <1>3 DEF Range

\* The handlers that touch no map.
LEMMA FilesRestHandlers ==
  ASSUME TypesInv, FilesInv, Handlers,
         ~RegisterDownloadedFiles, ~ApplyCountriesInMemory, ~DeleteCountry,
         ~DeleteCustomCountryVersion
  PROVE  FilesInv'
<1>1. gui' = gui
  BY DEF Handlers, DownloadNothing, DownloadImpossible, DownloadFound, DownloadQueued,
         StartPending, GotServersForMaps, GotServersForText, EnqueueCountry, ClearPending,
         StartRequest, StartRequestWithoutFile, RequestForbidden, NextRequest, Verified,
         Rejected, RegisterMissingFile, FinishDownloading, ApplyPendingCountries, ApplyOrDefer,
         Forgive, Stop, RemoveFromQueue, CleanUp, DeleteNothing
<1>2. Head(calls).op # "deleteFile" \/ Idle
  BY DEF Handlers, DownloadNothing, DownloadImpossible, DownloadFound, DownloadQueued, Wanted,
         StartPending, GotServersForMaps, GotServersForText, EnqueueCountry, ClearPending,
         StartRequest, StartRequestWithoutFile, RequestForbidden, NextRequest, Verified,
         Rejected, RegisterMissingFile, FinishDownloading, ApplyPendingCountries, ApplyOrDefer,
         Forgive, Stop, RemoveFromQueue, CleanUp, DeleteNothing, Doing
<1>3. disk' \subseteq disk /\ UNCHANGED <<version, mwm, localFiles, doomed>>
  BY DEF Handlers, DownloadNothing, DownloadImpossible, DownloadFound, DownloadQueued,
         StartPending, GotServersForMaps, GotServersForText, EnqueueCountry, ClearPending,
         StartRequest, StartRequestWithoutFile, RequestForbidden, NextRequest, Verified,
         Rejected, RegisterMissingFile, FinishDownloading, ApplyPendingCountries, ApplyOrDefer,
         Forgive, Stop, RemoveFromQueue, CleanUp, DeleteNothing, countryVars, checkVars,
         diskVars, mwmVars
<1> QED
  BY <1>1, <1>2, <1>3, FilesKeep DEF FilesRest

\* A downloaded map becomes the map of its country; the one it replaces is deleted, now
\* or when nobody uses it any more.
LEMMA RegisterKeepsFiles ==
  ASSUME TypesInv, FilesInv, RegisterDownloadedFiles
  PROVE  FilesInv'
<1> DEFINE c == This
           file == Of(ready, c, version)
           replaced == mwm[c] \notin {0, version}
<1>1. ~Idle /\ c \in Leaves /\ Head(calls).op = "register"
  BY ThisCall DEF RegisterDownloadedFiles, Doing, LeafOps
<1>2. PICK held \in MayBeHeld :
        /\ disk' = (disk \ (Of(disk, c, version)
                            \cup IF replaced THEN Deletes(c, held) ELSE {})) \cup file
        /\ doomed' = (doomed \ {<<c, version>>}) \cup IF replaced THEN Dooms(c, held) ELSE {}
  BY DEF RegisterDownloadedFiles
<1>3. /\ mwm' = [mwm EXCEPT ![c] = version] /\ localFiles' = [localFiles EXCEPT ![c] = @ \cup {version}]
      /\ version' = version /\ gui' = gui
  BY DEF RegisterDownloadedFiles, checkVars
<1>4. /\ mwm \in [Leaves -> 0..MaxVersion] /\ localFiles \in [Leaves -> SUBSET Versions]
      /\ version \in Nat /\ version \in Versions
  BY DEF TypesInv, TypeOK, Versions
<1>5. ASSUME NEW f \in file
      PROVE  f.version <= version' /\ IsKnown(f)'
  <2>1. f.id = c /\ f.version = version
    BY DEF Of
  <2>2. mwm'[c] = version /\ version \in localFiles'[c]
    BY <1>1, <1>3, <1>4
  <2> QED
    BY <1>3, <1>4, <2>1, <2>2 DEF IsKnown
<1>6. ASSUME NEW f \in disk, f \in disk', f \notin file
      PROVE  f.version <= version' /\ IsKnown(f)'
  <2>1. /\ f.version <= version /\ IsKnown(f) /\ f.id \in Leaves /\ f.version \in Versions
    BY DEF FilesInv, TypesInv, TypeOK
  <2>2. IsPosted(f.id, f.version) => IsPosted(f.id, f.version)'
    BY <1>1, <1>3, Operations DEF IsPosted, Idle
  <2>3. CASE IsPosted(f.id, f.version)
    BY <1>3, <2>1, <2>2, <2>3 DEF IsKnown
  <2>4. f \notin Of(disk, c, version)
    BY <1>2, <1>6
  <2>5. CASE <<f.id, f.version>> \in doomed
    <3>1. <<f.id, f.version>> # <<c, version>>
      BY <1>6, <2>4 DEF Of
    <3>2. <<f.id, f.version>> \in doomed'
      BY <1>2, <2>5, <3>1
    <3> QED
      BY <1>3, <2>1, <3>2 DEF IsKnown
  <2>6. CASE mwm[f.id] = f.version /\ f.version \in localFiles[f.id]
    <3>1. CASE f.id # c
      BY <1>1, <1>3, <1>4, <2>1, <2>6, <3>1 DEF IsKnown
    <3>2. CASE f.id = c
      <4>1. replaced
        BY <1>6, <2>1, <2>4, <2>6, <3>2 DEF Of, Versions
      <4>2. f \in Of(disk, c, mwm[c])
        BY <1>6, <2>6, <3>2 DEF Of
      <4>3. held = TRUE
        BY <1>2, <1>6, <4>1, <4>2 DEF Deletes, MayBeHeld
      <4>4. <<f.id, f.version>> \in doomed'
        BY <1>2, <2>6, <3>2, <4>1, <4>3 DEF Dooms
      <4> QED
        BY <1>3, <2>1, <4>4 DEF IsKnown
    <3> QED
      BY <3>1, <3>2
  <2> QED
    BY <2>1, <2>3, <2>5, <2>6 DEF IsKnown
<1>7. \A f \in disk' : f \in file \/ f \in disk
  BY <1>2
<1> QED
  BY <1>5, <1>6, <1>7 DEF FilesInv

\* A new version is applied: of several maps of a country the latest is kept.
LEMMA ApplyKeepsFiles ==
  ASSUME TypesInv, ChecksInv, FilesInv, ApplyCountriesInMemory
  PROVE  FilesInv'
<1>1. ~Idle /\ Arg \in Versions /\ Head(calls).op = "apply" /\ Arg > version
  BY ThisCall, Operations
  DEF ApplyCountriesInMemory, Doing, CheckOps, Arg, ChecksInv, NewerInv, Calling
<1>2. /\ version' = Arg /\ UNCHANGED <<gui, mwm, doomed>> /\ localFiles' = LocalMaps(Arg)
      /\ disk' = {f \in disk : f.version > Arg \/ f.version \in LocalMaps(Arg)[f.id]}
  BY DEF ApplyCountriesInMemory, RegisterAllLocalMaps, mwmVars
<1>3. SUFFICES ASSUME NEW f \in disk'
               PROVE  f.version <= version' /\ IsKnown(f)'
  BY DEF FilesInv
<1>4. f \in disk /\ f.version <= version /\ IsKnown(f) /\ f.version \in Versions /\ f.id \in Leaves
  BY <1>2 DEF FilesInv, TypesInv, TypeOK
<1>5. Arg \in Nat /\ version \in Nat /\ f.version \in Nat
  BY <1>1, <1>4 DEF TypesInv, TypeOK, Versions
<1>6. f.version <= Arg /\ f.version \in LocalMaps(Arg)[f.id]
  BY <1>1, <1>2, <1>4, <1>5
<1>7. IsPosted(f.id, f.version) => IsPosted(f.id, f.version)'
  BY <1>1, <1>2, Operations DEF IsPosted, Idle
<1> QED
  BY <1>2, <1>4, <1>6, <1>7 DEF IsKnown

\* A map is deleted, now or when nobody uses it any more.
LEMMA DeleteKeepsFiles ==
  ASSUME TypesInv, FilesInv, DeleteCountry
  PROVE  FilesInv'
<1> DEFINE c == This
<1>1. ~Idle /\ c \in Leaves /\ Head(calls).op = "delete"
  BY ThisCall DEF DeleteCountry, Doing, LeafOps
<1>2. PICK held \in MayBeHeld :
        /\ disk' = IF mwm[c] = 0 THEN disk ELSE disk \ Deletes(c, held)
        /\ doomed' = IF mwm[c] = 0 THEN doomed ELSE doomed \cup Dooms(c, held)
  BY DEF DeleteCountry
<1>3. /\ mwm' = [mwm EXCEPT ![c] = 0] /\ localFiles' = [localFiles EXCEPT ![c] = {}]
      /\ version' = version /\ gui' = gui
  BY DEF DeleteCountry, checkVars
<1>4. mwm \in [Leaves -> 0..MaxVersion] /\ localFiles \in [Leaves -> SUBSET Versions]
  BY DEF TypesInv, TypeOK
<1>5. SUFFICES ASSUME NEW f \in disk'
               PROVE  f.version <= version' /\ IsKnown(f)'
  BY DEF FilesInv
<1>6. /\ f \in disk /\ f.version <= version /\ IsKnown(f) /\ f.version \in Versions
      /\ f.id \in Leaves /\ f.version # 0
  BY <1>2 DEF FilesInv, TypesInv, TypeOK, Versions
<1>7. IsPosted(f.id, f.version) => IsPosted(f.id, f.version)'
  BY <1>1, <1>3, Operations DEF IsPosted, Idle
<1>8. doomed \subseteq doomed'
  BY <1>2
<1>9. CASE mwm[f.id] = f.version /\ f.version \in localFiles[f.id] /\ f.id = c
  <2>1. f \in Of(disk, c, mwm[c]) /\ mwm[c] # 0
    BY <1>6, <1>9 DEF Of
  <2>2. held = TRUE
    BY <1>2, <2>1 DEF Deletes, MayBeHeld
  <2>3. <<f.id, f.version>> \in doomed'
    BY <1>2, <1>9, <2>1, <2>2 DEF Dooms
  <2> QED
    BY <1>3, <1>6, <2>3 DEF IsKnown
<1>10. CASE mwm[f.id] = f.version /\ f.version \in localFiles[f.id] /\ f.id # c
  BY <1>3, <1>4, <1>6, <1>10 DEF IsKnown
<1> QED
  BY <1>3, <1>6, <1>7, <1>8, <1>9, <1>10 DEF IsKnown

\* The deletion of a file that was posted.
LEMMA DeleteFileKeepsFiles ==
  ASSUME TypesInv, FilesInv, DeleteCustomCountryVersion
  PROVE  FilesInv'
<1>1. ~Idle /\ Head(calls) = Task("deleteFile", This, Arg)
  <2>1. ~Idle /\ Head(calls) \in FirstCall /\ Head(calls).op = "deleteFile"
    BY DEF DeleteCustomCountryVersion, Doing, TypesInv, IsStack, Idle
  <2> QED
    BY <2>1, TaskFields DEF This, Arg
<1>2. /\ disk' = disk \ Of(disk, This, Arg)
      /\ UNCHANGED <<version, mwm, localFiles, doomed, gui>>
  BY DEF DeleteCustomCountryVersion, checkVars, mwmVars, countryVars
<1>3. SUFFICES ASSUME NEW f \in disk'
               PROVE  f.version <= version' /\ IsKnown(f)'
  BY DEF FilesInv
<1>4. f \in disk /\ f.version <= version /\ IsKnown(f) /\ ~(f.id = This /\ f.version = Arg)
  BY <1>2 DEF FilesInv, Of
<1>5. IsPosted(f.id, f.version) => IsPosted(f.id, f.version)'
  <2>1. Head(calls) # Task("deleteFile", f.id, f.version)
    BY <1>1, <1>4 DEF Task
  <2> QED
    BY <1>2, <2>1 DEF IsPosted
<1> QED
  BY <1>2, <1>4, <1>5 DEF IsKnown

\* A map that nobody uses any more, or that is damaged, is going to be deleted.
LEMMA DeregisterKeepsFiles ==
  ASSUME TypesInv, FilesInv, NEW c \in Leaves,
         FindBadMap(c) \/ \E v \in Versions : ReleaseMap(c, v)
  PROVE  FilesInv'
<1>1. CASE FindBadMap(c)
  <2>1. /\ mwm' = [mwm EXCEPT ![c] = 0] /\ UNCHANGED <<version, disk, localFiles, doomed, calls>>
        /\ gui' = Append(gui, Task("deleteFile", c, mwm[c])) /\ mwm[c] # 0
    BY <1>1 DEF FindBadMap, checkVars, diskVars, countryVars
  <2>2. mwm \in [Leaves -> 0..MaxVersion] /\ mwm[c] \in Versions
    BY <2>1 DEF TypesInv, TypeOK, Versions
  <2>3. Task("deleteFile", c, mwm[c]) \in GuiTask
    BY <2>2, TaskTypes
  <2>4. Range(gui) \subseteq Range(gui') /\ Task("deleteFile", c, mwm[c]) \in Range(gui')
    BY <2>1, <2>3, PostedTask
  <2>5. SUFFICES ASSUME NEW f \in disk'
                 PROVE  f.version <= version' /\ IsKnown(f)'
    BY DEF FilesInv
  <2>6. f \in disk /\ f.version <= version /\ IsKnown(f) /\ f.id \in Leaves
    BY <2>1 DEF FilesInv, TypesInv, TypeOK
  <2>7. IsPosted(f.id, f.version) => IsPosted(f.id, f.version)'
    BY <2>1, <2>4 DEF IsPosted, Idle
  <2>8. CASE f.id = c /\ f.version = mwm[c]
    BY <2>1, <2>4, <2>6, <2>8 DEF IsPosted, IsKnown
  <2>9. CASE ~(f.id = c /\ f.version = mwm[c])
    BY <2>1, <2>2, <2>6, <2>7, <2>9 DEF IsKnown
  <2> QED
    BY <2>8, <2>9
<1>2. ASSUME NEW v \in Versions, ReleaseMap(c, v)
      PROVE  FilesInv'
  <2>1. /\ doomed' = doomed \ {<<c, v>>} /\ UNCHANGED <<version, disk, localFiles, mwm, calls>>
        /\ gui' = Append(gui, Task("deleteFile", c, v))
    BY <1>2 DEF ReleaseMap, checkVars, diskVars, countryVars
  <2>2. Task("deleteFile", c, v) \in GuiTask
    BY TaskTypes
  <2>3. Range(gui) \subseteq Range(gui') /\ Task("deleteFile", c, v) \in Range(gui')
    BY <2>1, <2>2, PostedTask
  <2>4. SUFFICES ASSUME NEW f \in disk'
                 PROVE  f.version <= version' /\ IsKnown(f)'
    BY DEF FilesInv
  <2>5. f \in disk /\ f.version <= version /\ IsKnown(f)
    BY <2>1 DEF FilesInv
  <2>6. IsPosted(f.id, f.version) => IsPosted(f.id, f.version)'
    BY <2>1, <2>3 DEF IsPosted, Idle
  <2>7. CASE f.id = c /\ f.version = v
    BY <2>1, <2>3, <2>5, <2>7 DEF IsPosted, IsKnown
  <2>8. CASE ~(f.id = c /\ f.version = v)
    BY <2>1, <2>5, <2>6, <2>8 DEF IsKnown
  <2> QED
    BY <2>7, <2>8
<1> QED
  BY <1>1, <1>2

\* The GUI thread begins with a task: what was posted is now the running call.
LEMMA TaskKeepsFiles ==
  ASSUME TypesInv, FilesInv, RunGuiTask
  PROVE  FilesInv'
<1>1. /\ Idle /\ gui # <<>> /\ calls' = <<Head(gui)>> /\ gui' = Tail(gui)
      /\ UNCHANGED <<version, disk, mwm, localFiles, doomed>>
  BY DEF RunGuiTask, checkVars, diskVars, countryVars, mwmVars
<1>2. gui \in Seq(GuiTask)
  BY DEF TypesInv
<1>3. \A t \in Range(gui) : t = Head(gui) \/ t \in Range(Tail(gui))
  <2>1. /\ Len(gui) \in Nat /\ DOMAIN gui = 1..Len(gui) /\ DOMAIN Tail(gui) = 1..(Len(gui) - 1)
        /\ \A k \in 1..(Len(gui) - 1) : Tail(gui)[k] = gui[k + 1]
        /\ Head(gui) = gui[1]
    BY <1>1, <1>2, EmptySeq, LenProperties, HeadTailProperties
  <2>2. SUFFICES ASSUME NEW k \in DOMAIN gui
                 PROVE  gui[k] = Head(gui) \/ gui[k] \in Range(Tail(gui))
    BY DEF Range
  <2>3. k = 1 \/ (k - 1 \in DOMAIN Tail(gui) /\ Tail(gui)[k - 1] = gui[k])
    BY <2>1
  <2> QED
    BY <2>1, <2>3 DEF Range
<1>4. calls' # <<>> /\ Head(calls') = Head(gui)
  BY <1>1
<1>5. SUFFICES ASSUME NEW f \in disk'
               PROVE  f.version <= version' /\ IsKnown(f)'
  BY DEF FilesInv
<1>6. f \in disk /\ f.version <= version /\ IsKnown(f)
  BY <1>1 DEF FilesInv
<1>7. IsPosted(f.id, f.version) => IsPosted(f.id, f.version)'
  BY <1>1, <1>3, <1>4 DEF IsPosted, Idle
<1> QED
  BY <1>1, <1>6, <1>7 DEF IsKnown

\* Some steps give the GUI thread one more task.
GuiGetsATask == gui' = gui \/ \E t \in GuiTask : gui' = Append(gui, t)

\* So do the File thread, the Network thread and the end of a request.
LEMMA OtherTasks ==
  ASSUME TypesInv, ChecksInv, FileThread \/ GetMetaConfig \/ Fetch
  PROVE  GuiGetsATask
<1>1. CASE CheckSha
  <2>1. Head(fileThread).id \in Leaves
    BY <1>1, TakeType, TaskFields DEF CheckSha
  <2>2. \A op \in {"verified", "rejected"} : Task(op, Head(fileThread).id, 0) \in GuiTask
    BY <2>1, TaskTypes
  <2>3. \E op \in {"verified", "rejected"} : gui' = Append(gui, Task(op, Head(fileThread).id, 0))
    BY <1>1 DEF CheckSha
  <2> QED
    BY <2>2, <2>3 DEF GuiGetsATask
<1>2. CASE RemoveCountriesTxt \/ RenameCountriesTxt \/ SaveCountriesFails \/ TextRefused \/ FetchFailed
             \/ CountriesFetched
  BY <1>2 DEF RemoveCountriesTxt, RenameCountriesTxt, SaveCountriesFails, TextRefused, FetchFailed,
              CountriesFetched, GuiGetsATask
<1>3. CASE GetMetaConfig
  <2>1. Head(network) \in NetworkTask
    BY <1>3, TakeType DEF GetMetaConfig
  <2> QED
    BY <1>3, <2>1, TaskTypes DEF GetMetaConfig, GuiGetsATask
<1>4. CASE SignatureFetched
  <2>1. latest \in Versions
    BY <1>4, VersionAssumption
    DEF ChecksInv, NewerInv, SignatureFetched, TypesInv, TypeOK, Versions
  <2> QED
    BY <1>4, <2>1, TaskTypes DEF SignatureFetched, GuiGetsATask
<1> QED
  BY <1>1, <1>2, <1>3, <1>4 DEF FileThread, Fetch

\* A task is added, and the files stay.
LEMMA PostKeepsFiles ==
  ASSUME TypesInv, FilesInv, GuiGetsATask, UNCHANGED <<version, mwm, localFiles, doomed, disk>>,
         calls' = calls \/ Idle
  PROVE  FilesInv'
<1>1. Range(gui) \subseteq Range(gui')
  BY PostedTask DEF GuiGetsATask
<1> QED
  BY <1>1, FilesKeep DEF FilesRest

\* The first maps are known.
LEMMA FilesInit == Init => FilesInv
<1> SUFFICES ASSUME Init PROVE FilesInv
  OBVIOUS
<1>1. PICK installed \in SUBSET Leaves :
        /\ disk = {[id |-> c, version |-> Bundled, intact |-> TRUE] : c \in installed}
        /\ localFiles = [c \in Leaves |-> IF c \in installed THEN {Bundled} ELSE {}]
        /\ mwm = [c \in Leaves |-> IF c \in installed THEN Bundled ELSE 0]
  BY DEF Init
<1>2. SUFFICES ASSUME NEW f \in disk
               PROVE  f.version <= version /\ IsKnown(f)
  BY DEF FilesInv
<1>3. PICK c \in installed : f = [id |-> c, version |-> Bundled, intact |-> TRUE]
  BY <1>1
<1>4. mwm[c] = Bundled /\ Bundled \in localFiles[c] /\ version = Bundled /\ Bundled \in Nat
  BY <1>1, <1>3, VersionAssumption DEF Init
<1> QED
  BY <1>3, <1>4 DEF IsKnown

-----------------------------------------------------------------------------
(* What a restart finds, if every version is saved. *)

\* What countries.txt will be when the File thread has done its tasks.
SaveOps == {"save", "rename"}
IsLastSave(k) == /\ k \in DOMAIN fileThread /\ fileThread[k].op \in SaveOps
                 /\ \A j \in DOMAIN fileThread : j > k => fileThread[j].op \notin SaveOps

\* The version v is not older than the one that is applied, nor than one that will be.
Covers(v) == /\ v \in Nat /\ version <= v /\ deferred <= v
             /\ \A k \in DOMAIN gui : gui[k].op \in CheckOps => gui[k].arg <= v
             /\ Calling(CheckOps) => Head(calls).arg <= v

\* So is the version that will be saved.
SavesInv ==
  /\ \A k \in DOMAIN fileThread : IsLastSave(k) => Covers(fileThread[k].arg)
  /\ Nobody(fileThread, SaveOps) => Covers(NewerOf(Bundled, countriesTxt))

\* No map is shown that is newer than the version that is applied.
ShownInv == \A c \in Leaves : mwm[c] <= version

SavesSucceed == "nospace" \notin Events /\ "crashInSave" \notin Events

\* A step that brings no new version.
CoversStay == \A v : Covers(v) => Covers(v)'

\* None comes with a step that applies none, gets none from the GUI thread and
\* calls nobody to apply one.
LEMMA CoversRest ==
  ASSUME TypesInv, UNCHANGED <<version, deferred>>,
         \/ gui' = gui
         \/ \E t \in GuiTask : t.op \notin CheckOps /\ gui' = Append(gui, t),
         calls' = calls \/ ~Calling(CheckOps)'
  PROVE  CoversStay
<1>1. \A k \in DOMAIN gui' : gui'[k].op \in CheckOps => k \in DOMAIN gui /\ gui'[k] = gui[k]
  <2>1. CASE gui' = gui
    BY <2>1
  <2>2. CASE gui' # gui
    <3>1. PICK t \in GuiTask : t.op \notin CheckOps /\ gui' = Append(gui, t)
      BY <2>2
    <3>2. \A k \in DOMAIN gui' : (k \in DOMAIN gui /\ gui'[k] = gui[k]) \/ gui'[k] = t
      BY <3>1, AddedElements DEF TypesInv
    <3> QED
      BY <3>1, <3>2
  <2> QED
    BY <2>1, <2>2
<1>2. Calling(CheckOps)' => calls' = calls /\ Calling(CheckOps)
  BY DEF Calling, Idle
<1> QED
  BY <1>1, <1>2 DEF CoversStay, Covers

\* The steps that the checks do not notice bring none.
LEMMA QuietCovers ==
  ASSUME TypesInv, QuietStep
  PROVE  CoversStay
<1>1. calls' = calls \/ ~Calling(CheckOps)'
  BY DEF QuietStep, CallsNoCheck, Quiet, Calling, Idle
<1>2. UNCHANGED <<version, deferred>>
  BY DEF QuietStep, checkVars
<1> QED
  BY <1>1, <1>2, CoversRest DEF QuietStep, GuiGetsNoCheck

\* Nor do the other handlers: they apply, or put off, one that was there.
LEMMA HandlersCover ==
  ASSUME TypesInv, ChecksInv, Handlers
  PROVE  CoversStay
<1>1. CASE QuietHandlers
  BY <1>1, QuietHandlersStep, QuietCovers
<1>2. CASE StartPending \/ GotServersForMaps \/ GotServersForText \/ DownloadQueued
  <2>1. ~Calling(CheckOps)'
    <3>1. CASE StartPending \/ GotServersForMaps
      BY <3>1, PendingTypes DEF Quiet, Calling, Idle
    <3> QED
      BY <1>2, <3>1, ServersForTextChecks, DownloadQueuedChecks
  <2>2. UNCHANGED <<version, deferred, gui>>
    BY <1>2 DEF StartPending, GotServersForMaps, GotServersForText, DownloadQueued, checkVars
  <2> QED
    BY <2>1, <2>2, CoversRest
<1>3. CASE ApplyPendingCountries
  <2>1. ~Idle /\ deferred # 0 /\ deferred > version
    BY <1>3 DEF ApplyPendingCountries, Doing, ChecksInv, NewerInv
  <2>2. /\ UNCHANGED <<version, gui>> /\ deferred' = 0
        /\ Call(<<Task("apply", NoCountry, deferred)>>)
    BY <1>3, <2>1 DEF ApplyPendingCountries
  <2>3. deferred \in Versions
    BY <2>1, VersionAssumption DEF TypesInv, TypeOK, Versions
  <2>4. Task("apply", NoCountry, deferred) \in FirstCall
    BY <2>3, TaskTypes DEF CheckOps
  <2>5. Head(calls') = Task("apply", NoCountry, deferred)
    BY <2>1, <2>2, <2>4, CallsOne
  <2> QED
    BY <2>2, <2>5, Operations DEF CoversStay, Covers
<1>4. CASE ApplyCountriesInMemory
  <2>1. ~Idle /\ Calling(CheckOps) /\ Nobody(gui, CheckOps)
    BY <1>4, Operations DEF ApplyCountriesInMemory, Doing, Calling, ChecksInv, CheckInv
  <2>2. /\ UNCHANGED <<deferred, gui>> /\ version' = Arg /\ Call(<<Do("startPending")>>)
    BY <1>4 DEF ApplyCountriesInMemory
  <2>3. Do("startPending") \in FirstCall
    BY TaskTypes DEF PlainOps
  <2>4. Head(calls') = Do("startPending")
    BY <2>1, <2>2, <2>3, CallsOne
  <2>5. ~Calling(CheckOps)'
    BY <2>4, Operations DEF Calling
  <2> QED
    BY <2>1, <2>2, <2>5 DEF CoversStay, Covers, Arg
<1>5. CASE ApplyOrDefer
  <2>1. ~Idle /\ Calling(CheckOps) /\ deferred = 0 /\ Arg \in Versions
    BY <1>5, ThisCall, Operations DEF ApplyOrDefer, Doing, Calling, Arg, ChecksInv, CheckInv
  <2>2. UNCHANGED <<version, gui>>
    BY <1>5 DEF ApplyOrDefer
  <2>3. CASE Call(<<Task("apply", NoCountry, Arg)>>) /\ deferred' = deferred
    <3>1. Task("apply", NoCountry, Arg) \in FirstCall
      BY <2>1, TaskTypes DEF CheckOps
    <3>2. Head(calls') = Task("apply", NoCountry, Arg)
      BY <2>1, <2>3, <3>1, CallsOne
    <3>3. Head(calls').arg = Arg
      BY <3>2, Operations
    <3> QED
      BY <2>1, <2>2, <2>3, <3>3 DEF CoversStay, Covers, Arg
  <2>4. CASE Return /\ deferred' = Arg
    <3>1. ~Calling(CheckOps)'
      BY <2>1, <2>4, Returns DEF Quiet, Calling, Idle
    <3> QED
      BY <2>1, <2>2, <2>4, <3>1 DEF CoversStay, Covers, Arg
  <2> QED
    BY <1>5, <2>1, <2>3, <2>4 DEF ApplyOrDefer
<1> QED
  BY <1>1, <1>2, <1>3, <1>4, <1>5 DEF Handlers, QuietHandlers

\* Nor do the events, the requests and the other threads, but for the end of a check
\* and a restart.
LEMMA StepsCover ==
  ASSUME TypesInv, ChecksInv, [Next]_vars, ~SignatureFetched, ~Restart
  PROVE  CoversStay
<1>1. CASE Handlers
  BY <1>1, HandlersCover
<1>2. CASE RunGuiTask
  <2>1. gui \in Seq(GuiTask) /\ gui # <<>> /\ gui' = Tail(gui) /\ calls' = <<Head(gui)>>
    BY <1>2 DEF RunGuiTask, TypesInv
  <2>2. UNCHANGED <<version, deferred>>
    BY <1>2 DEF RunGuiTask, checkVars
  <2>3. /\ Len(gui) \in Nat /\ Len(gui) > 0 /\ DOMAIN gui = 1..Len(gui) /\ Head(gui) = gui[1]
        /\ DOMAIN gui' = 1..(Len(gui) - 1)
        /\ \A k \in 1..(Len(gui) - 1) : gui'[k] = gui[k + 1]
    BY <2>1, EmptySeq, LenProperties, HeadTailProperties
  <2>4. \A k \in DOMAIN gui' : k + 1 \in DOMAIN gui /\ gui'[k] = gui[k + 1]
    BY <2>3
  <2>5. Head(calls') = gui[1] /\ 1 \in DOMAIN gui
    BY <2>1, <2>3
  <2> QED
    BY <2>2, <2>4, <2>5 DEF CoversStay, Covers, Calling
<1>3. ASSUME NEW n \in Nodes, \/ DownloadNode(n) \/ RetryDownloadNode(n)
                              \/ CancelDownloadNode(n) \/ DeleteNode(n)
      PROVE  CoversStay
  BY <1>3, AskTypes, CancelNodeTypes, OtherEvents, QuietCovers
<1>4. CASE Download
  BY <1>4, EventTypes, CompletedTypes, OtherEvents, QuietCovers DEF Download
<1>5. CASE FileThread
  BY <1>5, OtherThreads, QuietCovers
<1>6. ASSUME NEW c \in Leaves, NEW v \in Versions, FindBadMap(c) \/ ReleaseMap(c, v)
      PROVE  CoversStay
  BY <1>6, OtherThreads, QuietCovers
<1>7. CASE \/ ResetMapDownloadMetaConfig \/ RunCountriesCheck \/ CountriesFetched
           \/ UNCHANGED vars \/ \E v \in Versions : MapsFetched(v)
  <2>1. UNCHANGED <<version, deferred, gui, calls>>
    BY <1>7
    DEF ResetMapDownloadMetaConfig, RunCountriesCheck, MapsFetched, CountriesFetched, vars, checkVars
  <2> QED
    BY <2>1, CoversRest
<1>8. CASE TextRefused \/ FetchFailed
  <2>1. calls' = <<Do("startPending")>> /\ Head(<<Do("startPending")>>) = Do("startPending")
    BY <1>8 DEF TextRefused, FetchFailed, GiveUpCheck
  <2>2. ~Calling(CheckOps)'
    BY <2>1, Operations DEF Calling
  <2> QED
    BY <1>8, <2>2, CoversRest DEF TextRefused, FetchFailed
<1>9. CASE GetMetaConfig
  <2>1. Head(network) \in NetworkTask /\ Head(network) \in GuiTask
    BY <1>9, TakeType, TaskTypes DEF GetMetaConfig
  <2>2. Head(network).op \notin CheckOps
    BY <2>1 DEF NetworkTask, PlainTask, CheckOps, ServerOps
  <2>3. UNCHANGED <<version, deferred, calls>> /\ gui' = Append(gui, Head(network))
    BY <1>9 DEF GetMetaConfig, checkVars
  <2> QED
    BY <2>1, <2>2, <2>3, CoversRest
<1>10. CASE Environment
  <2>1. version \in Versions
    BY DEF TypesInv, TypeOK
  <2> QED
    BY <1>3, <1>6, <1>7, <1>10, <2>1 DEF Environment
<1>11. CASE Release
  BY <1>6, <1>11 DEF Release
<1>12. CASE GuiThread \/ Fetch
  BY <1>1, <1>2, <1>7, <1>8, <1>12 DEF GuiThread, Fetch
<1> QED
  BY <1>4, <1>5, <1>7, <1>9, <1>10, <1>11, <1>12 DEF Next

\* The tasks of the File thread when one is added, or one is taken.
LEMMA SavesAdded ==
  ASSUME TypesInv, NEW t \in ThreadTask, fileThread' = Append(fileThread, t)
  PROVE  /\ t.op \in SaveOps => /\ ~Nobody(fileThread', SaveOps)
                                /\ \A k : IsLastSave(k)' => fileThread'[k] = t
         /\ t.op \notin SaveOps =>
              /\ Nobody(fileThread', SaveOps) => Nobody(fileThread, SaveOps)
              /\ \A k : IsLastSave(k)' => IsLastSave(k) /\ fileThread'[k] = fileThread[k]
<1>1. fileThread \in Seq(ThreadTask)
  BY DEF TypesInv
<1>2. /\ Len(fileThread) \in Nat /\ DOMAIN fileThread = 1..Len(fileThread)
      /\ DOMAIN fileThread' = 1..(Len(fileThread) + 1)
      /\ \A k \in 1..Len(fileThread) : fileThread'[k] = fileThread[k]
      /\ fileThread'[Len(fileThread) + 1] = t
  BY <1>1, LenProperties, AppendProperties
<1>3. /\ Len(fileThread) + 1 \in DOMAIN fileThread'
      /\ \A k \in DOMAIN fileThread' :
           \/ k = Len(fileThread) + 1
           \/ k \in DOMAIN fileThread /\ Len(fileThread) + 1 > k /\ k # Len(fileThread) + 1
      /\ \A k \in DOMAIN fileThread : k \in DOMAIN fileThread' /\ fileThread'[k] = fileThread[k]
  BY <1>2
<1> QED
  BY <1>2, <1>3 DEF IsLastSave, Nobody

\* What is saved last is saved later than the first task, or is the first.
LEMMA SavesTaken ==
  ASSUME TypesInv, fileThread # <<>>, fileThread' = Tail(fileThread)
  PROVE  /\ \A k : IsLastSave(k)' => IsLastSave(k + 1) /\ fileThread'[k] = fileThread[k + 1]
         /\ Nobody(fileThread', SaveOps) =>
              \/ Head(fileThread).op \notin SaveOps /\ Nobody(fileThread, SaveOps)
              \/ Head(fileThread).op \in SaveOps /\ IsLastSave(1) /\ fileThread[1] = Head(fileThread)
<1>1. fileThread \in Seq(ThreadTask)
  BY DEF TypesInv
<1>2. /\ Len(fileThread) \in Nat /\ Len(fileThread) > 0 /\ DOMAIN fileThread = 1..Len(fileThread)
      /\ DOMAIN fileThread' = 1..(Len(fileThread) - 1) /\ Head(fileThread) = fileThread[1]
      /\ \A k \in 1..(Len(fileThread) - 1) : fileThread'[k] = fileThread[k + 1]
  BY <1>1, EmptySeq, LenProperties, HeadTailProperties
<1>3. \A k \in DOMAIN fileThread' :
        k \in Nat /\ k + 1 \in DOMAIN fileThread /\ fileThread'[k] = fileThread[k + 1]
  BY <1>2
<1>4. \A k \in DOMAIN fileThread :
        k = 1 \/ (k - 1 \in DOMAIN fileThread' /\ fileThread[k] = fileThread'[k - 1] /\ k > 1)
  BY <1>2
<1>5. ASSUME NEW k, IsLastSave(k)'
      PROVE  IsLastSave(k + 1) /\ fileThread'[k] = fileThread[k + 1]
  <2>1. /\ k \in DOMAIN fileThread' /\ fileThread'[k].op \in SaveOps
        /\ \A j \in DOMAIN fileThread' : j > k => fileThread'[j].op \notin SaveOps
    BY <1>5 DEF IsLastSave
  <2>2. ASSUME NEW j \in DOMAIN fileThread, j > k + 1
        PROVE  fileThread[j].op \notin SaveOps
    <3>1. j # 1 /\ j - 1 > k
      BY <1>2, <2>1, <2>2
    <3> QED
      BY <1>4, <2>1, <3>1
  <2> QED
    BY <1>3, <2>1, <2>2 DEF IsLastSave
<1>6. ASSUME Nobody(fileThread', SaveOps)
      PROVE  \A k \in DOMAIN fileThread : k # 1 => fileThread[k].op \notin SaveOps
  BY <1>4, <1>6 DEF Nobody
<1>7. 1 \in DOMAIN fileThread /\ \A k \in DOMAIN fileThread : k > 1 => k # 1
  BY <1>2
<1> QED
  BY <1>2, <1>5, <1>6, <1>7 DEF Nobody, IsLastSave

\* The steps that leave countries.txt and what will be saved alone.
LEMMA SavesRest ==
  ASSUME SavesInv, CoversStay, UNCHANGED <<fileThread, countriesTxt>>
  PROVE  SavesInv'
BY DEF SavesInv, CoversStay, IsLastSave, Nobody, NewerOf

\* The steps of the File thread.
LEMMA SavesFileThread ==
  ASSUME SavesSucceed, TypesInv, SavesInv, CoversStay, FileThread
  PROVE  SavesInv'
<1>1. CASE CheckSha
  <2>1. /\ fileThread # <<>> /\ fileThread' = Tail(fileThread) /\ Head(fileThread).op \notin SaveOps
        /\ countriesTxt' = countriesTxt
    BY <1>1 DEF CheckSha, SaveOps
  <2> QED
    BY <2>1, SavesTaken DEF SavesInv, CoversStay, IsLastSave, NewerOf
<1>2. CASE RemoveCountriesTxt
  <2> DEFINE t == [Head(fileThread) EXCEPT !.op = "rename"]
  <2>1. /\ fileThread # <<>> /\ Head(fileThread).op = "save"
        /\ fileThread' = <<t>> \o Tail(fileThread)
    BY <1>2 DEF RemoveCountriesTxt
  <2>2. Head(fileThread) \in ThreadTask /\ Tail(fileThread) \in Seq(ThreadTask)
    BY <2>1, TakeType
  <2>3. t.op = "rename" /\ t.arg = Head(fileThread).arg
    BY <2>1, <2>2 DEF ThreadTask, FileTask, VersionTask
  <2> HIDE DEF t
  <2>4. fileThread \in Seq(ThreadTask)
    BY DEF TypesInv
  <2>5. /\ Len(fileThread) \in Nat /\ Len(fileThread) > 0 /\ DOMAIN fileThread = 1..Len(fileThread)
        /\ Head(fileThread) = fileThread[1] /\ Len(Tail(fileThread)) = Len(fileThread) - 1
        /\ \A k \in 1..(Len(fileThread) - 1) : Tail(fileThread)[k] = fileThread[k + 1]
    BY <2>1, <2>4, EmptySeq, LenProperties, HeadTailProperties
  <2>6. /\ DOMAIN fileThread' = 1..Len(fileThread) /\ fileThread'[1] = t
        /\ \A k \in 2..Len(fileThread) : fileThread'[k] = Tail(fileThread)[k - 1]
    <3>1. /\ <<t>> \in Seq({t}) /\ Len(<<t>>) = 1 /\ <<t>>[1] = t
      OBVIOUS
    <3>2. /\ <<t>> \in Seq({t} \cup ThreadTask) /\ Tail(fileThread) \in Seq({t} \cup ThreadTask)
      BY <2>2
    <3>3. /\ Len(<<t>> \o Tail(fileThread)) = 1 + Len(Tail(fileThread))
          /\ \A k \in 1..(1 + Len(Tail(fileThread))) :
               (<<t>> \o Tail(fileThread))[k] =
                 IF k <= 1 THEN <<t>>[k] ELSE Tail(fileThread)[k - 1]
          /\ <<t>> \o Tail(fileThread) \in Seq({t} \cup ThreadTask)
      BY <3>1, <3>2, ConcatProperties
    <3> QED
      BY <2>1, <2>5, <3>1, <3>3, LenProperties
  <2>7. \A k \in DOMAIN fileThread' :
          \/ k = 1 /\ fileThread'[k] = t
          \/ k # 1 /\ fileThread'[k] = fileThread[k]
    <3>1. SUFFICES ASSUME NEW k \in DOMAIN fileThread', k # 1
                   PROVE  fileThread'[k] = fileThread[k]
      BY <2>6
    <3>2. k \in 2..Len(fileThread) /\ k - 1 \in 1..(Len(fileThread) - 1) /\ (k - 1) + 1 = k
      BY <2>5, <2>6, <3>1
    <3> QED
      BY <2>5, <2>6, <3>2
  <2>8. DOMAIN fileThread' = DOMAIN fileThread /\ 1 \in DOMAIN fileThread'
    BY <2>5, <2>6
  <2>9. \A k \in DOMAIN fileThread :
          /\ (fileThread'[k].op \in SaveOps) = (fileThread[k].op \in SaveOps)
          /\ fileThread'[k].op \in SaveOps => fileThread'[k].arg = fileThread[k].arg
    BY <2>1, <2>3, <2>5, <2>7, <2>8 DEF SaveOps
  <2>10. ~Nobody(fileThread', SaveOps)
    BY <2>1, <2>5, <2>8, <2>9 DEF Nobody, SaveOps
  <2> QED
    BY <2>8, <2>9, <2>10 DEF SavesInv, CoversStay, IsLastSave
<1>3. CASE RenameCountriesTxt
  <2>1. /\ fileThread # <<>> /\ fileThread' = Tail(fileThread) /\ Head(fileThread).op \in SaveOps
        /\ countriesTxt' = Head(fileThread).arg /\ Head(fileThread) \in ThreadTask
    BY <1>3, TakeType DEF RenameCountriesTxt, SaveOps
  <2>2. Bundled \in Nat /\ Head(fileThread).arg \in Nat
    BY <2>1, VersionAssumption DEF ThreadTask, FileTask, VersionTask, Versions
  <2>3. \A w : Covers(w) => Covers(NewerOf(Bundled, w))
    <3>1. /\ version \in Nat /\ deferred \in Nat
          /\ \A k \in DOMAIN gui : gui[k].op \in CheckOps => gui[k].arg \in Nat
          /\ Calling(CheckOps) => Head(calls).arg \in Nat
      <4>1. \A t \in FirstCall : t.op \in CheckOps => t.arg \in Nat
        BY TaskFields DEF Versions
      <4>2. \A k \in DOMAIN gui : gui[k] \in FirstCall
        BY TaskTypes, ElementOfSeq, LenProperties DEF TypesInv
      <4> QED
        BY <4>1, <4>2, ThisCall DEF TypesInv, TypeOK, Versions, IsStack, Calling, Idle
    <3> QED
      BY <2>2, <3>1 DEF Covers, NewerOf
  <2>4. ASSUME Nobody(fileThread', SaveOps)
        PROVE  Covers(Head(fileThread).arg)
    BY <2>1, <2>4, SavesTaken DEF SavesInv
  <2>5. Nobody(fileThread', SaveOps) => Covers(NewerOf(Bundled, countriesTxt))'
    <3>1. NewerOf(Bundled, countriesTxt)' = NewerOf(Bundled, Head(fileThread).arg)
      BY <2>1 DEF NewerOf
    <3> QED
      BY <2>3, <2>4, <3>1 DEF CoversStay
  <2>6. \A k \in DOMAIN fileThread' : IsLastSave(k)' => Covers(fileThread[k].arg)'
    <3>1. SUFFICES ASSUME NEW k \in DOMAIN fileThread', IsLastSave(k)'
                   PROVE  Covers(fileThread[k].arg)'
      OBVIOUS
    <3>2. IsLastSave(k + 1) /\ fileThread'[k] = fileThread[k + 1]
      BY <2>1, <3>1, SavesTaken
    <3>3. Covers(fileThread[k + 1].arg)
      BY <3>2 DEF SavesInv, IsLastSave
    <3> QED
      BY <3>2, <3>3 DEF CoversStay
  <2> QED
    BY <2>5, <2>6 DEF SavesInv
<1>4. ~SaveCountriesFails
  BY DEF SaveCountriesFails, SavesSucceed, MayHappen
<1> QED
  BY <1>1, <1>2, <1>3, <1>4 DEF FileThread

\* A check that ends is about a version that covers every other.
LEMMA SavesSignature ==
  ASSUME TypesInv, ChecksInv, SavesInv, SignatureFetched
  PROVE  SavesInv'
<1> DEFINE t == Task("save", NoCountry, latest)
           u == Task("applyOrDefer", NoCountry, latest)
<1>1. /\ Idle /\ latest > version /\ latest \in Versions /\ deferred = 0
      /\ Nobody(gui, CheckOps) /\ ~Calling(CheckOps)
  BY VersionAssumption
  DEF SignatureFetched, ChecksInv, CheckInv, NewerInv, TypesInv, TypeOK, Versions
<1>2. /\ fileThread' = Append(fileThread, t) /\ gui' = Append(gui, u)
      /\ UNCHANGED <<version, deferred, calls>>
  BY DEF SignatureFetched
<1>3. t \in ThreadTask /\ u \in GuiTask /\ t.op \in SaveOps /\ t.arg = latest /\ u.arg = latest
  BY <1>1, TaskTypes, Operations DEF SaveOps
<1> HIDE DEF t, u
<1>4. ~Nobody(fileThread', SaveOps) /\ \A k : IsLastSave(k)' => fileThread'[k] = t
  BY <1>2, <1>3, SavesAdded
<1>5. \A k \in DOMAIN gui' : gui'[k].op \in CheckOps => gui'[k].arg = latest
  <2>1. \A k \in DOMAIN gui' : (k \in DOMAIN gui /\ gui'[k] = gui[k]) \/ gui'[k] = u
    BY <1>2, <1>3, AddedElements DEF TypesInv
  <2> QED
    BY <1>1, <1>3, <2>1 DEF Nobody
<1>6. ~Calling(CheckOps)'
  BY <1>1, <1>2 DEF Calling, Idle
<1>7. latest \in Nat /\ version \in Nat
  BY <1>1 DEF TypesInv, TypeOK, Versions
<1> QED
  BY <1>1, <1>2, <1>3, <1>4, <1>5, <1>6, <1>7 DEF SavesInv, Covers

\* Only these steps change the version or the maps that are shown.
LEMMA MapsChange ==
  ASSUME [Next]_vars
  PROVE  \/ Restart \/ RegisterDownloadedFiles \/ DeleteCountry \/ ApplyCountriesInMemory
         \/ \E c \in Leaves : FindBadMap(c)
         \/ UNCHANGED <<version, mwm>>
<1>1. CASE Handlers
  BY <1>1
  DEF Handlers, DownloadNothing, DownloadImpossible, DownloadFound, DownloadQueued,
      StartPending, GotServersForMaps, GotServersForText, EnqueueCountry, ClearPending,
      StartRequest, StartRequestWithoutFile, RequestForbidden, NextRequest, Verified,
      Rejected, RegisterMissingFile, FinishDownloading, ApplyPendingCountries, ApplyOrDefer,
      Forgive, Stop, RemoveFromQueue, CleanUp, DeleteNothing, DeleteCustomCountryVersion,
      checkVars, mwmVars
<1>2. CASE Environment
  BY <1>2
  DEF Environment, DownloadNode, RetryDownloadNode, CancelDownloadNode, DeleteNode,
      ResetMapDownloadMetaConfig, RunCountriesCheck, MapsFetched, checkVars, mwmVars
<1>3. CASE RunGuiTask \/ Download \/ Fetch \/ FileThread \/ GetMetaConfig \/ Release
             \/ UNCHANGED vars
  BY <1>3
  DEF RunGuiTask, Download, RequestFailed, RequestCompleted, Fetch, TextRefused, FetchFailed,
      CountriesFetched, SignatureFetched, FileThread, CheckSha, RemoveCountriesTxt,
      RenameCountriesTxt, SaveCountriesFails, GetMetaConfig, Release, ReleaseMap,
      checkVars, mwmVars, vars
<1> QED
  BY <1>1, <1>2, <1>3 DEF Next, GuiThread

\* A restart begins with the version that was saved.
LEMMA SavesRestart ==
  ASSUME SavesSucceed, TypesInv, SavesInv, Restart
  PROVE  SavesInv' /\ Covers(version')
<1> DEFINE v == NewerOf(Bundled, countriesTxt)
<1>1. Nobody(fileThread, SaveOps)
  <2>1. ~Saving
    BY DEF SavesSucceed, Restart, MayHappen
  <2> QED
    BY <2>1 DEF Saving, Nobody, SaveOps, Range
<1>2. version' = v /\ Covers(v)
  BY <1>1 DEF Restart, SavesInv
<1>3. /\ countriesTxt' = countriesTxt /\ deferred' = 0 /\ gui' = <<>> /\ fileThread' = <<>>
  BY DEF Restart
<1>4. ~Calling(CheckOps)'
  BY RestartTypes DEF Quiet, Calling, Idle
<1>5. v \in Nat
  BY <1>2 DEF Covers
<1>6. NewerOf(Bundled, countriesTxt)' = v
  BY <1>3 DEF NewerOf
<1> HIDE DEF v
<1>7. Covers(NewerOf(Bundled, countriesTxt))'
  BY <1>2, <1>3, <1>4, <1>5, <1>6 DEF Covers
<1> QED
  BY <1>2, <1>3, <1>7 DEF SavesInv, IsLastSave

\* What is saved covers every version, after every step.
LEMMA SavesStep ==
  ASSUME SavesSucceed, TypesInv, ChecksInv, SavesInv, [Next]_vars
  PROVE  SavesInv'
<1>1. CASE Restart
  BY <1>1, SavesRestart
<1>2. CASE SignatureFetched
  BY <1>2, SavesSignature
<1>3. CASE ~Restart /\ ~SignatureFetched
  <2>1. CoversStay
    BY <1>3, StepsCover
  <2>2. CASE FileThread
    BY <2>1, <2>2, SavesFileThread
  <2>3. CASE \E intact \in BOOLEAN : RequestCompleted(intact)
    <3>1. /\ fileThread' = Append(fileThread, Task("sha", request.id, version))
          /\ countriesTxt' = countriesTxt /\ request \in Request
      BY <2>3 DEF RequestCompleted, IsOfTheTop, TypesInv, TypeOK
    <3>2. /\ Task("sha", request.id, version) \in ThreadTask
          /\ Task("sha", request.id, version).op \notin SaveOps
      BY <3>1, TaskTypes, Operations DEF Request, TypesInv, TypeOK, SaveOps
    <3>3. /\ Nobody(fileThread', SaveOps) => Nobody(fileThread, SaveOps)
          /\ \A k : IsLastSave(k)' => IsLastSave(k) /\ fileThread'[k] = fileThread[k]
      BY <3>1, <3>2, SavesAdded
    <3> QED
      BY <2>1, <3>1, <3>3 DEF SavesInv, CoversStay, IsLastSave, NewerOf
  <2>4. CASE \/ Handlers \/ RunGuiTask \/ GetMetaConfig \/ Release \/ RequestFailed
             \/ TextRefused \/ FetchFailed \/ CountriesFetched \/ UNCHANGED vars
    <3>1. UNCHANGED <<fileThread, countriesTxt>>
      <4>1. CASE Handlers
        BY <4>1
        DEF Handlers, DownloadNothing, DownloadImpossible, DownloadFound, DownloadQueued,
            StartPending, GotServersForMaps, GotServersForText, EnqueueCountry, ClearPending,
            StartRequest, StartRequestWithoutFile, RequestForbidden, NextRequest, Verified,
            Rejected, RegisterDownloadedFiles, RegisterMissingFile, FinishDownloading,
            ApplyPendingCountries, ApplyCountriesInMemory, ApplyOrDefer, Forgive, Stop,
            RemoveFromQueue, CleanUp, DeleteCountry, DeleteNothing, DeleteCustomCountryVersion,
            threadVars, diskVars
      <4>2. CASE ~Handlers
        BY <2>4, <4>2
        DEF RunGuiTask, GetMetaConfig, Release, ReleaseMap, RequestFailed, TextRefused, FetchFailed,
            CountriesFetched, threadVars, diskVars, vars
      <4> QED
        BY <4>1, <4>2
    <3> QED
      BY <2>1, <3>1, SavesRest
  <2>5. CASE Environment
    <3>1. UNCHANGED <<fileThread, countriesTxt>>
      BY <1>3, <2>5
      DEF Environment, DownloadNode, RetryDownloadNode, CancelDownloadNode, DeleteNode,
          ResetMapDownloadMetaConfig, RunCountriesCheck, MapsFetched, FindBadMap, threadVars,
          diskVars
    <3> QED
      BY <2>1, <3>1, SavesRest
  <2> QED
    BY <1>3, <2>2, <2>3, <2>4, <2>5 DEF Next, GuiThread, Download, Fetch
<1> QED
  BY <1>1, <1>2, <1>3

\* No map is shown that is newer than the version, after every step.
LEMMA ShownStep ==
  ASSUME TypesInv, ChecksInv, ShownInv, [Next]_vars
  PROVE  ShownInv'
<1>1. /\ version \in Nat /\ \A c \in Leaves : mwm[c] \in Nat
      /\ mwm \in [Leaves -> 0..MaxVersion]
  BY DEF TypesInv, TypeOK, Versions
<1>2. CASE Restart
  <2> DEFINE v == NewerOf(Bundled, countriesTxt)
  <2>1. /\ version' = v
        /\ mwm' = [c \in Leaves |-> IF LocalMaps(v)[c] = {} THEN 0 ELSE Max(LocalMaps(v)[c])]
    BY <1>2 DEF Restart
  <2>2. v \in Nat
    BY VersionAssumption DEF NewerOf, TypesInv, TypeOK
  <2> HIDE DEF v
  <2>3. SUFFICES ASSUME NEW c \in Leaves PROVE mwm'[c] <= v
    BY <2>1 DEF ShownInv
  <2>4. CASE LocalMaps(v)[c] = {}
    BY <2>1, <2>2, <2>4
  <2>5. CASE LocalMaps(v)[c] # {}
    <3>1. PICK w \in Known(disk, c, v) : Max(LocalMaps(v)[c]) = w
      BY <2>5, LocalMapsType
    <3>2. w <= v
      BY DEF Known
    <3> QED
      BY <2>1, <2>5, <3>1, <3>2
  <2> QED
    BY <2>4, <2>5
<1>3. CASE RegisterDownloadedFiles
  <2>1. version' = version /\ mwm' = [mwm EXCEPT ![This] = version]
    BY <1>3 DEF RegisterDownloadedFiles, checkVars
  <2> QED
    BY <1>1, <2>1 DEF ShownInv
<1>4. CASE DeleteCountry
  <2>1. version' = version /\ mwm' = [mwm EXCEPT ![This] = 0]
    BY <1>4 DEF DeleteCountry, checkVars
  <2> QED
    BY <1>1, <2>1 DEF ShownInv
<1>5. ASSUME NEW c \in Leaves, FindBadMap(c)
      PROVE  ShownInv'
  <2>1. version' = version /\ mwm' = [mwm EXCEPT ![c] = 0]
    BY <1>5 DEF FindBadMap, checkVars
  <2> QED
    BY <1>1, <2>1 DEF ShownInv
<1>6. CASE ApplyCountriesInMemory
  <2>1. version' > version /\ mwm' = mwm
    BY <1>6, ApplyChecks DEF ApplyCountriesInMemory, mwmVars
  <2>2. version' \in Nat
    <3>1. TypesInv'
      BY <1>6, ApplyTypes
    <3> QED
      BY <3>1 DEF TypesInv, TypeOK, Versions
  <2> QED
    BY <1>1, <2>1, <2>2 DEF ShownInv
<1>7. CASE UNCHANGED <<version, mwm>>
  BY <1>7 DEF ShownInv
<1> QED
  BY <1>2, <1>3, <1>4, <1>5, <1>6, <1>7, MapsChange

\* The first version is the one inside the application.
LEMMA SavesInit == Init => SavesInv /\ ShownInv
<1> SUFFICES ASSUME Init PROVE SavesInv /\ ShownInv
  OBVIOUS
<1>1. /\ version = Bundled /\ deferred = 0 /\ calls = <<>> /\ gui = <<>> /\ fileThread = <<>>
      /\ countriesTxt = 0
  BY DEF Init
<1>2. PICK installed \in SUBSET Leaves :
        mwm = [c \in Leaves |-> IF c \in installed THEN Bundled ELSE 0]
  BY DEF Init
<1>3. Bundled \in Nat /\ NewerOf(Bundled, countriesTxt) = Bundled
  BY <1>1, VersionAssumption DEF NewerOf
<1>4. Covers(Bundled)
  BY <1>1, <1>3 DEF Covers, Calling, Idle
<1>5. SavesInv
  BY <1>1, <1>3, <1>4 DEF SavesInv, IsLastSave
<1>6. ShownInv
  BY <1>1, <1>2, <1>3 DEF ShownInv
<1> QED
  BY <1>5, <1>6

\* If every new countries.txt is saved, then a restart finds a map of every country that
\* was shown and has its file, whatever versions were downloaded and applied before.
THEOREM RestartsFindMaps ==
  ASSUME SavesSucceed
  PROVE  Spec => RestartFindsMaps
<1>1. Init => SavesInv /\ ShownInv
  BY SavesInit
<1>2. TypesInv /\ ChecksInv /\ SavesInv /\ ShownInv /\ [Next]_vars => (SavesInv /\ ShownInv)'
  BY SavesStep, ShownStep
<1>3. TypesInv /\ SavesInv /\ ShownInv => [Restart => \A c \in Leaves : FindsMap(c)]_vars
  <2>1. SUFFICES ASSUME TypesInv, SavesInv, ShownInv, Restart, NEW c \in Leaves,
                        mwm[c] # 0, NEW f \in Of(disk, c, mwm[c])
                 PROVE  localFiles'[c] # {}
    BY DEF FindsMap
  <2> DEFINE v == NewerOf(Bundled, countriesTxt)
  <2>2. version' = v /\ localFiles' = LocalMaps(v)
    BY <2>1 DEF Restart, RegisterAllLocalMaps
  <2>3. Covers(v)
    BY <2>1, <2>2, SavesRestart
  <2> HIDE DEF v
  <2>4. f \in disk /\ f.id = c /\ f.version = mwm[c]
    BY DEF Of
  <2>5. f.version <= v
    BY <2>1, <2>3, <2>4 DEF Covers, ShownInv, TypesInv, TypeOK, Versions
  <2>6. Known(disk, c, v) # {}
    BY <2>4, <2>5 DEF Known
  <2> QED
    BY <2>1, <2>2, <2>6, LocalMapsType
<1> QED
  BY <1>1, <1>2, <1>3, TypesAreOK, PTL DEF Spec, RestartFindsMaps

\* A restart finds every file, if it begins with a version that covers them.
LEMMA RestartKeepsFiles ==
  ASSUME TypesInv, FilesInv, Restart, Covers(version')
  PROVE  FilesInv'
<1> DEFINE v == NewerOf(Bundled, countriesTxt)
<1>1. /\ version' = v /\ localFiles' = LocalMaps(v)
      /\ disk' = {f \in disk : f.version > v \/ f.version \in LocalMaps(v)[f.id]}
      /\ mwm' = [c \in Leaves |-> IF LocalMaps(v)[c] = {} THEN 0 ELSE Max(LocalMaps(v)[c])]
  BY DEF Restart, RegisterAllLocalMaps
<1> HIDE DEF v
<1>2. v \in Nat /\ version \in Nat /\ version <= v
  BY <1>1 DEF Covers, TypesInv, TypeOK, Versions
<1>3. SUFFICES ASSUME NEW f \in disk'
               PROVE  f.version <= version' /\ IsKnown(f)'
  BY DEF FilesInv
<1>4. f \in disk /\ f.version <= version /\ f.version \in Nat /\ f.id \in Leaves
  BY <1>1 DEF FilesInv, TypesInv, TypeOK, Versions
<1>5. f.version <= v /\ f.version \in LocalMaps(v)[f.id]
  BY <1>1, <1>2, <1>4
<1>6. Max(LocalMaps(v)[f.id]) = f.version
  BY <1>4, <1>5, LocalMapsType
<1> QED
  BY <1>1, <1>4, <1>5, <1>6 DEF IsKnown

\* Every step keeps track of the files, unless a kill loses a version.
LEMMA FilesStep ==
  ASSUME TypesInv, ChecksInv, FilesInv, [Next]_vars, Restart => Covers(version')
  PROVE  FilesInv'
<1>1. ASSUME NEW n \in Nodes, \/ DownloadNode(n) \/ RetryDownloadNode(n)
                              \/ CancelDownloadNode(n) \/ DeleteNode(n)
      PROVE  FilesInv'
  BY <1>1, PostKeepsFiles
  DEF DownloadNode, RetryDownloadNode, CancelDownloadNode, DeleteNode, Event, GuiGetsATask,
      checkVars, mwmVars, countryVars, diskVars
<1>2. CASE \/ ResetMapDownloadMetaConfig \/ RunCountriesCheck \/ \E v \in Versions : MapsFetched(v)
  BY <1>2, PostKeepsFiles
  DEF ResetMapDownloadMetaConfig, RunCountriesCheck, MapsFetched, Event, GuiGetsATask,
      checkVars, mwmVars, countryVars, diskVars
<1>3. CASE Download
  BY <1>3, PostKeepsFiles
  DEF Download, RequestFailed, RequestCompleted, Event, GuiGetsATask, checkVars, mwmVars,
      countryVars, diskVars
<1>4. CASE FileThread \/ GetMetaConfig \/ Fetch
  <2>1. GuiGetsATask
    BY <1>4, OtherTasks
  <2>2. UNCHANGED <<version, mwm, localFiles, doomed, disk>> /\ (calls' = calls \/ Idle)
    BY <1>4
    DEF FileThread, GetMetaConfig, Fetch, CheckSha, RemoveCountriesTxt, RenameCountriesTxt,
        SaveCountriesFails, TextRefused, FetchFailed, CountriesFetched, SignatureFetched, Event,
        checkVars, mwmVars, countryVars, diskVars
  <2> QED
    BY <2>1, <2>2, PostKeepsFiles
<1>5. CASE Handlers
  BY <1>5, FilesRestHandlers, RegisterKeepsFiles, ApplyKeepsFiles, DeleteKeepsFiles,
     DeleteFileKeepsFiles
<1>6. CASE RunGuiTask
  BY <1>6, TaskKeepsFiles
<1>7. ASSUME NEW c \in Leaves, FindBadMap(c) \/ \E v \in Versions : ReleaseMap(c, v)
      PROVE  FilesInv'
  BY <1>7, DeregisterKeepsFiles
<1>8. CASE UNCHANGED vars
  BY <1>8, PostKeepsFiles DEF vars, GuiGetsATask, checkVars, mwmVars, countryVars, diskVars
<1>9. CASE Restart
  BY <1>9, RestartKeepsFiles
<1> QED
  BY <1>1, <1>2, <1>3, <1>4, <1>5, <1>6, <1>7, <1>8, <1>9 DEF Next, Environment, GuiThread, Release

\* If the application is never killed, or every new countries.txt is saved, then no file is
\* forgotten on the disk: every one is that of a map that is shown, of one that is in use
\* by somebody, or its deletion is posted.
THEOREM FilesAreNotForgotten ==
  ASSUME NobodyKills \/ SavesSucceed
  PROVE  Spec => []FilesAreKnown
<1> DEFINE IInv == FilesInv /\ (SavesSucceed => SavesInv)
<1>1. Init => IInv
  BY FilesInit, SavesInit
<1>2. TypesInv /\ ChecksInv /\ IInv /\ [Next]_vars => IInv'
  <2>1. SUFFICES ASSUME TypesInv, ChecksInv, FilesInv, SavesSucceed => SavesInv, [Next]_vars
                 PROVE  IInv'
    OBVIOUS
  <2>2. Restart => Covers(version')
    BY <2>1, NoRestart, SavesRestart
  <2>3. FilesInv'
    BY <2>1, <2>2, FilesStep
  <2> QED
    BY <2>1, <2>3, SavesStep
<1>3. TypesInv /\ FilesInv => FilesAreKnown
  <2>1. SUFFICES ASSUME TypesInv, FilesInv, NEW f \in disk, IsPosted(f.id, f.version)
                 PROVE  \E t \in Range(gui) \cup Range(calls) :
                          t.op = "deleteFile" /\ t.id = f.id /\ t.arg = f.version
    BY DEF FilesInv, FilesAreKnown, IsKnown
  <2>2. ~Idle => Head(calls) \in Range(calls)
    <3>1. calls \in Seq(FirstCall)
      BY <2>1 DEF TypesInv, IsStack
    <3>2. ~Idle => Head(calls) = calls[1] /\ 1 \in DOMAIN calls
      BY <3>1, EmptySeq, LenProperties, HeadTailProperties DEF Idle
    <3> QED
      BY <3>2 DEF Range
  <2>3. Task("deleteFile", f.id, f.version) \in Range(gui) \cup Range(calls)
    BY <2>1, <2>2 DEF IsPosted
  <2> QED
    BY <2>3, Operations
<1>4. TypesInv /\ IInv => FilesAreKnown
  BY <1>3
<1> HIDE DEF IInv
<1> QED
  BY <1>1, <1>2, <1>4, TypesAreOK, PTL DEF Spec

-----------------------------------------------------------------------------
(* The queue in the settings. *)

\* A call that is on the stack, and the calls that move the pending requests to the
\* queue: they end with one that clears the pending requests.
HasCall(s, op) == \E k \in DOMAIN s : s[k].op = op
IsClosed(s) == \A i \in DOMAIN s :
                 s[i].op = "enqueue" => \E j \in DOMAIN s : i < j /\ s[j].op = "clearPending"
Moving == HasCall(calls, "startPending") \/ HasCall(calls, "clearPending")

\* The queue is saved.  The pending requests are saved when there is no queue, or they
\* are being moved to the queue, or a check keeps them waiting; and what is not saved
\* need not wait for the metaserver, unless the check waits for it too.
SavedInv ==
  /\ Range(queue) \subseteq Range(saved)
  /\ Range(queue) # {} \/ ~(Range(pending) \subseteq Range(saved)) =>
       servers \/ fetch = "servers"
  /\ IsClosed(calls) /\ (HasCall(calls, "enqueue") => servers)
  /\ \/ checking \/ Moving
     \/ /\ Range(pending) \subseteq Range(saved)
        /\ Range(queue) = {} \/ Range(pending) = {}

\* A sequence without values is empty.
LEMMA NoValues ==
  ASSUME NEW S, NEW s \in Seq(S)
  PROVE  Range(s) = {} <=> s = <<>>
<1>1. Len(s) \in Nat /\ DOMAIN s = 1..Len(s) /\ Range(s) = {s[k] : k \in DOMAIN s}
  BY LenProperties DEF Range
<1>2. CASE s = <<>>
  BY <1>1, <1>2
<1>3. CASE s # <<>>
  <2>1. Len(s) # 0
    BY <1>3, EmptySeq
  <2>2. 1 \in DOMAIN s
    BY <1>1, <2>1
  <2> QED
    BY <1>1, <1>3, <2>2
<1> QED
  BY <1>2, <1>3

\* The values when one is added, and when the first one is taken.
LEMMA MoreValues ==
  ASSUME NEW S, NEW s \in Seq(S), NEW t \in S
  PROVE  Range(Append(s, t)) = Range(s) \cup {t}
<1>1. /\ DOMAIN Append(s, t) = 1..(Len(s) + 1) /\ DOMAIN s = 1..Len(s) /\ Len(s) \in Nat
      /\ Append(s, t)[Len(s) + 1] = t
      /\ \A k \in 1..Len(s) : Append(s, t)[k] = s[k]
  BY AppendProperties, LenProperties
<1>2. ASSUME NEW k \in DOMAIN Append(s, t)
      PROVE  Append(s, t)[k] \in Range(s) \cup {t}
  BY <1>1 DEF Range
<1>3. ASSUME NEW x \in Range(s) \cup {t}
      PROVE  x \in Range(Append(s, t))
  <2>1. CASE x = t
    <3>1. Len(s) + 1 \in DOMAIN Append(s, t)
      BY <1>1
    <3> QED
      BY <1>1, <2>1, <3>1 DEF Range
  <2>2. CASE x # t
    <3>1. PICK k \in 1..Len(s) : s[k] = x
      BY <1>1, <2>2 DEF Range
    <3>2. k \in DOMAIN Append(s, t)
      BY <1>1
    <3> QED
      BY <1>1, <3>1, <3>2 DEF Range
  <2> QED
    BY <2>1, <2>2
<1> QED
  BY <1>2, <1>3 DEF Range

\* Without its first value a sequence has no others.
LEMMA FewerValues ==
  ASSUME NEW S, NEW s \in Seq(S), s # <<>>
  PROVE  Range(Tail(s)) \subseteq Range(s)
<1>1. /\ Len(s) \in Nat /\ DOMAIN s = 1..Len(s) /\ DOMAIN Tail(s) = 1..(Len(s) - 1)
      /\ \A k \in 1..(Len(s) - 1) : Tail(s)[k] = s[k + 1]
  BY HeadTailProperties, LenProperties
<1>2. \A k \in DOMAIN Tail(s) : k + 1 \in DOMAIN s /\ Tail(s)[k] = s[k + 1]
  BY <1>1
<1> QED
  BY <1>2 DEF Range

\* A sequence without the first occurrence of a value has no others.
LEMMA RemovedValues ==
  ASSUME NEW S, NEW s \in Seq(S), NEW e
  PROVE  Range(RemoveFirst(s, e)) \subseteq Range(s)
<1>1. \A k \in 1..Len(s) : s[k] \in Range(s)
  BY LenProperties DEF Range
<1>2. s \in Seq(Range(s))
  BY <1>1, LenProperties, SeqDef
<1>3. RemoveFirst(s, e) \in Seq(Range(s))
  BY <1>2, RemoveFirstType
<1> DEFINE r == RemoveFirst(s, e)
           R == Range(s)
<1>4. r \in Seq(R)
  BY <1>3
<1> HIDE DEF r, R
<1>5. \A k \in DOMAIN r : r[k] \in R
  BY <1>4, LenProperties, ElementOfSeq
<1>6. Range(r) \subseteq R
  BY <1>5 DEF Range
<1> QED
  BY <1>6 DEF r, R

\* What is left on a stack when its first call returns.
LEMMA TailCalls ==
  ASSUME NEW S, NEW s \in Seq(S), s # <<>>, NEW op
  PROVE  /\ HasCall(Tail(s), op) => HasCall(s, op)
         /\ HasCall(s, op) /\ Head(s).op # op => HasCall(Tail(s), op)
         /\ IsClosed(s) => IsClosed(Tail(s))
         /\ IsClosed(s) /\ Head(s).op = "enqueue" => HasCall(Tail(s), "clearPending")
<1> DEFINE r == Tail(s)
<1>1. /\ Len(s) \in Nat \ {0} /\ DOMAIN s = 1..Len(s) /\ DOMAIN r = 1..(Len(s) - 1)
      /\ \A k \in 1..(Len(s) - 1) : r[k] = s[k + 1]
      /\ Head(s) = s[1]
  BY HeadTailProperties, LenProperties, EmptySeq
<1> HIDE DEF r
<1>2. \A k \in DOMAIN r : k + 1 \in DOMAIN s /\ r[k] = s[k + 1]
  BY <1>1
<1>3. \A k \in DOMAIN s : k # 1 => k - 1 \in DOMAIN r /\ r[k - 1] = s[k]
  BY <1>1
<1>4. HasCall(r, op) => HasCall(s, op)
  BY <1>2 DEF HasCall
<1>5. HasCall(s, op) /\ Head(s).op # op => HasCall(r, op)
  BY <1>1, <1>3 DEF HasCall
<1>6. ASSUME IsClosed(s)
      PROVE  IsClosed(r)
  <2>1. SUFFICES ASSUME NEW i \in DOMAIN r, r[i].op = "enqueue"
                 PROVE  \E j \in DOMAIN r : i < j /\ r[j].op = "clearPending"
    BY DEF IsClosed
  <2>2. PICK j \in DOMAIN s : i + 1 < j /\ s[j].op = "clearPending"
    BY <1>2, <1>6, <2>1 DEF IsClosed
  <2>3. j # 1 /\ i < j - 1
    BY <1>1, <2>2
  <2> QED
    BY <1>3, <2>2, <2>3
<1>7. ASSUME IsClosed(s), Head(s).op = "enqueue"
      PROVE  HasCall(r, "clearPending")
  <2>1. 1 \in DOMAIN s
    BY <1>1
  <2>2. PICK j \in DOMAIN s : 1 < j /\ s[j].op = "clearPending"
    BY <1>1, <1>7, <2>1 DEF IsClosed
  <2>3. j # 1
    BY <1>1, <2>2
  <2> QED
    BY <1>3, <2>2, <2>3 DEF HasCall
<1> QED
  BY <1>4, <1>5, <1>6, <1>7 DEF r

\* What is on the stack when a call has called others.
LEMMA JoinedCalls ==
  ASSUME NEW S, NEW t \in Seq(S), NEW s \in Seq(S), NEW op
  PROVE  /\ HasCall(t \o s, op) <=> HasCall(t, op) \/ HasCall(s, op)
         /\ IsClosed(t) /\ IsClosed(s) => IsClosed(t \o s)
<1> DEFINE r == t \o s
<1>1. /\ Len(t) \in Nat /\ Len(s) \in Nat /\ DOMAIN t = 1..Len(t) /\ DOMAIN s = 1..Len(s)
      /\ DOMAIN r = 1..(Len(t) + Len(s))
      /\ \A k \in DOMAIN r : r[k] = IF k <= Len(t) THEN t[k] ELSE s[k - Len(t)]
  BY ConcatProperties, LenProperties
<1> HIDE DEF r
<1>2. \A k \in DOMAIN t : k \in DOMAIN r /\ r[k] = t[k]
  BY <1>1
<1>3. \A k \in DOMAIN s : k + Len(t) \in DOMAIN r /\ r[k + Len(t)] = s[k]
  BY <1>1
<1>4. \A k \in DOMAIN r : \/ k \in DOMAIN t /\ r[k] = t[k]
                          \/ k > Len(t) /\ k - Len(t) \in DOMAIN s /\ r[k] = s[k - Len(t)]
  BY <1>1
<1>5. HasCall(r, op) <=> HasCall(t, op) \/ HasCall(s, op)
  BY <1>2, <1>3, <1>4 DEF HasCall
<1>6. ASSUME IsClosed(t), IsClosed(s)
      PROVE  IsClosed(r)
  <2>1. SUFFICES ASSUME NEW i \in DOMAIN r, r[i].op = "enqueue"
                 PROVE  \E j \in DOMAIN r : i < j /\ r[j].op = "clearPending"
    BY DEF IsClosed
  <2>2. CASE i \in DOMAIN t /\ r[i] = t[i]
    <3>1. PICK j \in DOMAIN t : i < j /\ t[j].op = "clearPending"
      BY <1>6, <2>1, <2>2 DEF IsClosed
    <3> QED
      BY <1>2, <3>1
  <2>3. CASE i > Len(t) /\ i - Len(t) \in DOMAIN s /\ r[i] = s[i - Len(t)]
    <3>1. PICK j \in DOMAIN s : i - Len(t) < j /\ s[j].op = "clearPending"
      BY <1>6, <2>1, <2>3 DEF IsClosed
    <3>2. i < j + Len(t)
      BY <1>1, <3>1, <2>3
    <3> QED
      BY <1>3, <3>1, <3>2
  <2> QED
    BY <1>4, <2>2, <2>3
<1> QED
  BY <1>5, <1>6 DEF r

\* The calls that move the pending requests are closed.
LEMMA EnqueueCalls ==
  ASSUME NEW s \in Seq(Leaves)
  PROVE  IsClosed(Enqueue(s)) /\ HasCall(Enqueue(s), "clearPending")
<1> DEFINE r == [k \in DOMAIN s |-> Task("enqueue", s[k], 0)]
           u == Do("clearPending")
<1>1. r \in Seq(LaterCall) /\ u \in LaterCall
  BY ForEach, TaskTypes
<1>2. Enqueue(s) = r \o <<u>> /\ u.op = "clearPending"
  BY Operations DEF Enqueue
<1> HIDE DEF r, u
<1> DEFINE e == r \o <<u>>
<1>3. Len(r) \in Nat /\ DOMAIN r = 1..Len(r) /\ DOMAIN e = 1..(Len(r) + 1) /\ e[Len(r) + 1] = u
  <2>1. <<u>> \in Seq(LaterCall) /\ Len(<<u>>) = 1 /\ <<u>>[1] = u
    BY <1>1
  <2>2. Len(r) \in Nat /\ DOMAIN r = 1..Len(r) /\ Len(e) = Len(r) + 1 /\ DOMAIN e = 1..Len(e)
    BY <1>1, <2>1, ConcatProperties, LenProperties
  <2>3. Len(r) + 1 \in 1..Len(e) /\ ~(Len(r) + 1 <= Len(r)) /\ (Len(r) + 1) - Len(r) = 1
    BY <2>2
  <2> DEFINE w == <<u>>
  <2>4. w \in Seq(LaterCall) /\ Len(w) = 1 /\ w[1] = u /\ e = r \o w
    BY <2>1
  <2> HIDE DEF w, e
  <2>5. e[Len(r) + 1] = w[1]
    BY <1>1, <2>2, <2>3, <2>4, ConcatProperties
  <2> QED
    BY <2>2, <2>4, <2>5
<1> HIDE DEF e
<1>4. u.op # "enqueue" /\ \A i \in DOMAIN e : i # Len(r) + 1 => i < Len(r) + 1
  BY <1>2, <1>3
<1>5. IsClosed(e) /\ HasCall(e, "clearPending")
  BY <1>2, <1>3, <1>4 DEF IsClosed, HasCall
<1> QED
  BY <1>2, <1>5 DEF e

\* One call, or two.
LEMMA ShortCalls ==
  ASSUME NEW t \in FirstCall, NEW u \in FirstCall, NEW op
  PROVE  /\ <<t>> \in Seq(FirstCall) /\ <<t, u>> \in Seq(FirstCall)
         /\ HasCall(<<t>>, op) <=> t.op = op
         /\ HasCall(<<t, u>>, op) <=> t.op = op \/ u.op = op
<1> DEFINE a == <<t>>
           b == <<t, u>>
<1>1. DOMAIN a = {1} /\ a[1] = t
  <2>1. DOMAIN a = 1..1 /\ a[1] = t
    OBVIOUS
  <2> QED
    BY <2>1
<1>2. DOMAIN b = {1, 2} /\ b[1] = t /\ b[2] = u
  <2>1. DOMAIN b = 1..2 /\ b[1] = t /\ b[2] = u
    OBVIOUS
  <2> QED
    BY <2>1
<1>3. a \in Seq(FirstCall) /\ b \in Seq(FirstCall)
  OBVIOUS
<1> HIDE DEF a, b
<1>4. HasCall(a, op) <=> t.op = op
  BY <1>1 DEF HasCall
<1>5. HasCall(b, op) <=> t.op = op \/ u.op = op
  BY <1>2 DEF HasCall
<1> QED
  BY <1>3, <1>4, <1>5 DEF a, b

\* The stack has no new calls that add to the queue, and moves the pending requests if
\* it did before.
Steady == /\ IsClosed(calls') /\ (HasCall(calls', "enqueue") => HasCall(calls, "enqueue"))
          /\ Moving => Moving'

\* A call that does not move the pending requests returns, or calls others that do not.
LEMMA CallsSteady ==
  ASSUME TypesInv, IsClosed(calls), ~Idle, Head(calls).op \notin {"startPending", "clearPending"},
         Return \/ \E t \in Seq(FirstCall) : ~HasCall(t, "enqueue") /\ Call(t)
  PROVE  Steady
<1> DEFINE r == Tail(calls)
<1>1. calls \in Seq(FirstCall) /\ calls # <<>> /\ r \in Seq(FirstCall)
  BY ThisCall, TaskTypes
<1>2. /\ IsClosed(r) /\ (HasCall(r, "enqueue") => HasCall(calls, "enqueue"))
      /\ HasCall(calls, "startPending") => HasCall(r, "startPending")
      /\ HasCall(calls, "clearPending") => HasCall(r, "clearPending")
  BY <1>1, TailCalls
<1>3. CASE Return
  BY <1>2, <1>3 DEF Return, Steady, Moving
<1>4. ASSUME NEW t \in Seq(FirstCall), ~HasCall(t, "enqueue"), Call(t)
      PROVE  Steady
  <2>1. calls' = t \o r
    BY <1>4 DEF Call
  <2> HIDE DEF r
  <2>2. IsClosed(t)
    BY <1>4 DEF IsClosed, HasCall
  <2>3. \A op : HasCall(t \o r, op) <=> HasCall(t, op) \/ HasCall(r, op)
    BY <1>1, JoinedCalls
  <2>4. IsClosed(t \o r)
    BY <1>1, <1>2, <2>2, JoinedCalls
  <2> QED
    BY <1>2, <1>4, <2>1, <2>3, <2>4 DEF Steady, Moving
<1> QED
  BY <1>3, <1>4

\* What the settings do not notice: countries leave the queue or the pending requests,
\* servers become known, a check begins.
SavedRest ==
  /\ Steady /\ UNCHANGED saved /\ (checking => checking')
  /\ Range(queue') \subseteq Range(queue) /\ Range(pending') \subseteq Range(pending)
  /\ servers => servers'
  /\ fetch = "servers" => servers' \/ fetch' = "servers"

\* They do not.
LEMMA SavedKeep ==
  ASSUME SavedInv, SavedRest
  PROVE  SavedInv'
<1>1. Range(queue') \subseteq Range(saved')
  BY DEF SavedInv, SavedRest
<1>2. Range(queue') # {} \/ ~(Range(pending') \subseteq Range(saved')) =>
        servers' \/ fetch' = "servers"
  BY DEF SavedInv, SavedRest
<1>3. IsClosed(calls') /\ (HasCall(calls', "enqueue") => servers')
  BY DEF SavedInv, SavedRest, Steady
<1>4. \/ checking' \/ Moving'
      \/ /\ Range(pending') \subseteq Range(saved')
         /\ Range(queue') = {} \/ Range(pending') = {}
  BY DEF SavedInv, SavedRest, Steady
<1> QED
  BY <1>1, <1>2, <1>3, <1>4 DEF SavedInv

\* The handlers that save nothing and move nothing.
LEMMA SavedHandlers ==
  ASSUME TypesInv, SavedInv,
         \/ DownloadNothing \/ DownloadImpossible \/ DownloadFound \/ GotServersForText
         \/ StartRequest \/ StartRequestWithoutFile \/ RequestForbidden \/ NextRequest
         \/ Verified \/ Rejected \/ RegisterMissingFile
         \/ FinishDownloading \/ Forgive \/ Stop \/ RemoveFromQueue
         \/ DeleteCountry \/ DeleteNothing \/ DeleteCustomCountryVersion
  PROVE  SavedInv'
<1>1. ~Idle /\ Head(calls).op \notin {"startPending", "clearPending"}
  BY DEF DownloadNothing, DownloadImpossible, DownloadFound, GotServersForText, StartRequest,
         StartRequestWithoutFile, RequestForbidden, NextRequest, Verified, Rejected,
         RegisterMissingFile, FinishDownloading, Forgive, Stop, RemoveFromQueue,
         DeleteCountry, DeleteNothing, DeleteCustomCountryVersion, Wanted, Doing
<1>2. UNCHANGED <<saved, checking>>
  BY DEF DownloadNothing, DownloadImpossible, DownloadFound, GotServersForText, StartRequest,
         StartRequestWithoutFile, RequestForbidden, NextRequest, Verified, Rejected,
         RegisterMissingFile, FinishDownloading, Forgive, Stop, RemoveFromQueue,
         DeleteCountry, DeleteNothing, DeleteCustomCountryVersion, checkVars
<1>3. (servers => servers') /\ (fetch = "servers" => servers' \/ fetch' = "servers")
  BY DEF DownloadNothing, DownloadImpossible, DownloadFound, GotServersForText, StartRequest,
         StartRequestWithoutFile, RequestForbidden, NextRequest, Verified, Rejected,
         RegisterMissingFile, FinishDownloading, Forgive, Stop, RemoveFromQueue,
         DeleteCountry, DeleteNothing, DeleteCustomCountryVersion, checkVars, serverVars
<1>4. Range(queue') \subseteq Range(queue) /\ Range(pending') \subseteq Range(pending)
  <2>1. queue \in Seq(Leaves) /\ pending \in Seq(Leaves)
    BY DEF TypesInv, TypeOK
  <2>2. CASE RequestForbidden
    <3>1. queue # <<>>
      BY <2>2 DEF RequestForbidden, TypesInv
    <3> QED
      BY <2>1, <2>2, <3>1, FewerValues DEF RequestForbidden
  <2>3. CASE RemoveFromQueue
    BY <2>1, <2>3, RemovedValues DEF RemoveFromQueue
  <2>4. CASE ~RequestForbidden /\ ~RemoveFromQueue
    BY <2>4 DEF DownloadNothing, DownloadImpossible, DownloadFound, GotServersForText,
         StartRequest, StartRequestWithoutFile, NextRequest, Verified, Rejected,
         RegisterMissingFile, FinishDownloading, Forgive, Stop,
         DeleteCountry, DeleteNothing, DeleteCustomCountryVersion, queueVars
  <2> QED
    BY <2>2, <2>3, <2>4
<1>5. Return \/ \E t \in Seq(FirstCall) : ~HasCall(t, "enqueue") /\ Call(t)
  <2>1. \A t, u \in FirstCall : t.op # "enqueue" /\ u.op # "enqueue" =>
          /\ <<t>> \in Seq(FirstCall) /\ <<t, u>> \in Seq(FirstCall)
          /\ ~HasCall(<<t>>, "enqueue") /\ ~HasCall(<<t, u>>, "enqueue")
    BY ShortCalls
  <2>2. \A op \in {"request", "finish", "next"} :
          Do(op) \in FirstCall /\ Do(op).op # "enqueue"
    BY TaskTypes, Operations DEF PlainOps
  <2>3. Head(calls).op \in LeafOps =>
          \A op \in {"register", "cleanup", "remove", "stop"} :
            Task(op, This, 0) \in FirstCall /\ Task(op, This, 0).op # "enqueue"
    BY <1>1, ThisCall, TaskTypes, Operations DEF LeafOps
  <2>4. CASE DownloadFound
    <3>1. Head(calls).op \in LeafOps /\ Call(<<Task("register", This, 0)>>)
      BY <2>4 DEF DownloadFound, Wanted, Doing, LeafOps
    <3> QED
      BY <2>1, <2>3, <3>1
  <2>5. CASE RequestForbidden \/ Rejected \/ NextRequest
    BY <2>1, <2>2, <2>5 DEF RequestForbidden, Rejected, NextRequest
  <2>6. CASE Verified
    <3>1. Head(calls).op \in LeafOps /\ Call(<<Task("register", This, 0), Do("finish")>>)
      BY <2>6 DEF Verified, Doing, LeafOps
    <3> QED
      BY <2>1, <2>2, <2>3, <3>1
  <2>7. CASE DeleteCountry
    <3>1. Head(calls).op \in LeafOps /\ Call(<<Task("remove", This, 0), Task("stop", This, 0)>>)
      BY <2>7 DEF DeleteCountry, Doing, LeafOps
    <3> QED
      BY <2>1, <2>3, <3>1
  <2>8. CASE RemoveFromQueue
    <3>1. /\ Head(calls).op \in LeafOps
          /\ \/ Call(<<Do("request")>> \o <<Task("cleanup", This, 0)>>)
             \/ Call(<<>> \o <<Task("cleanup", This, 0)>>)
      BY <2>8 DEF RemoveFromQueue, Doing, LeafOps
    <3>2. /\ <<Do("request")>> \o <<Task("cleanup", This, 0)>> = <<Do("request"), Task("cleanup", This, 0)>>
          /\ <<>> \o <<Task("cleanup", This, 0)>> = <<Task("cleanup", This, 0)>>
      BY PairInParts
    <3> QED
      BY <2>1, <2>2, <2>3, <3>1, <3>2
  <2>9. CASE /\ ~DownloadFound /\ ~RequestForbidden /\ ~Rejected /\ ~NextRequest /\ ~Verified
             /\ ~DeleteCountry /\ ~RemoveFromQueue
    BY <2>9 DEF DownloadNothing, DownloadImpossible, GotServersForText, StartRequest,
         StartRequestWithoutFile, RegisterMissingFile, FinishDownloading, Forgive, Stop,
         DeleteNothing, DeleteCustomCountryVersion
  <2> QED
    BY <2>4, <2>5, <2>6, <2>7, <2>8, <2>9
<1>6. Steady
  BY <1>1, <1>5, CallsSteady DEF SavedInv
<1> QED
  BY <1>2, <1>3, <1>4, <1>6, SavedKeep DEF SavedRest

\* The first call of a stack is one of its calls.
LEMMA FirstIsThere ==
  ASSUME NEW S, NEW s \in Seq(S), s # <<>>
  PROVE  HasCall(s, Head(s).op)
<1>1. Len(s) \in Nat \ {0} /\ DOMAIN s = 1..Len(s) /\ Head(s) = s[1]
  BY HeadTailProperties, LenProperties, EmptySeq
<1>2. 1 \in DOMAIN s
  BY <1>1
<1> QED
  BY <1>1, <1>2 DEF HasCall

\* RegisterDownloadedFiles and DeleteCountryFilesFromDownloader save what GetQueue returns.
LEMMA SaveHandlers ==
  ASSUME TypesInv, SavedInv, RegisterDownloadedFiles \/ CleanUp
  PROVE  SavedInv'
<1>1. ~Idle /\ Head(calls).op \notin {"startPending", "clearPending"} /\ Return
  BY DEF RegisterDownloadedFiles, CleanUp, Doing
<1>2. Steady
  BY <1>1, CallsSteady DEF SavedInv
<1>3. UNCHANGED <<queue, pending, servers, checking, fetch>> /\ saved' = GetQueue
  BY DEF RegisterDownloadedFiles, CleanUp, queueVars, serverVars, checkVars
<1>4. queue = <<>> <=> Range(queue) = {}
  BY NoValues DEF TypesInv, TypeOK
<1>5. Range(queue') \subseteq Range(saved')
  BY <1>3, <1>4 DEF GetQueue
<1>6. Range(queue') # {} \/ ~(Range(pending') \subseteq Range(saved')) =>
        servers' \/ fetch' = "servers"
  BY <1>3, <1>4 DEF GetQueue, SavedInv
<1>7. \/ checking' \/ Moving'
      \/ /\ Range(pending') \subseteq Range(saved')
         /\ Range(queue') = {} \/ Range(pending') = {}
  BY <1>2, <1>3, <1>4 DEF GetQueue, SavedInv, Steady
<1> QED
  BY <1>2, <1>3, <1>5, <1>6, <1>7 DEF SavedInv, Steady

\* A country joins the queue, which is saved.
LEMMA EnqueueSaves ==
  ASSUME TypesInv, SavedInv, EnqueueCountry
  PROVE  SavedInv'
<1>1. ~Idle /\ Head(calls).op = "enqueue"
  BY DEF EnqueueCountry, Doing
<1>2. calls \in Seq(FirstCall) /\ calls # <<>> /\ Do("request") \in FirstCall
  BY <1>1, ThisCall, TaskTypes DEF PlainOps
<1>3. HasCall(calls, "enqueue") /\ HasCall(calls, "clearPending")
  BY <1>1, <1>2, FirstIsThere, TailCalls DEF SavedInv
<1>4. Return \/ \E t \in Seq(FirstCall) : ~HasCall(t, "enqueue") /\ Call(t)
  <2>1. Do("request").op # "enqueue"
    BY Operations
  <2>2. <<Do("request")>> \in Seq(FirstCall) /\ ~HasCall(<<Do("request")>>, "enqueue")
    BY <1>2, <2>1, ShortCalls
  <2> QED
    BY <2>2 DEF EnqueueCountry
<1>5. Steady /\ Moving'
  BY <1>1, <1>3, <1>4, CallsSteady DEF SavedInv, Steady, Moving
<1>6. servers'
  BY <1>3 DEF EnqueueCountry, serverVars, SavedInv
<1>7. saved' = queue'
  BY DEF EnqueueCountry
<1> QED
  BY <1>5, <1>6, <1>7 DEF SavedInv, Steady

\* The pending requests have all been moved.
LEMMA ClearSaves ==
  ASSUME TypesInv, SavedInv, ClearPending
  PROVE  SavedInv'
<1>1. calls \in Seq(FirstCall) /\ calls # <<>> /\ calls' = Tail(calls)
  BY ThisCall DEF ClearPending, Doing, Return
<1>2. IsClosed(calls') /\ (HasCall(calls', "enqueue") => HasCall(calls, "enqueue"))
  BY <1>1, TailCalls DEF SavedInv
<1>3. UNCHANGED <<queue, saved, servers, fetch>> /\ pending' = <<>>
  BY DEF ClearPending, serverVars, checkVars
<1>4. Range(<<>>) = {}
  BY DEF Range
<1> QED
  BY <1>2, <1>3, <1>4 DEF SavedInv

\* A call that moves the pending requests is next.
LEMMA CallsPending ==
  ASSUME TypesInv, ~Idle, IsClosed(calls), Call(<<Do("startPending")>>)
  PROVE  /\ IsClosed(calls') /\ (HasCall(calls', "enqueue") => HasCall(calls, "enqueue"))
         /\ Moving'
<1> DEFINE r == Tail(calls)
           t == <<Do("startPending")>>
<1>1. calls \in Seq(FirstCall) /\ calls # <<>> /\ r \in Seq(FirstCall)
  BY ThisCall, TaskTypes
<1>2. IsClosed(r) /\ (HasCall(r, "enqueue") => HasCall(calls, "enqueue"))
  BY <1>1, TailCalls
<1>3. t \in Seq(FirstCall) /\ HasCall(t, "startPending") /\ ~HasCall(t, "enqueue")
  BY TaskTypes, ShortCalls, Operations DEF PlainOps
<1>4. calls' = t \o r
  BY DEF Call
<1> HIDE DEF r, t
<1>5. IsClosed(t)
  BY <1>3 DEF IsClosed, HasCall
<1>6. \A op : HasCall(t \o r, op) <=> HasCall(t, op) \/ HasCall(r, op)
  BY <1>1, <1>3, JoinedCalls
<1>7. IsClosed(t \o r)
  BY <1>1, <1>2, <1>3, <1>5, JoinedCalls
<1> QED
  BY <1>2, <1>3, <1>4, <1>6, <1>7 DEF Moving

\* A country joins the pending requests.  They are saved if there is no queue; if there
\* is, a check runs and will start them, or they are moved at once.
LEMMA DownloadQueuedSaves ==
  ASSUME TypesInv, SavedInv, DownloadQueued
  PROVE  SavedInv'
<1>1. ~Idle /\ Head(calls).op \notin {"startPending", "clearPending"}
  BY DEF DownloadQueued, Wanted, Doing
<1>2. queue = <<>> <=> Range(queue) = {}
  BY NoValues DEF TypesInv, TypeOK
<1>3. UNCHANGED <<queue, servers>> /\ saved' = IF queue = <<>> THEN pending' ELSE queue
  BY DEF DownloadQueued, serverVars
<1>4. fetch = "servers" => fetch' = "servers"
  BY DEF DownloadQueued, StartCheck
<1>5. /\ IsClosed(calls') /\ (HasCall(calls', "enqueue") => HasCall(calls, "enqueue"))
      /\ queue = <<>> \/ checking' \/ Moving'
  <2>1. CASE Return
    <3>1. Steady
      BY <1>1, <2>1, CallsSteady DEF SavedInv
    <3>2. queue = <<>> \/ checking' \/ Call(<<Do("startPending")>>)
      BY DEF DownloadQueued, StartCheck
    <3>3. CASE Call(<<Do("startPending")>>)
      BY <1>1, <3>3, CallsPending DEF SavedInv
    <3> QED
      BY <3>1, <3>2, <3>3 DEF Steady
  <2>2. CASE Call(<<Do("startPending")>>)
    BY <1>1, <2>2, CallsPending DEF SavedInv
  <2> QED
    BY <2>1, <2>2 DEF DownloadQueued
<1>6. Range(queue') \subseteq Range(saved')
  BY <1>2, <1>3
<1>7. Range(queue') # {} \/ ~(Range(pending') \subseteq Range(saved')) =>
        servers' \/ fetch' = "servers"
  BY <1>2, <1>3, <1>4 DEF SavedInv
<1>8. \/ checking' \/ Moving'
      \/ /\ Range(pending') \subseteq Range(saved')
         /\ Range(queue') = {} \/ Range(pending') = {}
  BY <1>2, <1>3, <1>5
<1> QED
  BY <1>3, <1>5, <1>6, <1>7, <1>8 DEF SavedInv

\* The pending requests are moved, once there are servers.
LEMMA PendingSaves ==
  ASSUME TypesInv, ChecksInv, SavedInv, StartPending \/ GotServersForMaps
  PROVE  SavedInv'
<1> DEFINE r == Tail(calls)
           e == Enqueue(pending)
<1>1. /\ ~Idle /\ calls \in Seq(FirstCall) /\ calls # <<>> /\ r \in Seq(FirstCall)
      /\ pending \in Seq(Leaves)
  BY ThisCall, TaskTypes DEF StartPending, GotServersForMaps, Doing, TypesInv, TypeOK
<1>2. IsClosed(r) /\ (HasCall(r, "enqueue") => HasCall(calls, "enqueue"))
  BY <1>1, TailCalls DEF SavedInv
<1>3. e \in Seq(FirstCall) /\ IsClosed(e) /\ HasCall(e, "clearPending")
  BY <1>1, EnqueueType, TaskTypes, EnqueueCalls
<1>4. UNCHANGED <<queue, pending, saved, checking, fetch>> /\ (servers => servers')
  BY DEF StartPending, GotServersForMaps, queueVars, checkVars
<1>5. CASE servers' /\ Call(e)
  <2>1. calls' = e \o r
    BY <1>5 DEF Call
  <2> HIDE DEF e, r
  <2>2. HasCall(calls', "clearPending") /\ IsClosed(calls')
    BY <1>1, <1>2, <1>3, <2>1, JoinedCalls
  <2> QED
    BY <1>4, <1>5, <2>2 DEF SavedInv, Moving
<1>6. CASE StartPending /\ ~(pending # <<>> /\ servers)
  <2>1. calls' = r
    BY <1>6 DEF StartPending, Return
  <2>2. fetch # "servers"
    BY <1>6 DEF StartPending, ChecksInv, CheckInv
  <2>3. pending = <<>> => Range(pending) = {}
    BY <1>1, NoValues
  <2>4. Range(pending) \subseteq Range(saved) /\ (Range(queue) = {} \/ Range(pending) = {})
    BY <1>6, <2>2, <2>3 DEF SavedInv
  <2> QED
    BY <1>2, <1>4, <2>1, <2>4 DEF SavedInv
<1> QED
  BY <1>5, <1>6 DEF StartPending, GotServersForMaps

\* What lets a check go on keeps the pending requests waiting, what ends it moves them.
LEMMA CheckSaves ==
  ASSUME TypesInv, ChecksInv, SavedInv,
         ApplyPendingCountries \/ ApplyCountriesInMemory \/ ApplyOrDefer
  PROVE  SavedInv'
<1>1. ~Idle /\ Head(calls).op \notin {"startPending", "clearPending"}
  BY DEF ApplyPendingCountries, ApplyCountriesInMemory, ApplyOrDefer, Doing
<1>2. UNCHANGED <<queue, pending, saved, servers>>
  BY DEF ApplyPendingCountries, ApplyCountriesInMemory, ApplyOrDefer, queueVars, serverVars
<1>3. fetch # "servers"
  BY Operations DEF ApplyPendingCountries, ApplyCountriesInMemory, ApplyOrDefer, Doing, Calling,
     ChecksInv, CheckInv
<1>4. CASE Call(<<Do("startPending")>>)
  <2>1. /\ IsClosed(calls') /\ (HasCall(calls', "enqueue") => HasCall(calls, "enqueue"))
        /\ Moving'
    BY <1>1, <1>4, CallsPending DEF SavedInv
  <2> QED
    BY <1>2, <1>3, <2>1 DEF SavedInv
<1>5. CASE /\ UNCHANGED <<checking, fetch>>
           /\ Return \/ \E t \in Seq(FirstCall) : ~HasCall(t, "enqueue") /\ Call(t)
  BY <1>1, <1>2, <1>5, CallsSteady, SavedKeep DEF SavedRest, SavedInv
<1>6. ASSUME NEW v \in Versions, Call(<<Task("apply", NoCountry, v)>>)
      PROVE  \E t \in Seq(FirstCall) : ~HasCall(t, "enqueue") /\ Call(t)
  <2> DEFINE u == Task("apply", NoCountry, v)
  <2>1. u \in FirstCall /\ u.op # "enqueue"
    BY TaskTypes, Operations DEF CheckOps
  <2> HIDE DEF u
  <2>2. <<u>> \in Seq(FirstCall) /\ ~HasCall(<<u>>, "enqueue")
    BY <2>1, ShortCalls
  <2> QED
    BY <1>6, <2>2 DEF u
<1>7. CASE ApplyPendingCountries
  <2>1. deferred > version => deferred \in Versions
    BY <1>7, VersionAssumption DEF ApplyPendingCountries, TypesInv, TypeOK, Versions
  <2> QED
    BY <1>4, <1>5, <1>6, <1>7, <2>1 DEF ApplyPendingCountries
<1>8. CASE ApplyOrDefer
  <2>1. Arg \in Versions
    BY <1>1, <1>8, ThisCall, Operations DEF ApplyOrDefer, Doing
  <2> QED
    BY <1>4, <1>5, <1>6, <1>8, <2>1 DEF ApplyOrDefer
<1> QED
  BY <1>4, <1>7, <1>8 DEF ApplyCountriesInMemory

\* Every handler keeps the settings right.
LEMMA HandlersSave ==
  ASSUME TypesInv, ChecksInv, SavedInv, Handlers
  PROVE  SavedInv'
<1>1. CASE \/ DownloadNothing \/ DownloadImpossible \/ DownloadFound \/ GotServersForText
           \/ StartRequest \/ StartRequestWithoutFile \/ RequestForbidden \/ NextRequest
           \/ Verified \/ Rejected \/ RegisterMissingFile
           \/ FinishDownloading \/ Forgive \/ Stop \/ RemoveFromQueue
           \/ DeleteCountry \/ DeleteNothing \/ DeleteCustomCountryVersion
  BY <1>1, SavedHandlers
<1>2. CASE RegisterDownloadedFiles \/ CleanUp
  BY <1>2, SaveHandlers
<1>3. CASE EnqueueCountry
  BY <1>3, EnqueueSaves
<1>4. CASE ClearPending
  BY <1>4, ClearSaves
<1>5. CASE DownloadQueued
  BY <1>5, DownloadQueuedSaves
<1>6. CASE StartPending \/ GotServersForMaps
  BY <1>6, PendingSaves
<1>7. CASE ApplyPendingCountries \/ ApplyCountriesInMemory \/ ApplyOrDefer
  BY <1>7, CheckSaves
<1> QED
  BY <1>1, <1>2, <1>3, <1>4, <1>5, <1>6, <1>7 DEF Handlers

\* An event of the user begins with calls for countries, that of a request with the next.
LEMMA EventsSteady ==
  ASSUME TypesInv,
         \/ \E n \in Nodes : \/ DownloadNode(n) \/ RetryDownloadNode(n)
                             \/ CancelDownloadNode(n) \/ DeleteNode(n)
         \/ RequestFailed \/ \E intact \in BOOLEAN : RequestCompleted(intact)
         \/ RunGuiTask
  PROVE  Steady
<1>1. ~Moving
  BY DEF DownloadNode, RetryDownloadNode, CancelDownloadNode, DeleteNode, RequestFailed,
         RequestCompleted, RunGuiTask, Event, Idle, Moving, HasCall
<1>2. SUFFICES ~HasCall(calls', "enqueue")
  BY <1>1 DEF Steady, IsClosed, HasCall
<1>3. ASSUME NEW n \in Nodes, DownloadNode(n) \/ RetryDownloadNode(n) \/ DeleteNode(n)
      PROVE  ~HasCall(calls', "enqueue")
  <2>1. \E op \in {"download", "retry", "delete"} :
          calls' = [k \in DOMAIN Subtree[n] |-> Task(op, Subtree[n][k], 0)]
    BY <1>3 DEF DownloadNode, RetryDownloadNode, DeleteNode
  <2> QED
    BY <2>1, Operations DEF HasCall
<1>4. ASSUME NEW n \in Nodes, CancelDownloadNode(n)
      PROVE  ~HasCall(calls', "enqueue")
  <2>1. calls' \in Seq(CancelCall)
    BY <1>4, CancelCalls DEF CancelDownloadNode
  <2>2. \A k \in DOMAIN calls' : calls'[k] \in CancelCall
    BY <2>1, ElementOfSeq, LenProperties
  <2> QED
    BY <2>2 DEF CancelCall, LeafTask, HasCall
<1>5. \A op \in {"next", "finish"} : Do(op) \in FirstCall /\ Do(op).op # "enqueue"
  BY TaskTypes, Operations DEF PlainOps
<1>6. ASSUME NEW intact \in BOOLEAN, RequestFailed \/ RequestCompleted(intact)
      PROVE  ~HasCall(calls', "enqueue")
  <2>1. calls' = <<Do("next")>> \/ calls' = <<Do("finish"), Do("next")>>
    BY <1>6 DEF RequestFailed, RequestCompleted
  <2>2. ~HasCall(<<Do("next")>>, "enqueue") /\ ~HasCall(<<Do("finish"), Do("next")>>, "enqueue")
    BY <1>5, ShortCalls
  <2> QED
    BY <2>1, <2>2
<1>7. CASE RunGuiTask
  <2> DEFINE t == Head(gui)
  <2>1. t \in GuiTask
    BY <1>7, TakeType DEF RunGuiTask, TypesInv
  <2>2. calls' = <<t>>
    BY <1>7 DEF RunGuiTask
  <2> HIDE DEF t
  <2>3. t \in FirstCall /\ t.op # "enqueue"
    BY <2>1, TaskTypes DEF GuiTask, LeafTask, FileTask, VersionTask, PlainTask, ServerOps
  <2> QED
    BY <2>2, <2>3, ShortCalls
<1> QED
  BY <1>3, <1>4, <1>6, <1>7

\* The events that save nothing.
LEMMA EventsSave ==
  ASSUME TypesInv, SavedInv,
         \/ \E n \in Nodes : \/ DownloadNode(n) \/ RetryDownloadNode(n)
                             \/ CancelDownloadNode(n) \/ DeleteNode(n)
         \/ RequestFailed \/ \E intact \in BOOLEAN : RequestCompleted(intact)
         \/ RunGuiTask
  PROVE  SavedInv'
<1>1. UNCHANGED <<saved, servers, checking, fetch, pending>>
  BY DEF DownloadNode, RetryDownloadNode, CancelDownloadNode, DeleteNode, RequestFailed,
         RequestCompleted, RunGuiTask, queueVars, serverVars, checkVars
<1>2. Range(queue') \subseteq Range(queue)
  <2>1. CASE RequestFailed \/ \E intact \in BOOLEAN : RequestCompleted(intact)
    <3>1. queue' = Tail(queue) /\ queue # <<>>
      BY <2>1 DEF RequestFailed, RequestCompleted, IsOfTheTop
    <3>2. queue \in Seq(Leaves)
      BY DEF TypesInv, TypeOK
    <3> QED
      BY <3>1, <3>2, FewerValues
  <2>2. CASE ~(RequestFailed \/ \E intact \in BOOLEAN : RequestCompleted(intact))
    BY <2>2 DEF DownloadNode, RetryDownloadNode, CancelDownloadNode, DeleteNode, RunGuiTask,
           queueVars
  <2> QED
    BY <2>1, <2>2
<1> QED
  BY <1>1, <1>2, EventsSteady, SavedKeep DEF SavedRest

\* A check begins, fails or goes on.
LEMMA FetchSaves ==
  ASSUME TypesInv, SavedInv,
         \/ RunCountriesCheck \/ \E v \in Versions : MapsFetched(v)
         \/ TextRefused \/ FetchFailed \/ CountriesFetched \/ SignatureFetched
  PROVE  SavedInv'
<1>1. UNCHANGED <<queue, pending, saved>> /\ ~Moving /\ ~HasCall(calls, "enqueue")
  BY DEF RunCountriesCheck, MapsFetched, TextRefused, FetchFailed, CountriesFetched, SignatureFetched, queueVars,
         Event, Idle, Moving, HasCall
<1>2. CASE TextRefused \/ FetchFailed
  <2>1. calls' = <<Do("startPending")>> /\ UNCHANGED servers /\ fetch # "servers"
    BY <1>2 DEF TextRefused, FetchFailed, GiveUpCheck, serverVars
  <2>2. Do("startPending") \in FirstCall /\ Do("startPending").op = "startPending"
    BY TaskTypes, Operations DEF PlainOps
  <2>3. HasCall(calls', "startPending") /\ ~HasCall(calls', "enqueue")
    BY <2>1, <2>2, ShortCalls
  <2>4. IsClosed(calls') /\ Moving'
    BY <2>3 DEF IsClosed, HasCall, Moving
  <2> QED
    BY <1>1, <2>1, <2>3, <2>4 DEF SavedInv
<1>3. CASE \E v \in Versions : MapsFetched(v)
  <2>1. UNCHANGED <<calls, checking>> /\ fetch' = "servers"
    BY <1>3 DEF MapsFetched
  <2> QED
    BY <1>1, <2>1 DEF SavedInv, Moving
<1>4. CASE RunCountriesCheck \/ CountriesFetched \/ SignatureFetched
  <2>1. UNCHANGED <<calls, servers>> /\ (checking => checking')
    BY <1>4 DEF RunCountriesCheck, CountriesFetched, SignatureFetched, StartCheck, serverVars
  <2>2. fetch = "servers" => fetch' = "servers"
    BY <1>4 DEF RunCountriesCheck, CountriesFetched, SignatureFetched, StartCheck
  <2>3. Steady
    BY <1>1, <2>1 DEF Steady, SavedInv, Moving
  <2> QED
    BY <1>1, <2>1, <2>2, <2>3, SavedKeep DEF SavedRest
<1> QED
  BY <1>2, <1>3, <1>4

\* The other threads save no queue.
LEMMA ThreadsSave ==
  ASSUME SavedInv,
         \/ FileThread \/ GetMetaConfig \/ Release \/ \E c \in Leaves : FindBadMap(c)
         \/ UNCHANGED vars
  PROVE  SavedInv'
<1>1. UNCHANGED <<queue, pending, saved, servers, checking, fetch, calls>>
  BY DEF FileThread, CheckSha, RemoveCountriesTxt, RenameCountriesTxt, SaveCountriesFails,
         GetMetaConfig, Release, ReleaseMap, FindBadMap, queueVars, serverVars, checkVars, vars
<1> QED
  BY <1>1 DEF SavedInv, Moving

\* A restart begins with an empty queue, and asks for what was saved.
LEMMA RestartSaves ==
  ASSUME Restart
  PROVE  SavedInv'
<1>1. queue' = <<>> /\ pending' = <<>> /\ Range(<<>>) = {}
  BY DEF Restart, Range
<1>2. ~HasCall(calls', "enqueue")
  BY Operations DEF Restart, HasCall
<1> QED
  BY <1>1, <1>2 DEF SavedInv, IsClosed, HasCall

\* The queue in the settings is that of the downloader, unless the user chooses another
\* server: then the pending requests wait for the metaserver beside the queue.
LEMMA SavedStep ==
  ASSUME "newServer" \notin Events, TypesInv, ChecksInv, SavedInv, [Next]_vars
  PROVE  SavedInv'
<1>1. CASE Environment
  <2>1. ~ResetMapDownloadMetaConfig
    BY DEF ResetMapDownloadMetaConfig, Event, MayHappen
  <2> QED
    BY <1>1, <2>1, EventsSave, FetchSaves, ThreadsSave, RestartSaves DEF Environment
<1>2. CASE GuiThread
  BY <1>2, HandlersSave, EventsSave DEF GuiThread
<1>3. CASE Download
  BY <1>3, EventsSave DEF Download
<1>4. CASE Fetch
  BY <1>4, FetchSaves DEF Fetch
<1>5. CASE FileThread \/ GetMetaConfig \/ Release \/ UNCHANGED vars
  BY <1>5, ThreadsSave
<1> QED
  BY <1>1, <1>2, <1>3, <1>4, <1>5 DEF Next

\* If the user does not choose another server, then between two events the queue is in the
\* settings, and so are the pending requests unless a check runs: whatever is cancelled,
\* deleted, failed or killed (SaveDownloadQueue, RestoreDownloadQueue).
THEOREM QueuesSurvive ==
  ASSUME "newServer" \notin Events
  PROVE  Spec => []QueueIsSaved
<1>1. Init => SavedInv
  <2>1. ASSUME Init
        PROVE  /\ Range(queue) = {} /\ Range(pending) = {}
               /\ \A op : ~HasCall(calls, op)
    BY <2>1 DEF Init, Range, HasCall
  <2> QED
    BY <2>1 DEF SavedInv, IsClosed, HasCall
<1>2. TypesInv /\ ChecksInv /\ SavedInv /\ [Next]_vars => SavedInv'
  BY SavedStep
<1>3. SavedInv => QueueIsSaved
  BY DEF SavedInv, QueueIsSaved, Idle, Moving, HasCall
<1> QED
  BY <1>1, <1>2, <1>3, TypesAreOK, PTL DEF Spec

-----------------------------------------------------------------------------
(* One place in the pipeline. *)

\* The countries that some of the tasks are for, and that each has one task only.
Ids(s, ops) == {s[k].id : k \in {j \in DOMAIN s : s[j].op \in ops}}
Once(s, ops) ==
  \A i, j \in DOMAIN s : s[i].op \in ops /\ s[j].op \in ops /\ s[i].id = s[j].id => i = j

AskOps == {"download", "retry"}
AnswerOps == {"verified", "rejected"}
Asked == Ids(calls, AskOps)
Moved == Ids(calls, {"enqueue"})

\* A country on its way to be installed waits for its request, or for its checksum, or is
\* being installed.
Waiting == Range(queue) \cup Range(pending)
Hashed == Ids(fileThread, {"sha"})
Answered == Ids(gui, AnswerOps)
Checked == Hashed \cup Answered
Installing == IF Calling(AnswerOps \cup {"register"}) THEN {This} ELSE {}

\* While the pending requests are moved, only these calls come before the next move.
MoveOps == {"enqueue", "request", "finish", "next"}
EndOps == {"enqueue", "clearPending"}
IsOrdered(s) ==
  \A i, j \in DOMAIN s : i < j /\ s[j].op \in EndOps => s[i].op \in MoveOps

QueuesOnce == IsInjective(queue) /\ IsInjective(pending) /\ IsInjective(saved)
StackOnce == /\ Once(calls, AskOps) /\ Once(calls, {"enqueue"})
             /\ IsClosed(calls) /\ IsOrdered(calls)

\* The pending requests and the queue share nothing, but while the first are moved to the
\* second: then what is still to be moved is not in the queue.
MoveInv ==
  IF HasCall(calls, "clearPending")
    THEN /\ Moved \subseteq Range(pending) /\ Moved \cap Range(queue) = {}
         /\ pending # <<>> \/ Doing("clearPending")
    ELSE /\ Range(queue) \cap Range(pending) = {}
         /\ queue # <<>> => Asked \cap Range(pending) = {}

PlacesOnce ==
  /\ Once(fileThread, {"sha"}) /\ Once(gui, AnswerOps)
  /\ Hashed \cap Answered = {}
  /\ Waiting \cap Checked = {} /\ Asked \cap Checked = {}
  /\ Installing \cap (Waiting \cup Checked) = {}

\* No country is in two places between the request for it and its installation.
PipeInv == QueuesOnce /\ StackOnce /\ MoveInv /\ PlacesOnce

\* What is left of some tasks when the first is taken.
LEMMA TailIds ==
  ASSUME NEW S, NEW s \in Seq(S), s # <<>>, NEW ops
  PROVE  /\ Ids(Tail(s), ops) \subseteq Ids(s, ops)
         /\ Head(s).op \in ops => Head(s).id \in Ids(s, ops)
         /\ Once(s, ops) => Once(Tail(s), ops)
         /\ Once(s, ops) /\ Head(s).op \in ops => Head(s).id \notin Ids(Tail(s), ops)
<1> DEFINE r == Tail(s)
<1>1. /\ Len(s) \in Nat \ {0} /\ DOMAIN s = 1..Len(s) /\ DOMAIN r = 1..(Len(s) - 1)
      /\ \A k \in 1..(Len(s) - 1) : r[k] = s[k + 1]
      /\ Head(s) = s[1]
  BY HeadTailProperties, LenProperties, EmptySeq
<1> HIDE DEF r
<1>2. \A k \in DOMAIN r : k + 1 \in DOMAIN s /\ k + 1 # 1 /\ r[k] = s[k + 1]
  BY <1>1
<1>3. 1 \in DOMAIN s
  BY <1>1
<1>4. Ids(r, ops) \subseteq Ids(s, ops)
  BY <1>2 DEF Ids
<1>5. Head(s).op \in ops => Head(s).id \in Ids(s, ops)
  BY <1>1, <1>3 DEF Ids
<1>6. ASSUME Once(s, ops)
      PROVE  Once(r, ops)
  <2>1. SUFFICES ASSUME NEW i \in DOMAIN r, NEW j \in DOMAIN r, r[i].op \in ops, r[j].op \in ops,
                        r[i].id = r[j].id
                 PROVE  i = j
    BY DEF Once
  <2>2. i + 1 = j + 1
    BY <1>2, <1>6, <2>1 DEF Once
  <2> QED
    BY <1>1, <2>2
<1>7. ASSUME Once(s, ops), Head(s).op \in ops, Head(s).id \in Ids(r, ops)
      PROVE  FALSE
  <2>1. PICK k \in DOMAIN r : r[k].op \in ops /\ r[k].id = Head(s).id
    BY <1>7 DEF Ids
  <2>2. k + 1 = 1
    BY <1>1, <1>2, <1>3, <1>7, <2>1 DEF Once
  <2> QED
    BY <1>2, <2>1, <2>2
<1> QED
  BY <1>4, <1>5, <1>6, <1>7 DEF r

\* ... and when one is added.
LEMMA AddedIds ==
  ASSUME NEW S, NEW s \in Seq(S), NEW t \in S, NEW ops
  PROVE  /\ t.op \notin ops => Ids(Append(s, t), ops) = Ids(s, ops)
         /\ Ids(Append(s, t), ops) \subseteq Ids(s, ops) \cup {t.id}
         /\ Once(s, ops) /\ (t.op \notin ops \/ t.id \notin Ids(s, ops)) => Once(Append(s, t), ops)
<1> DEFINE r == Append(s, t)
<1>1. /\ Len(s) \in Nat /\ DOMAIN s = 1..Len(s) /\ DOMAIN r = 1..(Len(s) + 1)
      /\ \A k \in 1..Len(s) : r[k] = s[k]
      /\ r[Len(s) + 1] = t
  BY LenProperties, AppendProperties
<1> HIDE DEF r
<1>2. \A k \in DOMAIN r : (k \in DOMAIN s /\ r[k] = s[k]) \/ (k = Len(s) + 1 /\ r[k] = t)
  BY <1>1
<1>3. \A k \in DOMAIN s : k \in DOMAIN r /\ r[k] = s[k]
  BY <1>1
<1>4. Ids(r, ops) \subseteq Ids(s, ops) \cup {t.id}
  BY <1>2 DEF Ids
<1>5. t.op \notin ops => Ids(r, ops) = Ids(s, ops)
  <2>1. ASSUME t.op \notin ops, NEW x \in Ids(r, ops)
        PROVE  x \in Ids(s, ops)
    BY <1>2, <2>1 DEF Ids
  <2>2. Ids(s, ops) \subseteq Ids(r, ops)
    BY <1>3 DEF Ids
  <2> QED
    BY <2>1, <2>2
<1>6. ASSUME Once(s, ops), t.op \notin ops \/ t.id \notin Ids(s, ops)
      PROVE  Once(r, ops)
  <2>1. \A k \in DOMAIN s : s[k].op \in ops => s[k].id \in Ids(s, ops)
    BY DEF Ids
  <2> QED
    BY <1>2, <1>6, <2>1 DEF Once
<1> QED
  BY <1>4, <1>5, <1>6 DEF r

\* ... and when some are put before them.
LEMMA JoinedIds ==
  ASSUME NEW S, NEW t \in Seq(S), NEW s \in Seq(S), NEW ops
  PROVE  /\ Nobody(t, ops) => /\ Ids(t \o s, ops) \subseteq Ids(s, ops)
                              /\ Once(s, ops) => Once(t \o s, ops)
         /\ Nobody(s, ops) => /\ Ids(t \o s, ops) \subseteq Ids(t, ops)
                              /\ Once(t, ops) => Once(t \o s, ops)
<1> DEFINE r == t \o s
<1>1. /\ Len(t) \in Nat /\ Len(s) \in Nat /\ DOMAIN t = 1..Len(t) /\ DOMAIN s = 1..Len(s)
      /\ DOMAIN r = 1..(Len(t) + Len(s))
      /\ \A k \in DOMAIN r : r[k] = IF k <= Len(t) THEN t[k] ELSE s[k - Len(t)]
  BY ConcatProperties, LenProperties
<1> HIDE DEF r
<1>2. \A k \in DOMAIN r : \/ k \in DOMAIN t /\ r[k] = t[k]
                          \/ k \in Int /\ k - Len(t) \in DOMAIN s /\ r[k] = s[k - Len(t)]
  BY <1>1
<1>3. ASSUME Nobody(t, ops)
      PROVE  Ids(r, ops) \subseteq Ids(s, ops) /\ (Once(s, ops) => Once(r, ops))
  <2>1. \A k \in DOMAIN r : r[k].op \in ops => k \in Int /\ k - Len(t) \in DOMAIN s /\ r[k] = s[k - Len(t)]
    BY <1>2, <1>3 DEF Nobody
  <2>2. Ids(r, ops) \subseteq Ids(s, ops)
    BY <2>1 DEF Ids
  <2>3. ASSUME Once(s, ops), NEW i \in DOMAIN r, NEW j \in DOMAIN r, r[i].op \in ops, r[j].op \in ops,
               r[i].id = r[j].id
        PROVE  i = j
    <3>1. i - Len(t) = j - Len(t)
      BY <2>1, <2>3 DEF Once
    <3> QED
      BY <1>1, <2>1, <2>3, <3>1
  <2> QED
    BY <2>2, <2>3 DEF Once
<1>4. ASSUME Nobody(s, ops)
      PROVE  Ids(r, ops) \subseteq Ids(t, ops) /\ (Once(t, ops) => Once(r, ops))
  <2>1. \A k \in DOMAIN r : r[k].op \in ops => k \in DOMAIN t /\ r[k] = t[k]
    BY <1>2, <1>4 DEF Nobody
  <2> QED
    BY <2>1 DEF Ids, Once
<1> QED
  BY <1>3, <1>4 DEF r

\* The order of calls, when the first returns and when others are put before them.
LEMMA OrderedCalls ==
  ASSUME NEW S, NEW t \in Seq(S), NEW s \in Seq(S)
  PROVE  /\ IsOrdered(s) /\ s # <<>> => IsOrdered(Tail(s))
         /\ IsOrdered(s) /\ s # <<>> /\ Head(s).op \notin MoveOps => Nobody(Tail(s), EndOps)
         /\ IsOrdered(t) /\ IsOrdered(s)
              /\ (Nobody(s, EndOps) \/ \A k \in DOMAIN t : t[k].op \in MoveOps) => IsOrdered(t \o s)
<1>1. ASSUME IsOrdered(s), s # <<>>
      PROVE  IsOrdered(Tail(s)) /\ (Head(s).op \notin MoveOps => Nobody(Tail(s), EndOps))
  <2> DEFINE r == Tail(s)
  <2>1. /\ Len(s) \in Nat \ {0} /\ DOMAIN s = 1..Len(s) /\ DOMAIN r = 1..(Len(s) - 1)
        /\ \A k \in 1..(Len(s) - 1) : r[k] = s[k + 1]
        /\ Head(s) = s[1]
    BY <1>1, HeadTailProperties, LenProperties, EmptySeq
  <2> HIDE DEF r
  <2>2. \A k \in DOMAIN r : k \in Nat /\ k + 1 \in DOMAIN s /\ 1 < k + 1 /\ r[k] = s[k + 1]
    BY <2>1
  <2>3. 1 \in DOMAIN s
    BY <2>1
  <2>4. ASSUME NEW i \in DOMAIN r, NEW j \in DOMAIN r, i < j, r[j].op \in EndOps
        PROVE  r[i].op \in MoveOps
    <3>1. i + 1 < j + 1
      BY <2>2, <2>4
    <3> QED
      BY <1>1, <2>2, <2>4, <3>1 DEF IsOrdered
  <2>5. ASSUME Head(s).op \notin MoveOps, NEW k \in DOMAIN r, r[k].op \in EndOps
        PROVE  FALSE
    BY <1>1, <2>1, <2>2, <2>3, <2>5 DEF IsOrdered
  <2> QED
    BY <2>4, <2>5 DEF IsOrdered, Nobody, r
<1>2. ASSUME IsOrdered(t), IsOrdered(s),
             Nobody(s, EndOps) \/ \A k \in DOMAIN t : t[k].op \in MoveOps
      PROVE  IsOrdered(t \o s)
  <2> DEFINE r == t \o s
  <2>1. /\ Len(t) \in Nat /\ Len(s) \in Nat /\ DOMAIN t = 1..Len(t) /\ DOMAIN s = 1..Len(s)
        /\ DOMAIN r = 1..(Len(t) + Len(s))
        /\ \A k \in DOMAIN r : r[k] = IF k <= Len(t) THEN t[k] ELSE s[k - Len(t)]
    BY ConcatProperties, LenProperties
  <2> HIDE DEF r
  <2>2. \A k \in DOMAIN r : \/ k \in DOMAIN t /\ r[k] = t[k]
                            \/ k \in Int /\ k > Len(t) /\ k - Len(t) \in DOMAIN s /\ r[k] = s[k - Len(t)]
    BY <2>1
  <2>3. SUFFICES ASSUME NEW i \in DOMAIN r, NEW j \in DOMAIN r, i < j, r[j].op \in EndOps
                 PROVE  r[i].op \in MoveOps
    BY DEF IsOrdered, r
  <2>4. CASE j \in DOMAIN t /\ r[j] = t[j]
    <3>1. i \in DOMAIN t /\ r[i] = t[i]
      BY <2>1, <2>3, <2>4
    <3> QED
      BY <1>2, <2>3, <2>4, <3>1 DEF IsOrdered
  <2>5. CASE j > Len(t) /\ j - Len(t) \in DOMAIN s /\ r[j] = s[j - Len(t)]
    <3>1. ~Nobody(s, EndOps)
      BY <2>3, <2>5 DEF Nobody
    <3>2. CASE i \in DOMAIN t /\ r[i] = t[i]
      BY <1>2, <3>1, <3>2
    <3>3. CASE i > Len(t) /\ i - Len(t) \in DOMAIN s /\ r[i] = s[i - Len(t)]
      <4>1. i - Len(t) < j - Len(t)
        BY <2>1, <2>3
      <4> QED
        BY <1>2, <2>3, <2>5, <3>3, <4>1 DEF IsOrdered
    <3> QED
      BY <2>2, <3>2, <3>3
  <2> QED
    BY <2>2, <2>4, <2>5
<1> QED
  BY <1>1, <1>2

\* A queue in which no country is twice, without its first, with one more, and without one.
LEMMA OnceValues ==
  ASSUME NEW S, NEW s \in Seq(S), IsInjective(s)
  PROVE  /\ s # <<>> => IsInjective(Tail(s)) /\ Head(s) \in Range(s) /\ Head(s) \notin Range(Tail(s))
         /\ \A t \in S : t \notin Range(s) => IsInjective(Append(s, t))
<1>1. ASSUME s # <<>>
      PROVE  IsInjective(Tail(s)) /\ Head(s) \in Range(s) /\ Head(s) \notin Range(Tail(s))
  <2> DEFINE r == Tail(s)
  <2>1. /\ Len(s) \in Nat \ {0} /\ DOMAIN s = 1..Len(s) /\ DOMAIN r = 1..(Len(s) - 1)
        /\ \A k \in 1..(Len(s) - 1) : r[k] = s[k + 1]
        /\ Head(s) = s[1]
    BY <1>1, HeadTailProperties, LenProperties, EmptySeq
  <2> HIDE DEF r
  <2>2. \A k \in DOMAIN r : k \in Nat /\ k + 1 \in DOMAIN s /\ k + 1 # 1 /\ r[k] = s[k + 1]
    BY <2>1
  <2>3. 1 \in DOMAIN s
    BY <2>1
  <2>4. Head(s) \in Range(s)
    BY <2>1, <2>3 DEF Range
  <2>5. ASSUME NEW k \in DOMAIN r
        PROVE  r[k] # Head(s)
    BY <2>1, <2>2, <2>3 DEF IsInjective
  <2>6. ASSUME NEW i \in DOMAIN r, NEW j \in DOMAIN r, r[i] = r[j]
        PROVE  i = j
    <3>1. i + 1 = j + 1
      BY <2>2, <2>6 DEF IsInjective
    <3> QED
      BY <2>2, <3>1
  <2>7. Head(s) \notin Range(r)
    BY <2>5 DEF Range
  <2>8. IsInjective(r)
    BY <2>6 DEF IsInjective
  <2> QED
    BY <2>4, <2>7, <2>8 DEF r
<1>2. ASSUME NEW t \in S, t \notin Range(s)
      PROVE  IsInjective(Append(s, t))
  <2> DEFINE r == Append(s, t)
  <2>1. /\ Len(s) \in Nat /\ DOMAIN s = 1..Len(s) /\ DOMAIN r = 1..(Len(s) + 1)
        /\ \A k \in 1..Len(s) : r[k] = s[k]
        /\ r[Len(s) + 1] = t
    BY LenProperties, AppendProperties
  <2> HIDE DEF r
  <2>2. \A k \in DOMAIN r : (k \in DOMAIN s /\ r[k] = s[k]) \/ (k = Len(s) + 1 /\ r[k] = t)
    BY <2>1
  <2>3. \A k \in DOMAIN s : s[k] # t
    BY <1>2 DEF Range
  <2> QED
    BY <2>2, <2>3 DEF IsInjective, r
<1> QED
  BY <1>1, <1>2

\* It stays a queue in which no country is twice when one is taken out of it.
LEMMA OnceRemoved ==
  ASSUME NEW S, NEW s \in Seq(S), IsInjective(s), NEW e
  PROVE  IsInjective(RemoveFirst(s, e))
<1>1. CASE \E k \in 1..Len(s) : s[k] = e
  <2> DEFINE I == {k \in 1..Len(s) : s[k] = e}
             n == Min(I)
             a == SubSeq(s, 1, n - 1)
             b == SubSeq(s, n + 1, Len(s))
  <2>1. RemoveFirst(s, e) = a \o b
    BY <1>1 DEF RemoveFirst, SelectInSeq, RemoveAt
  <2>2. I \subseteq Nat /\ I # {}
    BY <1>1, LenProperties
  <2>3. n \in 1..Len(s)
    BY <2>2, MinIsOne
  <2> HIDE DEF I, n
  <2>4. Len(s) \in Nat /\ n \in Nat /\ DOMAIN s = 1..Len(s)
    BY <2>3, LenProperties
  <2>5. a \in Seq(S) /\ b \in Seq(S)
    BY <2>3, <2>4
  <2>6. Len(a) = n - 1 /\ \A k \in 1..(n - 1) : a[k] = s[k]
    BY <2>3, <2>4
  <2>7. Len(b) = Len(s) - n /\ \A k \in 1..(Len(s) - n) : b[k] = s[k + n]
    <3>1. n + 1 \in Int /\ Len(s) \in Int /\ \A i \in (n + 1)..Len(s) : s[i] \in S
      <4>1. \A i \in (n + 1)..Len(s) : i \in 1..Len(s)
        BY <2>3, <2>4
      <4> QED
        BY <2>4, <4>1, ElementOfSeq
    <3>2. /\ Len(b) = IF n + 1 <= Len(s) THEN Len(s) - (n + 1) + 1 ELSE 0
          /\ \A k \in 1..(Len(s) - (n + 1) + 1) : b[k] = s[(n + 1) + k - 1]
      BY <3>1, SubSeqProperties DEF b
    <3> HIDE DEF b
    <3> DEFINE l == Len(s)
               m == Len(b)
    <3>3. m = l - n
      <4>1. m = IF n + 1 <= l THEN l - (n + 1) + 1 ELSE 0
        BY <3>2
      <4>2. l \in Nat /\ n \in 1..l
        BY <2>3, <2>4
      <4> HIDE DEF l, m
      <4> QED
        BY <4>1, <4>2
    <3>4. \A k \in 1..(Len(s) - n) : k \in 1..(Len(s) - (n + 1) + 1) /\ (n + 1) + k - 1 = k + n
      BY <2>4
    <3> QED
      BY <3>2, <3>3, <3>4
  <2> HIDE DEF a, b
  <2> DEFINE r == a \o b
  <2>8. /\ DOMAIN r = 1..((n - 1) + (Len(s) - n))
        /\ \A k \in DOMAIN r : r[k] = IF k <= n - 1 THEN a[k] ELSE b[k - (n - 1)]
    <3>1. /\ r \in Seq(S) /\ Len(r) = Len(a) + Len(b)
          /\ \A k \in 1..(Len(a) + Len(b)) : r[k] = IF k <= Len(a) THEN a[k] ELSE b[k - Len(a)]
      BY <2>5, ConcatProperties
    <3> HIDE DEF r
    <3>2. DOMAIN r = 1..Len(r)
      BY <3>1, LenProperties
    <3> QED
      BY <2>6, <2>7, <3>1, <3>2
  <2> HIDE DEF r
  <2>9. \A k \in DOMAIN r : /\ k \in Nat
                            /\ k <= n - 1 => k \in DOMAIN s /\ r[k] = s[k]
                            /\ ~(k <= n - 1) => k + 1 \in DOMAIN s /\ r[k] = s[k + 1]
    <3>1. SUFFICES ASSUME NEW k \in DOMAIN r
                   PROVE  /\ k \in Nat
                          /\ k <= n - 1 => k \in DOMAIN s /\ r[k] = s[k]
                          /\ ~(k <= n - 1) => k + 1 \in DOMAIN s /\ r[k] = s[k + 1]
      OBVIOUS
    <3>2. k \in Nat /\ k \in 1..((n - 1) + (Len(s) - n))
      BY <2>4, <2>8
    <3>3. CASE k <= n - 1
      <4>1. k \in 1..(n - 1) /\ k \in DOMAIN s
        BY <2>3, <2>4, <3>2, <3>3
      <4> QED
        BY <2>6, <2>8, <3>2, <3>3, <4>1
    <3>4. CASE ~(k <= n - 1)
      <4>1. k - (n - 1) \in 1..(Len(s) - n) /\ k + 1 \in DOMAIN s /\ (k - (n - 1)) + n = k + 1
        BY <2>3, <2>4, <3>2, <3>4
      <4> QED
        BY <2>7, <2>8, <3>2, <3>4, <4>1
    <3> QED
      BY <3>3, <3>4
  <2>10. ASSUME NEW i \in DOMAIN r, NEW j \in DOMAIN r, r[i] = r[j]
         PROVE  i = j
    <3>1. i \in Nat /\ j \in Nat
      BY <2>9
    <3>2. CASE i <= n - 1 /\ j <= n - 1
      BY <2>9, <2>10, <3>2 DEF IsInjective
    <3>3. CASE i <= n - 1 /\ ~(j <= n - 1)
      <4>1. i = j + 1
        BY <2>9, <2>10, <3>3 DEF IsInjective
      <4> QED
        BY <2>4, <3>1, <3>3, <4>1
    <3>4. CASE ~(i <= n - 1) /\ j <= n - 1
      <4>1. i + 1 = j
        BY <2>9, <2>10, <3>4 DEF IsInjective
      <4> QED
        BY <2>4, <3>1, <3>4, <4>1
    <3>5. CASE ~(i <= n - 1) /\ ~(j <= n - 1)
      <4>1. i + 1 = j + 1
        BY <2>9, <2>10, <3>5 DEF IsInjective
      <4> QED
        BY <3>1, <4>1
    <3> QED
      BY <3>2, <3>3, <3>4, <3>5
  <2> QED
    BY <2>1, <2>10 DEF IsInjective, r
<1>2. CASE ~(\E k \in 1..Len(s) : s[k] = e)
  BY <1>2 DEF RemoveFirst
<1> QED
  BY <1>1, <1>2

\* The calls of one kind for the countries of a queue.
LEMMA ForEachIds ==
  ASSUME NEW s \in Seq(Leaves), NEW op, NEW ops
  PROVE  LET r == [k \in DOMAIN s |-> Task(op, s[k], 0)]
         IN  /\ op \notin ops => Nobody(r, ops)
             /\ Ids(r, ops) \subseteq Range(s)
             /\ IsInjective(s) => Once(r, ops)
<1> DEFINE r == [k \in DOMAIN s |-> Task(op, s[k], 0)]
<1>1. DOMAIN r = DOMAIN s /\ \A k \in DOMAIN s : r[k].op = op /\ r[k].id = s[k]
  BY DEF Task
<1> HIDE DEF r
<1>2. op \notin ops => Nobody(r, ops)
  BY <1>1 DEF Nobody
<1>3. Ids(r, ops) \subseteq Range(s)
  BY <1>1 DEF Ids, Range
<1>4. IsInjective(s) => Once(r, ops)
  BY <1>1 DEF Once, IsInjective
<1> QED
  BY <1>2, <1>3, <1>4 DEF r

\* One call, or two.
LEMMA ShortIds ==
  ASSUME NEW t \in FirstCall, NEW u \in FirstCall, NEW ops
  PROVE  /\ t.op \notin ops => Nobody(<<t>>, ops)
         /\ t.op \notin ops /\ u.op \notin ops => Nobody(<<t, u>>, ops)
<1> DEFINE a == <<t>>
           b == <<t, u>>
<1>1. DOMAIN a = {1} /\ a[1] = t
  <2>1. DOMAIN a = 1..1 /\ a[1] = t
    OBVIOUS
  <2> QED
    BY <2>1
<1>2. DOMAIN b = {1, 2} /\ b[1] = t /\ b[2] = u
  <2>1. DOMAIN b = 1..2 /\ b[1] = t /\ b[2] = u
    OBVIOUS
  <2> QED
    BY <2>1
<1> HIDE DEF a, b
<1>3. t.op \notin ops => Nobody(a, ops)
  BY <1>1 DEF Nobody
<1>4. t.op \notin ops /\ u.op \notin ops => Nobody(b, ops)
  BY <1>2 DEF Nobody
<1> QED
  BY <1>3, <1>4 DEF a, b

\* The calls that move the pending requests.
LEMMA EnqueueIds ==
  ASSUME NEW s \in Seq(Leaves)
  PROVE  /\ Nobody(Enqueue(s), AskOps) /\ IsOrdered(Enqueue(s))
         /\ Ids(Enqueue(s), {"enqueue"}) \subseteq Range(s)
         /\ IsInjective(s) => Once(Enqueue(s), {"enqueue"})
         /\ s = <<>> => Enqueue(s) = <<Do("clearPending")>>
<1> DEFINE r == [k \in DOMAIN s |-> Task("enqueue", s[k], 0)]
           u == Do("clearPending")
           w == <<u>>
<1>1. r \in Seq(FirstCall) /\ u \in FirstCall
  BY ForEach, TaskTypes DEF PlainOps
<1>2. Enqueue(s) = r \o w /\ u.op = "clearPending"
  BY Operations DEF Enqueue
<1>3. /\ Ids(r, {"enqueue"}) \subseteq Range(s) /\ Nobody(r, AskOps)
      /\ IsInjective(s) => Once(r, {"enqueue"})
  <2>1. Ids(r, {"enqueue"}) \subseteq Range(s) /\ (IsInjective(s) => Once(r, {"enqueue"}))
    BY ForEachIds
  <2>2. "enqueue" \notin AskOps => Nobody(r, AskOps)
    BY ForEachIds
  <2> QED
    BY <2>1, <2>2 DEF AskOps
<1>4. DOMAIN r = DOMAIN s /\ \A k \in DOMAIN r : r[k].op = "enqueue"
  BY DEF Task
<1>5. s = <<>> => Enqueue(s) = <<Do("clearPending")>>
  <2>1. ASSUME s = <<>>
        PROVE  r = <<>>
    <3>1. DOMAIN r = {}
      BY <1>4, <2>1
    <3>2. Len(r) \in Nat /\ DOMAIN r = 1..Len(r)
      BY <1>1, LenProperties
    <3>3. Len(r) = 0
      BY <3>1, <3>2
    <3> QED
      BY <1>1, <3>3, EmptySeq
  <2>2. w \in Seq(FirstCall)
    BY <1>1
  <2>3. <<>> \o w = w
    BY <2>2, ConcatEmptySeq
  <2> QED
    BY <1>2, <2>1, <2>3
<1> HIDE DEF r, u
<1>6. w \in Seq(FirstCall) /\ Len(w) = 1 /\ w[1] = u
  BY <1>1
<1> HIDE DEF w
<1>7. Nobody(w, AskOps) /\ Nobody(w, {"enqueue"}) /\ IsOrdered(w)
  <2>1. DOMAIN w = 1..1
    BY <1>6, LenProperties
  <2>2. \A k \in DOMAIN w : k = 1
    BY <2>1
  <2>3. u.op \notin AskOps /\ u.op \notin {"enqueue"}
    BY <1>2 DEF AskOps
  <2> QED
    BY <1>6, <2>2, <2>3 DEF Nobody, IsOrdered
<1>8. IsOrdered(r)
  BY <1>4 DEF IsOrdered, MoveOps
<1>9. Nobody(r \o w, AskOps)
  <2> DEFINE e == r \o w
  <2>1. /\ Len(r) \in Nat /\ DOMAIN r = 1..Len(r) /\ Len(w) \in Nat /\ DOMAIN w = 1..Len(w)
    BY <1>1, <1>6, LenProperties
  <2>2. /\ e \in Seq(FirstCall) /\ Len(e) = Len(r) + Len(w)
        /\ \A k \in 1..(Len(r) + Len(w)) : e[k] = IF k <= Len(r) THEN r[k] ELSE w[k - Len(r)]
    BY <1>1, <1>6, ConcatProperties
  <2> HIDE DEF e
  <2>3. DOMAIN e = 1..(Len(r) + Len(w))
    BY <2>2, LenProperties
  <2>4. \A k \in DOMAIN e : \/ k \in DOMAIN r /\ e[k] = r[k]
                            \/ k - Len(r) \in DOMAIN w /\ e[k] = w[k - Len(r)]
    BY <2>1, <2>2, <2>3
  <2>5. Nobody(e, AskOps)
    BY <1>3, <1>7, <2>4 DEF Nobody
  <2> QED
    BY <2>5 DEF e
<1>10. IsOrdered(r \o w)
  <2>1. \A k \in DOMAIN r : r[k].op \in MoveOps
    BY <1>4 DEF MoveOps
  <2> QED
    BY <1>1, <1>6, <1>7, <1>8, <2>1, OrderedCalls
<1>11. /\ Ids(r \o w, {"enqueue"}) \subseteq Ids(r, {"enqueue"})
       /\ Once(r, {"enqueue"}) => Once(r \o w, {"enqueue"})
  BY <1>1, <1>6, <1>7, JoinedIds
<1> QED
  BY <1>2, <1>3, <1>5, <1>9, <1>10, <1>11

\* The stack asks for nothing new, moves nothing new, and goes on moving if it did.
StackKept ==
  /\ StackOnce' /\ Asked' \subseteq Asked /\ Moved' \subseteq Moved
  /\ HasCall(calls', "clearPending") <=> HasCall(calls, "clearPending")

\* A stack that does not clear the pending requests moves none.
LEMMA NothingMoves ==
  ASSUME TypesInv, StackOnce, ~Idle
  PROVE  /\ Head(calls).op \notin MoveOps \cup {"clearPending"} => ~HasCall(calls, "clearPending")
         /\ ~HasCall(calls, "clearPending") => Nobody(calls, EndOps) /\ Nobody(Tail(calls), EndOps)
<1> DEFINE r == Tail(calls)
<1>1. calls \in Seq(FirstCall) /\ calls # <<>> /\ r \in Seq(FirstCall)
  BY ThisCall, TaskTypes
<1>2. IsOrdered(calls) /\ IsClosed(calls) /\ IsClosed(r)
  BY <1>1, TailCalls DEF StackOnce
<1>3. Head(calls).op \notin MoveOps => Nobody(r, EndOps)
  BY <1>1, <1>2, OrderedCalls
<1>4. HasCall(calls, "clearPending") /\ Head(calls).op # "clearPending" => HasCall(r, "clearPending")
  BY <1>1, TailCalls
<1>5. HasCall(r, "clearPending") => HasCall(calls, "clearPending")
  BY <1>1, TailCalls
<1> HIDE DEF r
<1>6. \A s : IsClosed(s) /\ ~HasCall(s, "clearPending") => Nobody(s, EndOps)
  BY DEF IsClosed, HasCall, Nobody, EndOps
<1>7. Nobody(r, EndOps) => ~HasCall(r, "clearPending")
  BY DEF Nobody, HasCall, EndOps
<1>8. Head(calls).op \notin MoveOps \cup {"clearPending"} => ~HasCall(calls, "clearPending")
  BY <1>3, <1>4, <1>7
<1>9. ~HasCall(calls, "clearPending") => Nobody(calls, EndOps) /\ Nobody(r, EndOps)
  BY <1>2, <1>5, <1>6
<1> QED
  BY <1>8, <1>9 DEF r

\* A call returns.
LEMMA ReturnKeeps ==
  ASSUME TypesInv, StackOnce, ~Idle, Return
  PROVE  /\ StackOnce' /\ Asked' \subseteq Asked
         /\ Head(calls).op # "clearPending" => StackKept
         /\ ~Calling(AnswerOps \cup {"register"})'
         /\ Head(calls).op \in AskOps => This \in Asked /\ This \notin Asked'
         /\ Head(calls).op = "enqueue" => This \in Moved /\ This \notin Moved'
<1> DEFINE r == Tail(calls)
<1>1. /\ calls \in Seq(FirstCall) /\ calls # <<>> /\ r \in Seq(FirstCall) /\ r \in Seq(LaterCall)
      /\ calls' = r
  BY ThisCall, TaskTypes DEF Return
<1>2. /\ Ids(r, AskOps) \subseteq Asked /\ Once(r, AskOps)
      /\ Head(calls).op \in AskOps => This \in Asked /\ This \notin Ids(r, AskOps)
  BY <1>1, TailIds DEF StackOnce, Asked, This
<1>3. /\ Ids(r, {"enqueue"}) \subseteq Moved /\ Once(r, {"enqueue"})
      /\ Head(calls).op = "enqueue" => This \in Moved /\ This \notin Ids(r, {"enqueue"})
  BY <1>1, TailIds DEF StackOnce, Moved, This
<1>4. IsClosed(r) /\ IsOrdered(r)
  BY <1>1, TailCalls, OrderedCalls DEF StackOnce
<1>5. /\ HasCall(r, "clearPending") => HasCall(calls, "clearPending")
      /\ Head(calls).op # "clearPending" /\ HasCall(calls, "clearPending") => HasCall(r, "clearPending")
  BY <1>1, TailCalls
<1>6. r # <<>> => Head(r) \in LaterCall
  BY <1>1
<1>7. \A t \in LaterCall : t.op \notin AnswerOps \cup {"register"}
  BY DEF LaterCall, LeafTask, PlainTask, AnswerOps
<1> HIDE DEF r
<1>8. ~Calling(AnswerOps \cup {"register"})'
  BY <1>1, <1>6, <1>7 DEF Calling, Idle
<1>9. Asked' = Ids(r, AskOps) /\ Moved' = Ids(r, {"enqueue"})
  BY <1>1 DEF Asked, Moved
<1>10. StackOnce'
  BY <1>1, <1>2, <1>3, <1>4 DEF StackOnce
<1> QED
  BY <1>1, <1>2, <1>3, <1>5, <1>8, <1>9, <1>10 DEF StackKept

\* A call calls others that ask for nothing.
LEMMA CallKeeps ==
  ASSUME TypesInv, StackOnce, ~Idle, Head(calls).op # "clearPending",
         NEW t \in Seq(FirstCall), Nobody(t, AskOps \cup EndOps), Call(t),
         ~HasCall(calls, "clearPending") \/ \A k \in DOMAIN t : t[k].op \in MoveOps
  PROVE  /\ StackKept
         /\ Head(calls).op \in AskOps => This \in Asked /\ This \notin Asked'
         /\ Head(calls).op = "enqueue" => This \in Moved /\ This \notin Moved'
<1> DEFINE r == Tail(calls)
<1>1. /\ calls \in Seq(FirstCall) /\ calls # <<>> /\ r \in Seq(FirstCall)
      /\ calls' = t \o r
  BY ThisCall, TaskTypes DEF Call
<1>2. /\ Ids(r, AskOps) \subseteq Asked /\ Once(r, AskOps)
      /\ Head(calls).op \in AskOps => This \in Asked /\ This \notin Ids(r, AskOps)
  BY <1>1, TailIds DEF StackOnce, Asked, This
<1>3. /\ Ids(r, {"enqueue"}) \subseteq Moved /\ Once(r, {"enqueue"})
      /\ Head(calls).op = "enqueue" => This \in Moved /\ This \notin Ids(r, {"enqueue"})
  BY <1>1, TailIds DEF StackOnce, Moved, This
<1>4. IsClosed(r) /\ IsOrdered(r)
  BY <1>1, TailCalls, OrderedCalls DEF StackOnce
<1>5. HasCall(r, "clearPending") <=> HasCall(calls, "clearPending")
  BY <1>1, TailCalls
<1>6. ~HasCall(calls, "clearPending") => Nobody(r, EndOps)
  BY NothingMoves
<1> HIDE DEF r
<1>7. /\ Nobody(t, AskOps) /\ Nobody(t, {"enqueue"}) /\ Nobody(t, EndOps)
      /\ IsClosed(t) /\ IsOrdered(t) /\ ~HasCall(t, "clearPending")
  BY DEF Nobody, IsClosed, IsOrdered, HasCall, EndOps
<1> DEFINE s == t \o r
<1>8. Ids(s, AskOps) \subseteq Ids(r, AskOps) /\ Once(s, AskOps)
  BY <1>1, <1>2, <1>7, JoinedIds
<1>9. Ids(s, {"enqueue"}) \subseteq Ids(r, {"enqueue"}) /\ Once(s, {"enqueue"})
  BY <1>1, <1>3, <1>7, JoinedIds
<1>10. IsClosed(s) /\ (HasCall(s, "clearPending") <=> HasCall(calls, "clearPending"))
  BY <1>1, <1>4, <1>5, <1>7, JoinedCalls
<1>11. IsOrdered(s)
  BY <1>1, <1>4, <1>6, <1>7, OrderedCalls
<1> HIDE DEF s
<1>12. calls' = s
  BY <1>1 DEF s
<1>13. Asked' = Ids(s, AskOps) /\ Moved' = Ids(s, {"enqueue"})
  BY <1>12 DEF Asked, Moved
<1>14. StackOnce'
  BY <1>8, <1>9, <1>10, <1>11, <1>12 DEF StackOnce
<1> QED
  BY <1>2, <1>3, <1>8, <1>9, <1>10, <1>12, <1>13, <1>14 DEF StackKept

\* The same for one call, and for two.
LEMMA ShortKeeps ==
  ASSUME TypesInv, StackOnce, ~Idle, Head(calls).op # "clearPending",
         NEW t \in FirstCall, NEW u \in LaterCall, Call(<<t>>) \/ Call(<<t, u>>),
         t.op \notin AskOps \cup EndOps,
         Call(<<t>>) \/ u.op \notin AskOps \cup EndOps,
         \/ ~HasCall(calls, "clearPending")
         \/ t.op \in MoveOps /\ (Call(<<t>>) \/ u.op \in MoveOps)
  PROVE  /\ StackKept /\ calls' # <<>> /\ Head(calls') = t
         /\ Head(calls).op \in AskOps => This \in Asked /\ This \notin Asked'
         /\ Head(calls).op = "enqueue" => This \in Moved /\ This \notin Moved'
<1>1. u \in FirstCall
  BY TaskTypes
<1>2. <<t>> \in Seq(FirstCall) /\ <<t, u>> \in Seq(FirstCall)
  BY <1>1, ShortCalls
<1>3. /\ Nobody(<<t>>, AskOps \cup EndOps)
      /\ u.op \notin AskOps \cup EndOps => Nobody(<<t, u>>, AskOps \cup EndOps)
  BY <1>1, ShortIds
<1>4. /\ t.op \in MoveOps => \A k \in DOMAIN <<t>> : <<t>>[k].op \in MoveOps
      /\ t.op \in MoveOps /\ u.op \in MoveOps =>
           \A k \in DOMAIN <<t, u>> : <<t, u>>[k].op \in MoveOps
  <2>1. DOMAIN <<t>> = 1..1 /\ DOMAIN <<t, u>> = 1..2
    OBVIOUS
  <2>2. 1..1 = {1} /\ 1..2 = {1, 2} /\ <<t>>[1] = t /\ <<t, u>>[1] = t /\ <<t, u>>[2] = u
    OBVIOUS
  <2> DEFINE a == <<t>>
             b == <<t, u>>
  <2>3. DOMAIN a = {1} /\ DOMAIN b = {1, 2} /\ a[1] = t /\ b[1] = t /\ b[2] = u
    BY <2>1, <2>2
  <2> HIDE DEF a, b
  <2>4. /\ t.op \in MoveOps => \A k \in DOMAIN a : a[k].op \in MoveOps
        /\ t.op \in MoveOps /\ u.op \in MoveOps => \A k \in DOMAIN b : b[k].op \in MoveOps
    BY <2>3
  <2> QED
    BY <2>4 DEF a, b
<1>5. CASE Call(<<t>>)
  <2> DEFINE a == <<t>>
  <2>1. a \in Seq(FirstCall) /\ Nobody(a, AskOps \cup EndOps) /\ Call(a)
        /\ (~HasCall(calls, "clearPending") \/ \A k \in DOMAIN a : a[k].op \in MoveOps)
    BY <1>2, <1>3, <1>4, <1>5
  <2>2. calls' # <<>> /\ Head(calls') = t
    BY <1>5, CallsOne
  <2> HIDE DEF a
  <2> QED
    BY <2>1, <2>2, CallKeeps
<1>6. CASE ~Call(<<t>>)
  <2> DEFINE a == <<t, u>>
  <2>1. a \in Seq(FirstCall) /\ Nobody(a, AskOps \cup EndOps) /\ Call(a)
        /\ (~HasCall(calls, "clearPending") \/ \A k \in DOMAIN a : a[k].op \in MoveOps)
    BY <1>2, <1>3, <1>4, <1>6
  <2>2. calls' # <<>> /\ Head(calls') = t
    BY <1>6, CallsTwo
  <2> HIDE DEF a
  <2> QED
    BY <2>1, <2>2, CallKeeps
<1> QED
  BY <1>5, <1>6

\* What the pipeline does not notice: countries leave the queue or the pending requests,
\* and none begins to be installed that is elsewhere.
PipeRest ==
  /\ StackKept /\ ~Doing("clearPending")
  /\ IsInjective(queue') /\ IsInjective(pending') /\ IsInjective(saved')
  /\ Range(queue') \subseteq Range(queue) /\ Range(pending') \subseteq Range(pending)
  /\ HasCall(calls, "clearPending") => pending' = pending
  /\ UNCHANGED <<gui, fileThread>>
  /\ Installing' \cap (Waiting \cup Checked) = {}

\* It does not.
LEMMA PipeKeep ==
  ASSUME TypesInv, TypesInv', PipeInv, PipeRest
  PROVE  PipeInv'
<1>1. QueuesOnce' /\ StackOnce'
  BY DEF PipeRest, QueuesOnce, StackKept
<1>2. Asked' \subseteq Asked /\ Moved' \subseteq Moved /\ Waiting' \subseteq Waiting
  BY DEF PipeRest, StackKept, Waiting
<1>3. Hashed' = Hashed /\ Answered' = Answered /\ Checked' = Checked
  BY DEF PipeRest, Hashed, Answered, Checked
<1>4. PlacesOnce'
  BY <1>2, <1>3 DEF PipeInv, PlacesOnce, PipeRest
<1>5. MoveInv'
  <2>1. CASE HasCall(calls, "clearPending")
    BY <1>2, <2>1 DEF PipeInv, MoveInv, PipeRest, StackKept
  <2>2. CASE ~HasCall(calls, "clearPending")
    <3>1. queue' # <<>> => queue # <<>>
      <4>1. Range(queue) = {} <=> queue = <<>>
        BY NoValues DEF TypesInv, TypeOK
      <4>2. queue' \in Seq(Leaves)
        BY DEF TypesInv, TypeOK
      <4>3. Range(queue') = {} <=> queue' = <<>>
        BY <4>2, NoValues
      <4> QED
        BY <4>1, <4>3 DEF PipeRest
    <3> QED
      BY <1>2, <2>2, <3>1 DEF PipeInv, MoveInv, PipeRest, StackKept
  <2> QED
    BY <2>1, <2>2
<1> QED
  BY <1>1, <1>4, <1>5 DEF PipeInv

\* The handlers that leave the queue, the pending requests and the settings alone, and
\* install nothing.
LEMMA RestingHandlers ==
  ASSUME TypesInv, PipeInv,
         \/ DownloadNothing \/ DownloadImpossible \/ GotServersForText
         \/ StartRequest \/ StartRequestWithoutFile \/ NextRequest
         \/ Rejected \/ RegisterMissingFile
         \/ FinishDownloading \/ Forgive \/ Stop
         \/ DeleteCountry \/ DeleteNothing \/ DeleteCustomCountryVersion
         \/ RegisterDownloadedFiles \/ CleanUp
  PROVE  PipeRest
<1>1. ~Idle /\ Head(calls).op # "clearPending"
  BY DEF DownloadNothing, DownloadImpossible, GotServersForText, StartRequest,
         StartRequestWithoutFile, NextRequest, Rejected,
         RegisterMissingFile, FinishDownloading, Forgive, Stop, RegisterDownloadedFiles, CleanUp,
         DeleteCountry, DeleteNothing, DeleteCustomCountryVersion, Wanted, Doing
<1>2. UNCHANGED <<queue, pending, gui, fileThread>> /\ saved' \in {saved, GetQueue}
  BY DEF DownloadNothing, DownloadImpossible, GotServersForText, StartRequest,
         StartRequestWithoutFile, NextRequest, Rejected,
         RegisterMissingFile, FinishDownloading, Forgive, Stop, RegisterDownloadedFiles, CleanUp,
         DeleteCountry, DeleteNothing, DeleteCustomCountryVersion, queueVars, threadVars
<1>3. IsInjective(queue') /\ IsInjective(pending') /\ IsInjective(saved')
  BY <1>2 DEF PipeInv, QueuesOnce, GetQueue
<1>4. StackKept /\ ~Calling(AnswerOps \cup {"register"})'
  <2>1. CASE Return
    BY <1>1, <2>1, ReturnKeeps DEF PipeInv
  <2>2. CASE NextRequest /\ Call(<<Do("request")>>)
    <3>1. Do("request") \in FirstCall /\ Do("next") \in LaterCall /\ Do("request").op = "request"
      BY TaskTypes, Operations DEF PlainOps
    <3>2. StackKept /\ calls' # <<>> /\ Head(calls') = Do("request")
      BY <1>1, <2>2, <3>1, ShortKeeps DEF PipeInv, AskOps, EndOps, MoveOps
    <3> QED
      BY <3>1, <3>2 DEF Calling, AnswerOps
  <2>3. CASE Rejected
    <3>1. Do("finish") \in FirstCall /\ Do("finish") \in LaterCall /\ Do("finish").op = "finish"
      BY TaskTypes, Operations DEF PlainOps
    <3>2. StackKept /\ calls' # <<>> /\ Head(calls') = Do("finish")
      BY <1>1, <2>3, <3>1, ShortKeeps DEF Rejected, PipeInv, AskOps, EndOps, MoveOps
    <3> QED
      BY <3>1, <3>2 DEF Calling, AnswerOps
  <2>4. CASE DeleteCountry
    <3> DEFINE t == Task("remove", This, 0)
               u == Task("stop", This, 0)
    <3>1. This \in Leaves
      BY <1>1, <2>4, ThisCall DEF DeleteCountry, Doing, LeafOps
    <3>2. t \in FirstCall /\ u \in LaterCall /\ t.op = "remove" /\ u.op = "stop"
      BY <3>1, TaskTypes, Operations
    <3>3. ~HasCall(calls, "clearPending")
      BY <1>1, <2>4, NothingMoves DEF DeleteCountry, Doing, PipeInv, MoveOps
    <3>4. Call(<<t, u>>)
      BY <2>4 DEF DeleteCountry
    <3> HIDE DEF t, u
    <3>5. StackKept /\ calls' # <<>> /\ Head(calls') = t
      BY <1>1, <3>2, <3>3, <3>4, ShortKeeps DEF PipeInv, AskOps, EndOps
    <3> QED
      BY <3>2, <3>5 DEF Calling, AnswerOps
  <2> QED
    BY <2>1, <2>2, <2>3, <2>4
       DEF DownloadNothing, DownloadImpossible, GotServersForText, StartRequest,
         StartRequestWithoutFile, NextRequest,
         RegisterMissingFile, FinishDownloading, Forgive, Stop, RegisterDownloadedFiles, CleanUp,
         DeleteNothing, DeleteCustomCountryVersion
<1>5. Installing' = {}
  BY <1>4 DEF Installing
<1> QED
  BY <1>1, <1>2, <1>3, <1>4, <1>5 DEF PipeRest, Doing

\* A check goes on or ends, and the pending requests may start: nothing moves meanwhile.
LEMMA CheckRests ==
  ASSUME TypesInv, PipeInv,
         ApplyPendingCountries \/ ApplyCountriesInMemory \/ ApplyOrDefer
  PROVE  PipeRest
<1>1. ~Idle /\ Head(calls).op # "clearPending"
  BY DEF ApplyPendingCountries, ApplyCountriesInMemory, ApplyOrDefer, Doing
<1>2. UNCHANGED <<queue, pending, saved, gui, fileThread>>
  BY DEF ApplyPendingCountries, ApplyCountriesInMemory, ApplyOrDefer, queueVars, threadVars
<1>3. ~HasCall(calls, "clearPending")
  <2>1. CASE ApplyPendingCountries
    BY <1>1, <2>1 DEF ApplyPendingCountries, GetQueue, PipeInv, MoveInv, Doing
  <2>2. CASE ApplyCountriesInMemory \/ ApplyOrDefer
    BY <1>1, <2>2, NothingMoves DEF ApplyCountriesInMemory, ApplyOrDefer, Doing, PipeInv, MoveOps
  <2> QED
    BY <2>1, <2>2
<1>4. Do("startPending") \in FirstCall /\ Do("startPending").op = "startPending"
  BY TaskTypes, Operations DEF PlainOps
<1>5. ASSUME NEW t \in FirstCall, t.op \in {"startPending", "apply"}, Call(<<t>>)
      PROVE  StackKept /\ ~Calling(AnswerOps \cup {"register"})'
  <2>1. Do("next") \in LaterCall
    BY TaskTypes
  <2>2. StackKept /\ calls' # <<>> /\ Head(calls') = t
    BY <1>1, <1>3, <1>5, <2>1, ShortKeeps DEF PipeInv, AskOps, EndOps
  <2> QED
    BY <1>5, <2>2 DEF Calling, AnswerOps
<1>6. CASE Return
  BY <1>1, <1>2, <1>6, ReturnKeeps DEF PipeInv, PipeRest, QueuesOnce, Installing, Doing
<1>7. StackKept /\ ~Calling(AnswerOps \cup {"register"})'
  <2>1. ASSUME NEW v \in Versions
        PROVE  Task("apply", NoCountry, v) \in FirstCall /\ Task("apply", NoCountry, v).op = "apply"
    BY TaskTypes, Operations
  <2>2. CASE ApplyPendingCountries
    <3>1. deferred > version => deferred \in Versions
      BY <2>2, VersionAssumption DEF ApplyPendingCountries, TypesInv, TypeOK, Versions
    <3> QED
      BY <1>4, <1>5, <2>1, <2>2, <3>1 DEF ApplyPendingCountries
  <2>3. CASE ApplyOrDefer
    <3>1. Arg \in Versions
      BY <1>1, <2>3, ThisCall, Operations DEF ApplyOrDefer, Doing
    <3>2. CASE Return
      BY <1>1, <3>2, ReturnKeeps DEF PipeInv
    <3> QED
      BY <1>4, <1>5, <2>1, <2>3, <3>1, <3>2 DEF ApplyOrDefer
  <2> QED
    BY <1>4, <1>5, <2>2, <2>3 DEF ApplyCountriesInMemory
<1> QED
  BY <1>1, <1>2, <1>7 DEF PipeInv, PipeRest, QueuesOnce, Installing, Doing

\* The top of the queue may not be downloaded, or a country is taken out of it.
LEMMA LeavingRests ==
  ASSUME TypesInv, PipeInv, RequestForbidden \/ RemoveFromQueue
  PROVE  PipeRest
<1>1. queue \in Seq(Leaves) /\ pending \in Seq(Leaves)
  BY DEF TypesInv, TypeOK
<1>2. CASE RequestForbidden
  <2>1. ~Idle /\ Head(calls).op = "request" /\ Call(<<Do("finish"), Do("next")>>)
    BY <1>2 DEF RequestForbidden, Doing
  <2>2. queue # <<>> /\ queue' = Tail(queue) /\ UNCHANGED <<pending, saved, gui, fileThread>>
    BY <1>2 DEF RequestForbidden, TypesInv, threadVars
  <2>3. IsInjective(queue') /\ Range(queue') \subseteq Range(queue)
    BY <1>1, <2>2, OnceValues, FewerValues DEF PipeInv, QueuesOnce
  <2>4. /\ Do("finish") \in FirstCall /\ Do("finish").op = "finish"
        /\ Do("next") \in LaterCall /\ Do("next").op = "next"
    BY TaskTypes, Operations DEF PlainOps
  <2>5. StackKept /\ calls' # <<>> /\ Head(calls') = Do("finish")
    BY <2>1, <2>4, ShortKeeps DEF PipeInv, AskOps, EndOps, MoveOps
  <2>6. Installing' = {}
    BY <2>4, <2>5 DEF Installing, Calling, AnswerOps
  <2> QED
    BY <2>1, <2>2, <2>3, <2>5, <2>6 DEF PipeInv, PipeRest, QueuesOnce, Doing
<1>3. CASE RemoveFromQueue
  <2>1. ~Idle /\ Head(calls).op = "remove"
    BY <1>3 DEF RemoveFromQueue, Doing
  <2>2. /\ queue' = RemoveFirst(queue, This) /\ pending' = RemoveFirst(pending, This)
        /\ UNCHANGED <<saved, gui, fileThread>>
    BY <1>3 DEF RemoveFromQueue, threadVars
  <2>3. /\ IsInjective(queue') /\ Range(queue') \subseteq Range(queue)
        /\ IsInjective(pending') /\ Range(pending') \subseteq Range(pending)
    BY <1>1, <2>2, OnceRemoved, RemovedValues DEF PipeInv, QueuesOnce
  <2>4. ~HasCall(calls, "clearPending")
    BY <2>1, NothingMoves DEF PipeInv, MoveOps
  <2> DEFINE c == Task("cleanup", This, 0)
  <2>5. c \in FirstCall /\ c \in LaterCall /\ c.op = "cleanup"
    BY <2>1, ThisCall, TaskTypes, Operations DEF LeafOps
  <2>6. Do("request") \in FirstCall /\ Do("request").op = "request"
    BY TaskTypes, Operations DEF PlainOps
  <2>7. Call(<<Do("request"), c>>) \/ Call(<<c>>)
    <3>1. Call(<<Do("request")>> \o <<c>>) \/ Call(<<>> \o <<c>>)
      BY <1>3 DEF RemoveFromQueue
    <3>2. <<Do("request")>> \o <<c>> = <<Do("request"), c>> /\ <<>> \o <<c>> = <<c>>
      BY PairInParts
    <3> QED
      BY <3>1, <3>2
  <2> HIDE DEF c
  <2>8. StackKept /\ calls' # <<>> /\ Head(calls') \in {Do("request"), c}
    <3>1. CASE Call(<<Do("request"), c>>)
      BY <2>1, <2>4, <2>5, <2>6, <3>1, ShortKeeps DEF PipeInv, AskOps, EndOps
    <3>2. CASE Call(<<c>>)
      BY <2>1, <2>4, <2>5, <3>2, ShortKeeps DEF PipeInv, AskOps, EndOps
    <3> QED
      BY <2>7, <3>1, <3>2
  <2>9. Installing' = {}
    BY <2>5, <2>6, <2>8 DEF Installing, Calling, AnswerOps
  <2> QED
    BY <2>1, <2>2, <2>3, <2>4, <2>8, <2>9 DEF PipeInv, PipeRest, QueuesOnce, Doing
<1> QED
  BY <1>2, <1>3

\* What a sequence contains is one of its values.
LEMMA ContainsValue ==
  ASSUME NEW S, NEW s \in Seq(S), NEW e
  PROVE  Contains(s, e) <=> e \in Range(s)
BY LenProperties DEF Contains, Range

\* A country that is asked for and wanted is nowhere in the pipeline.
LEMMA WantedIsNew ==
  ASSUME TypesInv, PipeInv, Wanted
  PROVE  /\ ~Idle /\ Head(calls).op \in AskOps /\ This \in Leaves
         /\ This \in Asked /\ This \notin Waiting \cup Checked
         /\ ~HasCall(calls, "clearPending")
<1>1. ~Idle /\ Head(calls).op \in AskOps
  BY DEF Wanted, Doing, AskOps
<1>2. calls \in Seq(FirstCall) /\ calls # <<>> /\ This \in Leaves
  BY <1>1, ThisCall DEF AskOps, LeafOps
<1>3. This \in Asked
  BY <1>1, <1>2, TailIds DEF Asked, This
<1>4. ~HasCall(calls, "clearPending")
  BY <1>1, NothingMoves DEF PipeInv, AskOps, MoveOps
<1>5. This \notin Waiting
  <2>1. queue \in Seq(Leaves) /\ pending \in Seq(Leaves)
    BY DEF TypesInv, TypeOK
  <2>2. This \notin Range(GetQueue)
    <3>1. ~Contains(GetQueue, This)
      BY DEF Wanted, IsCountryInQueue
    <3> QED
      BY <2>1, <3>1, ContainsValue DEF GetQueue
  <2>3. CASE queue = <<>>
    BY <2>1, <2>2, <2>3, NoValues DEF GetQueue, Waiting
  <2>4. CASE queue # <<>>
    BY <1>3, <1>4, <2>2, <2>4 DEF GetQueue, Waiting, PipeInv, MoveInv
  <2> QED
    BY <2>3, <2>4
<1> QED
  BY <1>1, <1>2, <1>3, <1>4, <1>5 DEF PipeInv, PlacesOnce

\* A file that is there is installed at once, a verified one next.
LEMMA InstallRests ==
  ASSUME TypesInv, PipeInv, DownloadFound \/ Verified
  PROVE  PipeRest
<1> DEFINE t == Task("register", This, 0)
           u == Do("finish")
<1>1. UNCHANGED <<queue, pending, saved, gui, fileThread>>
  BY DEF DownloadFound, Verified, queueVars, threadVars
<1>2. ~Idle /\ Head(calls).op \notin MoveOps \cup {"clearPending"} /\ This \in Leaves
  <2>1. ~Idle /\ Head(calls).op \in {"download", "retry", "verified"}
    BY DEF DownloadFound, Verified, Wanted, Doing
  <2> QED
    BY <2>1, ThisCall DEF MoveOps, LeafOps
<1>3. This \notin Waiting \cup Checked
  <2>1. CASE DownloadFound
    BY <2>1, WantedIsNew DEF DownloadFound
  <2>2. CASE Verified
    BY <2>2 DEF Verified, Doing, PipeInv, PlacesOnce, Installing, Calling, AnswerOps
  <2> QED
    BY <2>1, <2>2
<1>4. ~HasCall(calls, "clearPending")
  BY <1>2, NothingMoves DEF PipeInv
<1>5. t \in FirstCall /\ t.op = "register" /\ t.id = This /\ u \in LaterCall /\ u.op = "finish"
  BY <1>2, TaskTypes, Operations DEF LeafOps
<1>6. Call(<<t>>) \/ Call(<<t, u>>)
  BY DEF DownloadFound, Verified
<1>7. Head(calls).op # "clearPending"
  BY <1>2
<1>8. t.op \notin AskOps \cup EndOps /\ u.op \notin AskOps \cup EndOps
  BY <1>5 DEF AskOps, EndOps
<1> HIDE DEF t, u
<1>9. StackKept /\ calls' # <<>> /\ Head(calls') = t
  BY <1>2, <1>4, <1>5, <1>6, <1>7, <1>8, ShortKeeps DEF PipeInv
<1>10. Installing' \cap (Waiting \cup Checked) = {}
  <2>1. This' = Head(calls').id
    BY DEF This
  <2>2. Installing' \subseteq {This'}
    BY DEF Installing
  <2> QED
    BY <1>3, <1>5, <1>9, <2>1, <2>2
<1> QED
  BY <1>1, <1>4, <1>7, <1>9, <1>10 DEF PipeInv, PipeRest, QueuesOnce, Doing

\* A country that is wanted joins the pending requests.
LEMMA PipeQueued ==
  ASSUME TypesInv, PipeInv, DownloadQueued
  PROVE  PipeInv'
<1>1. /\ ~Idle /\ Head(calls).op \in AskOps /\ This \in Leaves
      /\ This \in Asked /\ This \notin Waiting \cup Checked
      /\ ~HasCall(calls, "clearPending")
  BY WantedIsNew DEF DownloadQueued
<1>2. /\ pending' = Append(pending, This) /\ UNCHANGED <<queue, gui, fileThread>>
      /\ saved' = IF queue = <<>> THEN pending' ELSE queue
  BY DEF DownloadQueued, threadVars
<1>3. queue \in Seq(Leaves) /\ pending \in Seq(Leaves)
  BY DEF TypesInv, TypeOK
<1>4. Range(pending') = Range(pending) \cup {This} /\ IsInjective(pending')
  BY <1>1, <1>2, <1>3, MoreValues, OnceValues DEF PipeInv, QueuesOnce, Waiting
<1>5. QueuesOnce'
  BY <1>2, <1>4 DEF PipeInv, QueuesOnce
<1>6. StackKept /\ This \notin Asked' /\ ~Calling(AnswerOps \cup {"register"})'
  <2>1. CASE Return
    BY <1>1, <2>1, ReturnKeeps DEF PipeInv, AskOps
  <2>2. CASE Call(<<Do("startPending")>>)
    <3> DEFINE t == Do("startPending")
               u == Do("next")
    <3>1. t \in FirstCall /\ t.op = "startPending" /\ u \in LaterCall
      BY TaskTypes, Operations DEF PlainOps
    <3>2. t.op \notin AskOps \cup EndOps /\ Head(calls).op # "clearPending" /\ Call(<<t>>)
      BY <1>1, <2>2, <3>1 DEF AskOps, EndOps
    <3> HIDE DEF t, u
    <3>3. StackKept /\ calls' # <<>> /\ Head(calls') = t /\ This \notin Asked'
      BY <1>1, <3>1, <3>2, ShortKeeps DEF PipeInv
    <3> QED
      BY <3>1, <3>3 DEF Calling, AnswerOps
  <2> QED
    BY <2>1, <2>2 DEF DownloadQueued
<1>7. StackOnce' /\ Asked' \subseteq Asked /\ ~HasCall(calls', "clearPending")
  BY <1>1, <1>6 DEF StackKept
<1>8. MoveInv'
  <2>1. Range(queue') \cap Range(pending') = {}
    BY <1>1, <1>2, <1>4 DEF PipeInv, MoveInv, Waiting
  <2>2. queue' # <<>> => Asked' \cap Range(pending') = {}
    BY <1>1, <1>2, <1>4, <1>6, <1>7 DEF PipeInv, MoveInv
  <2> QED
    BY <1>7, <2>1, <2>2 DEF MoveInv
<1>9. PlacesOnce'
  <2>1. Waiting' = Waiting \cup {This}
    BY <1>2, <1>4 DEF Waiting
  <2>2. Hashed' = Hashed /\ Answered' = Answered /\ Checked' = Checked /\ Installing' = {}
    BY <1>2, <1>6 DEF Hashed, Answered, Checked, Installing
  <2> QED
    BY <1>1, <1>2, <1>7, <2>1, <2>2 DEF PipeInv, PlacesOnce
<1> QED
  BY <1>5, <1>7, <1>8, <1>9 DEF PipeInv

\* The pending requests begin to be moved, or stay.
LEMMA PipePending ==
  ASSUME TypesInv, TypesInv', PipeInv, StartPending \/ GotServersForMaps
  PROVE  PipeInv'
<1>1. ~Idle /\ Head(calls).op \in {"startPending", "downloadPending"}
  BY DEF StartPending, GotServersForMaps, Doing
<1>2. UNCHANGED <<queue, pending, saved, gui, fileThread>>
  BY DEF StartPending, GotServersForMaps, AskMetaServer, queueVars, threadVars
<1>3. ~HasCall(calls, "clearPending") /\ Nobody(Tail(calls), EndOps)
  BY <1>1, NothingMoves DEF PipeInv, MoveOps
<1>4. CASE Return
  <2>1. StackKept /\ ~Calling(AnswerOps \cup {"register"})'
    BY <1>1, <1>4, ReturnKeeps DEF PipeInv
  <2>2. PipeRest
    BY <1>1, <1>2, <2>1 DEF PipeInv, PipeRest, QueuesOnce, Installing, Doing
  <2> QED
    BY <2>2, PipeKeep
<1>5. CASE Call(Enqueue(pending))
  <2> DEFINE e == Enqueue(pending)
             r == Tail(calls)
             s == e \o r
  <2>1. /\ calls \in Seq(FirstCall) /\ calls # <<>>
        /\ r \in Seq(LaterCall) /\ r \in Seq(FirstCall) /\ pending \in Seq(Leaves)
    <3>1. pending \in Seq(Leaves)
      BY DEF TypesInv, TypeOK
    <3> QED
      BY <1>1, <3>1, ThisCall, TaskTypes
  <2>2. e \in Seq(LaterCall) /\ e \in Seq(FirstCall)
    BY <2>1, EnqueueType, TaskTypes
  <2>3. /\ Nobody(e, AskOps) /\ IsOrdered(e) /\ IsClosed(e) /\ HasCall(e, "clearPending")
        /\ Ids(e, {"enqueue"}) \subseteq Range(pending) /\ Once(e, {"enqueue"})
    BY <2>1, EnqueueIds, EnqueueCalls DEF PipeInv, QueuesOnce
  <2>4. /\ Ids(r, AskOps) \subseteq Asked /\ Once(r, AskOps)
        /\ IsClosed(r) /\ IsOrdered(r) /\ Nobody(r, EndOps) /\ Nobody(r, {"enqueue"})
    <3>1. Ids(r, AskOps) \subseteq Asked /\ Once(r, AskOps)
      BY <2>1, TailIds DEF PipeInv, StackOnce, Asked
    <3>2. IsClosed(r) /\ IsOrdered(r)
      BY <2>1, TailCalls, OrderedCalls DEF PipeInv, StackOnce
    <3>3. Nobody(r, EndOps)
      BY <1>3
    <3> HIDE DEF r
    <3> QED
      BY <3>1, <3>2, <3>3 DEF Nobody, EndOps
  <2>5. calls' = s
    BY <1>5 DEF Call
  <2>6. pending = <<>> => Doing("clearPending")'
    <3>1. Do("clearPending") \in FirstCall /\ Do("clearPending").op = "clearPending"
      BY TaskTypes, Operations DEF PlainOps
    <3>2. pending = <<>> => Call(<<Do("clearPending")>>)
      BY <1>5, <2>1, EnqueueIds
    <3> QED
      BY <1>1, <3>1, <3>2, CallsOne DEF Doing, Idle
  <2> HIDE DEF e, r
  <2>7. Ids(s, AskOps) \subseteq Ids(r, AskOps) /\ Once(s, AskOps)
    BY <2>1, <2>2, <2>3, <2>4, JoinedIds
  <2>8. Ids(s, {"enqueue"}) \subseteq Ids(e, {"enqueue"}) /\ Once(s, {"enqueue"})
    BY <2>1, <2>2, <2>3, <2>4, JoinedIds
  <2>9. IsClosed(s) /\ HasCall(s, "clearPending")
    BY <2>1, <2>2, <2>3, <2>4, JoinedCalls
  <2>10. IsOrdered(s)
    BY <2>1, <2>2, <2>3, <2>4, OrderedCalls
  <2>11. s \in Seq(LaterCall)
    BY <2>1, <2>2, ConcatProperties
  <2> HIDE DEF s
  <2>12. ~Calling(AnswerOps \cup {"register"})'
    <3>1. s # <<>> => Head(s) \in LaterCall
      BY <2>11
    <3>2. \A t \in LaterCall : t.op \notin AnswerOps \cup {"register"}
      BY DEF LaterCall, LeafTask, PlainTask, AnswerOps
    <3> QED
      BY <2>5, <3>1, <3>2 DEF Calling, Idle
  <2>13. Asked' \subseteq Asked /\ Moved' \subseteq Range(pending)
    BY <2>3, <2>4, <2>5, <2>7, <2>8 DEF Asked, Moved
  <2>14. StackOnce'
    BY <2>5, <2>7, <2>8, <2>9, <2>10 DEF StackOnce
  <2>15. MoveInv'
    BY <1>2, <1>3, <2>5, <2>6, <2>9, <2>13 DEF PipeInv, MoveInv
  <2>16. PlacesOnce'
    <3>1. Waiting' = Waiting /\ Checked' = Checked /\ Hashed' = Hashed /\ Answered' = Answered
          /\ Installing' = {}
      BY <1>2, <2>12 DEF Waiting, Checked, Hashed, Answered, Installing
    <3> QED
      BY <1>2, <2>13, <3>1 DEF PipeInv, PlacesOnce
  <2>17. QueuesOnce'
    BY <1>2 DEF PipeInv, QueuesOnce
  <2> QED
    BY <2>14, <2>15, <2>16, <2>17 DEF PipeInv
<1> QED
  BY <1>4, <1>5 DEF StartPending, GotServersForMaps

\* A pending request joins the queue.
LEMMA PipeEnqueue ==
  ASSUME TypesInv, PipeInv, EnqueueCountry
  PROVE  PipeInv' /\ StackKept /\ This \in Moved /\ HasCall(calls, "clearPending")
<1>1. ~Idle /\ Head(calls).op = "enqueue"
  BY DEF EnqueueCountry, Doing
<1>2. calls \in Seq(FirstCall) /\ calls # <<>> /\ This \in Leaves
  BY <1>1, ThisCall DEF LeafOps
<1>3. HasCall(calls, "clearPending")
  BY <1>1, <1>2, TailCalls DEF PipeInv, StackOnce
<1>4. /\ queue' = Append(queue, This) /\ saved' = queue'
      /\ UNCHANGED <<pending, gui, fileThread>>
  BY DEF EnqueueCountry, threadVars
<1>5. StackKept /\ This \in Moved /\ This \notin Moved' /\ ~Calling(AnswerOps \cup {"register"})'
  <2>1. CASE Return
    BY <1>1, <2>1, ReturnKeeps DEF PipeInv
  <2>2. CASE Call(<<Do("request")>>)
    <3> DEFINE t == Do("request")
               u == Do("next")
    <3>1. t \in FirstCall /\ t.op = "request" /\ u \in LaterCall
      BY TaskTypes, Operations DEF PlainOps
    <3>2. t.op \notin AskOps \cup EndOps /\ t.op \in MoveOps /\ Call(<<t>>)
      BY <2>2, <3>1 DEF AskOps, EndOps, MoveOps
    <3> HIDE DEF t, u
    <3>3. StackKept /\ calls' # <<>> /\ Head(calls') = t /\ This \in Moved /\ This \notin Moved'
      BY <1>1, <3>1, <3>2, ShortKeeps DEF PipeInv
    <3> QED
      BY <3>1, <3>3 DEF Calling, AnswerOps
  <2> QED
    BY <2>1, <2>2 DEF EnqueueCountry
<1>6. queue \in Seq(Leaves) /\ pending \in Seq(Leaves)
  BY DEF TypesInv, TypeOK
<1>7. This \in Range(pending) /\ This \notin Range(queue) /\ pending # <<>>
  <2>1. This \in Range(pending) /\ This \notin Range(queue)
    BY <1>3, <1>5 DEF PipeInv, MoveInv
  <2> QED
    BY <1>6, <2>1, NoValues
<1>8. Range(queue') = Range(queue) \cup {This} /\ IsInjective(queue')
  BY <1>2, <1>4, <1>6, <1>7, MoreValues, OnceValues DEF PipeInv, QueuesOnce
<1>9. QueuesOnce'
  BY <1>4, <1>8 DEF PipeInv, QueuesOnce
<1>10. MoveInv'
  BY <1>3, <1>4, <1>5, <1>7, <1>8 DEF PipeInv, MoveInv, StackKept
<1>11. PlacesOnce'
  <2>1. Waiting' = Waiting
    BY <1>4, <1>7, <1>8 DEF Waiting
  <2>2. Hashed' = Hashed /\ Answered' = Answered /\ Checked' = Checked /\ Installing' = {}
    BY <1>4, <1>5 DEF Hashed, Answered, Checked, Installing
  <2> QED
    BY <1>4, <1>5, <2>1, <2>2 DEF PipeInv, PlacesOnce, StackKept
<1> QED
  BY <1>3, <1>5, <1>9, <1>10, <1>11 DEF PipeInv, StackKept

\* All pending requests have joined the queue.
LEMMA PipeClear ==
  ASSUME TypesInv, PipeInv, ClearPending
  PROVE  PipeInv'
<1>1. ~Idle /\ Head(calls).op = "clearPending" /\ Return
  BY DEF ClearPending, Doing
<1>2. calls \in Seq(FirstCall) /\ calls # <<>> /\ calls' = Tail(calls)
  BY <1>1, ThisCall DEF Return
<1>3. /\ StackOnce' /\ Asked' \subseteq Asked /\ ~Calling(AnswerOps \cup {"register"})'
  BY <1>1, ReturnKeeps DEF PipeInv
<1>4. ~HasCall(calls', "clearPending")
  <2>1. Nobody(Tail(calls), EndOps)
    BY <1>1, <1>2, OrderedCalls DEF PipeInv, StackOnce, MoveOps
  <2> QED
    BY <1>2, <2>1 DEF Nobody, HasCall, EndOps
<1>5. /\ pending' = <<>> /\ Range(pending') = {} /\ IsInjective(pending')
      /\ UNCHANGED <<queue, saved, gui, fileThread>>
  BY DEF ClearPending, threadVars, Range, IsInjective
<1>6. QueuesOnce' /\ MoveInv'
  BY <1>4, <1>5 DEF PipeInv, QueuesOnce, MoveInv
<1>7. PlacesOnce'
  <2>1. Waiting' \subseteq Waiting /\ Hashed' = Hashed /\ Answered' = Answered
        /\ Checked' = Checked /\ Installing' = {}
    BY <1>3, <1>5 DEF Waiting, Hashed, Answered, Checked, Installing
  <2> QED
    BY <1>3, <1>5, <2>1 DEF PipeInv, PlacesOnce
<1> QED
  BY <1>3, <1>6, <1>7 DEF PipeInv

\* Every handler keeps the countries apart.
LEMMA PipeHandlers ==
  ASSUME TypesInv, TypesInv', PipeInv, Handlers
  PROVE  PipeInv'
<1>1. CASE DownloadQueued
  BY <1>1, PipeQueued
<1>2. CASE StartPending \/ GotServersForMaps
  BY <1>2, PipePending
<1>3. CASE EnqueueCountry
  BY <1>3, PipeEnqueue
<1>4. CASE ClearPending
  BY <1>4, PipeClear
<1>5. CASE PipeRest
  BY <1>5, PipeKeep
<1>6. CASE DownloadFound \/ Verified
  BY <1>5, <1>6, InstallRests
<1>7. CASE RequestForbidden \/ RemoveFromQueue
  BY <1>5, <1>7, LeavingRests
<1>8. CASE ApplyPendingCountries \/ ApplyCountriesInMemory \/ ApplyOrDefer
  BY <1>5, <1>8, CheckRests
<1> QED
  BY <1>1, <1>2, <1>3, <1>4, <1>5, <1>6, <1>7, <1>8, RestingHandlers DEF Handlers

\* The other threads, and the events that call nothing, move a country on, or none.
LEMMA PipeThreads ==
  ASSUME PipeInv, UNCHANGED <<queue, pending, saved, calls>>,
         Once(fileThread', {"sha"}), Once(gui', AnswerOps), Hashed' \cap Answered' = {},
         Checked' \subseteq Checked
  PROVE  PipeInv'
<1>1. QueuesOnce' /\ StackOnce' /\ MoveInv'
  BY DEF PipeInv, QueuesOnce, StackOnce, MoveInv, Moved, Asked, Doing, Idle
<1>2. Waiting' = Waiting /\ Asked' = Asked /\ Installing' = Installing
  BY DEF Waiting, Asked, Installing, Calling, Idle, This
<1>3. PlacesOnce'
  BY <1>2 DEF PipeInv, PlacesOnce
<1> QED
  BY <1>1, <1>3 DEF PipeInv

\* They post other tasks.
LEMMA PipePosts ==
  ASSUME TypesInv, ChecksInv, PipeInv, UNCHANGED <<queue, pending, saved, calls>>,
         gui' = gui \/ \E t \in GuiTask : t.op \notin AnswerOps /\ gui' = Append(gui, t),
         \/ fileThread' = fileThread
         \/ \E t \in ThreadTask : t.op \notin {"sha"} /\ fileThread' = Append(fileThread, t)
  PROVE  PipeInv' /\ Checked' \subseteq Checked
<1>1. gui \in Seq(GuiTask) /\ fileThread \in Seq(ThreadTask)
  BY DEF TypesInv
<1>2. Answered' = Answered /\ Once(gui', AnswerOps)
  <2>1. CASE gui' = gui
    BY <2>1 DEF Answered, PipeInv, PlacesOnce
  <2>2. ASSUME NEW t \in GuiTask, t.op \notin AnswerOps, gui' = Append(gui, t)
        PROVE  Ids(gui', AnswerOps) = Ids(gui, AnswerOps) /\ Once(gui', AnswerOps)
    BY <1>1, <2>2, AddedIds DEF PipeInv, PlacesOnce
  <2> QED
    BY <2>1, <2>2 DEF Answered
<1>3. Hashed' = Hashed /\ Once(fileThread', {"sha"})
  <2>1. CASE fileThread' = fileThread
    BY <2>1 DEF Hashed, PipeInv, PlacesOnce
  <2>2. ASSUME NEW t \in ThreadTask, t.op \notin {"sha"}, fileThread' = Append(fileThread, t)
        PROVE  Ids(fileThread', {"sha"}) = Ids(fileThread, {"sha"}) /\ Once(fileThread', {"sha"})
    BY <1>1, <2>2, AddedIds DEF PipeInv, PlacesOnce
  <2> QED
    BY <2>1, <2>2 DEF Hashed
<1> QED
  BY <1>2, <1>3, PipeThreads DEF PipeInv, PlacesOnce, Checked

\* A checksum is known: its country moves from the File thread to the GUI thread.
LEMMA PipeSha ==
  ASSUME TypesInv, PipeInv, CheckSha
  PROVE  PipeInv' /\ Checked' \subseteq Checked
<1> DEFINE t == Head(fileThread)
<1>1. /\ fileThread # <<>> /\ t.op = "sha" /\ fileThread' = Tail(fileThread)
      /\ UNCHANGED <<queue, pending, saved, calls>>
  BY DEF CheckSha, queueVars
<1>2. gui \in Seq(GuiTask) /\ fileThread \in Seq(ThreadTask)
  BY DEF TypesInv
<1>3. t.id \in Leaves
  BY <1>1, <1>2, TakeType, TaskFields
<1>4. PICK u \in GuiTask : u.id = t.id /\ gui' = Append(gui, u)
  <2>1. \A op \in {"verified", "rejected"} :
          Task(op, t.id, 0) \in GuiTask /\ Task(op, t.id, 0).id = t.id
    BY <1>3, TaskTypes, Operations
  <2>2. \E op \in {"verified", "rejected"} : gui' = Append(gui, Task(op, t.id, 0))
    BY DEF CheckSha
  <2> QED
    BY <2>1, <2>2
<1>5. /\ Hashed' \subseteq Hashed /\ t.id \in Hashed /\ t.id \notin Hashed'
      /\ Once(fileThread', {"sha"})
  BY <1>1, <1>2, TailIds DEF Hashed, PipeInv, PlacesOnce
<1> HIDE DEF t
<1>6. t.id \notin Answered
  BY <1>5 DEF PipeInv, PlacesOnce
<1>7. Answered' \subseteq Answered \cup {t.id} /\ Once(gui', AnswerOps)
  BY <1>2, <1>4, <1>6, AddedIds DEF Answered, PipeInv, PlacesOnce
<1>8. Hashed' \cap Answered' = {} /\ Checked' \subseteq Checked
  BY <1>5, <1>7 DEF PipeInv, PlacesOnce, Checked
<1> QED
  BY <1>1, <1>5, <1>7, <1>8, PipeThreads

\* The File thread saves countries.txt.
LEMMA PipeSaves ==
  ASSUME TypesInv, PipeInv, RemoveCountriesTxt \/ RenameCountriesTxt \/ SaveCountriesFails
  PROVE  PipeInv' /\ Checked' \subseteq Checked
<1> DEFINE r == Tail(fileThread)
           t == [Head(fileThread) EXCEPT !.op = "rename"]
           w == <<t>>
<1>1. /\ fileThread # <<>> /\ fileThread \in Seq(ThreadTask)
      /\ Head(fileThread).op \in {"save", "rename"}
      /\ UNCHANGED <<queue, pending, saved, calls, gui>>
  BY DEF RemoveCountriesTxt, RenameCountriesTxt, SaveCountriesFails, queueVars, TypesInv
<1>2. Ids(r, {"sha"}) \subseteq Hashed /\ Once(r, {"sha"}) /\ r \in Seq(ThreadTask)
  BY <1>1, TailIds DEF Hashed, PipeInv, PlacesOnce
<1>3. t \in ThreadTask /\ t.op = "rename"
  <2>1. Head(fileThread) \in ThreadTask
    BY <1>1
  <2> QED
    BY <1>1, <2>1 DEF ThreadTask, FileTask, VersionTask
<1>4. fileThread' = r \/ fileThread' = w \o r
  BY DEF RemoveCountriesTxt, RenameCountriesTxt, SaveCountriesFails
<1> HIDE DEF r, t
<1>5. w \in Seq(ThreadTask) /\ DOMAIN w = 1..1 /\ w[1] = t
  BY <1>3
<1> HIDE DEF w
<1>6. Nobody(w, {"sha"})
  <2>1. \A k \in DOMAIN w : k = 1
    BY <1>5
  <2> QED
    BY <1>3, <1>5, <2>1 DEF Nobody
<1> DEFINE s == w \o r
<1>7. Ids(s, {"sha"}) \subseteq Ids(r, {"sha"}) /\ Once(s, {"sha"})
  BY <1>2, <1>5, <1>6, JoinedIds
<1> HIDE DEF s
<1>8. fileThread' = r \/ fileThread' = s
  BY <1>4 DEF s
<1>9. Hashed' \subseteq Hashed /\ Once(fileThread', {"sha"}) /\ Answered' = Answered
  BY <1>1, <1>2, <1>7, <1>8 DEF Hashed, Answered
<1> QED
  BY <1>1, <1>9, PipeThreads DEF PipeInv, PlacesOnce, Checked

\* Between two events nothing is asked for, moved or installed.
LEMMA NothingRuns ==
  ASSUME Idle
  PROVE  /\ Asked = {} /\ Moved = {} /\ Installing = {} /\ ~Doing("clearPending")
         /\ ~HasCall(calls, "clearPending")
<1>1. \A k \in DOMAIN calls : FALSE
  BY DEF Idle
<1> QED
  BY <1>1 DEF Asked, Moved, Ids, Installing, Calling, Doing, HasCall

\* An event begins: it moves nothing, and what it asks for is nowhere in the pipeline
\* that Storage does not see.
LEMMA PipeBegins ==
  ASSUME TypesInv, PipeInv, Idle, UNCHANGED <<pending, saved>>,
         Nobody(calls', EndOps), Once(calls', AskOps),
         IsInjective(queue'), Range(queue') \subseteq Range(queue),
         queue' # <<>> => Asked' \cap Range(pending) = {},
         Once(fileThread', {"sha"}), Once(gui', AnswerOps), Hashed' \cap Answered' = {},
         Waiting' \cap Checked' = {}, Asked' \cap Checked' = {},
         Installing' \cap (Waiting' \cup Checked') = {}
  PROVE  PipeInv'
<1>1. QueuesOnce'
  BY DEF PipeInv, QueuesOnce
<1>2. StackOnce' /\ ~HasCall(calls', "clearPending")
  BY DEF Nobody, Once, IsClosed, IsOrdered, HasCall, EndOps, StackOnce
<1>3. MoveInv'
  BY <1>2, NothingRuns DEF PipeInv, MoveInv
<1>4. PlacesOnce'
  BY DEF PlacesOnce
<1> QED
  BY <1>1, <1>2, <1>3, <1>4 DEF PipeInv

\* No country is twice below a node: otherwise Storage asks for it twice, and it can be
\* twice among the pending requests if there is a queue, whose countries alone it sees.
LeavesOnce == \A n \in Nodes : IsInjective(Subtree[n])

\* The user asks for countries, cancels or deletes them.
LEMMA PipeUser ==
  ASSUME "impatient" \notin Events, LeavesOnce, TypesInv, PipeInv, NEW n \in Nodes,
         DownloadNode(n) \/ RetryDownloadNode(n) \/ CancelDownloadNode(n) \/ DeleteNode(n)
  PROVE  PipeInv' /\ Installing' = {} /\ calls' \in Seq(LaterCall)
<1>1. Idle /\ UNCHANGED <<queue, pending, saved, gui, fileThread>>
  BY DEF DownloadNode, RetryDownloadNode, CancelDownloadNode, DeleteNode, Event, queueVars,
         threadVars
<1>2. Subtree[n] \in Seq(Leaves) /\ IsInjective(Subtree[n])
  BY TreeAssumption DEF Nodes, LeavesOnce
<1>3. calls' \in Seq(LaterCall)
  <2>1. CASE CancelDownloadNode(n)
    <3>1. CancelCall \subseteq LaterCall
      BY DEF CancelCall, LaterCall, LeafTask
    <3> QED
      BY <2>1, <3>1, CancelCalls DEF CancelDownloadNode
  <2>2. CASE DownloadNode(n) \/ RetryDownloadNode(n) \/ DeleteNode(n)
    BY <1>2, <2>2, ForEach DEF DownloadNode, RetryDownloadNode, DeleteNode
  <2> QED
    BY <2>1, <2>2
<1>4. Installing' = {}
  <2>1. calls' # <<>> => Head(calls') \in LaterCall
    BY <1>3
  <2>2. \A t \in LaterCall : t.op \notin AnswerOps \cup {"register"}
    BY DEF LaterCall, LeafTask, PlainTask, AnswerOps
  <2> QED
    BY <2>1, <2>2 DEF Installing, Calling, Idle
<1>5. /\ Nobody(calls', EndOps) /\ Once(calls', AskOps) /\ Asked' \subseteq Range(Subtree[n])
      /\ ~(DownloadNode(n) \/ RetryDownloadNode(n)) => Asked' = {}
  <2>1. CASE CancelDownloadNode(n)
    <3>1. calls' \in Seq(CancelCall)
      BY <2>1, CancelCalls DEF CancelDownloadNode
    <3>2. \A k \in DOMAIN calls' : calls'[k] \in CancelCall
      BY <3>1, ElementOfSeq, LenProperties
    <3>3. \A k \in DOMAIN calls' : calls'[k].op \notin AskOps \cup EndOps
      BY <3>2 DEF CancelCall, LeafTask, AskOps, EndOps
    <3> QED
      BY <3>3 DEF Nobody, Once, Asked, Ids
  <2>2. ASSUME NEW op \in {"download", "retry", "delete"},
               calls' = [k \in DOMAIN Subtree[n] |-> Task(op, Subtree[n][k], 0)]
        PROVE  /\ Nobody(calls', EndOps) /\ Once(calls', AskOps) /\ Asked' \subseteq Range(Subtree[n])
               /\ op = "delete" => Asked' = {}
    <3>1. Nobody(calls', EndOps)
      <4>1. op \notin EndOps
        BY DEF EndOps
      <4>2. op \notin EndOps => Nobody([k \in DOMAIN Subtree[n] |-> Task(op, Subtree[n][k], 0)], EndOps)
        BY <1>2, ForEachIds
      <4> QED
        BY <2>2, <4>1, <4>2
    <3>2. Once(calls', AskOps) /\ Ids(calls', AskOps) \subseteq Range(Subtree[n])
      BY <1>2, <2>2, ForEachIds
    <3>3. op = "delete" => Nobody(calls', AskOps)
      <4>1. op = "delete" => op \notin AskOps
        BY DEF AskOps
      <4>2. op \notin AskOps => Nobody([k \in DOMAIN Subtree[n] |-> Task(op, Subtree[n][k], 0)], AskOps)
        BY <1>2, ForEachIds
      <4> QED
        BY <2>2, <4>1, <4>2
    <3>4. Nobody(calls', AskOps) => Ids(calls', AskOps) = {}
      BY DEF Nobody, Ids
    <3> QED
      BY <3>1, <3>2, <3>3, <3>4 DEF Asked
  <2>3. CASE DownloadNode(n) \/ RetryDownloadNode(n)
    BY <2>2, <2>3 DEF DownloadNode, RetryDownloadNode
  <2>4. CASE DeleteNode(n)
    BY <2>2, <2>4 DEF DeleteNode
  <2> QED
    BY <2>1, <2>3, <2>4
<1>6. Asked' \cap Checked = {} /\ (queue # <<>> => Asked' \cap Range(pending) = {})
  <2>1. CASE DownloadNode(n) \/ RetryDownloadNode(n)
    <3>1. ~IsAskedAgain(n)
      BY <2>1 DEF DownloadNode, RetryDownloadNode
    <3>2. SUFFICES ASSUME NEW c \in Range(Subtree[n])
                   PROVE  c \notin Checked /\ (queue # <<>> => c \notin Range(pending))
      BY <1>5
    <3>3. \A task \in Range(fileThread) \cup Range(gui) :
            ~(task.id = c /\ task.op \in {"sha", "verified", "rejected"})
      BY <3>1 DEF IsAskedAgain
    <3>4. c \notin Hashed
      BY <3>3 DEF Hashed, Ids, Range
    <3>5. c \notin Answered
      BY <3>3 DEF Answered, Ids, Range, AnswerOps
    <3>6. queue # <<>> => c \notin Range(pending)
      <4>1. queue \in Seq(Leaves) /\ pending \in Seq(Leaves)
        BY DEF TypesInv, TypeOK
      <4>2. Contains(pending, c) => IsCountryInQueue(c)
        BY <3>1 DEF IsAskedAgain
      <4>3. queue # <<>> /\ c \in Range(pending) => c \in Range(queue)
        BY <4>1, <4>2, ContainsValue DEF IsCountryInQueue, GetQueue
      <4>4. Range(queue) \cap Range(pending) = {}
        BY <1>1, NothingRuns DEF PipeInv, MoveInv
      <4> QED
        BY <4>3, <4>4
    <3> QED
      BY <3>4, <3>5, <3>6 DEF Checked
  <2>2. CASE ~(DownloadNode(n) \/ RetryDownloadNode(n))
    BY <1>5, <2>2
  <2> QED
    BY <2>1, <2>2
<1>7. Waiting' = Waiting /\ Hashed' = Hashed /\ Answered' = Answered /\ Checked' = Checked
  BY <1>1 DEF Waiting, Hashed, Answered, Checked
<1> QED
  BY <1>1, <1>3, <1>4, <1>5, <1>6, <1>7, PipeBegins DEF PipeInv, QueuesOnce, PlacesOnce

\* A request ends: the country leaves the queue, to be verified if it was downloaded.
LEMMA PipeRequest ==
  ASSUME TypesInv, PipeInv, RequestFailed \/ \E intact \in BOOLEAN : RequestCompleted(intact)
  PROVE  /\ PipeInv' /\ Installing' = {} /\ Checked' \subseteq Checked \cup {request.id}
         /\ request.id \in Range(queue) /\ request.id \notin Waiting'
<1>1. /\ Idle /\ queue # <<>> /\ Head(queue) = request.id /\ queue' = Tail(queue)
      /\ UNCHANGED <<pending, saved, gui>>
  BY DEF RequestFailed, RequestCompleted, IsOfTheTop, Event
<1>2. queue \in Seq(Leaves) /\ pending \in Seq(Leaves)
  BY DEF TypesInv, TypeOK
<1>3. /\ IsInjective(queue') /\ Range(queue') \subseteq Range(queue)
      /\ request.id \in Range(queue) /\ request.id \notin Range(queue')
  BY <1>1, <1>2, OnceValues, FewerValues DEF PipeInv, QueuesOnce
<1>4. request.id \notin Range(pending)
  BY <1>1, <1>3, NothingRuns DEF PipeInv, MoveInv
<1>5. /\ Nobody(calls', AskOps \cup EndOps)
      /\ calls' # <<>> /\ Head(calls').op \notin AnswerOps \cup {"register"}
  <2> DEFINE t == Do("finish")
             u == Do("next")
  <2>1. calls' = <<u>> \/ calls' = <<t, u>>
    BY DEF RequestFailed, RequestCompleted
  <2>2. t \in FirstCall /\ u \in FirstCall /\ t.op = "finish" /\ u.op = "next"
    BY TaskTypes, Operations DEF PlainOps
  <2>3. t.op \notin AskOps \cup EndOps /\ u.op \notin AskOps \cup EndOps
    BY <2>2 DEF AskOps, EndOps
  <2> HIDE DEF t, u
  <2>4. Nobody(<<u>>, AskOps \cup EndOps) /\ Nobody(<<t, u>>, AskOps \cup EndOps)
    BY <2>2, <2>3, ShortIds
  <2>5. calls' # <<>> /\ Head(calls') \in {t, u}
    BY <2>1
  <2> QED
    BY <2>1, <2>2, <2>4, <2>5 DEF AnswerOps
<1>6. /\ Nobody(calls', EndOps) /\ Once(calls', AskOps) /\ Asked' = {} /\ Installing' = {}
  BY <1>5 DEF Nobody, Once, Asked, Ids, Installing, Calling
<1>7. Answered' = Answered
  BY <1>1 DEF Answered
<1>8. /\ Once(fileThread', {"sha"}) /\ Hashed' \subseteq Hashed \cup {request.id}
  <2>1. CASE fileThread' = fileThread
    BY <2>1 DEF Hashed, PipeInv, PlacesOnce
  <2>2. CASE fileThread' = Append(fileThread, Task("sha", request.id, version))
    <3> DEFINE t == Task("sha", request.id, version)
    <3>1. t \in ThreadTask /\ t.id = request.id
      BY <1>1, <1>2, TaskTypes, Operations DEF TypesInv, TypeOK
    <3>2. request.id \notin Hashed /\ fileThread \in Seq(ThreadTask)
      BY <1>3 DEF PipeInv, PlacesOnce, Waiting, Checked, TypesInv
    <3>3. fileThread' = Append(fileThread, t)
      BY <2>2
    <3> HIDE DEF t
    <3> QED
      BY <3>1, <3>2, <3>3, AddedIds DEF Hashed, PipeInv, PlacesOnce
  <2> QED
    BY <2>1, <2>2 DEF RequestFailed, RequestCompleted, threadVars
<1>9. /\ Hashed' \cap Answered' = {} /\ Waiting' \cap Checked' = {}
      /\ Checked' \subseteq Checked \cup {request.id} /\ request.id \notin Waiting'
  <2>1. Waiting' \subseteq Waiting /\ request.id \in Waiting /\ request.id \notin Waiting'
    BY <1>1, <1>3, <1>4 DEF Waiting
  <2>2. Checked' \subseteq Checked \cup {request.id}
    BY <1>7, <1>8 DEF Checked
  <2>3. Hashed' \cap Answered' = {}
    BY <1>7, <1>8, <2>1 DEF PipeInv, PlacesOnce, Checked
  <2> QED
    BY <2>1, <2>2, <2>3 DEF PipeInv, PlacesOnce
<1>10. Once(gui', AnswerOps)
  BY <1>1 DEF PipeInv, PlacesOnce
<1> QED
  BY <1>1, <1>3, <1>6, <1>8, <1>9, <1>10, PipeBegins

\* The GUI thread takes its next task, or goes on with the pending requests.
LEMMA PipeTask ==
  ASSUME TypesInv, PipeInv, RunGuiTask \/ TextRefused \/ FetchFailed
  PROVE  PipeInv' /\ Installing' \cup Checked' \subseteq Checked
<1>1. Idle /\ UNCHANGED <<queue, pending, saved, fileThread>>
  BY DEF RunGuiTask, TextRefused, FetchFailed, Event, queueVars, threadVars
<1>2. gui \in Seq(GuiTask)
  BY DEF TypesInv
<1>3. PICK t \in FirstCall :
        /\ calls' = <<t>> /\ t.op \notin AskOps \cup EndOps
        /\ \/ t.op \notin AnswerOps \cup {"register"} /\ gui' = gui
           \/ t = Head(gui) /\ gui # <<>> /\ gui' = Tail(gui) /\ t.op # "register"
  <2>1. CASE RunGuiTask
    <3>1. gui # <<>> /\ calls' = <<Head(gui)>> /\ gui' = Tail(gui) /\ Head(gui) \in GuiTask
      BY <1>2, <2>1, TakeType DEF RunGuiTask
    <3>2. \A t \in GuiTask : t.op \notin AskOps \cup EndOps \cup {"register"}
      BY DEF GuiTask, LeafTask, FileTask, VersionTask, PlainTask, ServerOps, AskOps, EndOps
    <3> QED
      BY <3>1, <3>2, TaskTypes
  <2>2. CASE TextRefused \/ FetchFailed
    <3> DEFINE t == Do("startPending")
    <3>1. t \in FirstCall /\ t.op = "startPending"
      BY TaskTypes, Operations DEF PlainOps
    <3>2. calls' = <<t>> /\ gui' = gui
      BY <2>2 DEF TextRefused, FetchFailed, GiveUpCheck
    <3>3. t.op \notin AskOps \cup EndOps \cup AnswerOps \cup {"register"}
      BY <3>1 DEF AskOps, EndOps, AnswerOps
    <3> HIDE DEF t
    <3> QED
      BY <3>1, <3>2, <3>3
  <2> QED
    BY <2>1, <2>2
<1>4. /\ Nobody(calls', AskOps \cup EndOps) /\ calls' # <<>> /\ Head(calls') = t
  <2>1. Nobody(<<t>>, AskOps \cup EndOps)
    BY <1>3, ShortIds
  <2> QED
    BY <1>3, <2>1
<1>5. Nobody(calls', EndOps) /\ Once(calls', AskOps) /\ Asked' = {}
  BY <1>4 DEF Nobody, Once, Asked, Ids
<1>6. Hashed' = Hashed /\ Waiting' = Waiting
  BY <1>1 DEF Hashed, Waiting
<1>7. /\ Answered' \subseteq Answered /\ Once(gui', AnswerOps)
      /\ Installing' \subseteq Answered /\ Installing' \cap Answered' = {}
  <2>1. CASE t.op \notin AnswerOps \cup {"register"} /\ gui' = gui
    BY <1>4, <2>1 DEF Answered, PipeInv, PlacesOnce, Installing, Calling
  <2>2. CASE t = Head(gui) /\ gui # <<>> /\ gui' = Tail(gui) /\ t.op # "register"
    <3>1. /\ Answered' \subseteq Answered /\ Once(gui', AnswerOps)
          /\ t.op \in AnswerOps => t.id \in Answered /\ t.id \notin Answered'
      BY <1>2, <2>2, TailIds DEF Answered, PipeInv, PlacesOnce
    <3>2. Installing' = IF t.op \in AnswerOps THEN {t.id} ELSE {}
      BY <1>4, <2>2 DEF Installing, Calling, Idle, This
    <3> QED
      BY <3>1, <3>2
  <2> QED
    BY <1>3, <2>1, <2>2
<1>8. Hashed' \cap Answered' = {} /\ Waiting' \cap Checked' = {}
  BY <1>6, <1>7 DEF PipeInv, PlacesOnce, Checked
<1>9. Installing' \cap (Waiting' \cup Checked') = {}
  BY <1>6, <1>7 DEF PipeInv, PlacesOnce, Checked
<1>10. Once(fileThread', {"sha"})
  BY <1>1 DEF PipeInv, PlacesOnce
<1>11. Installing' \cup Checked' \subseteq Checked
  BY <1>6, <1>7 DEF Checked
<1> QED
  BY <1>1, <1>5, <1>7, <1>8, <1>9, <1>10, <1>11, PipeBegins DEF PipeInv, QueuesOnce

\* The requests for text files post their tasks.
LEMMA PipeFetch ==
  ASSUME TypesInv, ChecksInv, PipeInv,
         \/ ResetMapDownloadMetaConfig \/ RunCountriesCheck \/ \E v \in Versions : MapsFetched(v)
         \/ CountriesFetched \/ SignatureFetched \/ GetMetaConfig
         \/ \E c \in Leaves : FindBadMap(c) \/ \E v \in Versions : ReleaseMap(c, v)
         \/ UNCHANGED vars
  PROVE  PipeInv' /\ Checked' \subseteq Checked
<1>1. UNCHANGED <<queue, pending, saved, calls>>
  BY DEF ResetMapDownloadMetaConfig, RunCountriesCheck, MapsFetched, CountriesFetched,
         SignatureFetched, GetMetaConfig, FindBadMap, ReleaseMap, vars, queueVars
<1>2. CASE \/ ResetMapDownloadMetaConfig \/ RunCountriesCheck \/ \E v \in Versions : MapsFetched(v)
           \/ CountriesFetched \/ UNCHANGED vars
  <2>1. UNCHANGED <<gui, fileThread>>
    BY <1>2 DEF ResetMapDownloadMetaConfig, RunCountriesCheck, MapsFetched, CountriesFetched,
                vars, threadVars
  <2> QED
    BY <1>1, <2>1, PipePosts
<1>3. CASE SignatureFetched
  <2> DEFINE t == Task("applyOrDefer", NoCountry, latest)
             u == Task("save", NoCountry, latest)
  <2>1. latest \in Versions
    BY <1>3, VersionAssumption DEF ChecksInv, NewerInv, SignatureFetched, TypesInv, TypeOK, Versions
  <2>2. t \in GuiTask /\ u \in ThreadTask /\ t.op \notin AnswerOps /\ u.op \notin {"sha"}
    BY <2>1, TaskTypes, Operations DEF AnswerOps
  <2>3. gui' = Append(gui, t) /\ fileThread' = Append(fileThread, u)
    BY <1>3 DEF SignatureFetched
  <2> HIDE DEF t, u
  <2> QED
    BY <1>1, <2>2, <2>3, PipePosts
<1>4. CASE GetMetaConfig
  <2>1. Head(network) \in NetworkTask /\ gui' = Append(gui, Head(network)) /\ fileThread' = fileThread
    BY <1>4, TakeType DEF GetMetaConfig
  <2>2. Head(network) \in GuiTask /\ Head(network).op \notin AnswerOps
    BY <2>1, TaskTypes DEF NetworkTask, PlainTask, ServerOps, AnswerOps
  <2> QED
    BY <1>1, <2>1, <2>2, PipePosts
<1>5. ASSUME NEW c \in Leaves, FindBadMap(c) \/ \E v \in Versions : ReleaseMap(c, v)
      PROVE  PipeInv' /\ Checked' \subseteq Checked
  <2>1. PICK v \in Versions : gui' = Append(gui, Task("deleteFile", c, v)) /\ fileThread' = fileThread
    <3>1. FindBadMap(c) => mwm[c] \in Versions
      BY DEF FindBadMap, TypesInv, TypeOK, Versions
    <3> QED
      BY <1>5, <3>1 DEF FindBadMap, ReleaseMap, threadVars
  <2>2. Task("deleteFile", c, v) \in GuiTask /\ Task("deleteFile", c, v).op \notin AnswerOps
    BY TaskTypes, Operations DEF AnswerOps
  <2> QED
    BY <1>1, <2>1, <2>2, PipePosts
<1> QED
  BY <1>2, <1>3, <1>4, <1>5

\* A restart asks for the countries of the settings, and nothing else is left.
LEMMA PipeRestart ==
  ASSUME TypesInv, PipeInv, Restart
  PROVE  PipeInv' /\ Installing' = {} /\ calls' \in Seq(LaterCall)
<1>1. /\ queue' = <<>> /\ pending' = <<>> /\ gui' = <<>> /\ fileThread' = <<>> /\ saved' = saved
      /\ calls' = [k \in DOMAIN saved |-> Task("download", saved[k], 0)]
  BY DEF Restart
<1>2. saved \in Seq(Leaves) /\ IsInjective(saved)
  BY DEF TypesInv, TypeOK, PipeInv, QueuesOnce
<1> DEFINE s == [k \in DOMAIN saved |-> Task("download", saved[k], 0)]
<1>3. s \in Seq(LaterCall) /\ Once(s, AskOps) /\ Nobody(s, EndOps)
  <2>1. "download" \notin EndOps
    BY DEF EndOps
  <2>2. "download" \notin EndOps => Nobody(s, EndOps)
    BY <1>2, ForEachIds
  <2> QED
    BY <1>2, <2>1, <2>2, ForEach, ForEachIds
<1> HIDE DEF s
<1>4. calls' = s
  BY <1>1 DEF s
<1>5. StackOnce' /\ ~HasCall(calls', "clearPending")
  BY <1>3, <1>4 DEF Nobody, Once, IsClosed, IsOrdered, HasCall, EndOps, StackOnce
<1>6. Installing' = {}
  <2>1. calls' # <<>> => Head(calls') \in LaterCall
    BY <1>3, <1>4
  <2>2. \A t \in LaterCall : t.op \notin AnswerOps \cup {"register"}
    BY DEF LaterCall, LeafTask, PlainTask, AnswerOps
  <2> QED
    BY <2>1, <2>2 DEF Installing, Calling, Idle
<1>7. /\ Range(<<>>) = {} /\ IsInjective(<<>>) /\ \A ops : Ids(<<>>, ops) = {} /\ Once(<<>>, ops)
  BY DEF Range, IsInjective, Ids, Once
<1>8. QueuesOnce'
  BY <1>1, <1>2, <1>7 DEF QueuesOnce
<1>9. MoveInv'
  BY <1>1, <1>5, <1>7 DEF MoveInv
<1>10. PlacesOnce'
  BY <1>1, <1>6, <1>7 DEF PlacesOnce, Waiting, Hashed, Answered, Checked
<1> QED
  BY <1>3, <1>4, <1>5, <1>6, <1>8, <1>9, <1>10 DEF PipeInv

\* No step brings a country to a second place.
LEMMA PipeStep ==
  ASSUME "impatient" \notin Events, LeavesOnce, TypesInv, TypesInv', ChecksInv, PipeInv, [Next]_vars
  PROVE  PipeInv'
<1>1. CASE Environment
  BY <1>1, PipeUser, PipeFetch, PipeRestart DEF Environment
<1>2. CASE GuiThread
  BY <1>2, PipeHandlers, PipeTask DEF GuiThread
<1>3. CASE Download
  BY <1>3, PipeRequest DEF Download
<1>4. CASE Fetch
  BY <1>4, PipeTask, PipeFetch DEF Fetch
<1>5. CASE FileThread
  BY <1>5, PipeSha, PipeSaves DEF FileThread
<1>6. CASE GetMetaConfig \/ Release \/ UNCHANGED vars
  BY <1>6, PipeFetch DEF Release
<1> QED
  BY <1>1, <1>2, <1>3, <1>4, <1>5, <1>6 DEF Next

\* At first no country is on its way.
LEMMA PipeInit == Init => PipeInv
<1> SUFFICES ASSUME Init PROVE PipeInv
  OBVIOUS
<1>1. queue = <<>> /\ pending = <<>> /\ saved = <<>> /\ calls = <<>> /\ gui = <<>> /\ fileThread = <<>>
  BY DEF Init
<1>2. /\ Range(<<>>) = {} /\ IsInjective(<<>>) /\ \A ops : Ids(<<>>, ops) = {} /\ Once(<<>>, ops)
  BY DEF Range, IsInjective, Ids, Once
<1>3. IsClosed(<<>>) /\ IsOrdered(<<>>) /\ ~HasCall(<<>>, "clearPending")
  BY DEF IsClosed, IsOrdered, HasCall
<1>4. Installing = {}
  BY <1>1 DEF Installing, Calling, Idle
<1> QED
  BY <1>1, <1>2, <1>3, <1>4
  DEF PipeInv, QueuesOnce, StackOnce, MoveInv, PlacesOnce, Waiting, Hashed, Answered, Checked, Asked

-----------------------------------------------------------------------------
(* Only verified maps are installed. *)

\* A sequence without its first, and with another first.
LEMMA OtherFirst ==
  ASSUME NEW S, NEW s \in Seq(S), s # <<>>, NEW t \in S
  PROVE  /\ \A x \in Range(s) : x = Head(s) \/ x \in Range(Tail(s))
         /\ Range(Tail(s)) \subseteq Range(<<t>> \o Tail(s))
<1> DEFINE r == Tail(s)
           w == <<t>>
           q == w \o r
<1>1. /\ Len(s) \in Nat \ {0} /\ DOMAIN s = 1..Len(s) /\ r \in Seq(S) /\ DOMAIN r = 1..(Len(s) - 1)
      /\ \A k \in 1..(Len(s) - 1) : r[k] = s[k + 1]
      /\ Head(s) = s[1] /\ Len(r) = Len(s) - 1
  BY HeadTailProperties, LenProperties, EmptySeq
<1>2. w \in Seq(S) /\ Len(w) = 1
  OBVIOUS
<1> HIDE DEF r, w
<1>3. /\ q \in Seq(S) /\ Len(q) = 1 + Len(r)
      /\ \A k \in 1..(1 + Len(r)) : q[k] = IF k <= 1 THEN w[k] ELSE r[k - 1]
  <2>1. /\ q \in Seq(S) /\ Len(q) = Len(w) + Len(r)
        /\ \A k \in 1..(Len(w) + Len(r)) : q[k] = IF k <= Len(w) THEN w[k] ELSE r[k - Len(w)]
    BY <1>1, <1>2, ConcatProperties
  <2> HIDE DEF q
  <2> QED
    BY <1>2, <2>1
<1> HIDE DEF q
<1>4. DOMAIN q = 1..(1 + Len(r))
  BY <1>3, LenProperties
<1>5. ASSUME NEW k \in DOMAIN s
      PROVE  s[k] = Head(s) \/ \E j \in DOMAIN r : s[k] = r[j]
  <2>1. k = 1 \/ (k - 1 \in DOMAIN r /\ r[k - 1] = s[k])
    BY <1>1
  <2> QED
    BY <1>1, <2>1
<1>6. ASSUME NEW j \in DOMAIN r
      PROVE  \E k \in DOMAIN q : q[k] = r[j]
  <2>1. j + 1 \in DOMAIN q /\ q[j + 1] = r[j]
    BY <1>1, <1>3, <1>4
  <2> QED
    BY <2>1
<1> QED
  BY <1>5, <1>6 DEF Range, r, q, w

\* A damaged file of this version waits for its checksum; no file or request is of a newer
\* one, and a country has one file of a version.
ShaOf(f) == Task("sha", f.id, version)
DirtyAreHashed ==
  \A f \in ready : f.version = version /\ ~f.intact => ShaOf(f) \in Range(fileThread)
VerifiedInv ==
  /\ request.version <= version
  /\ \A f \in ready : f.version <= version
  /\ \A f, g \in ready : f.id = g.id /\ f.version = g.version => f = g
  /\ DirtyAreHashed
  /\ InstalledMapsAreVerified

\* What it does not notice.
VerifiedRest ==
  /\ version' = version /\ disk' \subseteq disk /\ ready' \subseteq ready
  /\ request'.version <= version
  /\ \A t \in Range(fileThread) : t.op = "sha" => t \in Range(fileThread')

\* It does not.
LEMMA VerifiedKeep ==
  ASSUME VerifiedInv, VerifiedRest
  PROVE  VerifiedInv'
<1>1. DirtyAreHashed'
  <2>1. SUFFICES ASSUME NEW f \in ready', f.version = version', ~f.intact
                 PROVE  ShaOf(f)' \in Range(fileThread')
    BY DEF DirtyAreHashed
  <2>2. ShaOf(f) \in Range(fileThread) /\ ShaOf(f)' = ShaOf(f)
    BY <2>1 DEF VerifiedInv, DirtyAreHashed, VerifiedRest, ShaOf
  <2>3. ShaOf(f).op = "sha"
    BY Operations DEF ShaOf
  <2> QED
    BY <2>2, <2>3 DEF VerifiedRest
<1> QED
  BY <1>1 DEF VerifiedInv, VerifiedRest, InstalledMapsAreVerified

\* The handlers that install nothing and apply nothing.
LEMMA VerifiedHandlers ==
  ASSUME TypesInv, VerifiedInv, Handlers, ~RegisterDownloadedFiles, ~ApplyCountriesInMemory
  PROVE  VerifiedInv'
<1>1. UNCHANGED <<version, fileThread>> /\ ready' \subseteq ready /\ disk' \subseteq disk
  BY DEF Handlers, DownloadNothing, DownloadImpossible, DownloadFound, DownloadQueued,
         StartPending, GotServersForMaps, GotServersForText, EnqueueCountry, ClearPending,
         StartRequest, StartRequestWithoutFile, RequestForbidden, NextRequest, Verified,
         Rejected, RegisterMissingFile, FinishDownloading, ApplyPendingCountries, ApplyOrDefer,
         Forgive, Stop, RemoveFromQueue, CleanUp, DeleteCountry, DeleteNothing,
         DeleteCustomCountryVersion, checkVars, threadVars, diskVars
<1>2. request' \in {request, NoRequest} \/ request'.version = version
  <2>1. CASE StartRequest
    BY <2>1 DEF StartRequest
  <2>2. CASE ~StartRequest
    BY <2>2
    DEF Handlers, DownloadNothing, DownloadImpossible, DownloadFound, DownloadQueued,
         StartPending, GotServersForMaps, GotServersForText, EnqueueCountry, ClearPending,
         StartRequestWithoutFile, RequestForbidden, NextRequest, Verified,
         Rejected, RegisterMissingFile, FinishDownloading, ApplyPendingCountries, ApplyOrDefer,
         Forgive, Stop, RemoveFromQueue, CleanUp, DeleteCountry, DeleteNothing,
         DeleteCustomCountryVersion, queueVars
  <2> QED
    BY <2>1, <2>2
<1>3. version \in Nat /\ NoRequest.version = 0
  BY DEF TypesInv, TypeOK, Versions, NoRequest
<1>4. request'.version <= version
  BY <1>2, <1>3 DEF VerifiedInv
<1> QED
  BY <1>1, <1>4, VerifiedKeep DEF VerifiedRest

\* A file is installed only after its checksum, as its country is in one place.
LEMMA VerifiedRegister ==
  ASSUME TypesInv, PipeInv, VerifiedInv, RegisterDownloadedFiles
  PROVE  VerifiedInv'
<1> DEFINE file == Of(ready, This, version)
<1>1. /\ UNCHANGED <<version, request, fileThread>> /\ ready' \subseteq ready
      /\ \A f \in disk' : f \in disk \/ f \in file
  BY DEF RegisterDownloadedFiles, checkVars, queueVars, threadVars
<1>2. This \notin Hashed
  <2>1. This \in Installing
    BY DEF RegisterDownloadedFiles, Doing, Installing, Calling
  <2> QED
    BY <2>1 DEF PipeInv, PlacesOnce, Checked
<1>3. ASSUME NEW f \in file
      PROVE  f.intact
  <2>1. f \in ready /\ f.id = This /\ f.version = version
    BY DEF Of
  <2>2. ~f.intact => Task("sha", This, version) \in Range(fileThread)
    BY <2>1 DEF VerifiedInv, DirtyAreHashed, ShaOf
  <2>3. Task("sha", This, version) \in Range(fileThread) => This \in Hashed
    BY Operations DEF Range, Hashed, Ids
  <2> QED
    BY <1>2, <2>2, <2>3
<1>4. DirtyAreHashed'
  BY <1>1 DEF VerifiedInv, DirtyAreHashed, ShaOf
<1> HIDE DEF file
<1>5. InstalledMapsAreVerified'
  BY <1>1, <1>3 DEF VerifiedInv, InstalledMapsAreVerified
<1> QED
  BY <1>1, <1>4, <1>5 DEF VerifiedInv

\* The files of the old version are removed when a new one is applied.
LEMMA VerifiedApply ==
  ASSUME TypesInv, ChecksInv, VerifiedInv, ApplyCountriesInMemory
  PROVE  VerifiedInv'
<1>1. /\ version' = Arg /\ request' = request /\ disk' \subseteq disk
      /\ ready' = {f \in ready : f.version >= Arg}
  BY DEF ApplyCountriesInMemory, RegisterAllLocalMaps, queueVars
<1>2. Arg > version
  BY <1>1, ApplyChecks
<1>3. /\ version \in Nat /\ Arg \in Nat /\ request.version \in Nat
      /\ \A f \in ready : f.version \in Nat
  <2>1. Arg \in Versions
    BY ThisCall, Operations DEF ApplyCountriesInMemory, Doing, CheckOps
  <2>2. request.version \in Nat
    BY DEF TypesInv, TypeOK, NoRequest, Request, Versions
  <2> QED
    BY <2>1, <2>2 DEF TypesInv, TypeOK, Versions
<1>4. ready' = {}
  BY <1>1, <1>2, <1>3 DEF VerifiedInv
<1>5. request'.version <= version'
  BY <1>1, <1>2, <1>3 DEF VerifiedInv
<1> QED
  BY <1>1, <1>4, <1>5 DEF VerifiedInv, DirtyAreHashed, InstalledMapsAreVerified

\* A file is downloaded, and waits for its checksum.
LEMMA VerifiedRequest ==
  ASSUME TypesInv, VerifiedInv, NEW intact \in BOOLEAN, RequestCompleted(intact)
  PROVE  VerifiedInv'
<1> DEFINE new == [id |-> request.id, version |-> request.version, intact |-> intact]
           t == Task("sha", request.id, version)
<1>1. /\ UNCHANGED <<version, request, disk>>
      /\ ready' = (ready \ Of(ready, request.id, request.version)) \cup {new}
      /\ fileThread' = Append(fileThread, t)
  BY DEF RequestCompleted, checkVars
<1>2. t \in ThreadTask /\ fileThread \in Seq(ThreadTask)
  <2>1. request.id \in Leaves /\ version \in Versions
    BY DEF RequestCompleted, IsOfTheTop, TypesInv, TypeOK, Request
  <2> QED
    BY <2>1, TaskTypes DEF TypesInv
<1> HIDE DEF t
<1>3. Range(fileThread') = Range(fileThread) \cup {t}
  BY <1>1, <1>2, MoreValues
<1>4. /\ new.id = request.id /\ new.version = request.version
  OBVIOUS
<1> HIDE DEF new
<1>5. \A f \in ready' : f = new \/ (f \in ready /\ ~(f.id = new.id /\ f.version = new.version))
  BY <1>1, <1>4 DEF Of
<1>6. DirtyAreHashed'
  <2>1. SUFFICES ASSUME NEW f \in ready', f.version = version', ~f.intact
                 PROVE  ShaOf(f)' \in Range(fileThread')
    BY DEF DirtyAreHashed
  <2>2. CASE f = new
    BY <1>1, <1>3, <1>4, <2>2 DEF ShaOf, t
  <2>3. CASE f \in ready
    BY <1>1, <1>3, <2>1, <2>3 DEF VerifiedInv, DirtyAreHashed, ShaOf
  <2> QED
    BY <1>5, <2>2, <2>3
<1>7. \A f \in ready' : f.version <= version'
  BY <1>1, <1>4, <1>5 DEF VerifiedInv
<1>8. \A f, g \in ready' : f.id = g.id /\ f.version = g.version => f = g
  BY <1>5 DEF VerifiedInv
<1> QED
  BY <1>1, <1>6, <1>7, <1>8 DEF VerifiedInv, InstalledMapsAreVerified

\* A damaged file does not outlive its checksum.
LEMMA VerifiedSha ==
  ASSUME TypesInv, VerifiedInv, CheckSha
  PROVE  VerifiedInv'
<1> DEFINE t == Head(fileThread)
           files == Of(ready, t.id, t.arg)
           ok == \E f \in files : f.intact
<1>1. /\ UNCHANGED <<version, request, disk>> /\ fileThread # <<>> /\ fileThread' = Tail(fileThread)
      /\ ready' = IF ok THEN ready ELSE ready \ files
  BY DEF CheckSha, checkVars, queueVars
<1>2. fileThread \in Seq(ThreadTask)
  BY DEF TypesInv
<1>3. t \in ThreadTask
  BY <1>1, <1>2
<1>4. \A x \in Range(fileThread) : x = t \/ x \in Range(fileThread')
  BY <1>1, <1>2, <1>3, OtherFirst
<1>5. DirtyAreHashed'
  <2>1. SUFFICES ASSUME NEW f \in ready', f.version = version', ~f.intact
                 PROVE  ShaOf(f)' \in Range(fileThread')
    BY DEF DirtyAreHashed
  <2>2. f \in ready /\ ShaOf(f)' = ShaOf(f) /\ ShaOf(f) \in Range(fileThread) /\ f.version = version
    BY <1>1, <2>1 DEF VerifiedInv, DirtyAreHashed, ShaOf
  <2>3. CASE ShaOf(f) = t
    <3>1. f.id = t.id /\ f.version = t.arg
      BY <2>2, <2>3, Operations DEF ShaOf
    <3>2. f \in files /\ ok
      BY <1>1, <2>1, <2>2, <3>1 DEF Of
    <3>3. PICK g \in files : g.intact
      BY <3>2
    <3>4. g \in ready /\ g.id = f.id /\ g.version = f.version
      BY <3>1, <3>3 DEF Of
    <3> QED
      BY <2>1, <2>2, <3>3, <3>4 DEF VerifiedInv
  <2> QED
    BY <1>4, <2>2, <2>3
<1> QED
  BY <1>1, <1>5 DEF VerifiedInv, InstalledMapsAreVerified

\* The other steps.
LEMMA VerifiedOthers ==
  ASSUME TypesInv, ChecksInv, VerifiedInv, [Next]_vars,
         ~Handlers, ~Restart, ~CheckSha, \A intact \in BOOLEAN : ~RequestCompleted(intact)
  PROVE  VerifiedInv'
<1>1. UNCHANGED <<version, disk, ready, request>>
  BY DEF Next, Environment, DownloadNode, RetryDownloadNode, CancelDownloadNode, DeleteNode,
         ResetMapDownloadMetaConfig, RunCountriesCheck, MapsFetched, FindBadMap, GuiThread,
         RunGuiTask, Download, RequestFailed, Fetch, TextRefused, FetchFailed, CountriesFetched,
         SignatureFetched, FileThread, RemoveCountriesTxt, RenameCountriesTxt,
         SaveCountriesFails, GetMetaConfig, Release, ReleaseMap, vars, checkVars, diskVars,
         queueVars
<1>2. fileThread \in Seq(ThreadTask)
  BY DEF TypesInv
<1>3. \A t \in Range(fileThread) : t.op = "sha" => t \in Range(fileThread')
  <2>1. CASE RemoveCountriesTxt \/ RenameCountriesTxt \/ SaveCountriesFails
    <3> DEFINE u == [Head(fileThread) EXCEPT !.op = "rename"]
    <3>1. /\ fileThread # <<>> /\ Head(fileThread).op # "sha"
          /\ fileThread' = Tail(fileThread) \/ fileThread' = <<u>> \o Tail(fileThread)
          /\ Head(fileThread).op \in {"save", "rename"}
      BY <2>1 DEF RemoveCountriesTxt, RenameCountriesTxt, SaveCountriesFails
    <3>2. u \in ThreadTask
      <4>1. Head(fileThread) \in ThreadTask
        BY <1>2, <3>1
      <4> QED
        BY <3>1, <4>1 DEF ThreadTask, FileTask, VersionTask
    <3> HIDE DEF u
    <3>3. /\ \A x \in Range(fileThread) : x = Head(fileThread) \/ x \in Range(Tail(fileThread))
          /\ Range(Tail(fileThread)) \subseteq Range(<<u>> \o Tail(fileThread))
      BY <1>2, <3>1, <3>2, OtherFirst
    <3> QED
      BY <3>1, <3>3
  <2>2. CASE SignatureFetched
    <3> DEFINE u == Task("save", NoCountry, latest)
    <3>1. latest \in Versions
      BY <2>2, VersionAssumption
      DEF ChecksInv, NewerInv, SignatureFetched, TypesInv, TypeOK, Versions
    <3>2. u \in ThreadTask /\ fileThread' = Append(fileThread, u)
      BY <2>2, <3>1, TaskTypes DEF SignatureFetched
    <3> HIDE DEF u
    <3> QED
      BY <1>2, <3>2, MoreValues
  <2>3. CASE UNCHANGED fileThread
    BY <2>3
  <2> QED
    BY <2>1, <2>2, <2>3
    DEF Next, Environment, DownloadNode, RetryDownloadNode, CancelDownloadNode, DeleteNode,
         ResetMapDownloadMetaConfig, RunCountriesCheck, MapsFetched, FindBadMap, GuiThread,
         RunGuiTask, Download, RequestFailed, Fetch, TextRefused, FetchFailed, CountriesFetched,
         FileThread, GetMetaConfig, Release, ReleaseMap, vars, threadVars
<1> QED
  BY <1>1, <1>3, VerifiedKeep DEF VerifiedRest, VerifiedInv

\* Every step keeps the checksums true.
LEMMA VerifiedStep ==
  ASSUME NobodyKills, TypesInv, TypesInv', ChecksInv, PipeInv, VerifiedInv, [Next]_vars
  PROVE  VerifiedInv'
BY NoRestart, VerifiedHandlers, VerifiedRegister, VerifiedApply, VerifiedRequest, VerifiedSha,
   VerifiedOthers

\* At first nothing was downloaded, and every map is intact.
LEMMA VerifiedInit == Init => VerifiedInv
<1> SUFFICES ASSUME Init PROVE VerifiedInv
  OBVIOUS
<1>1. /\ request = NoRequest /\ ready = {} /\ version = Bundled
      /\ \A f \in disk : f.intact
  BY DEF Init
<1>2. request.version <= version
  BY <1>1, VersionAssumption DEF NoRequest
<1> QED
  BY <1>1, <1>2 DEF VerifiedInv, DirtyAreHashed, InstalledMapsAreVerified

\* If nobody kills the application, and nobody asks again for a country whose file is being
\* verified, then no map is installed whose checksum is wrong, whatever is cancelled, deleted,
\* updated or fails meanwhile.
THEOREM MapsAreVerified ==
  ASSUME NobodyKills, "impatient" \notin Events, LeavesOnce
  PROVE  Spec => []InstalledMapsAreVerified
<1> DEFINE IInv == PipeInv /\ VerifiedInv
<1>1. Init => IInv
  BY PipeInit, VerifiedInit
<1>2. TypesInv /\ TypesInv' /\ ChecksInv /\ IInv /\ [Next]_vars => IInv'
  BY PipeStep, VerifiedStep
<1>3. IInv => InstalledMapsAreVerified
  BY DEF VerifiedInv
<1> HIDE DEF IInv
<1> QED
  BY <1>1, <1>2, <1>3, TypesAreOK, PTL DEF Spec

-----------------------------------------------------------------------------
(* The maps that are shown have their files. *)

\* The countries that are on their way: those still to be moved to the queue, or to be
\* moved one day, and those of the queue, of the checksums and of the installation.
Coming == IF HasCall(calls, "clearPending") THEN Moved ELSE Range(pending)
NotYet == Range(queue) \cup Coming \cup Checked \cup Installing

\* The map of this version of a country that is on its way, or that failed, is not there;
\* so that it is never taken away for a file that is missing.  No map is newer.
PlacedInv ==
  /\ \A c \in Leaves : \A v \in localFiles[c] : v <= version
  /\ \A c \in Leaves : c \in NotYet \cup failed => version \notin localFiles[c]
  /\ NotYet \cap failed = {}

\* What is still to be moved to the queue is among the pending requests.
LEMMA ComingIsPending ==
  ASSUME MoveInv
  PROVE  Coming \subseteq Range(pending) /\ NotYet \subseteq Waiting \cup Checked \cup Installing
BY DEF MoveInv, Coming, NotYet, Waiting

\* What it does not notice: countries that are on their way no more, or failed no more.
LEMMA PlacedKeep ==
  ASSUME PlacedInv, UNCHANGED <<version, localFiles>>, NotYet' \subseteq NotYet,
         failed' \subseteq failed
  PROVE  PlacedInv'
BY DEF PlacedInv

\* ... and when they stay in the pipeline.
LEMMA NotYetRests ==
  ASSUME PipeRest
  PROVE  NotYet' \subseteq Range(queue') \cup Coming \cup Checked \cup Installing'
<1>1. Coming' \subseteq Coming
  BY DEF PipeRest, StackKept, Coming
<1>2. Checked' = Checked
  BY DEF PipeRest, Checked, Hashed, Answered
<1> QED
  BY <1>1, <1>2 DEF NotYet

\* The next call deletes and installs nothing.
InstallOps == {"deleteFile", "verified", "rejected", "register"}
QuietNext == calls' # <<>> => Head(calls').op \notin InstallOps

\* Such a call is the next one, if the handler calls it.
LEMMA NextIs ==
  ASSUME TypesInv, ~Idle, NEW t \in FirstCall, NEW u \in LaterCall, t.op \notin InstallOps,
         Call(<<t>>) \/ Call(<<t, u>>)
  PROVE  QuietNext /\ Installing' = {}
<1>1. QuietNext
  BY CallsOne, CallsTwo DEF QuietNext
<1> QED
  BY <1>1 DEF QuietNext, Installing, Calling, Idle, InstallOps, AnswerOps

\* The same for calls that are not named here, and when the call returns.
LEMMA NextCalls ==
  ASSUME TypesInv, ~Idle,
         \/ Return \/ Call(Enqueue(pending))
         \/ \E t \in FirstCall, u \in LaterCall :
              t.op \notin InstallOps /\ (Call(<<t>>) \/ Call(<<t, u>>))
  PROVE  QuietNext /\ Installing' = {}
<1> SUFFICES QuietNext
  BY DEF QuietNext, Installing, Calling, Idle, InstallOps, AnswerOps
<1>1. \A t \in LaterCall : t.op \notin InstallOps
  BY DEF LaterCall, LeafTask, PlainTask, InstallOps
<1>2. CASE Return
  <2>1. calls' \in Seq(LaterCall)
    BY <1>2, ThisCall DEF Return
  <2> QED
    BY <1>1, <2>1 DEF QuietNext
<1>3. CASE Call(Enqueue(pending))
  <2>1. Enqueue(pending) \in Seq(LaterCall) /\ Tail(calls) \in Seq(LaterCall)
    BY EnqueueType, ThisCall DEF TypesInv, TypeOK
  <2>2. calls' \in Seq(LaterCall)
    BY <1>3, <2>1, ConcatProperties DEF Call
  <2> QED
    BY <1>1, <2>2 DEF QuietNext
<1>4. ASSUME NEW t \in FirstCall, NEW u \in LaterCall, t.op \notin InstallOps,
             Call(<<t>>) \/ Call(<<t, u>>)
      PROVE  QuietNext
  BY <1>4, NextIs
<1> QED
  BY <1>2, <1>3, <1>4

\* So does every handler, but for those that begin to install a file.
LEMMA NextOfHandlers ==
  ASSUME TypesInv, Handlers, ~DownloadFound, ~Verified
  PROVE  QuietNext /\ Installing' = {}
<1>1. ~Idle
  BY DEF Handlers, DownloadNothing, DownloadImpossible, DownloadQueued, Wanted,
         StartPending, GotServersForMaps, GotServersForText, EnqueueCountry, ClearPending,
         StartRequest, StartRequestWithoutFile, RequestForbidden, NextRequest, Rejected,
         RegisterDownloadedFiles, RegisterMissingFile, FinishDownloading, ApplyPendingCountries,
         ApplyCountriesInMemory, ApplyOrDefer, Forgive, Stop, RemoveFromQueue, CleanUp,
         DeleteCountry, DeleteNothing, DeleteCustomCountryVersion, Doing
<1>2. /\ \A op \in {"startPending", "request", "finish"} : Do(op) \in FirstCall /\ Do(op).op = op
      /\ Do("next") \in LaterCall
  BY TaskTypes, Operations DEF PlainOps
<1>3. CASE DownloadQueued \/ EnqueueCountry \/ NextRequest
  BY <1>1, <1>2, <1>3, NextCalls DEF DownloadQueued, EnqueueCountry, NextRequest, InstallOps
<1>4. CASE RequestForbidden \/ Rejected
  BY <1>1, <1>2, <1>4, NextCalls DEF RequestForbidden, Rejected, InstallOps
<1>5. CASE StartPending \/ GotServersForMaps
  BY <1>1, <1>5, NextCalls DEF StartPending, GotServersForMaps
<1>6. CASE ApplyPendingCountries \/ ApplyCountriesInMemory \/ ApplyOrDefer
  <2>1. \A v \in Versions : Task("apply", NoCountry, v) \in FirstCall /\ Task("apply", NoCountry, v).op = "apply"
    BY TaskTypes, Operations
  <2>2. CASE ApplyPendingCountries
    <3>1. deferred \in Versions
      BY <2>2, VersionAssumption DEF ApplyPendingCountries, TypesInv, TypeOK, Versions
    <3> QED
      BY <1>1, <1>2, <2>1, <2>2, <3>1, NextCalls DEF ApplyPendingCountries, InstallOps
  <2>3. CASE ApplyOrDefer
    <3>1. Arg \in Versions
      BY <1>1, <2>3, ThisCall, Operations DEF ApplyOrDefer, Doing
    <3>2. Return \/ Call(<<Do("startPending")>>) \/ Call(<<Task("apply", NoCountry, Arg)>>)
      BY <2>3 DEF ApplyOrDefer
    <3> QED
      BY <1>1, <1>2, <2>1, <3>1, <3>2, NextCalls DEF InstallOps
  <2>4. CASE ApplyCountriesInMemory
    BY <1>1, <1>2, <2>4, NextCalls DEF ApplyCountriesInMemory, InstallOps
  <2> QED
    BY <1>6, <2>2, <2>3, <2>4
<1>7. CASE RemoveFromQueue
  <2>1. This \in Leaves
    BY <1>1, <1>7, ThisCall DEF RemoveFromQueue, Doing, LeafOps
  <2> DEFINE t == Task("cleanup", This, 0)
  <2>2. t \in FirstCall /\ t \in LaterCall /\ t.op = "cleanup"
    BY <2>1, TaskTypes, Operations DEF LeafOps
  <2>3. Call(<<Do("request")>> \o <<t>>) \/ Call(<<>> \o <<t>>)
    BY <1>7 DEF RemoveFromQueue
  <2>4. <<Do("request")>> \o <<t>> = <<Do("request"), t>> /\ <<>> \o <<t>> = <<t>>
    BY PairInParts
  <2> HIDE DEF t
  <2> QED
    BY <1>1, <1>2, <2>2, <2>3, <2>4, NextIs DEF InstallOps
<1>8. CASE DeleteCountry
  <2>1. This \in Leaves
    BY <1>1, <1>8, ThisCall DEF DeleteCountry, Doing, LeafOps
  <2> DEFINE t == Task("remove", This, 0)
             u == Task("stop", This, 0)
  <2>2. t \in FirstCall /\ u \in LaterCall /\ t.op = "remove" /\ Call(<<t, u>>)
    BY <1>8, <2>1, TaskTypes, Operations DEF DeleteCountry, LeafOps
  <2> HIDE DEF t, u
  <2> QED
    BY <1>1, <2>2, NextIs DEF InstallOps
<1>9. CASE Return
  BY <1>1, <1>9, NextCalls
<1> QED
  BY <1>3, <1>4, <1>5, <1>6, <1>7, <1>8, <1>9
  DEF Handlers, DownloadNothing, DownloadImpossible, GotServersForText, ClearPending,
      StartRequest, StartRequestWithoutFile, RegisterDownloadedFiles, RegisterMissingFile,
      FinishDownloading, Forgive, Stop, CleanUp, DeleteNothing, DeleteCustomCountryVersion

\* What is still to be moved to the queue is not there.
LEMMA ComingIsApart ==
  ASSUME PipeInv
  PROVE  Coming \cap Range(queue) = {} /\ Coming \subseteq Waiting
BY DEF PipeInv, MoveInv, Coming, Waiting

\* A country on its way fails.
LEMMA PlacedFails ==
  ASSUME PlacedInv, UNCHANGED <<version, localFiles>>, NEW c \in NotYet, c \notin NotYet',
         NotYet' \subseteq NotYet, failed' = failed \cup {c}
  PROVE  PlacedInv'
BY DEF PlacedInv

\* A country sets out that has no map of this version.
LEMMA PlacedBegins ==
  ASSUME PlacedInv, UNCHANGED <<version, localFiles>>, NEW c \in Leaves,
         version \notin localFiles[c], NotYet' \subseteq NotYet \cup {c}, failed' = failed \ {c}
  PROVE  PlacedInv'
BY DEF PlacedInv

\* A country that is asked for and wanted has none.
LEMMA WantedIsOld ==
  ASSUME TypesInv, PlacedInv, Wanted
  PROVE  This \in Leaves /\ version \notin localFiles[This]
<1>1. ~Idle /\ Head(calls).op \in {"download", "retry"}
  BY DEF Wanted, Doing
<1>2. This \in Leaves
  BY <1>1, ThisCall DEF LeafOps
<1>3. SUFFICES ASSUME version \in localFiles[This], This \notin failed
               PROVE  FALSE
  BY <1>2 DEF PlacedInv
<1>4. localFiles[This] # {} /\ Max(localFiles[This]) # version
  BY <1>3 DEF Wanted, IsOnDisk
<1>5. /\ localFiles[This] \subseteq 0..MaxVersion /\ MaxVersion \in Nat
      /\ version \in Nat /\ \A v \in localFiles[This] : v <= version
  BY <1>2, VersionAssumption DEF TypesInv, TypeOK, Versions, PlacedInv
<1>6. Max(localFiles[This]) \in localFiles[This] /\ version <= Max(localFiles[This])
  BY <1>3, <1>4, <1>5, MaxIsLargest
<1>7. Max(localFiles[This]) <= version /\ Max(localFiles[This]) \in Nat
  BY <1>5, <1>6
<1> QED
  BY <1>4, <1>5, <1>6, <1>7

\* The handlers that place nothing, forget failures at most and leave the maps alone.
LEMMA PlacedHandlers ==
  ASSUME TypesInv, PipeInv, PlacedInv,
         \/ DownloadNothing \/ GotServersForText \/ StartRequest \/ StartRequestWithoutFile
         \/ NextRequest \/ FinishDownloading \/ ApplyPendingCountries \/ ApplyOrDefer
         \/ Forgive \/ Stop \/ RemoveFromQueue \/ CleanUp
         \/ DeleteNothing \/ DeleteCustomCountryVersion
  PROVE  PlacedInv'
<1>1. PipeRest
  BY RestingHandlers, CheckRests, LeavingRests
<1>2. Installing' = {}
  <2>1. ~DownloadFound /\ ~Verified
    BY DEF DownloadFound, Verified, Wanted, Doing, DownloadNothing, GotServersForText,
           StartRequest, StartRequestWithoutFile, NextRequest, FinishDownloading,
           ApplyPendingCountries, ApplyOrDefer, Forgive, Stop, RemoveFromQueue, CleanUp,
           DeleteNothing, DeleteCustomCountryVersion
  <2> QED
    BY <2>1, NextOfHandlers DEF Handlers
<1>3. NotYet' \subseteq NotYet
  BY <1>1, <1>2, NotYetRests DEF PipeRest, NotYet
<1>4. UNCHANGED <<version, localFiles>> /\ failed' \subseteq failed
  BY DEF DownloadNothing, GotServersForText, StartRequest, StartRequestWithoutFile, NextRequest,
         FinishDownloading, ApplyPendingCountries, ApplyOrDefer, Forgive, Stop, RemoveFromQueue,
         CleanUp, DeleteNothing, DeleteCustomCountryVersion, countryVars, checkVars
<1> QED
  BY <1>3, <1>4, PlacedKeep

\* A country that is wanted fails at once, is installed at once, or waits for its request.
LEMMA PlacedWanted ==
  ASSUME TypesInv, TypesInv', PipeInv, PlacedInv,
         DownloadImpossible \/ DownloadFound \/ DownloadQueued
  PROVE  PlacedInv'
<1>1. Wanted /\ UNCHANGED <<version, localFiles>>
  BY DEF DownloadImpossible, DownloadFound, DownloadQueued, countryVars, checkVars
<1>2. /\ This \in Leaves /\ version \notin localFiles[This] /\ This \notin Waiting \cup Checked
      /\ ~HasCall(calls, "clearPending")
  BY <1>1, WantedIsOld, WantedIsNew
<1>3. CASE DownloadImpossible
  <2>1. PipeRest /\ Installing' = {}
    <3>1. ~DownloadFound /\ ~Verified
      BY <1>3 DEF DownloadImpossible, DownloadFound, Verified, Wanted, Doing
    <3> QED
      BY <1>3, <3>1, RestingHandlers, NextOfHandlers DEF Handlers
  <2>2. NotYet' \subseteq Range(queue) \cup Coming \cup Checked
    BY <2>1, NotYetRests DEF PipeRest
  <2>3. This \notin NotYet' /\ NotYet' \subseteq NotYet
    BY <1>2, <2>2, ComingIsApart DEF NotYet, Waiting
  <2>4. failed' = failed \cup {This}
    BY <1>3 DEF DownloadImpossible
  <2> QED
    BY <1>1, <1>2, <2>3, <2>4 DEF PlacedInv
<1>4. CASE DownloadFound
  <2>1. PipeRest /\ failed' = failed \ {This}
    BY <1>4, InstallRests DEF DownloadFound
  <2>2. Installing' \subseteq {This}
    <3> DEFINE t == Task("register", This, 0)
    <3>1. t \in FirstCall /\ t.id = This
      BY <1>2, TaskTypes, Operations DEF LeafOps
    <3>2. ~Idle /\ Call(<<t>>)
      BY <1>1, <1>4 DEF DownloadFound, Wanted, Doing
    <3> HIDE DEF t
    <3>3. Head(calls') = t
      BY <3>1, <3>2, CallsOne
    <3> QED
      BY <3>1, <3>3 DEF Installing, This
  <2>3. NotYet' \subseteq NotYet \cup {This}
    BY <2>1, <2>2, NotYetRests DEF PipeRest, NotYet
  <2> QED
    BY <1>1, <1>2, <2>1, <2>3, PlacedBegins
<1>5. CASE DownloadQueued
  <2>1. PipeInv'
    BY <1>5, PipeQueued
  <2>2. Installing' = {}
    <3>1. ~DownloadFound /\ ~Verified
      BY <1>5 DEF DownloadQueued, DownloadFound, Verified, Wanted, Doing
    <3> QED
      BY <1>5, <3>1, NextOfHandlers DEF Handlers
  <2>3. Range(pending') = Range(pending) \cup {This}
    <3>1. pending \in Seq(Leaves) /\ pending' = Append(pending, This)
      BY <1>5 DEF DownloadQueued, TypesInv, TypeOK
    <3> QED
      BY <1>2, <3>1, MoreValues
  <2>4. Coming' \subseteq Coming \cup {This}
    <3>1. Coming' \subseteq Range(pending')
      BY <2>1 DEF PipeInv, MoveInv, Coming
    <3> QED
      BY <1>2, <2>3, <3>1 DEF Coming
  <2>5. UNCHANGED <<queue, gui, fileThread>> /\ failed' = failed \ {This}
    BY <1>5 DEF DownloadQueued, threadVars
  <2>6. NotYet' \subseteq NotYet \cup {This}
    BY <2>2, <2>4, <2>5 DEF NotYet, Checked, Hashed, Answered
  <2> QED
    BY <1>1, <1>2, <2>5, <2>6, PlacedBegins
<1> QED
  BY <1>3, <1>4, <1>5

\* A verified map is going to be installed; it fails if it was rejected, or is missing.
LEMMA PlacedAnswers ==
  ASSUME TypesInv, PipeInv, PlacedInv, Verified \/ Rejected \/ RegisterMissingFile
  PROVE  PlacedInv'
<1>1. /\ ~Idle /\ Head(calls).op \in AnswerOps \cup {"register"}
      /\ UNCHANGED <<version, localFiles>>
  BY DEF Verified, Rejected, RegisterMissingFile, Doing, AnswerOps, countryVars, checkVars
<1>2. This \in Installing /\ This \in NotYet /\ This \notin Waiting \cup Checked
  BY <1>1 DEF Installing, Calling, NotYet, PipeInv, PlacesOnce
<1>3. PipeRest
  BY RestingHandlers, InstallRests
<1>4. NotYet' \subseteq Range(queue) \cup Coming \cup Checked \cup Installing'
  BY <1>3, NotYetRests DEF PipeRest
<1>5. CASE Verified
  <2>1. This \in Leaves
    BY <1>1, ThisCall DEF AnswerOps, LeafOps
  <2> DEFINE t == Task("register", This, 0)
             u == Do("finish")
  <2>2. t \in FirstCall /\ t.id = This /\ u \in LaterCall
    BY <2>1, TaskTypes, Operations DEF LeafOps
  <2>3. Call(<<t, u>>)
    BY <1>5 DEF Verified
  <2> HIDE DEF t, u
  <2>4. Head(calls') = t
    BY <1>1, <2>2, <2>3, CallsTwo
  <2>5. Installing' \subseteq {This}
    BY <2>2, <2>4 DEF Installing, This
  <2>6. NotYet' \subseteq NotYet /\ failed' = failed
    BY <1>2, <1>4, <1>5, <2>5 DEF Verified, NotYet, countryVars
  <2> QED
    BY <1>1, <2>6, PlacedKeep
<1>6. CASE Rejected \/ RegisterMissingFile
  <2>1. Installing' = {}
    <3>1. ~DownloadFound /\ ~Verified
      BY <1>6 DEF Rejected, RegisterMissingFile, DownloadFound, Verified, Wanted, Doing
    <3> QED
      BY <1>6, <3>1, NextOfHandlers DEF Handlers
  <2>2. This \notin NotYet' /\ NotYet' \subseteq NotYet
    BY <1>2, <1>4, <2>1, ComingIsApart DEF NotYet, Waiting
  <2>3. failed' = failed \cup {This}
    BY <1>6 DEF Rejected, RegisterMissingFile
  <2> QED
    BY <1>1, <1>2, <2>2, <2>3, PlacedFails
<1> QED
  BY <1>5, <1>6

\* A map is installed: its country is on its way no more.
LEMMA PlacedRegister ==
  ASSUME TypesInv, PipeInv, PlacedInv, RegisterDownloadedFiles
  PROVE  PlacedInv'
<1>1. /\ ~Idle /\ Head(calls).op = "register" /\ This \in Leaves
      /\ localFiles' = [localFiles EXCEPT ![This] = @ \cup {version}]
      /\ UNCHANGED <<version, failed>>
  BY ThisCall DEF RegisterDownloadedFiles, Doing, LeafOps, checkVars
<1>2. This \in NotYet /\ This \notin Waiting \cup Checked
  BY <1>1 DEF Installing, Calling, NotYet, PipeInv, PlacesOnce
<1>3. Installing' = {}
  <2>1. ~DownloadFound /\ ~Verified
    BY DEF RegisterDownloadedFiles, DownloadFound, Verified, Wanted, Doing
  <2> QED
    BY <2>1, NextOfHandlers DEF Handlers
<1>4. NotYet' \subseteq Range(queue) \cup Coming \cup Checked
  BY <1>3, RestingHandlers, NotYetRests DEF PipeRest
<1>5. This \notin NotYet' /\ NotYet' \subseteq NotYet
  BY <1>2, <1>4, ComingIsApart DEF NotYet, Waiting
<1>6. This \notin failed
  BY <1>2 DEF PlacedInv
<1>7. localFiles \in [Leaves -> SUBSET Versions] /\ version \in Nat
  BY DEF TypesInv, TypeOK, Versions
<1>8. \A c \in Leaves : c # This => localFiles'[c] = localFiles[c]
  BY <1>1, <1>7
<1>9. localFiles'[This] = localFiles[This] \cup {version}
  BY <1>1, <1>7
<1>10. \A c \in Leaves : \A v \in localFiles'[c] : v <= version'
  BY <1>1, <1>7, <1>8, <1>9 DEF PlacedInv
<1>11. \A c \in Leaves : c \in NotYet' \cup failed' => version' \notin localFiles'[c]
  BY <1>1, <1>5, <1>6, <1>8 DEF PlacedInv
<1> QED
  BY <1>1, <1>5, <1>10, <1>11 DEF PlacedInv

\* The policy forbids a download.
LEMMA PlacedForbidden ==
  ASSUME TypesInv, PipeInv, PlacedInv, RequestForbidden
  PROVE  PlacedInv'
<1>1. /\ queue # <<>> /\ queue' = Tail(queue) /\ failed' = failed \cup {Head(queue)}
      /\ UNCHANGED <<version, localFiles>>
  BY DEF RequestForbidden, TypesInv, checkVars
<1>2. queue \in Seq(Leaves)
  BY DEF TypesInv, TypeOK
<1>3. Head(queue) \in Range(queue) /\ Head(queue) \notin Range(queue')
  BY <1>1, <1>2, OnceValues DEF PipeInv, QueuesOnce
<1>4. PipeRest /\ Installing' = {}
  <2>1. ~DownloadFound /\ ~Verified
    BY DEF RequestForbidden, DownloadFound, Verified, Wanted, Doing
  <2> QED
    BY <2>1, LeavingRests, NextOfHandlers DEF Handlers
<1>5. NotYet' \subseteq Range(queue') \cup Coming \cup Checked
  BY <1>4, NotYetRests
<1>6. Head(queue) \notin Coming /\ Head(queue) \notin Checked
  BY <1>3, ComingIsApart DEF PipeInv, PlacesOnce, Waiting
<1>7. /\ Head(queue) \in NotYet /\ Head(queue) \notin NotYet' /\ NotYet' \subseteq NotYet
  BY <1>3, <1>4, <1>5, <1>6 DEF NotYet, PipeRest
<1> QED
  BY <1>1, <1>7, PlacedFails

\* A new version is applied, of which there are no maps yet, or a map is deleted.
LEMMA PlacedMaps ==
  ASSUME TypesInv, TypesInv', ChecksInv, FilesInv, PipeInv, PlacedInv,
         ApplyCountriesInMemory \/ DeleteCountry
  PROVE  PlacedInv'
<1>1. PipeRest /\ Installing' = {}
  <2>1. ~DownloadFound /\ ~Verified
    BY DEF ApplyCountriesInMemory, DeleteCountry, DownloadFound, Verified, Wanted, Doing
  <2> QED
    BY <2>1, CheckRests, RestingHandlers, NextOfHandlers DEF Handlers
<1>2. NotYet' \subseteq NotYet
  BY <1>1, NotYetRests DEF PipeRest, NotYet
<1>3. failed' = failed
  BY DEF ApplyCountriesInMemory, DeleteCountry
<1>4. CASE ApplyCountriesInMemory
  <2>1. version' = Arg /\ version' > version /\ localFiles' = LocalMaps(Arg)
    BY <1>4, ApplyChecks DEF ApplyCountriesInMemory, RegisterAllLocalMaps
  <2>2. version \in Nat /\ version' \in Nat
    BY DEF TypesInv, TypeOK, Versions
  <2>3. ASSUME NEW c \in Leaves, NEW v \in localFiles'[c]
        PROVE  v <= version' /\ v # version'
    <3>1. v \in Known(disk, c, Arg)
      BY <2>1, <2>3, LocalMapsType
    <3>2. PICK f \in disk : v = f.version
      BY <3>1 DEF Known
    <3>3. v <= version
      BY <3>2 DEF FilesInv
    <3>4. v \in Nat
      <4>1. localFiles' \in [Leaves -> SUBSET Versions] /\ Versions \subseteq Nat
        BY <2>1, LocalMapsType DEF Versions
      <4> QED
        BY <2>3, <4>1
    <3> QED
      BY <2>1, <2>2, <3>3, <3>4
  <2> QED
    BY <1>2, <1>3, <2>3 DEF PlacedInv
<1>5. CASE DeleteCountry
  <2>1. localFiles' = [localFiles EXCEPT ![This] = {}] /\ version' = version
    BY <1>5 DEF DeleteCountry, checkVars
  <2>2. localFiles \in [Leaves -> SUBSET Versions]
    BY DEF TypesInv, TypeOK
  <2>3. \A c \in Leaves : localFiles'[c] \subseteq localFiles[c]
    BY <2>1, <2>2
  <2> QED
    BY <1>2, <1>3, <2>1, <2>3 DEF PlacedInv
<1> QED
  BY <1>4, <1>5

\* The pending requests are moved to the queue, or stay.
LEMMA PlacedMoves ==
  ASSUME TypesInv, TypesInv', PipeInv, PlacedInv,
         StartPending \/ GotServersForMaps \/ EnqueueCountry \/ ClearPending
  PROVE  PlacedInv'
<1>1. /\ UNCHANGED <<version, localFiles, failed, gui, fileThread>>
      /\ pending' = pending \/ pending' = <<>>
  BY DEF StartPending, GotServersForMaps, EnqueueCountry, ClearPending, AskMetaServer,
         queueVars, countryVars, checkVars, threadVars
<1>2. Installing' = {}
  <2>1. ~DownloadFound /\ ~Verified
    BY DEF StartPending, GotServersForMaps, EnqueueCountry, ClearPending, DownloadFound, Verified,
           Wanted, Doing
  <2> QED
    BY <2>1, NextOfHandlers DEF Handlers
<1>3. Checked' = Checked
  BY <1>1 DEF Checked, Hashed, Answered
<1>4. CASE StartPending \/ GotServersForMaps
  <2>1. PipeInv' /\ UNCHANGED <<queue, pending>>
    BY <1>4, PipePending DEF StartPending, GotServersForMaps, AskMetaServer, queueVars
  <2>2. ~HasCall(calls, "clearPending")
    <3>1. ~Idle /\ Head(calls).op \in {"startPending", "downloadPending"}
      BY <1>4 DEF StartPending, GotServersForMaps, Doing
    <3> QED
      BY <3>1, NothingMoves DEF PipeInv, MoveOps
  <2>3. Coming' \subseteq Coming
    BY <2>1, <2>2 DEF PipeInv, MoveInv, Coming
  <2>4. NotYet' \subseteq NotYet
    BY <1>2, <1>3, <2>1, <2>3 DEF NotYet
  <2> QED
    BY <1>1, <2>4, PlacedKeep
<1>5. CASE EnqueueCountry
  <2>1. StackKept /\ This \in Moved /\ HasCall(calls, "clearPending")
    BY <1>5, PipeEnqueue
  <2>2. Coming' \subseteq Coming /\ This \in Coming
    BY <2>1 DEF StackKept, Coming
  <2>3. Range(queue') = Range(queue) \cup {This}
    <3>1. queue' = Append(queue, This) /\ queue \in Seq(Leaves) /\ This \in Leaves
      BY <1>5, ThisCall DEF EnqueueCountry, Doing, LeafOps, TypesInv, TypeOK
    <3> QED
      BY <3>1, MoreValues
  <2>4. NotYet' \subseteq NotYet
    BY <1>2, <1>3, <2>2, <2>3 DEF NotYet
  <2> QED
    BY <1>1, <2>4, PlacedKeep
<1>6. CASE ClearPending
  <2>1. PipeInv' /\ queue' = queue /\ pending' = <<>>
    BY <1>6, PipeClear DEF ClearPending
  <2>2. Coming' = {}
    <3>1. Range(pending') = {}
      BY <2>1 DEF Range
    <3>2. Coming' \subseteq Range(pending')
      BY <2>1 DEF PipeInv, MoveInv, Coming
    <3> QED
      BY <3>1, <3>2
  <2>3. NotYet' \subseteq NotYet
    BY <1>2, <1>3, <2>1, <2>2 DEF NotYet
  <2> QED
    BY <1>1, <2>3, PlacedKeep
<1> QED
  BY <1>4, <1>5, <1>6

\* Every handler keeps what is on its way apart from what is there.
LEMMA PlacedCalls ==
  ASSUME TypesInv, TypesInv', ChecksInv, FilesInv, PipeInv, PlacedInv, Handlers
  PROVE  PlacedInv'
BY PlacedHandlers, PlacedWanted, PlacedAnswers, PlacedRegister, PlacedForbidden, PlacedMaps,
   PlacedMoves DEF Handlers

\* A request ends: its country is verified next, or fails.
LEMMA PlacedRequest ==
  ASSUME TypesInv, PipeInv, PlacedInv, Download
  PROVE  PlacedInv'
<1>1. /\ PipeInv' /\ Installing' = {} /\ Checked' \subseteq Checked \cup {request.id}
      /\ request.id \in Range(queue) /\ request.id \notin Waiting'
  BY PipeRequest DEF Download
<1>2. /\ Idle /\ queue # <<>> /\ queue' = Tail(queue)
      /\ UNCHANGED <<version, localFiles, pending, gui>>
  BY DEF Download, RequestFailed, RequestCompleted, IsOfTheTop, Event, checkVars
<1>3. Coming' \subseteq Coming /\ Coming' \subseteq Waiting'
  <2>1. Coming = Range(pending)
    BY <1>2, NothingRuns DEF Coming
  <2>2. Coming' \subseteq Range(pending')
    BY <1>1 DEF PipeInv, MoveInv, Coming
  <2> QED
    BY <1>2, <2>1, <2>2 DEF Waiting
<1>4. Range(queue') \subseteq Range(queue) /\ Range(queue') \subseteq Waiting'
  BY <1>2, FewerValues DEF TypesInv, TypeOK, Waiting
<1>5. request.id \in NotYet /\ request.id \in Waiting
  BY <1>1 DEF NotYet, Waiting
<1>6. NotYet' \subseteq NotYet
  BY <1>1, <1>3, <1>4, <1>5 DEF NotYet
<1>7. CASE failed' = failed
  BY <1>2, <1>6, <1>7, PlacedKeep
<1>8. CASE RequestFailed
  <2>1. fileThread' = fileThread /\ failed' = failed \cup {request.id}
    BY <1>8 DEF RequestFailed, threadVars
  <2>2. Checked' = Checked
    BY <1>2, <2>1 DEF Checked, Hashed, Answered
  <2>3. request.id \notin NotYet'
    BY <1>1, <1>3, <1>4, <1>5, <2>2 DEF NotYet, PipeInv, PlacesOnce
  <2> QED
    BY <1>2, <1>5, <1>6, <2>1, <2>3, PlacedFails
<1> QED
  BY <1>7, <1>8 DEF Download, RequestCompleted

\* An event begins, or the GUI thread takes its next task.
LEMMA PlacedEvents ==
  ASSUME "impatient" \notin Events, LeavesOnce, TypesInv, PipeInv, PlacedInv,
         \/ RunGuiTask \/ TextRefused \/ FetchFailed
         \/ \E n \in Nodes : DownloadNode(n) \/ RetryDownloadNode(n)
                             \/ CancelDownloadNode(n) \/ DeleteNode(n)
  PROVE  PlacedInv'
<1>1. Idle /\ UNCHANGED <<version, localFiles, failed, queue, pending>>
  BY DEF RunGuiTask, TextRefused, FetchFailed, DownloadNode, RetryDownloadNode, CancelDownloadNode,
         DeleteNode, Event, queueVars, countryVars, checkVars
<1>2. PipeInv' /\ Installing' \cup Checked' \subseteq Checked
  <2>1. ASSUME NEW n \in Nodes, DownloadNode(n) \/ RetryDownloadNode(n)
                                \/ CancelDownloadNode(n) \/ DeleteNode(n)
        PROVE  PipeInv' /\ Installing' \cup Checked' \subseteq Checked
    <3>1. PipeInv' /\ Installing' = {}
      BY <2>1, PipeUser
    <3>2. UNCHANGED <<gui, fileThread>>
      BY <2>1 DEF DownloadNode, RetryDownloadNode, CancelDownloadNode, DeleteNode, threadVars
    <3> QED
      BY <3>1, <3>2 DEF Checked, Hashed, Answered
  <2> QED
    BY <2>1, PipeTask
<1>3. Coming' \subseteq Coming
  <2>1. Coming = Range(pending)
    BY <1>1, NothingRuns DEF Coming
  <2>2. Coming' \subseteq Range(pending')
    BY <1>2 DEF PipeInv, MoveInv, Coming
  <2> QED
    BY <1>1, <2>1, <2>2
<1>4. NotYet' \subseteq NotYet
  BY <1>1, <1>2, <1>3 DEF NotYet
<1> QED
  BY <1>1, <1>4, PlacedKeep

\* The other threads and the environment.
LEMMA PlacedThreads ==
  ASSUME TypesInv, ChecksInv, PipeInv, PlacedInv,
         \/ FileThread \/ GetMetaConfig \/ Release \/ CountriesFetched \/ SignatureFetched
         \/ ResetMapDownloadMetaConfig \/ RunCountriesCheck \/ \E v \in Versions : MapsFetched(v)
         \/ \E c \in Leaves : FindBadMap(c)
         \/ UNCHANGED vars
  PROVE  PlacedInv'
<1>1. UNCHANGED <<version, localFiles, failed, queue, pending, calls>>
  BY DEF FileThread, CheckSha, RemoveCountriesTxt, RenameCountriesTxt, SaveCountriesFails,
         GetMetaConfig, Release, ReleaseMap, CountriesFetched, SignatureFetched,
         ResetMapDownloadMetaConfig, RunCountriesCheck, MapsFetched, FindBadMap, vars,
         queueVars, countryVars, checkVars
<1>2. Checked' \subseteq Checked
  BY PipeSha, PipeSaves, PipeFetch DEF FileThread, Release
<1>3. Coming' = Coming /\ Installing' = Installing
  BY <1>1 DEF Coming, Moved, Installing, Calling, Idle, This
<1>4. NotYet' \subseteq NotYet
  BY <1>1, <1>2, <1>3 DEF NotYet
<1> QED
  BY <1>1, <1>4, PlacedKeep

\* After a restart nothing is on its way, and no map is newer than the version.
LEMMA PlacedRestart ==
  ASSUME TypesInv, TypesInv', PipeInv, Restart
  PROVE  PlacedInv'
<1>1. PipeInv' /\ Installing' = {}
  BY PipeRestart
<1>2. /\ queue' = <<>> /\ pending' = <<>> /\ gui' = <<>> /\ fileThread' = <<>> /\ failed' = {}
      /\ localFiles' = LocalMaps(version')
  BY DEF Restart, RegisterAllLocalMaps
<1>3. NotYet' = {}
  <2>1. Coming' \subseteq Range(pending')
    BY <1>1 DEF PipeInv, MoveInv, Coming
  <2> QED
    BY <1>1, <1>2, <2>1 DEF NotYet, Checked, Hashed, Answered, Ids, Range
<1>4. ASSUME NEW c \in Leaves, NEW v \in localFiles'[c]
      PROVE  v <= version'
  <2>1. v \in Known(disk, c, version')
    BY <1>2, <1>4, LocalMapsType
  <2> QED
    BY <2>1 DEF Known
<1> QED
  BY <1>2, <1>3, <1>4 DEF PlacedInv

\* Every step.
LEMMA PlacedStep ==
  ASSUME "impatient" \notin Events, LeavesOnce, TypesInv, TypesInv', ChecksInv, FilesInv,
         PipeInv, PlacedInv, [Next]_vars
  PROVE  PlacedInv'
<1>1. CASE Environment
  BY <1>1, PlacedEvents, PlacedThreads, PlacedRestart DEF Environment
<1>2. CASE GuiThread
  BY <1>2, PlacedCalls, PlacedEvents DEF GuiThread
<1>3. CASE Download
  BY <1>3, PlacedRequest
<1>4. CASE Fetch
  BY <1>4, PlacedEvents, PlacedThreads DEF Fetch
<1>5. CASE FileThread \/ GetMetaConfig \/ Release \/ UNCHANGED vars
  BY <1>5, PlacedThreads
<1> QED
  BY <1>1, <1>2, <1>3, <1>4, <1>5 DEF Next

\* At first nothing is on its way, and every map is of the first version.
LEMMA PlacedInit == Init => PlacedInv
<1> SUFFICES ASSUME Init PROVE PlacedInv
  OBVIOUS
<1>1. /\ queue = <<>> /\ pending = <<>> /\ calls = <<>> /\ gui = <<>> /\ fileThread = <<>>
      /\ failed = {} /\ version = Bundled
  BY DEF Init
<1>2. PICK installed \in SUBSET Leaves :
        localFiles = [c \in Leaves |-> IF c \in installed THEN {Bundled} ELSE {}]
  BY DEF Init
<1>3. NotYet = {}
  <2>1. Installing = {} /\ Coming = {}
    BY <1>1, NothingRuns DEF Idle, Coming, Range
  <2> QED
    BY <1>1, <2>1 DEF NotYet, Checked, Hashed, Answered, Ids, Range
<1>4. Bundled \in Nat /\ \A c \in Leaves : localFiles[c] \subseteq {Bundled}
  BY <1>2, VersionAssumption
<1> QED
  BY <1>1, <1>3, <1>4 DEF PlacedInv

\* The file waits for its deletion: it is in use, or the deletion was posted.
Waits(c, v) == <<c, v>> \in doomed \/ IsPosted(c, v)

\* What waits is older than the version of the application, and than the map that is shown.
OldFilesWait ==
  \A c \in Leaves : \A v \in Versions :
    Waits(c, v) => v < version /\ (mwm[c] = 0 \/ v < mwm[c])

\* The user deletes no map that is in use.
NoneInUseIsDeleted == [][DeleteCountry => doomed' = doomed]_vars

\* Then the map that is shown for a country is the newest one it has.
LEMMA FilesAreOld ==
  ASSUME TypesInv, FilesInv, OldFilesWait, NEW f \in disk
  PROVE  f.version <= version /\ (mwm[f.id] = 0 \/ f.version <= mwm[f.id])
<1>1. f.version <= version /\ IsKnown(f) /\ f.id \in Leaves /\ f.version \in Versions
  BY DEF FilesInv, TypesInv, TypeOK
<1>2. f.version \in Nat /\ mwm[f.id] \in Nat
  BY <1>1 DEF TypesInv, TypeOK, Versions
<1>3. CASE Waits(f.id, f.version)
  BY <1>1, <1>2, <1>3 DEF OldFilesWait
<1>4. CASE mwm[f.id] = f.version
  BY <1>1, <1>2, <1>4
<1> QED
  BY <1>1, <1>3, <1>4 DEF IsKnown, Waits

\* Nothing new waits, and the maps and their versions stay or become newer.
LEMMA OldKeep ==
  ASSUME TypesInv, OldFilesWait, mwm' = mwm, version' = version \/ version' > version,
         version' \in Nat, \A c \in Leaves : \A v \in Versions : Waits(c, v)' => Waits(c, v)
  PROVE  OldFilesWait'
<1>1. SUFFICES ASSUME NEW c \in Leaves, NEW v \in Versions, Waits(c, v)
               PROVE  v < version' /\ (mwm[c] = 0 \/ v < mwm[c])
  BY DEF OldFilesWait
<1>2. v < version /\ (mwm[c] = 0 \/ v < mwm[c])
  BY <1>1 DEF OldFilesWait
<1>3. v \in Nat /\ version \in Nat
  BY DEF TypesInv, TypeOK, Versions
<1> QED
  BY <1>2, <1>3

\* The next call, when what runs waited.
LEMMA LaterDeletesNothing ==
  ASSUME calls' \in Seq(LaterCall)
  PROVE  ~Doing("deleteFile")'
<1>1. \A t \in LaterCall : t.op # "deleteFile"
  BY DEF LaterCall, LeafTask, PlainTask
<1>2. calls' # <<>> => Head(calls') \in LaterCall
  OBVIOUS
<1> QED
  BY <1>1, <1>2 DEF Doing, Idle

\* If no deletion runs, then what is posted is a task of the GUI thread.
LEMMA PostedTasks ==
  ASSUME ~Doing("deleteFile"), NEW c, NEW v, IsPosted(c, v)
  PROVE  Task("deleteFile", c, v) \in Range(gui)
BY Operations DEF IsPosted, Doing

\* A handler posts no deletion.
LEMMA HandlersPostNothing ==
  ASSUME TypesInv, Handlers
  PROVE  \A c, v : IsPosted(c, v)' => IsPosted(c, v)
<1>1. gui' = gui
  BY DEF Handlers, DownloadNothing, DownloadImpossible, DownloadFound, DownloadQueued,
         StartPending, GotServersForMaps, GotServersForText, EnqueueCountry, ClearPending,
         StartRequest, StartRequestWithoutFile, RequestForbidden, NextRequest, Verified,
         Rejected, RegisterDownloadedFiles, RegisterMissingFile, FinishDownloading,
         ApplyPendingCountries, ApplyCountriesInMemory, ApplyOrDefer, Forgive, Stop,
         RemoveFromQueue, CleanUp, DeleteCountry, DeleteNothing, DeleteCustomCountryVersion
<1>2. ~Doing("deleteFile")'
  <2>1. CASE DownloadFound \/ Verified
    <3> DEFINE t == Task("register", This, 0)
               u == Do("finish")
    <3>1. ~Idle /\ This \in Leaves /\ (Call(<<t>>) \/ Call(<<t, u>>))
      BY <2>1, ThisCall DEF DownloadFound, Verified, Wanted, Doing, LeafOps
    <3>2. t \in FirstCall /\ t.op = "register" /\ u \in LaterCall
      BY <3>1, TaskTypes, Operations DEF LeafOps
    <3> HIDE DEF t, u
    <3>3. Head(calls') = t
      BY <3>1, <3>2, CallsOne, CallsTwo
    <3> QED
      BY <3>2, <3>3 DEF Doing
  <2>2. CASE ~DownloadFound /\ ~Verified
    BY <2>2, NextOfHandlers DEF QuietNext, InstallOps, Doing, Idle
  <2> QED
    BY <2>1, <2>2
<1> QED
  BY <1>1, <1>2, Operations DEF IsPosted, Doing

\* A map that is replaced is of an older version; that of a deleted one is not in use.
LEMMA HandlersOld ==
  ASSUME TypesInv, TypesInv', ChecksInv, ShownInv, OldFilesWait, Handlers,
         DeleteCountry => doomed' = doomed
  PROVE  OldFilesWait'
<1>1. \A c, v : IsPosted(c, v)' => IsPosted(c, v)
  BY HandlersPostNothing
<1>2. /\ mwm \in [Leaves -> 0..MaxVersion] /\ version \in Nat /\ version' \in Nat
      /\ \A v \in Versions : v \in Nat
      /\ \A c \in Leaves : mwm[c] \in Nat
  <2>1. /\ mwm \in [Leaves -> 0..MaxVersion] /\ version \in Versions
        /\ version' \in Versions
    BY DEF TypesInv, TypeOK
  <2>2. \A v \in 0..MaxVersion : v \in Nat
    BY VersionAssumption
  <2>3. \A v \in Versions : v \in Nat
    BY VersionAssumption DEF Versions
  <2> QED
    BY <2>1, <2>2, <2>3
<1>3. CASE RegisterDownloadedFiles
  <2> DEFINE c == This
             replaced == mwm[c] \notin {0, version}
  <2>1. c \in Leaves /\ version' = version /\ mwm' = [mwm EXCEPT ![c] = version]
    BY <1>3, ThisCall DEF RegisterDownloadedFiles, Doing, LeafOps, checkVars
  <2>2. PICK held \in MayBeHeld :
          doomed' = (doomed \ {<<c, version>>}) \cup IF replaced THEN Dooms(c, held) ELSE {}
    BY <1>3 DEF RegisterDownloadedFiles
  <2>3. SUFFICES ASSUME NEW d \in Leaves, NEW v \in Versions, Waits(d, v)'
                 PROVE  v < version /\ (mwm'[d] = 0 \/ v < mwm'[d])
    BY <2>1 DEF OldFilesWait
  <2>4. CASE Waits(d, v)
    <3>1. v < version /\ (mwm[d] = 0 \/ v < mwm[d])
      BY <2>4 DEF OldFilesWait
    <3> QED
      BY <1>2, <2>1, <3>1
  <2>5. CASE ~Waits(d, v)
    <3>1. replaced /\ <<d, v>> \in Dooms(c, held)
      BY <1>1, <2>2, <2>3, <2>5 DEF Waits
    <3>2. d = c /\ v = mwm[c]
      BY <3>1 DEF Dooms
    <3>3. v < version
      BY <1>2, <2>1, <3>1, <3>2 DEF ShownInv
    <3> QED
      BY <1>2, <2>1, <3>2, <3>3
  <2> QED
    BY <2>4, <2>5
<1>4. CASE DeleteCountry
  <2>1. version' = version /\ mwm' = [mwm EXCEPT ![This] = 0] /\ doomed' = doomed
    BY <1>4 DEF DeleteCountry, checkVars
  <2>2. \A d \in Leaves : mwm'[d] = 0 \/ mwm'[d] = mwm[d]
    BY <1>2, <2>1
  <2> QED
    BY <1>1, <2>1, <2>2 DEF OldFilesWait, Waits
<1>5. CASE ~RegisterDownloadedFiles /\ ~DeleteCountry
  <2>1. mwm' = mwm /\ doomed' = doomed
    BY <1>5
    DEF Handlers, DownloadNothing, DownloadImpossible, DownloadFound, DownloadQueued,
        StartPending, GotServersForMaps, GotServersForText, EnqueueCountry, ClearPending,
        StartRequest, StartRequestWithoutFile, RequestForbidden, NextRequest, Verified,
        Rejected, RegisterMissingFile, FinishDownloading, ApplyPendingCountries,
        ApplyCountriesInMemory, ApplyOrDefer, Forgive, Stop, RemoveFromQueue, CleanUp,
        DeleteNothing, DeleteCustomCountryVersion, mwmVars
  <2>2. version' = version \/ version' > version
    <3>1. CASE ApplyCountriesInMemory
      BY <3>1, ApplyChecks
    <3>2. CASE ~ApplyCountriesInMemory
      BY <1>5, <3>2
      DEF Handlers, DownloadNothing, DownloadImpossible, DownloadFound, DownloadQueued,
          StartPending, GotServersForMaps, GotServersForText, EnqueueCountry, ClearPending,
          StartRequest, StartRequestWithoutFile, RequestForbidden, NextRequest, Verified,
          Rejected, RegisterMissingFile, FinishDownloading, ApplyPendingCountries, ApplyOrDefer,
          Forgive, Stop, RemoveFromQueue, CleanUp, DeleteNothing, DeleteCustomCountryVersion,
          checkVars
    <3> QED
      BY <3>1, <3>2
  <2> QED
    BY <1>1, <1>2, <2>1, <2>2, OldKeep DEF Waits
<1> QED
  BY <1>3, <1>4, <1>5

\* The other threads post no deletion.
LEMMA ThreadsOld ==
  ASSUME TypesInv, ChecksInv, OldFilesWait, FileThread \/ GetMetaConfig \/ Fetch
  PROVE  OldFilesWait'
<1>1. gui' = gui \/ \E t \in GuiTask : t.op # "deleteFile" /\ gui' = Append(gui, t)
  <2>1. CASE CheckSha
    <3>1. Head(fileThread).id \in Leaves
      BY <2>1, TakeType, TaskFields DEF CheckSha
    <3>2. \A op \in {"verified", "rejected"} :
            Task(op, Head(fileThread).id, 0) \in GuiTask /\ Task(op, Head(fileThread).id, 0).op = op
      BY <3>1, TaskTypes, Operations
    <3>3. \E op \in {"verified", "rejected"} : gui' = Append(gui, Task(op, Head(fileThread).id, 0))
      BY <2>1 DEF CheckSha
    <3> QED
      BY <3>2, <3>3
  <2>2. CASE \/ RemoveCountriesTxt \/ RenameCountriesTxt \/ SaveCountriesFails
             \/ TextRefused \/ FetchFailed \/ CountriesFetched
    BY <2>2 DEF RemoveCountriesTxt, RenameCountriesTxt, SaveCountriesFails, TextRefused,
                FetchFailed, CountriesFetched
  <2>3. CASE GetMetaConfig
    <3>1. Head(network) \in NetworkTask
      BY <2>3, TakeType DEF GetMetaConfig
    <3>2. Head(network) \in GuiTask /\ Head(network).op # "deleteFile"
      BY <3>1, TaskTypes DEF NetworkTask, PlainTask, ServerOps
    <3> QED
      BY <2>3, <3>2 DEF GetMetaConfig
  <2>4. CASE SignatureFetched
    <3>1. latest \in Versions
      BY <2>4, VersionAssumption
      DEF ChecksInv, NewerInv, SignatureFetched, TypesInv, TypeOK, Versions
    <3> QED
      BY <2>4, <3>1, TaskTypes, Operations DEF SignatureFetched
  <2> QED
    BY <2>1, <2>2, <2>3, <2>4 DEF FileThread, Fetch
<1>2. \A c, v : Task("deleteFile", c, v) \in Range(gui') => Task("deleteFile", c, v) \in Range(gui)
  <2>1. ASSUME NEW t \in GuiTask, t.op # "deleteFile", gui' = Append(gui, t)
        PROVE  \A c, v : Task("deleteFile", c, v) \in Range(gui') =>
                           Task("deleteFile", c, v) \in Range(gui)
    <3>1. Range(gui') = Range(gui) \cup {t}
      BY <2>1, MoreValues DEF TypesInv
    <3> QED
      BY <2>1, <3>1, Operations
  <2> QED
    BY <1>1, <2>1
<1>3. UNCHANGED <<mwm, doomed, version>>
  BY DEF FileThread, CheckSha, RemoveCountriesTxt, RenameCountriesTxt, SaveCountriesFails,
         GetMetaConfig, Fetch, TextRefused, FetchFailed, CountriesFetched, SignatureFetched,
         mwmVars, checkVars
<1>4. calls' = calls \/ ~Doing("deleteFile")'
  <2>1. CASE TextRefused \/ FetchFailed
    BY <2>1, Operations DEF TextRefused, FetchFailed, GiveUpCheck, Doing
  <2> QED
    BY <2>1
    DEF FileThread, CheckSha, RemoveCountriesTxt, RenameCountriesTxt, SaveCountriesFails,
        GetMetaConfig, Fetch, CountriesFetched, SignatureFetched
<1>5. \A c, v : IsPosted(c, v)' => IsPosted(c, v)
  BY <1>2, <1>4, Operations DEF IsPosted, Doing, Idle
<1>6. version \in Nat
  BY DEF TypesInv, TypeOK, Versions
<1> QED
  BY <1>3, <1>5, <1>6, OldKeep DEF Waits

\* A file that is in use is deleted by its last user; its deletion waits or runs.
LEMMA TasksOld ==
  ASSUME TypesInv, OldFilesWait, RunGuiTask \/ Release
  PROVE  OldFilesWait'
<1>1. version \in Nat
  BY DEF TypesInv, TypeOK, Versions
<1>2. CASE RunGuiTask
  <2>1. /\ Idle /\ gui # <<>> /\ gui' = Tail(gui) /\ calls' = <<Head(gui)>>
        /\ UNCHANGED <<doomed, mwm, version>> /\ gui \in Seq(GuiTask)
    BY <1>2 DEF RunGuiTask, mwmVars, checkVars, TypesInv
  <2>2. Range(Tail(gui)) \subseteq Range(gui)
    BY <2>1, FewerValues
  <2>3. Head(gui) \in Range(gui)
    <3>1. Head(gui) = gui[1] /\ 1 \in DOMAIN gui
      BY <2>1, EmptySeq, LenProperties, HeadTailProperties
    <3> QED
      BY <3>1 DEF Range
  <2>4. Head(calls') = Head(gui)
    BY <2>1
  <2>5. \A c, v : IsPosted(c, v)' => IsPosted(c, v)
    BY <2>1, <2>2, <2>3, <2>4 DEF IsPosted
  <2> QED
    BY <1>1, <2>1, <2>5, OldKeep DEF Waits
<1>3. CASE Release
  <2>1. PICK d \in Leaves, w \in Versions : ReleaseMap(d, w)
    BY <1>3 DEF Release
  <2>2. /\ <<d, w>> \in doomed /\ doomed' \subseteq doomed /\ gui' = Append(gui, Task("deleteFile", d, w))
        /\ UNCHANGED <<calls, mwm, version>>
    BY <2>1 DEF ReleaseMap, checkVars
  <2>3. Range(gui') = Range(gui) \cup {Task("deleteFile", d, w)}
    BY <2>2, TaskTypes, MoreValues DEF TypesInv
  <2>4. ASSUME NEW c \in Leaves, NEW v \in Versions, Waits(c, v)'
        PROVE  Waits(c, v)
    <3>1. CASE Task("deleteFile", c, v) = Task("deleteFile", d, w)
      <4>1. c = d /\ v = w
        BY <3>1, Operations
      <4> QED
        BY <2>2, <4>1 DEF Waits
    <3>2. CASE Task("deleteFile", c, v) # Task("deleteFile", d, w)
      BY <2>2, <2>3, <2>4, <3>2 DEF Waits, IsPosted, Idle
    <3> QED
      BY <3>1, <3>2
  <2> QED
    BY <1>1, <2>2, <2>4, OldKeep
<1> QED
  BY <1>2, <1>3

\* Only old files wait, after every step.
LEMMA OldStep ==
  ASSUME "impatient" \notin Events, LeavesOnce, \A c \in Leaves : ~FindBadMap(c),
         DeleteCountry => doomed' = doomed,
         TypesInv, TypesInv', ChecksInv, PipeInv, ShownInv, OldFilesWait, [Next]_vars
  PROVE  OldFilesWait'
<1>1. version \in Nat
  BY DEF TypesInv, TypeOK, Versions
<1>2. ASSUME NEW n \in Nodes, DownloadNode(n) \/ RetryDownloadNode(n)
                              \/ CancelDownloadNode(n) \/ DeleteNode(n)
      PROVE  OldFilesWait'
  <2>1. ~Doing("deleteFile")'
    BY <1>2, PipeUser, LaterDeletesNothing
  <2>2. UNCHANGED <<doomed, mwm, version, gui>>
    BY <1>2 DEF DownloadNode, RetryDownloadNode, CancelDownloadNode, DeleteNode, mwmVars, checkVars
  <2>3. \A c, v : IsPosted(c, v)' => IsPosted(c, v)
    BY <2>1, <2>2, Operations DEF IsPosted, Doing
  <2> QED
    BY <1>1, <2>2, <2>3, OldKeep DEF Waits
<1>3. CASE \/ ResetMapDownloadMetaConfig \/ RunCountriesCheck \/ \E v \in Versions : MapsFetched(v)
           \/ UNCHANGED vars
  <2>1. UNCHANGED <<doomed, mwm, version, gui, calls>>
    BY <1>3 DEF ResetMapDownloadMetaConfig, RunCountriesCheck, MapsFetched, vars, mwmVars, checkVars
  <2> QED
    BY <1>1, <2>1, OldKeep DEF Waits, IsPosted, Idle
<1>4. CASE Restart
  <2>1. ~Doing("deleteFile")'
    BY <1>4, PipeRestart, LaterDeletesNothing
  <2>2. gui' = <<>> /\ doomed' = {}
    BY <1>4 DEF Restart
  <2>3. Range(gui') = {}
    BY <2>2 DEF Range
  <2>4. \A c, v : ~Waits(c, v)'
    BY <2>1, <2>2, <2>3, Operations DEF Waits, IsPosted, Doing
  <2> QED
    BY <2>4 DEF OldFilesWait
<1>5. CASE Download
  <2>1. calls' = <<Do("next")>> \/ calls' = <<Do("finish"), Do("next")>>
    BY <1>5 DEF Download, RequestFailed, RequestCompleted
  <2>2. ~Doing("deleteFile")'
    BY <2>1, Operations DEF Doing
  <2>3. UNCHANGED <<doomed, mwm, version, gui>>
    BY <1>5 DEF Download, RequestFailed, RequestCompleted, mwmVars, checkVars
  <2>4. \A c, v : IsPosted(c, v)' => IsPosted(c, v)
    BY <2>2, <2>3, Operations DEF IsPosted, Doing
  <2> QED
    BY <1>1, <2>3, <2>4, OldKeep DEF Waits
<1> QED
  BY <1>2, <1>3, <1>4, <1>5, HandlersOld, ThreadsOld, TasksOld DEF Next, Environment, GuiThread

\* Only these steps touch the files.
LEMMA DiskChanges ==
  ASSUME [Next]_vars
  PROVE  \/ Restart \/ RegisterDownloadedFiles \/ RegisterMissingFile \/ DeleteCountry
         \/ ApplyCountriesInMemory \/ DeleteCustomCountryVersion
         \/ disk' = disk
<1>1. CASE Handlers
  BY <1>1
  DEF Handlers, DownloadNothing, DownloadImpossible, DownloadFound, DownloadQueued,
      StartPending, GotServersForMaps, GotServersForText, EnqueueCountry, ClearPending,
      StartRequest, StartRequestWithoutFile, RequestForbidden, NextRequest, Verified,
      Rejected, FinishDownloading, ApplyPendingCountries, ApplyOrDefer, Forgive, Stop,
      RemoveFromQueue, CleanUp, DeleteNothing, diskVars
<1>2. CASE Environment
  BY <1>2
  DEF Environment, DownloadNode, RetryDownloadNode, CancelDownloadNode, DeleteNode,
      ResetMapDownloadMetaConfig, RunCountriesCheck, MapsFetched, FindBadMap, diskVars
<1>3. CASE RunGuiTask \/ Download \/ Fetch \/ FileThread \/ GetMetaConfig \/ Release
             \/ UNCHANGED vars
  BY <1>3
  DEF RunGuiTask, Download, RequestFailed, RequestCompleted, Fetch, TextRefused, FetchFailed,
      CountriesFetched, SignatureFetched, FileThread, CheckSha, RemoveCountriesTxt,
      RenameCountriesTxt, SaveCountriesFails, GetMetaConfig, Release, ReleaseMap,
      diskVars, vars
<1> QED
  BY <1>1, <1>2, <1>3 DEF Next, GuiThread

\* A map that is installed has its file, and the others keep theirs.
LEMMA ShownRegister ==
  ASSUME TypesInv, ShownMapsHaveFiles, RegisterDownloadedFiles
  PROVE  ShownMapsHaveFiles'
<1> DEFINE file == Of(ready, This, version)
<1>1. This \in Leaves /\ file # {} /\ mwm' = [mwm EXCEPT ![This] = version]
  BY ThisCall DEF RegisterDownloadedFiles, Doing, LeafOps
<1>2. /\ file \subseteq disk'
      /\ \A f \in disk : f.id # This => f \in disk'
  BY DEF RegisterDownloadedFiles, Of, Deletes
<1>3. mwm \in [Leaves -> 0..MaxVersion]
  BY DEF TypesInv, TypeOK
<1>4. SUFFICES ASSUME NEW c \in Leaves, mwm'[c] # 0
               PROVE  \E f \in disk' : f.id = c /\ f.version = mwm'[c]
  BY DEF ShownMapsHaveFiles, Of
<1>5. CASE c = This
  <2>1. mwm'[c] = version
    BY <1>1, <1>3, <1>5
  <2>2. PICK f \in file : TRUE
    BY <1>1
  <2>3. f \in disk' /\ f.id = c /\ f.version = version
    BY <1>2, <1>5, <2>2 DEF Of
  <2> QED
    BY <2>1, <2>3
<1>6. CASE c # This
  <2>1. mwm'[c] = mwm[c]
    BY <1>1, <1>3, <1>6
  <2>2. PICK f \in disk : f.id = c /\ f.version = mwm[c]
    BY <1>4, <2>1 DEF ShownMapsHaveFiles, Of
  <2> QED
    BY <1>2, <1>6, <2>1, <2>2
<1> QED
  BY <1>5, <1>6

\* A map that is deleted is shown no more.
LEMMA ShownDelete ==
  ASSUME TypesInv, ShownMapsHaveFiles, DeleteCountry
  PROVE  ShownMapsHaveFiles'
<1>1. mwm' = [mwm EXCEPT ![This] = 0] /\ mwm \in [Leaves -> 0..MaxVersion]
  BY DEF DeleteCountry, TypesInv, TypeOK
<1>2. \A f \in disk : f.id # This => f \in disk'
  BY DEF DeleteCountry, Of, Deletes
<1>3. SUFFICES ASSUME NEW c \in Leaves, mwm'[c] # 0
               PROVE  \E f \in disk' : f.id = c /\ f.version = mwm'[c]
  BY DEF ShownMapsHaveFiles, Of
<1>4. c # This /\ mwm'[c] = mwm[c]
  BY <1>1, <1>3
<1>5. PICK f \in disk : f.id = c /\ f.version = mwm[c]
  BY <1>3, <1>4 DEF ShownMapsHaveFiles, Of
<1> QED
  BY <1>2, <1>4, <1>5

\* A new version is applied: the map that is shown is the newest one of its country, so that
\* it is the one that RegisterAllLocalMaps keeps.
LEMMA ShownApply ==
  ASSUME TypesInv, ChecksInv, FilesInv, OldFilesWait, ShownMapsHaveFiles, ApplyCountriesInMemory
  PROVE  ShownMapsHaveFiles'
<1>1. /\ version' = Arg /\ Arg > version /\ mwm' = mwm
      /\ disk' = {f \in disk : f.version > Arg \/ f.version \in LocalMaps(Arg)[f.id]}
  BY ApplyChecks DEF ApplyCountriesInMemory, RegisterAllLocalMaps, mwmVars
<1>2. SUFFICES ASSUME NEW c \in Leaves, mwm[c] # 0
               PROVE  \E f \in disk' : f.id = c /\ f.version = mwm[c]
  BY <1>1 DEF ShownMapsHaveFiles, Of
<1>3. PICK f \in disk : f.id = c /\ f.version = mwm[c]
  BY <1>2 DEF ShownMapsHaveFiles, Of
<1>4. Arg \in Nat /\ version \in Nat /\ f.version \in Nat
  <2>1. ~Idle /\ Head(calls).op = "apply"
    BY DEF ApplyCountriesInMemory, Doing
  <2>2. Arg \in Versions
    BY <2>1, ThisCall, Operations
  <2> QED
    BY <1>3, <2>2 DEF TypesInv, TypeOK, Versions
<1>5. f.version <= Arg
  BY <1>1, <1>4, FilesAreOld
<1>6. f.version \in Known(disk, c, Arg)
  BY <1>3, <1>5 DEF Known
<1>7. LocalMaps(Arg)[c] # {}
  BY <1>6, LocalMapsType
<1>8. PICK w \in Known(disk, c, Arg) :
        LocalMaps(Arg)[c] = {w} /\ w \in Nat /\ \A u \in Known(disk, c, Arg) : u <= w
  BY <1>7, LocalMapsType DEF Versions
<1>9. PICK g \in disk : g.id = c /\ g.version = w
  BY <1>8 DEF Known
<1>10. w = f.version
  <2>1. w <= f.version
    BY <1>2, <1>3, <1>9, FilesAreOld
  <2>2. f.version <= w
    BY <1>6, <1>8
  <2> QED
    BY <1>4, <1>8, <2>1, <2>2
<1> QED
  BY <1>1, <1>3, <1>8, <1>10

\* A restart shows the maps that it finds.
LEMMA ShownRestart ==
  ASSUME TypesInv, Restart
  PROVE  ShownMapsHaveFiles'
<1> DEFINE v == NewerOf(Bundled, countriesTxt)
<1>1. /\ mwm' = [c \in Leaves |-> IF LocalMaps(v)[c] = {} THEN 0 ELSE Max(LocalMaps(v)[c])]
      /\ disk' = {f \in disk : f.version > v \/ f.version \in LocalMaps(v)[f.id]}
  BY DEF Restart, RegisterAllLocalMaps
<1> HIDE DEF v
<1>2. SUFFICES ASSUME NEW c \in Leaves, mwm'[c] # 0
               PROVE  \E f \in disk' : f.id = c /\ f.version = mwm'[c]
  BY DEF ShownMapsHaveFiles, Of
<1>3. LocalMaps(v)[c] # {} /\ mwm'[c] = Max(LocalMaps(v)[c])
  BY <1>1, <1>2
<1>4. PICK w \in Known(disk, c, v) : LocalMaps(v)[c] = {w} /\ Max(LocalMaps(v)[c]) = w
  BY <1>3, LocalMapsType
<1>5. PICK f \in disk : f.id = c /\ f.version = w
  BY <1>4 DEF Known
<1> QED
  BY <1>1, <1>3, <1>4, <1>5

\* Every step leaves the maps that are shown their files.
LEMMA ShownFilesStep ==
  ASSUME \A c \in Leaves : ~FindBadMap(c), TypesInv, ChecksInv, FilesInv, PipeInv, PlacedInv,
         OldFilesWait, ShownMapsHaveFiles, [Next]_vars
  PROVE  ShownMapsHaveFiles'
<1>1. CASE RegisterMissingFile
  <2>1. ~Idle /\ Head(calls).op = "register" /\ This \in Leaves /\ mwm' = mwm
    BY <1>1, ThisCall DEF RegisterMissingFile, Doing, LeafOps, mwmVars
  <2>2. version \notin localFiles[This]
    BY <2>1 DEF PlacedInv, NotYet, Installing, Calling
  <2>3. disk' = disk
    BY <1>1, <2>2 DEF RegisterMissingFile
  <2> QED
    BY <2>1, <2>3 DEF ShownMapsHaveFiles, Of
<1>2. CASE disk' = disk /\ mwm' = mwm
  BY <1>2 DEF ShownMapsHaveFiles, Of
<1>3. CASE DeleteCustomCountryVersion
  <2>1. ~Idle /\ Head(calls) = Task("deleteFile", This, Arg) /\ This \in Leaves /\ Arg \in Versions
    <3>1. ~Idle /\ Head(calls) \in FirstCall /\ Head(calls).op = "deleteFile"
      BY <1>3 DEF DeleteCustomCountryVersion, Doing, TypesInv, IsStack, Idle
    <3>2. This \in Leaves /\ Arg \in Versions
      BY <3>1 DEF FirstCall, LeafTask, FileTask, VersionTask, PlainTask, LeafOps, CheckOps,
                  PlainOps, This, Arg
    <3> QED
      BY <3>1, <3>2, TaskFields DEF This, Arg
  <2>2. disk' = disk \ Of(disk, This, Arg) /\ mwm' = mwm
    BY <1>3 DEF DeleteCustomCountryVersion, mwmVars
  <2>3. mwm[This] = 0 \/ Arg < mwm[This]
    BY <2>1 DEF OldFilesWait, Waits, IsPosted
  <2>4. mwm[This] # 0 => mwm[This] # Arg
    BY <2>1, <2>3 DEF Versions
  <2> QED
    BY <2>1, <2>2, <2>4 DEF ShownMapsHaveFiles, Of
<1> QED
  BY <1>1, <1>2, <1>3, DiskChanges, MapsChange, ShownRegister, ShownDelete, ShownApply,
     ShownRestart

\* If the application is never killed, or every new countries.txt is saved before and no map
\* turns out to be damaged, then the map that is shown for a country has its file, provided
\* that the user deletes none that is in use, and that nobody asks again for one that is being
\* verified: neither a download that fails, is repeated, cancelled or deleted at any moment
\* takes it away, nor an update, nor a restart, nor a deletion that waited for the last user
\* of an old map.
THEOREM MapsHaveFiles ==
  ASSUME NobodyKills \/ (SavesSucceed /\ "bad" \notin Events),
         "impatient" \notin Events, LeavesOnce
  PROVE  Spec /\ NoneInUseIsDeleted => []ShownMapsHaveFiles
<1> DEFINE IInv == /\ FilesInv /\ (SavesSucceed => SavesInv) /\ (NobodyKills => VerifiedInv)
                   /\ PipeInv /\ PlacedInv /\ ShownInv /\ OldFilesWait
                   /\ ShownMapsHaveFiles
<1>1. Init => IInv
  <2>1. ASSUME Init
        PROVE  OldFilesWait /\ ShownMapsHaveFiles
    <3>1. gui = <<>> /\ doomed = {} /\ calls = <<>>
      BY <2>1 DEF Init
    <3>2. PICK installed \in SUBSET Leaves :
            /\ disk = {[id |-> c, version |-> Bundled, intact |-> TRUE] : c \in installed}
            /\ mwm = [c \in Leaves |-> IF c \in installed THEN Bundled ELSE 0]
      BY <2>1 DEF Init
    <3>3. ASSUME NEW c \in Leaves, mwm[c] # 0
          PROVE  Of(disk, c, mwm[c]) # {}
      <4>1. c \in installed /\ mwm[c] = Bundled
        BY <3>2, <3>3
      <4>2. [id |-> c, version |-> Bundled, intact |-> TRUE] \in disk
        BY <3>2, <4>1
      <4> QED
        BY <4>1, <4>2 DEF Of
    <3> QED
      BY <3>1, <3>3 DEF OldFilesWait, Waits, IsPosted, Range, Idle, ShownMapsHaveFiles
  <2> QED
    BY <2>1, FilesInit, SavesInit, VerifiedInit, PipeInit, PlacedInit
<1>2. TypesInv /\ TypesInv' /\ ChecksInv /\ IInv /\ [Next]_vars
        /\ [DeleteCountry => doomed' = doomed]_vars => IInv'
  <2>1. SUFFICES ASSUME TypesInv, TypesInv', ChecksInv, FilesInv, SavesSucceed => SavesInv,
                        NobodyKills => VerifiedInv, PipeInv, PlacedInv, ShownInv,
                        OldFilesWait, ShownMapsHaveFiles, [Next]_vars,
                        [DeleteCountry => doomed' = doomed]_vars
                 PROVE  IInv'
    OBVIOUS
  <2>2. Restart => Covers(version')
    BY <2>1, NoRestart, SavesRestart
  <2>3. FilesInv' /\ (SavesSucceed => SavesInv')
    BY <2>1, <2>2, FilesStep, SavesStep
  <2>4. PipeInv' /\ PlacedInv' /\ (NobodyKills => VerifiedInv')
    BY <2>1, PipeStep, PlacedStep, VerifiedStep
  <2>5. \A c \in Leaves : ~FindBadMap(c)
    BY <2>1 DEF FindBadMap, MayHappen, Of, VerifiedInv, InstalledMapsAreVerified
  <2>6. DeleteCountry => doomed' = doomed
    BY <2>1 DEF vars, mwmVars
  <2>7. ShownInv' /\ OldFilesWait' /\ ShownMapsHaveFiles'
    BY <2>1, <2>5, <2>6, ShownStep, OldStep, ShownFilesStep
  <2> QED
    BY <2>3, <2>4, <2>7
<1>3. IInv => ShownMapsHaveFiles
  OBVIOUS
<1> HIDE DEF IInv
<1> QED
  BY <1>1, <1>2, <1>3, TypesAreOK, PTL DEF Spec, NoneInUseIsDeleted

\* A restart shows the newest of the maps that it finds.
LEMMA RestartShowsMaps ==
  ASSUME TypesInv, Restart, NEW c \in Leaves, localFiles'[c] # {}
  PROVE  mwm'[c] # 0
<1> DEFINE v == NewerOf(Bundled, countriesTxt)
<1>1. /\ localFiles' = LocalMaps(v)
      /\ mwm' = [d \in Leaves |-> IF LocalMaps(v)[d] = {} THEN 0 ELSE Max(LocalMaps(v)[d])]
  BY DEF Restart, RegisterAllLocalMaps
<1> HIDE DEF v
<1>2. LocalMaps(v)[c] # {}
  BY <1>1
<1>3. Max(LocalMaps(v)[c]) \in Versions
  BY <1>2, LocalMapsType
<1>4. 0 \notin Versions
  BY VersionAssumption DEF Versions
<1> QED
  BY <1>1, <1>2, <1>3, <1>4

\* Under the same conditions a kill at any moment costs no country its map: the restart finds
\* a file, of a map that is shown, and shows a map of the country again.
THEOREM MapsSurviveKills ==
  ASSUME SavesSucceed, {"bad", "impatient"} \cap Events = {}, LeavesOnce
  PROVE  Spec /\ NoneInUseIsDeleted =>
           [][Restart => \A c \in Leaves : mwm[c] # 0 => mwm'[c] # 0]_vars
<1>1. TypesInv /\ ShownMapsHaveFiles /\ [Restart => \A c \in Leaves : FindsMap(c)]_vars =>
        [Restart => \A c \in Leaves : mwm[c] # 0 => mwm'[c] # 0]_vars
  <2>1. SUFFICES ASSUME TypesInv, ShownMapsHaveFiles, Restart,
                        \A c \in Leaves : FindsMap(c), NEW c \in Leaves, mwm[c] # 0
                 PROVE  mwm'[c] # 0
    OBVIOUS
  <2>2. localFiles'[c] # {}
    BY <2>1 DEF ShownMapsHaveFiles, FindsMap
  <2> QED
    BY <2>1, <2>2, RestartShowsMaps
<1>2. Spec /\ NoneInUseIsDeleted => []ShownMapsHaveFiles /\ RestartFindsMaps
  BY MapsHaveFiles, RestartsFindMaps
<1> QED
  BY <1>1, <1>2, TypesAreOK, PTL DEF RestartFindsMaps
=============================================================================
