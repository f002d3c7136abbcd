--------------------------- MODULE RenderLoopProofs ---------------------------
(***************************************************************************)
(* What holds of the renderers and their queues for any messages and any   *)
(* number of posts and toggles.                                            *)
(*                                                                         *)
(* There are four invariants, each on top of those before it.  QueueInv:   *)
(* the types, and the order of every queue, which each way to change a     *)
(* queue keeps (the lemmas on Inserted, Dropped and Tail).  LifeOK and     *)
(* BlockOK: what the flags of a renderer say about where it is, and that   *)
(* the frontend stands still while a blocking message of its own is        *)
(* somewhere.  Handshake: how far the platform thread is with each of the  *)
(* renderers.  Quiet and ContextOK: who has a context.  Each property      *)
(* follows from one of them without a further step.                        *)
(***************************************************************************)
EXTENDS RenderLoop, SequenceTheorems, FiniteSetTheorems, WellFoundedInduction, TLAPS

-----------------------------------------------------------------------------
(* Numbers and sequences.  Induction takes the form of a least number. *)

\* A set of natural numbers that is not empty has a least one.
LEMMA LeastNumber ==
  ASSUME NEW T, T \subseteq Nat, T # {}
  PROVE  \E n \in T : \A m \in T : n <= m
<1> DEFINE R == OpToRel(<, Nat)
<1>1. IsWellFoundedOn(R, Nat)
  BY NatLessThanWellFounded
<1>2. \A m, n \in Nat : m < n => <<m, n>> \in R
  BY DEF OpToRel
<1> HIDE DEF R
<1>3. PICK n \in T : \A m \in T : ~(<<m, n>> \in R)
  BY <1>1, WFMin
<1>4. \A m \in T : ~(m < n)
  BY <1>2, <1>3
<1>5. \A m \in T : n <= m
  BY <1>4
<1> QED
  BY <1>5

\* What holds of 0 and goes from each number to the next holds up to n.
LEMMA Climb ==
  ASSUME NEW T, NEW n \in Nat, 0 \in T, \A k \in 1..n : k - 1 \in T => k \in T
  PROVE  n \in T
<1> DEFINE F == {k \in 0..n : k \notin T}
<1>1. SUFFICES ASSUME n \notin T PROVE FALSE
  OBVIOUS
<1>2. n \in F /\ F \subseteq Nat
  BY <1>1
<1>3. PICK k \in F : \A m \in F : k <= m
  BY <1>2, LeastNumber
<1>4. k \in 1..n /\ k \notin T
  BY <1>3
<1>5. k - 1 \in 0..n /\ k - 1 \notin T
  BY <1>4
<1> QED
  BY <1>3, <1>4, <1>5

\* The ids in a queue are bounded.
LEMMA IdsAreBounded ==
  ASSUME NEW s \in Seq(Message)
  PROVE  \E b \in Nat : \A n \in DOMAIN s : s[n].id <= b
<1> DEFINE T == {n \in 0..Len(s) : \E b \in Nat : \A k \in 1..n : s[k].id <= b}
<1>1. Len(s) \in Nat /\ DOMAIN s = 1..Len(s) /\ \A n \in 1..Len(s) : s[n].id \in Nat
  <2>1. \A m \in Message : m.id \in Nat
    BY DEF Message
  <2>2. Len(s) \in Nat /\ DOMAIN s = 1..Len(s) /\ \A n \in 1..Len(s) : s[n] \in Message
    BY ElementOfSeq, LenProperties
  <2> QED
    BY <2>1, <2>2
<1>2. 0 \in T
  BY <1>1
<1>3. ASSUME NEW k \in 1..Len(s), k - 1 \in T
      PROVE  k \in T
  <2>1. PICK b \in Nat : \A i \in 1..(k - 1) : s[i].id <= b
    BY <1>3
  <2> DEFINE c == IF s[k].id > b THEN s[k].id ELSE b
  <2>2. c \in Nat /\ \A i \in 1..k : s[i].id <= c
    BY <1>1, <2>1
  <2>3. k \in 0..Len(s)
    BY <1>1
  <2>4. \E d \in Nat : \A i \in 1..k : s[i].id <= d
    BY <2>2
  <2> QED
    BY <2>3, <2>4
<1>4. Len(s) \in T
  BY <1>1, <1>2, <1>3, Climb
<1> QED
  BY <1>1, <1>4

\* The largest of some numbers, if they are bounded.
LEMMA MaxIsLargest ==
  ASSUME NEW S, S \subseteq Nat, S # {}, NEW b \in Nat, \A x \in S : x <= b
  PROVE  Max(S) \in S /\ \A x \in S : x <= Max(S)
<1> DEFINE T == {c \in Nat : \A x \in S : x <= c}
<1>1. PICK c \in T : \A d \in T : c <= d
  <2>1. b \in T /\ T \subseteq Nat
    OBVIOUS
  <2> QED
    BY <2>1, LeastNumber
<1>2. c \in S
  <2>1. SUFFICES ASSUME c \notin S PROVE FALSE
    OBVIOUS
  <2>2. c \in Nat /\ \A x \in S : x <= c /\ x \in Nat /\ x # c
    BY <1>1, <2>1
  <2>3. c # 0
    <3>1. PICK x \in S : TRUE
      OBVIOUS
    <3>2. x \in Nat /\ x <= c /\ x # c
      BY <2>2
    <3> QED
      BY <2>2, <3>2
  <2>4. c - 1 \in T
    BY <2>2, <2>3
  <2> QED
    BY <1>1, <2>2, <2>3, <2>4
<1>3. \A x \in S : c >= x
  BY <1>1
<1>4. Max(S) \in S /\ \A x \in S : Max(S) >= x
  BY <1>2, <1>3 DEF Max
<1> QED
  BY <1>4

\* LeadingIn is the place of the last message at the front that has these types.
LEMMA LeadingInIsPrefix ==
  ASSUME NEW s \in Seq(Message), NEW types
  PROVE  /\ LeadingIn(s, types) \in 0..Len(s)
         /\ \A k \in 1..LeadingIn(s, types) : s[k].type \in types
         /\ LeadingIn(s, types) < Len(s) => s[LeadingIn(s, types) + 1].type \notin types
<1> DEFINE T == {n \in 0..Len(s) : n < Len(s) => s[n + 1].type \notin types}
           P == {n \in DOMAIN s : \A k \in 1..n : s[k].type \in types}
<1>1. Len(s) \in Nat /\ DOMAIN s = 1..Len(s)
  OBVIOUS
<1>2. PICK n \in T : \A m \in T : n <= m
  <2>1. Len(s) \in T /\ T \subseteq Nat
    BY <1>1
  <2> QED
    BY <2>1, LeastNumber
<1>3. n \in 0..Len(s) /\ (n < Len(s) => s[n + 1].type \notin types)
  BY <1>2
<1>4. ASSUME NEW k \in 1..n
      PROVE  s[k].type \in types
  <2>1. k - 1 \in 0..Len(s) /\ k - 1 < Len(s) /\ ~(n <= k - 1) /\ (k - 1) + 1 = k
    BY <1>1, <1>3
  <2>2. k - 1 \notin T
    BY <1>2, <2>1
  <2> QED
    BY <2>1, <2>2
<1>5. P = 1..n
  <2>1. \A i \in 1..n : i \in P
    BY <1>1, <1>3, <1>4
  <2>2. ASSUME NEW i \in P, i \notin 1..n
        PROVE  FALSE
    <3>1. n + 1 \in 1..i /\ n < Len(s)
      BY <1>1, <1>3, <2>2
    <3> QED
      BY <1>3, <3>1
  <2> QED
    BY <2>1, <2>2
<1>6. Cardinality(P) = n
  <2>1. n \in Nat /\ 1 \in Int /\ n \in Int
    BY <1>1, <1>3
  <2>2. Cardinality(1..n) = IF 1 > n THEN 0 ELSE n - 1 + 1
    BY <2>1, FS_Interval
  <2>3. Cardinality(1..n) = n
    BY <2>1, <2>2
  <2> HIDE DEF P
  <2> QED
    BY <1>5, <2>3
<1> HIDE DEF P
<1>7. LeadingIn(s, types) = n
  BY <1>6 DEF LeadingIn, P
<1> QED
  BY <1>3, <1>4, <1>7

\* Where the elements are when one was inserted.
LEMMA InsertAtMoves ==
  ASSUME NEW S, NEW s \in Seq(S), NEW e \in S, NEW k \in 1..(Len(s) + 1)
  PROVE  /\ InsertAt(s, k, e) \in Seq(S)
         /\ Len(InsertAt(s, k, e)) = Len(s) + 1
         /\ \A n \in 1..(Len(s) + 1) :
              InsertAt(s, k, e)[n] = IF n < k THEN s[n] ELSE IF n = k THEN e ELSE s[n - 1]
<1> DEFINE a == SubSeq(s, 1, k - 1)
           b == SubSeq(s, k, Len(s))
<1>1. Len(s) \in Nat /\ k \in Nat
  OBVIOUS
<1>2. a \in Seq(S) /\ Len(a) = k - 1 /\ \A n \in 1..(k - 1) : a[n] = s[n]
  BY <1>1, SubSeqProperties
<1>3. b \in Seq(S) /\ Len(b) = Len(s) + 1 - k /\ \A n \in 1..(Len(s) + 1 - k) : b[n] = s[k + n - 1]
  <2>1. CASE k = Len(s) + 1
    <3>1. b = <<>>
      BY <1>1, <2>1, SubSeqEmpty
    <3> QED
      BY <1>1, <2>1, <3>1
  <2>2. CASE k # Len(s) + 1
    BY <1>1, <2>2, SubSeqProperties
  <2> QED
    BY <2>1, <2>2
<1> HIDE DEF a, b
<1> DEFINE c == a \o <<e>>
<1>4. c \in Seq(S) /\ Len(c) = k /\ \A n \in 1..k : c[n] = IF n < k THEN s[n] ELSE e
  BY <1>1, <1>2
<1> HIDE DEF c
<1>5. /\ c \o b \in Seq(S) /\ Len(c \o b) = Len(s) + 1
      /\ \A n \in 1..(Len(s) + 1) : (c \o b)[n] = IF n <= k THEN c[n] ELSE b[n - k]
  <2>1. /\ c \o b \in Seq(S) /\ Len(c \o b) = Len(c) + Len(b)
        /\ \A n \in 1..(Len(c) + Len(b)) : (c \o b)[n] = IF n <= Len(c) THEN c[n] ELSE b[n - Len(c)]
    BY <1>3, <1>4, ConcatProperties
  <2>2. Len(c) + Len(b) = Len(s) + 1
    BY <1>1, <1>3, <1>4
  <2> QED
    BY <1>4, <2>1, <2>2
<1>6. InsertAt(s, k, e) = c \o b
  BY DEF InsertAt, a, b, c
<1>7. \A n \in 1..(Len(s) + 1) :
        (c \o b)[n] = IF n < k THEN s[n] ELSE IF n = k THEN e ELSE s[n - 1]
  <2>1. SUFFICES ASSUME NEW n \in 1..(Len(s) + 1)
                 PROVE  (c \o b)[n] = IF n < k THEN s[n] ELSE IF n = k THEN e ELSE s[n - 1]
    OBVIOUS
  <2>2. CASE n <= k
    BY <1>1, <1>4, <1>5, <2>2
  <2>3. CASE n > k
    <3>1. n - k \in 1..(Len(s) + 1 - k) /\ k + (n - k) - 1 = n - 1
      BY <1>1, <2>3
    <3>2. (c \o b)[n] = b[n - k] /\ b[n - k] = s[k + (n - k) - 1]
      BY <1>1, <1>3, <1>5, <2>3, <3>1
    <3>3. ~(n < k) /\ n # k
      BY <1>1, <2>3
    <3>4. (c \o b)[n] = s[n - 1]
      BY <3>1, <3>2
    <3> QED
      BY <3>3, <3>4
  <2>4. n <= k \/ n > k
    BY <1>1
  <2> QED
    BY <2>2, <2>3, <2>4
<1> QED
  BY <1>5, <1>6, <1>7

\* u is what is left of s when messages of some types were dropped.
Thinned(u, s, types) ==
  /\ u \in Seq(Message)
  /\ \E f \in [DOMAIN u -> DOMAIN s] :
       /\ \A i, j \in DOMAIN u : i < j => f[i] < f[j]
       /\ \A i \in DOMAIN u : u[i] = s[f[i]] /\ u[i].type \notin types

\* The function that Dropped reads, up to its n-th value.
Kept(s, types, n, kept) ==
  kept = [i \in 0..n |->
            IF i = 0 THEN <<>>
            ELSE IF s[i].type \in types THEN kept[i - 1] ELSE Append(kept[i - 1], s[i])]

\* There is such a function.
LEMMA KeptExists ==
  ASSUME NEW s \in Seq(Message), NEW types
  PROVE  \E kept \in [0..Len(s) -> Seq(Message)] : Kept(s, types, Len(s), kept)
<1> DEFINE T == {n \in 0..Len(s) : \E kept \in [0..n -> Seq(Message)] : Kept(s, types, n, kept)}
<1>1. Len(s) \in Nat /\ \A n \in 1..Len(s) : s[n] \in Message
  BY ElementOfSeq, LenProperties
<1>2. 0 \in T
  <2> DEFINE kept == [i \in 0..0 |-> <<>>]
  <2>1. kept \in [0..0 -> Seq(Message)]
    OBVIOUS
  <2>2. Kept(s, types, 0, kept)
    BY DEF Kept
  <2>3. 0 \in 0..Len(s)
    BY <1>1
  <2> QED
    BY <2>1, <2>2, <2>3
<1>3. ASSUME NEW n \in 1..Len(s), n - 1 \in T
      PROVE  n \in T
  <2>1. PICK k \in [0..(n - 1) -> Seq(Message)] : Kept(s, types, n - 1, k)
    BY <1>3
  <2> DEFINE last == IF s[n].type \in types THEN k[n - 1] ELSE Append(k[n - 1], s[n])
             next == [i \in 0..n |-> IF i = n THEN last ELSE k[i]]
  <2>2. n \in Nat /\ n - 1 \in 0..(n - 1) /\ \A i \in 0..n : i # n => i \in 0..(n - 1)
    BY <1>1
  <2>3. last \in Seq(Message)
    BY <1>1, <2>2
  <2>4. next \in [0..n -> Seq(Message)]
    BY <2>2, <2>3
  <2>5. \A i \in 0..(n - 1) : k[i] = IF i = 0 THEN <<>>
                   ELSE IF s[i].type \in types THEN k[i - 1] ELSE Append(k[i - 1], s[i])
    BY <2>1 DEF Kept
  <2>6. \A i \in 0..n : next[i] = IF i = 0 THEN <<>>
                   ELSE IF s[i].type \in types THEN next[i - 1] ELSE Append(next[i - 1], s[i])
    <3>1. SUFFICES ASSUME NEW i \in 0..n
                   PROVE  next[i] = IF i = 0 THEN <<>> ELSE IF s[i].type \in types
                                    THEN next[i - 1] ELSE Append(next[i - 1], s[i])
      OBVIOUS
    <3>2. CASE i = n
      <4>1. i # 0 /\ i - 1 \in 0..n /\ i - 1 # n /\ next[i - 1] = k[n - 1]
        BY <2>2, <3>2
      <4>2. next[i] = last
        BY <3>2
      <4> QED
        BY <3>2, <4>1, <4>2
    <3>3. CASE i # n
      <4>1. next[i] = k[i] /\ i \in 0..(n - 1)
        BY <2>2, <3>3
      <4>2. i # 0 => i - 1 \in 0..n /\ i - 1 # n
        BY <2>2, <4>1
      <4>3. i # 0 => next[i - 1] = k[i - 1]
        BY <4>2
      <4> HIDE DEF next
      <4> QED
        BY <2>5, <4>1, <4>3
    <3> QED
      BY <3>2, <3>3
  <2>7. Kept(s, types, n, next)
    <3>1. next = [i \in 0..n |-> next[i]]
      OBVIOUS
    <3> HIDE DEF next
    <3> QED
      BY <2>6, <3>1 DEF Kept
  <2> HIDE DEF next
  <2>8. n \in 0..Len(s)
    BY <1>1
  <2> QED
    BY <2>4, <2>7, <2>8
<1>4. Len(s) \in T
  BY <1>1, <1>2, <1>3, Climb
<1> QED
  BY <1>4

\* Dropped keeps the other messages, in their order.
LEMMA DroppedIsThinned ==
  ASSUME NEW s \in Seq(Message), NEW types
  PROVE  Thinned(Dropped(s, types), s, types)
<1> DEFINE k == CHOOSE kept : Kept(s, types, Len(s), kept)
<1>1. Len(s) \in Nat /\ DOMAIN s = 1..Len(s) /\ \A n \in 1..Len(s) : s[n] \in Message
  BY ElementOfSeq, LenProperties
<1>2. Dropped(s, types) = k[Len(s)]
  BY DEF Dropped, Kept
<1>3. Kept(s, types, Len(s), k)
  BY KeptExists
<1> HIDE DEF k
<1>4. \A n \in 0..Len(s) : k[n] = IF n = 0 THEN <<>>
              ELSE IF s[n].type \in types THEN k[n - 1] ELSE Append(k[n - 1], s[n])
  BY <1>3 DEF Kept
<1> DEFINE Places(u, n) == {f \in [DOMAIN u -> 1..n] :
                              /\ \A i, j \in DOMAIN u : i < j => f[i] < f[j]
                              /\ \A i \in DOMAIN u : u[i] = s[f[i]] /\ u[i].type \notin types}
           T == {n \in 0..Len(s) : k[n] \in Seq(Message) /\ Places(k[n], n) # {}}
<1>5. 0 \in T
  <2>1. k[0] = <<>> /\ 0 \in 0..Len(s)
    BY <1>1, <1>4
  <2>2. [i \in DOMAIN <<>> |-> 1] \in Places(<<>>, 0)
    OBVIOUS
  <2> HIDE DEF Places
  <2>3. k[0] \in Seq(Message) /\ Places(k[0], 0) # {}
    BY <2>1, <2>2
  <2> QED
    BY <2>1, <2>3
<1>6. ASSUME NEW n \in 1..Len(s), n - 1 \in T
      PROVE  n \in T
  <2> DEFINE u == k[n - 1]
             v == Append(u, s[n])
  <2>1. u \in Seq(Message) /\ Places(u, n - 1) # {}
    BY <1>6
  <2>2. PICK f \in Places(u, n - 1) : TRUE
    BY <2>1
  <2>3. n \in 0..Len(s) /\ n # 0 /\ n \in Nat
    BY <1>1
  <2>4. k[n] = IF s[n].type \in types THEN u ELSE v
    BY <1>4, <2>3
  <2> HIDE DEF u
  <2>5. CASE s[n].type \in types
    <3>1. 1..(n - 1) \subseteq 1..n
      BY <2>3
    <3>2. f \in Places(u, n)
      BY <2>2, <3>1
    <3> HIDE DEF Places
    <3>3. k[n] \in Seq(Message) /\ Places(k[n], n) # {}
      BY <2>1, <2>4, <2>5, <3>2
    <3> QED
      BY <2>3, <3>3
  <2>6. CASE s[n].type \notin types
    <3> DEFINE g == [i \in DOMAIN v |-> IF i \in DOMAIN u THEN f[i] ELSE n]
    <3>1. /\ v \in Seq(Message) /\ Len(u) \in Nat /\ DOMAIN u = 1..Len(u)
          /\ DOMAIN v = 1..(Len(u) + 1)
          /\ \A i \in DOMAIN u : v[i] = u[i]
          /\ v[Len(u) + 1] = s[n]
      BY <1>1, <2>1, AppendProperties, LenProperties
    <3> HIDE DEF v
    <3>2. \A i \in DOMAIN v : i \in DOMAIN u \/ i = Len(u) + 1
      BY <3>1
    <3>3. \A i \in DOMAIN u : f[i] \in 1..(n - 1)
      BY <2>2
    <3>4. g \in [DOMAIN v -> 1..n]
      BY <2>3, <3>1, <3>3
    <3>5. \A i, j \in DOMAIN v : i < j => g[i] < g[j]
      <4>1. SUFFICES ASSUME NEW i \in DOMAIN v, NEW j \in DOMAIN v, i < j
                     PROVE  g[i] < g[j]
        OBVIOUS
      <4>2. i \in DOMAIN u
        BY <3>1, <4>1
      <4>3. CASE j \in DOMAIN u
        BY <2>2, <4>1, <4>2, <4>3
      <4>4. CASE j \notin DOMAIN u
        BY <2>3, <3>3, <4>2, <4>4
      <4> QED
        BY <4>3, <4>4
    <3>6. \A i \in DOMAIN v : v[i] = s[g[i]] /\ v[i].type \notin types
      <4>1. SUFFICES ASSUME NEW i \in DOMAIN v
                     PROVE  v[i] = s[g[i]] /\ v[i].type \notin types
        OBVIOUS
      <4>2. CASE i \in DOMAIN u
        BY <2>2, <3>1, <4>2
      <4>3. CASE i \notin DOMAIN u
        BY <2>6, <3>1, <3>2, <4>3
      <4> QED
        BY <4>2, <4>3
    <3> HIDE DEF g
    <3>7. g \in Places(v, n)
      BY <3>4, <3>5, <3>6
    <3>8. k[n] = v
      BY <2>4, <2>6
    <3> HIDE DEF Places
    <3>9. k[n] \in Seq(Message) /\ Places(k[n], n) # {}
      BY <3>1, <3>7, <3>8
    <3> QED
      BY <2>3, <3>9
  <2> QED
    BY <2>5, <2>6
<1>7. Len(s) \in T
  BY <1>1, <1>5, <1>6, Climb
<1> QED
  BY <1>1, <1>2, <1>7 DEF Thinned

-----------------------------------------------------------------------------
(* The order of a queue. *)

\* A message may be queued behind another one.
Follows(m, before) ==
  /\ Rank(before) >= Rank(m)
  /\ m.type \in Normal /\ before.type \in Normal => before.id < m.id
  /\ m.type \in UberHighSingleton => before.type # m.type

\* A message may still be queued while h is handled.
FollowsHand(m, h) == m.type \in Normal /\ h.type \in Normal => h.id < m.id

\* The queue s of a renderer that handles h is in order.
InOrder(s, h) ==
  /\ \A n \in DOMAIN s : FollowsHand(s[n], h)
  /\ \A k, n \in DOMAIN s : k < n => Follows(s[n], s[k])

\* MessagesKeepOrder, for each queue.
LEMMA OrderOfEachQueue ==
  ASSUME messages \in [Renderers -> Seq(Message)]
  PROVE  MessagesKeepOrder <=> \A r \in Renderers : InOrder(messages[r], hand[r])
<1>1. \A r \in Renderers : \A n \in DOMAIN messages[r] : \A k :
        k \in 1..n - 1 <=> k \in DOMAIN messages[r] /\ k < n
  <2>1. SUFFICES ASSUME NEW r \in Renderers, NEW n \in DOMAIN messages[r], NEW k
                 PROVE  k \in 1..n - 1 <=> k \in DOMAIN messages[r] /\ k < n
    OBVIOUS
  <2>2. messages[r] \in Seq(Message)
    BY <2>1
  <2>3. DOMAIN messages[r] = 1..Len(messages[r]) /\ Len(messages[r]) \in Nat
    BY <2>2, LenProperties
  <2> QED
    BY <2>3
<1>2. MessagesKeepOrder <=>
        \A r \in Renderers : \A n \in DOMAIN messages[r] :
          /\ FollowsHand(messages[r][n], hand[r])
          /\ \A k \in 1..n - 1 : Follows(messages[r][n], messages[r][k])
  BY DEF MessagesKeepOrder, Follows, FollowsHand
<1> QED
  BY <1>1, <1>2 DEF InOrder

\* The priorities, by type.
LEMMA RankOfTypes ==
  ASSUME NEW m \in Message
  PROVE  /\ Rank(m) \in 0..2
         /\ Rank(m) = 2 <=> m.type \in UberHighSingleton
         /\ Rank(m) = 1 <=> m.type \in High
         /\ m.type \in Normal => Rank(m) = 0
BY DEF Rank, UberHighSingleton, High, Normal

\* A queue that lost messages is in order.
LEMMA ThinnedInOrder ==
  ASSUME NEW s \in Seq(Message), NEW u, NEW types, NEW h, Thinned(u, s, types), InOrder(s, h)
  PROVE  InOrder(u, h)
<1>1. PICK f \in [DOMAIN u -> DOMAIN s] :
        /\ \A i, j \in DOMAIN u : i < j => f[i] < f[j]
        /\ \A i \in DOMAIN u : u[i] = s[f[i]] /\ u[i].type \notin types
  BY DEF Thinned
<1>2. \A n \in DOMAIN u : FollowsHand(u[n], h)
  BY <1>1 DEF InOrder
<1>3. \A k, n \in DOMAIN u : k < n => Follows(u[n], u[k])
  BY <1>1 DEF InOrder
<1> QED
  BY <1>2, <1>3 DEF InOrder

\* The first message is handled before the others.
LEMMA TailInOrder ==
  ASSUME NEW s \in Seq(Message), s # <<>>, NEW h, InOrder(s, h)
  PROVE  InOrder(Tail(s), Head(s)) /\ Tail(s) \in Seq(Message) /\ Head(s) \in Message
<1>1. /\ Tail(s) \in Seq(Message) /\ Head(s) \in Message /\ Head(s) = s[1]
      /\ DOMAIN s = 1..Len(s) /\ Len(s) \in Nat /\ Len(s) # 0
      /\ DOMAIN Tail(s) = 1..(Len(s) - 1)
      /\ \A n \in 1..(Len(s) - 1) : Tail(s)[n] = s[n + 1]
  BY HeadTailProperties, LenProperties, EmptySeq
<1>2. \A n \in DOMAIN Tail(s) : n + 1 \in DOMAIN s /\ 1 \in DOMAIN s /\ 1 < n + 1
  BY <1>1
<1>3. \A n \in DOMAIN Tail(s) : FollowsHand(Tail(s)[n], Head(s))
  BY <1>1, <1>2 DEF InOrder, Follows, FollowsHand
<1>4. \A k, n \in DOMAIN Tail(s) : k < n => k + 1 < n + 1
  BY <1>1
<1>5. \A k, n \in DOMAIN Tail(s) : k < n => Follows(Tail(s)[n], Tail(s)[k])
  BY <1>1, <1>2, <1>4 DEF InOrder
<1> QED
  BY <1>1, <1>3, <1>5 DEF InOrder

\* A message at its place among the others keeps the order.
LEMMA InsertInOrder ==
  ASSUME NEW s \in Seq(Message), NEW m \in Message, NEW p \in 1..(Len(s) + 1), NEW h,
         InOrder(s, h), FollowsHand(m, h),
         \A n \in DOMAIN s : IF n < p THEN Follows(m, s[n]) ELSE Follows(s[n], m)
  PROVE  InOrder(InsertAt(s, p, m), h) /\ InsertAt(s, p, m) \in Seq(Message)
<1> DEFINE v == InsertAt(s, p, m)
<1>1. /\ Len(s) \in Nat /\ DOMAIN s = 1..Len(s) /\ p \in Nat
      /\ v \in Seq(Message) /\ DOMAIN v = 1..(Len(s) + 1)
      /\ \A n \in 1..(Len(s) + 1) : v[n] = IF n < p THEN s[n] ELSE IF n = p THEN m ELSE s[n - 1]
  BY InsertAtMoves, LenProperties
<1> HIDE DEF v
<1>2. \A n \in DOMAIN v : /\ n < p => n \in DOMAIN s
                          /\ n > p => n - 1 \in DOMAIN s /\ ~(n - 1 < p) /\ ~(n < p) /\ n # p
                          /\ n < p \/ n = p \/ n > p
  BY <1>1
<1>3. ASSUME NEW n \in DOMAIN v
      PROVE  FollowsHand(v[n], h)
  <2>1. CASE n < p
    BY <1>1, <1>2, <2>1 DEF InOrder
  <2>2. CASE n = p
    BY <1>1, <2>2
  <2>3. CASE n > p
    BY <1>1, <1>2, <2>3 DEF InOrder
  <2> QED
    BY <1>2, <2>1, <2>2, <2>3
<1>4. ASSUME NEW k \in DOMAIN v, NEW n \in DOMAIN v, k < n
      PROVE  Follows(v[n], v[k])
  <2>1. CASE n < p
    <3>1. k < p /\ v[k] = s[k] /\ v[n] = s[n]
      BY <1>1, <1>4, <2>1
    <3> QED
      BY <1>2, <1>4, <2>1, <3>1 DEF InOrder
  <2>2. CASE n = p
    <3>1. k < p /\ v[k] = s[k] /\ v[n] = m
      BY <1>1, <1>4, <2>2
    <3> QED
      BY <1>2, <3>1
  <2>3. CASE n > p /\ k < p
    <3>1. v[k] = s[k] /\ v[n] = s[n - 1] /\ k < n - 1
      BY <1>1, <1>2, <1>4, <2>3
    <3> QED
      BY <1>2, <2>3, <3>1 DEF InOrder
  <2>4. CASE n > p /\ k = p
    BY <1>1, <1>2, <2>4
  <2>5. CASE n > p /\ k > p
    <3>1. v[k] = s[k - 1] /\ v[n] = s[n - 1] /\ k - 1 < n - 1
      BY <1>1, <1>2, <1>4, <2>5
    <3> QED
      BY <1>2, <2>5, <3>1 DEF InOrder
  <2> QED
    BY <1>2, <2>1, <2>2, <2>3, <2>4, <2>5
<1> QED
  BY <1>1, <1>3, <1>4 DEF InOrder, v

\* PushMessage puts a message where its priority wants it.  A Normal message has to
\* come with a number of its own.
LEMMA InsertedInOrder ==
  ASSUME NEW s \in Seq(Message), NEW m \in Message, NEW h,
         InOrder(s, h), FollowsHand(m, h), m.type \in Types \ Low,
         m.type \in Normal => \A n \in DOMAIN s : s[n].id < m.id
  PROVE  InOrder(Inserted(s, m), h) /\ Inserted(s, m) \in Seq(Message)
<1> DEFINE L == LeadingIn(s, UberHighSingleton)
<1>1. /\ Len(s) \in Nat /\ DOMAIN s = 1..Len(s) /\ L \in 0..Len(s)
      /\ \A k \in 1..L : s[k].type \in UberHighSingleton
      /\ L < Len(s) => s[L + 1].type \notin UberHighSingleton
      /\ \A n \in 1..Len(s) : s[n] \in Message
  BY LeadingInIsPrefix, LenProperties, ElementOfSeq
<1> HIDE DEF L
<1>2. \A n \in DOMAIN s : n > L => Rank(s[n]) \in 0..1
  <2>1. SUFFICES ASSUME NEW n \in DOMAIN s, n > L
                 PROVE  Rank(s[n]) \in 0..1
    OBVIOUS
  <2>2. L + 1 \in DOMAIN s /\ L < Len(s) /\ (n = L + 1 \/ L + 1 < n)
    BY <1>1, <2>1
  <2>3. Rank(s[L + 1]) \in 0..1 /\ Rank(s[n]) \in 0..2
    BY <1>1, <2>2, RankOfTypes
  <2>4. n = L + 1 \/ Rank(s[L + 1]) >= Rank(s[n])
    BY <2>2 DEF InOrder, Follows
  <2> QED
    BY <2>3, <2>4
<1>3. \A n \in DOMAIN s : n <= L => Rank(s[n]) = 2 /\ s[n].type \notin Normal
  BY <1>1, RankOfTypes DEF Normal
<1>4. CASE m.type \in High
  <2>1. Rank(m) = 1 /\ m.type \notin Normal /\ m.type \notin UberHighSingleton
    BY <1>4, RankOfTypes DEF Normal, High, UberHighSingleton
  <2>2. Inserted(s, m) = InsertAt(s, L + 1, m)
    BY <1>4, <2>1 DEF Inserted, L
  <2>3. L + 1 \in 1..(Len(s) + 1)
    BY <1>1
  <2>4. ASSUME NEW n \in DOMAIN s
        PROVE  IF n < L + 1 THEN Follows(m, s[n]) ELSE Follows(s[n], m)
    <3>1. CASE n < L + 1
      <4>1. n <= L
        BY <1>1, <3>1
      <4> QED
        BY <1>3, <2>1, <3>1, <4>1 DEF Follows
    <3>2. CASE ~(n < L + 1)
      <4>1. Rank(s[n]) \in 0..1
        BY <1>1, <1>2, <3>2
      <4>2. s[n].type \notin UberHighSingleton
        BY <1>1, <4>1, RankOfTypes
      <4> QED
        BY <2>1, <3>2, <4>1, <4>2 DEF Follows
    <3> QED
      BY <3>1, <3>2
  <2> QED
    BY <2>2, <2>3, <2>4, InsertInOrder
<1>5. CASE m.type \in Normal
  <2>1. Rank(m) = 0 /\ m.type \notin High /\ m.type \notin UberHighSingleton
    BY <1>5, RankOfTypes DEF Normal
  <2>2. Inserted(s, m) = InsertAt(s, Len(s) + 1, m)
    BY <1>5, <2>1 DEF Inserted, PlaceAtBack
  <2>3. Len(s) + 1 \in 1..(Len(s) + 1) /\ \A n \in DOMAIN s : n < Len(s) + 1
    BY <1>1
  <2>4. \A n \in DOMAIN s : Follows(m, s[n])
    BY <1>1, <1>5, <2>1, RankOfTypes DEF Follows
  <2> QED
    BY <2>2, <2>3, <2>4, InsertInOrder
<1>6. CASE m.type \in UberHighSingleton
  <2>1. Rank(m) = 2 /\ m.type \notin Normal /\ m.type \notin High
    BY <1>6, RankOfTypes DEF Normal, High, UberHighSingleton
  <2>2. CASE \E k \in 1..L : s[k].type = m.type
    BY <2>1, <2>2 DEF Inserted, L
  <2>3. CASE \A k \in 1..L : s[k].type # m.type
    <3>1. Inserted(s, m) = <<m>> \o s
      BY <2>1, <2>3 DEF Inserted, L
    <3>2. InsertAt(s, 1, m) = <<m>> \o s
      <4>1. SubSeq(s, 1, 0) = <<>> /\ SubSeq(s, 1, Len(s)) = s
        BY SubSeqEmpty, SubSeqFull
      <4>2. <<>> \o <<m>> = <<m>> /\ 1 - 1 = 0
        OBVIOUS
      <4>3. InsertAt(s, 1, m) = SubSeq(s, 1, 1 - 1) \o <<m>> \o SubSeq(s, 1, Len(s))
        BY DEF InsertAt
      <4> QED
        BY <4>1, <4>2, <4>3
    <3>3. ASSUME NEW n \in DOMAIN s
          PROVE  ~(n < 1) /\ Follows(s[n], m)
      <4>1. ~(n < 1) /\ (n \in 1..L \/ n > L)
        BY <1>1
      <4>2. Rank(s[n]) \in 0..2 /\ (s[n].type \in UberHighSingleton => s[n].type # m.type)
        BY <1>1, <1>2, <2>3, <4>1, RankOfTypes
      <4> QED
        BY <2>1, <4>1, <4>2 DEF Follows
    <3>4. 1 \in 1..(Len(s) + 1)
      BY <1>1
    <3> QED
      BY <3>1, <3>2, <3>3, <3>4, InsertInOrder
  <2> QED
    BY <2>2, <2>3
<1> QED
  BY <1>4, <1>5, <1>6 DEF Normal

-----------------------------------------------------------------------------
(* The queues of both renderers. *)

QueueState == [messages : [Renderers -> Seq(Message)], low : [Renderers -> Seq(Message)],
               isWaiting : [Renderers -> BOOLEAN]]

LowOnly(s) == \A n \in DOMAIN s : s[n].type \in Low

\* Both queues of each renderer hold what they should, in order.
InGoodOrder(q) ==
  /\ q \in QueueState
  /\ \A r \in Renderers : InOrder(q.messages[r], hand[r]) /\ LowOnly(q.low[r])

\* The number of a Normal message is larger than those before it.
LEMMA NextIdIsLarger ==
  ASSUME NEW q \in QueueState, NEW r \in Renderers, NEW type,
         hand \in [Renderers -> Message]
  PROVE  /\ NextId(q, r, type) \in Nat
         /\ type \in Normal => /\ hand[r].id < NextId(q, r, type)
                              /\ \A n \in DOMAIN q.messages[r] :
                                   q.messages[r][n].id < NextId(q, r, type)
<1> DEFINE s == q.messages[r]
           S == {hand[r].id} \union {s[n].id : n \in DOMAIN s}
<1>1. s \in Seq(Message) /\ hand[r] \in Message
  BY DEF QueueState
<1>2. \A m \in Message : m.id \in Nat
  BY DEF Message
<1>3. hand[r].id \in Nat /\ \A n \in DOMAIN s : s[n].id \in Nat
  <2>1. \A n \in DOMAIN s : s[n] \in Message
    BY <1>1, ElementOfSeq, LenProperties
  <2> QED
    BY <1>1, <1>2, <2>1
<1>4. PICK b \in Nat : \A n \in DOMAIN s : s[n].id <= b
  BY <1>1, IdsAreBounded
<1> HIDE DEF s
<1> DEFINE c == IF hand[r].id > b THEN hand[r].id ELSE b
<1>5. c \in Nat /\ \A x \in S : x \in Nat /\ x <= c
  BY <1>3, <1>4
<1>6. S \subseteq Nat /\ S # {}
  BY <1>3
<1>7. hand[r].id \in S /\ \A n \in DOMAIN s : s[n].id \in S
  OBVIOUS
<1> HIDE DEF S, c
<1>8. Max(S) \in S /\ \A x \in S : x <= Max(S)
  BY <1>5, <1>6, MaxIsLargest
<1>9. Max(S) \in Nat
  BY <1>6, <1>8
<1>10. \A x \in S : x < 1 + Max(S)
  BY <1>6, <1>8, <1>9
<1>11. NextId(q, r, type) = IF type \in Normal THEN 1 + Max(S) ELSE 0
  BY DEF NextId, S, s
<1>12. NextId(q, r, type) \in Nat
  BY <1>9, <1>11
<1>13. \A n \in DOMAIN s : type \in Normal => s[n].id < NextId(q, r, type)
  BY <1>7, <1>10, <1>11
<1>14. type \in Normal => hand[r].id < NextId(q, r, type)
  BY <1>7, <1>10, <1>11
<1> QED
  BY <1>12, <1>13, <1>14 DEF s

\* PostMessage.
LEMMA PostedInOrder ==
  ASSUME NEW q, InGoodOrder(q), hand \in [Renderers -> Message],
         NEW r \in Renderers, NEW type \in Types
  PROVE  InGoodOrder(Posted(q, r, type))
<1> DEFINE m == [type |-> type, id |-> NextId(q, r, type)]
           s == q.messages[r]
<1>1. q \in QueueState /\ NextId(q, r, type) \in Nat
  BY NextIdIsLarger DEF InGoodOrder
<1>2. m \in Message
  BY <1>1 DEF Message
<1>3. s \in Seq(Message) /\ InOrder(s, hand[r])
  BY <1>1 DEF InGoodOrder, QueueState
<1>4. FollowsHand(m, hand[r]) /\ (m.type \in Normal => \A n \in DOMAIN s : s[n].id < m.id)
  BY <1>1, NextIdIsLarger DEF FollowsHand
<1>5. m.type = type
  OBVIOUS
<1> HIDE DEF m, s
<1>6. CASE cancelled[r] \/ (filtered[r] /\ type \in ContextDependent)
  BY <1>6 DEF Posted
<1>7. CASE ~(cancelled[r] \/ (filtered[r] /\ type \in ContextDependent)) /\ type \in Low
  <2>1. Posted(q, r, type) = [messages |-> q.messages, low |-> [q.low EXCEPT ![r] = Append(@, m)],
                             isWaiting |-> [q.isWaiting EXCEPT ![r] = FALSE]]
    BY <1>7 DEF Posted, m
  <2>2. q.low[r] \in Seq(Message) /\ LowOnly(q.low[r])
    BY <1>1 DEF QueueState, InGoodOrder
  <2>3. Append(q.low[r], m) \in Seq(Message) /\ LowOnly(Append(q.low[r], m))
    BY <1>2, <1>5, <1>7, <2>2, AppendProperties DEF LowOnly
  <2> QED
    BY <1>1, <2>1, <2>3 DEF InGoodOrder, QueueState
<1>8. CASE ~(cancelled[r] \/ (filtered[r] /\ type \in ContextDependent)) /\ type \notin Low
  <2>1. Posted(q, r, type) = [messages |-> [q.messages EXCEPT ![r] = Inserted(@, m)], low |-> q.low,
                             isWaiting |-> [q.isWaiting EXCEPT ![r] = FALSE]]
    BY <1>8 DEF Posted, m
  <2>2. Inserted(s, m) \in Seq(Message) /\ InOrder(Inserted(s, m), hand[r])
    BY <1>2, <1>3, <1>4, <1>5, <1>8, InsertedInOrder
  <2> QED
    BY <1>1, <2>1, <2>2 DEF InGoodOrder, QueueState, s
<1> QED
  BY <1>6, <1>7, <1>8

\* A filter, field by field.
LEMMA WithoutFields ==
  ASSUME NEW q \in QueueState, NEW r \in Renderers, NEW types
  PROVE  Without(q, r, types) =
           [messages |-> [q.messages EXCEPT ![r] = Dropped(@, types)],
            low |-> [q.low EXCEPT ![r] = Dropped(@, types)], isWaiting |-> q.isWaiting]
<1>1. q = [messages |-> q.messages, low |-> q.low, isWaiting |-> q.isWaiting]
  BY DEF QueueState
<1> DEFINE ms == [q.messages EXCEPT ![r] = Dropped(@, types)]
           lo == [q.low EXCEPT ![r] = Dropped(@, types)]
           w == [messages |-> ms, low |-> q.low, isWaiting |-> q.isWaiting]
<1>2. [q EXCEPT !.messages[r] = Dropped(@, types)] = w
  BY <1>1
<1>3. [w EXCEPT !.low[r] = Dropped(q.low[r], types)] =
        [messages |-> ms, low |-> lo, isWaiting |-> q.isWaiting]
  <2> HIDE DEF ms
  <2> QED
    BY DEF w
<1>4. Without(q, r, types) =
        [[q EXCEPT !.messages[r] = Dropped(@, types)] EXCEPT !.low[r] = Dropped(q.low[r], types)]
  BY DEF Without
<1> HIDE DEF ms, lo, w
<1>5. Without(q, r, types) = [messages |-> ms, low |-> lo, isWaiting |-> q.isWaiting]
  BY <1>2, <1>3, <1>4
<1> QED
  BY <1>5 DEF ms, lo

\* FilterMessagesImpl.
LEMMA WithoutInOrder ==
  ASSUME NEW q, InGoodOrder(q), NEW r \in Renderers, NEW types
  PROVE  InGoodOrder(Without(q, r, types))
<1>1. q \in QueueState
  BY DEF InGoodOrder
<1>2. q.messages[r] \in Seq(Message) /\ q.low[r] \in Seq(Message)
  BY <1>1 DEF QueueState
<1>3. /\ Thinned(Dropped(q.messages[r], types), q.messages[r], types)
      /\ Thinned(Dropped(q.low[r], types), q.low[r], types)
  BY <1>2, DroppedIsThinned
<1>4. InOrder(Dropped(q.messages[r], types), hand[r])
  BY <1>2, <1>3, ThinnedInOrder DEF InGoodOrder
<1>5. LowOnly(Dropped(q.low[r], types))
  BY <1>3 DEF Thinned, LowOnly, InGoodOrder
<1>6. Dropped(q.messages[r], types) \in Seq(Message) /\ Dropped(q.low[r], types) \in Seq(Message)
  BY <1>3 DEF Thinned
<1>7. Without(q, r, types) =
        [messages |-> [q.messages EXCEPT ![r] = Dropped(@, types)],
         low |-> [q.low EXCEPT ![r] = Dropped(@, types)], isWaiting |-> q.isWaiting]
  BY <1>1, WithoutFields
<1> QED
  BY <1>1, <1>4, <1>5, <1>6, <1>7 DEF InGoodOrder, QueueState

-----------------------------------------------------------------------------
(* The first invariant: the types, and the order of the queues. *)

\* Where the platform thread can be.
GuiOK ==
  gui \in [at : {"idle", "ask", "cancelWait", "await", "clear", "join", "over"},
           op : {"none", "enable", "disable", "destroy", "stop"},
           turn : Renderers, notified : BOOLEAN]

\* The types of what is not in a queue, without m_contextCounter.
StateOK ==
  /\ filtered \in [Renderers -> BOOLEAN]
  /\ pc \in [Renderers -> Labels] /\ waits \in [Renderers -> BOOLEAN]
  /\ cancelled \in [Renderers -> BOOLEAN] /\ isEnabled \in [Renderers -> BOOLEAN]
  /\ wasNotified \in [Renderers -> BOOLEAN] /\ wasContextReset \in [Renderers -> BOOLEAN]
  /\ handler \in [Renderers -> BOOLEAN]
  /\ context \in [Renderers -> BOOLEAN] /\ textures \in BOOLEAN
  /\ posts \in 0..MaxPosts /\ toggles \in 0..MaxToggles
  /\ GuiOK

\* What the frontend has still to post, and where it then is.
TodoOK ==
  \/ pc["frontend"] \notin {"post", "blocked"} /\ todo = <<>>
  \/ /\ pc["frontend"] = "post"
     /\ \/ todo = <<"InvalidateReadManagerRect", "UpdateReadManager">>
        \/ todo = <<"RestartReading", "SwitchMapStyle", "UpdateReadManager">>
  \/ /\ pc["frontend"] \in {"post", "blocked"}
     /\ \/ todo = <<"UpdateReadManager">>
        \/ todo = <<"SwitchMapStyle", "UpdateReadManager">>

HandOK == hand \in [Renderers -> Message]

\* The queues hold what they should, in order.
OrderOK ==
  /\ messages \in [Renderers -> Seq(Message)] /\ low \in [Renderers -> Seq(Message)]
  /\ isWaiting \in [Renderers -> BOOLEAN]
  /\ \A r \in Renderers : InOrder(messages[r], hand[r]) /\ LowOnly(low[r])

QueueInv == StateOK /\ HandOK /\ TodoOK /\ OrderOK

\* The two renderers.
LEMMA OtherRenderer ==
  /\ Other("frontend") = "backend" /\ Other("backend") = "frontend"
  /\ \A r \in Renderers : Other(r) \in Renderers
BY DEF Other, Renderers

\* The platform thread goes on to a place that there is.
LEMMA NextTurnType ==
  ASSUME GuiOK, NextTurn
  PROVE  GuiOK'
BY OtherRenderer DEF GuiOK, NextTurn

\* An operation begins.
LEMMA AskType ==
  ASSUME GuiOK, NEW op \in {"enable", "disable", "destroy", "stop"}, Ask(op)
  PROVE  GuiOK'
BY DEF GuiOK, Ask, FirstOf, Renderers

\* Each step of a renderer keeps the types.
LEMMA RendererState ==
  ASSUME StateOK, NEW r \in Renderers, Renderer(r)
  PROVE  StateOK'
<1> USE DEF StateOK, At, Goto, queueVars, threadVars, enableVars, contextVars
<1>1. {"create", "loop", "frame", "pop", "wait", "handle", "post", "blocked", "check",
       "destroy", "notify", "rest", "notifyCreate", "notifyLoop", "done"} \subseteq Labels
  BY DEF Labels
<1>2. CASE Loop(r)
  BY <1>1, <1>2 DEF Loop, GuiOK
<1>3. CASE PopMessage(r)
  BY <1>1, <1>3 DEF PopMessage, Take, GuiOK
<1>4. CASE StopWaiting(r)
  BY <1>1, <1>4 DEF StopWaiting, Take, GuiOK
<1>5. CASE CheckRenderingEnabled(r)
  BY <1>1, <1>5 DEF CheckRenderingEnabled, LosesContext, GuiOK
<1>6. CASE OnContextDestroy(r)
  BY <1>1, <1>6 DEF OnContextDestroy, GuiOK
<1>7. CASE NotifyDisabled(r)
  BY <1>1, <1>7 DEF NotifyDisabled, CallHandler, GuiOK
<1>8. CASE Wake(r)
  BY <1>1, <1>8 DEF Wake, SignalTaken, GuiOK
<1>9. CASE NotifyEnabled(r)
  BY <1>1, <1>9 DEF NotifyEnabled, CallHandler, GuiOK
<1>10. CASE CreateContext(r)
  BY <1>1, <1>10 DEF CreateContext, GuiOK
<1>11. CASE SkipFrame(r) \/ (r = "frontend" /\ Frame)
  BY <1>1, <1>11 DEF SkipFrame, Frame, GuiOK
<1>12. CASE r = "frontend" /\ AcceptByFrontend
  BY <1>1, <1>12 DEF AcceptByFrontend, Handled, GuiOK
<1>13. CASE r = "frontend" /\ PostToBackend
  BY <1>1, <1>13 DEF PostToBackend, Handled, GuiOK
<1>14. CASE r = "frontend" /\ Unblock
  BY <1>1, <1>14 DEF Unblock, GuiOK
<1>15. CASE r = "backend" /\ AcceptByBackend
  BY <1>1, <1>15 DEF AcceptByBackend, Handled, GuiOK
<1> QED
  BY <1>2, <1>3, <1>4, <1>5, <1>6, <1>7, <1>8, <1>9, <1>10, <1>11, <1>12, <1>13, <1>14, <1>15
     DEF Renderer

\* Each step of the others keeps the types.
LEMMA PlatformState ==
  ASSUME StateOK, Toggle \/ Teardown \/ Platform \/ Post
  PROVE  StateOK'
<1> USE DEF StateOK, queueVars, threadVars, enableVars, contextVars
<1>1. GuiOK => gui.turn \in Renderers
  BY DEF GuiOK
<1>2. CASE Toggle
  <2>1. PICK op \in {"enable", "disable", "destroy", "stop"} : Ask(op)
    BY <1>2 DEF Toggle
  <2>2. GuiOK'
    BY <2>1, AskType
  <2> QED
    BY <1>2, <2>2, BoundsAssumption DEF Toggle
<1>3. CASE Teardown
  BY <1>3, AskType DEF Teardown
<1>4. CASE AskToDisable
  <2>1. GuiOK'
    <3>1. CASE ~isEnabled[gui.turn]
      BY <1>4, <3>1, NextTurnType DEF AskToDisable
    <3>2. CASE isEnabled[gui.turn]
      BY <1>4, <3>2 DEF AskToDisable, GuiOK
    <3> QED
      BY <3>1, <3>2
  <2> QED
    BY <1>1, <1>4, <2>1 DEF AskToDisable
<1>5. CASE CancelMessageWaiting
  BY <1>5 DEF CancelMessageWaiting, GuiOK
<1>6. CASE AskToEnable
  <2>1. GuiOK'
    <3>1. CASE isEnabled[gui.turn]
      BY <1>6, <3>1, NextTurnType DEF AskToEnable
    <3>2. CASE ~isEnabled[gui.turn]
      BY <1>6, <3>2 DEF AskToEnable, GuiOK
    <3> QED
      BY <3>1, <3>2
  <2> QED
    BY <1>1, <1>6, <2>1 DEF AskToEnable
<1>7. CASE Answered
  BY <1>7, NextTurnType DEF Answered
<1>8. CASE AskToStop
  BY <1>1, <1>8 DEF AskToStop, GuiOK
<1>9. CASE ClearQuery
  BY <1>1, <1>9 DEF ClearQuery, GuiOK
<1>10. CASE Join
  BY <1>10, NextTurnType DEF Join
<1>11. CASE Post
  BY <1>11, BoundsAssumption DEF Post, GuiOK
<1> QED
  BY <1>2, <1>3, <1>4, <1>5, <1>6, <1>7, <1>8, <1>9, <1>10, <1>11 DEF Platform

\* Each step keeps what the frontend has to post and where it is in line.
LEMMA TodoStep ==
  ASSUME StateOK, TodoOK, [Next]_vars
  PROVE  TodoOK'
<1> USE DEF At, Goto, queueVars, threadVars, enableVars, contextVars
<1> DEFINE Inert == /\ todo' = todo /\ pc["frontend"] \notin {"post", "blocked"}
                    /\ pc'["frontend"] \notin {"post", "blocked"}
           Other1 == todo' = todo /\ pc'["frontend"] = pc["frontend"]
<1>1. Inert \/ Other1 => TodoOK'
  BY DEF TodoOK
<1>2. pc \in [Renderers -> Labels]
  BY DEF StateOK
<1>3. ASSUME NEW r \in Renderers, Renderer(r)
      PROVE  TodoOK'
  <2>1. CASE Loop(r)
    BY <1>1, <1>2, <2>1 DEF Loop, Renderers
  <2>2. CASE PopMessage(r)
    BY <1>1, <1>2, <2>2 DEF PopMessage, Take, Renderers
  <2>3. CASE StopWaiting(r)
    BY <1>1, <1>2, <2>3 DEF StopWaiting, Take, Renderers
  <2>4. CASE CheckRenderingEnabled(r)
    BY <1>1, <1>2, <2>4 DEF CheckRenderingEnabled, Renderers
  <2>5. CASE OnContextDestroy(r)
    BY <1>1, <1>2, <2>5 DEF OnContextDestroy, Renderers
  <2>6. CASE NotifyDisabled(r)
    BY <1>1, <1>2, <2>6 DEF NotifyDisabled, Renderers
  <2>7. CASE Wake(r)
    BY <1>1, <1>2, <2>7 DEF Wake, Renderers
  <2>8. CASE NotifyEnabled(r)
    BY <1>1, <1>2, <2>8 DEF NotifyEnabled, Renderers
  <2>9. CASE CreateContext(r)
    BY <1>1, <1>2, <2>9 DEF CreateContext, Renderers
  <2>10. CASE SkipFrame(r) \/ (r = "frontend" /\ Frame)
    BY <1>1, <1>2, <2>10 DEF SkipFrame, Frame, Renderers
  <2>11. CASE r = "frontend" /\ AcceptByFrontend
    <3> DEFINE type == hand["frontend"].type
    <3>1. todo' = Script(type) /\ pc["frontend"] = "handle"
      BY <2>11 DEF AcceptByFrontend
    <3>2. CASE todo' = <<>>
      BY <1>2, <2>11, <3>2 DEF AcceptByFrontend, Handled, TodoOK, Renderers
    <3>3. CASE todo' # <<>>
      <4>1. pc'["frontend"] = "post"
        BY <1>2, <2>11, <3>3 DEF AcceptByFrontend, Renderers
      <4>2. type = "InvalidateRect" \/ type = "UpdateMapStyle"
        BY <3>1, <3>3 DEF Script
      <4> HIDE DEF type
      <4> QED
        BY <3>1, <4>1, <4>2 DEF Script, TodoOK
    <3> QED
      BY <3>2, <3>3
  <2>12. CASE r = "frontend" /\ PostToBackend
    <3>1. todo' = Tail(todo) /\ pc["frontend"] = "post"
      BY <2>12 DEF PostToBackend
    <3>2. todo' # <<>> => pc'["frontend"] = "blocked"
      BY <1>2, <2>12 DEF PostToBackend, Renderers
    <3>3. todo' = <<>> => pc'["frontend"] \in {"pop", "check"}
      BY <1>2, <2>12 DEF PostToBackend, Handled, Renderers
    <3>4. \/ todo' = <<>>
          \/ todo' = <<"UpdateReadManager">>
          \/ todo' = <<"SwitchMapStyle", "UpdateReadManager">>
      <4>1. /\ Tail(<<"InvalidateReadManagerRect", "UpdateReadManager">>) = <<"UpdateReadManager">>
            /\ Tail(<<"SwitchMapStyle", "UpdateReadManager">>) = <<"UpdateReadManager">>
            /\ Tail(<<"UpdateReadManager">>) = <<>>
        OBVIOUS
      <4>2. Tail(<<"RestartReading", "SwitchMapStyle", "UpdateReadManager">>)
              = <<"SwitchMapStyle", "UpdateReadManager">>
        OBVIOUS
      <4> QED
        BY <3>1, <4>1, <4>2 DEF TodoOK
    <3> QED
      BY <3>2, <3>3, <3>4 DEF TodoOK
  <2>13. CASE r = "frontend" /\ Unblock
    BY <1>2, <2>13 DEF Unblock, TodoOK, Renderers
  <2>14. CASE r = "backend" /\ AcceptByBackend
    BY <1>1, <1>2, <2>14 DEF AcceptByBackend, Handled, Renderers
  <2> QED
    BY <1>3, <2>1, <2>2, <2>3, <2>4, <2>5, <2>6, <2>7, <2>8, <2>9, <2>10, <2>11, <2>12,
       <2>13, <2>14 DEF Renderer
<1>4. CASE Toggle \/ Teardown \/ Platform \/ Post \/ UNCHANGED vars
  BY <1>1, <1>4 DEF Toggle, Teardown, Platform, Post, vars, AskToDisable, CancelMessageWaiting,
     AskToEnable, Answered, AskToStop, ClearQuery, Join
<1> QED
  BY <1>3, <1>4 DEF Next

\* OrderOK and InGoodOrder say the same.
LEMMA OrderOfState ==
  OrderOK <=> InGoodOrder(Queues)
BY DEF OrderOK, InGoodOrder, Queues, QueueState

\* Queues in good order are set, and the hands stay as they are or one is empty.
LEMMA OrderWhenSet ==
  ASSUME HandOK, NEW q, InGoodOrder(q), SetQueues(q),
         \/ hand' = hand
         \/ \E r \in Renderers : hand' = [hand EXCEPT ![r] = NoMessage]
  PROVE  HandOK' /\ OrderOK'
<1>1. NoMessage \in Message /\ NoMessage.type \notin Normal
  BY DEF NoMessage, Message, Normal, Types
<1>2. HandOK'
  BY <1>1 DEF HandOK
<1>3. ASSUME NEW r \in Renderers
      PROVE  hand'[r] = hand[r] \/ hand'[r] = NoMessage
  BY DEF HandOK
<1>4. ASSUME NEW r \in Renderers
      PROVE  InOrder(q.messages[r], hand'[r])
  <2>1. InOrder(q.messages[r], hand[r])
    BY DEF InGoodOrder
  <2>2. InOrder(q.messages[r], NoMessage)
    BY <1>1, <2>1 DEF InOrder, FollowsHand
  <2> QED
    BY <1>3, <2>1, <2>2
<1>5. q.messages \in [Renderers -> Seq(Message)] /\ q.low \in [Renderers -> Seq(Message)]
      /\ q.isWaiting \in [Renderers -> BOOLEAN] /\ \A r \in Renderers : LowOnly(q.low[r])
  BY DEF InGoodOrder, QueueState
<1> QED
  BY <1>2, <1>4, <1>5 DEF OrderOK, SetQueues

\* Nothing that is in order changes.
LEMMA OrderWhenLeft ==
  ASSUME HandOK, OrderOK, UNCHANGED <<messages, low, hand>>, isWaiting' \in [Renderers -> BOOLEAN]
  PROVE  HandOK' /\ OrderOK'
BY DEF HandOK, OrderOK

\* A renderer takes the next message.
LEMMA OrderWhenTaken ==
  ASSUME HandOK, OrderOK, NEW r \in Renderers, Take(r), UNCHANGED isWaiting
  PROVE  HandOK' /\ OrderOK'
<1>1. CASE IsEmptyQueue(r)
  BY <1>1, OrderWhenLeft DEF Take, OrderOK
<1>2. CASE ~IsEmptyQueue(r) /\ messages[r] # <<>>
  <2>1. /\ hand' = [hand EXCEPT ![r] = Head(messages[r])]
        /\ messages' = [messages EXCEPT ![r] = Tail(@)] /\ UNCHANGED low
    BY <1>2 DEF Take
  <2>2. messages[r] \in Seq(Message) /\ InOrder(messages[r], hand[r])
    BY DEF OrderOK
  <2>3. /\ InOrder(Tail(messages[r]), Head(messages[r]))
        /\ Tail(messages[r]) \in Seq(Message) /\ Head(messages[r]) \in Message
    BY <1>2, <2>2, TailInOrder
  <2> QED
    BY <2>1, <2>3 DEF OrderOK, HandOK
<1>3. CASE ~IsEmptyQueue(r) /\ messages[r] = <<>>
  <2>1. /\ hand' = [hand EXCEPT ![r] = Head(low[r])]
        /\ low' = [low EXCEPT ![r] = Tail(@)] /\ UNCHANGED messages
    BY <1>3 DEF Take
  <2>2. low[r] \in Seq(Message) /\ LowOnly(low[r]) /\ low[r] # <<>>
    BY <1>3 DEF OrderOK, IsEmptyQueue
  <2>3. /\ Tail(low[r]) \in Seq(Message) /\ Head(low[r]) \in Message
        /\ DOMAIN Tail(low[r]) = 1..(Len(low[r]) - 1) /\ DOMAIN low[r] = 1..Len(low[r])
        /\ \A n \in 1..(Len(low[r]) - 1) : Tail(low[r])[n] = low[r][n + 1]
        /\ Len(low[r]) \in Nat
    BY <2>2, HeadTailProperties, LenProperties
  <2>4. LowOnly(Tail(low[r]))
    BY <2>2, <2>3 DEF LowOnly
  <2>5. InOrder(messages[r], Head(low[r]))
    BY <1>3 DEF InOrder
  <2> QED
    BY <2>1, <2>3, <2>4, <2>5 DEF OrderOK, HandOK
<1> QED
  BY <1>1, <1>2, <1>3

\* Each step keeps the queues in order.
LEMMA OrderStep ==
  ASSUME QueueInv, [Next]_vars
  PROVE  HandOK' /\ OrderOK'
<1> USE DEF queueVars, threadVars, enableVars, contextVars
<1>1. HandOK /\ OrderOK /\ TodoOK /\ StateOK /\ InGoodOrder(Queues)
  BY OrderOfState DEF QueueInv
<1>2. isWaiting \in [Renderers -> BOOLEAN] /\ hand \in [Renderers -> Message]
  BY <1>1 DEF OrderOK, HandOK
<1>3. Queues = [messages |-> messages, low |-> low, isWaiting |-> isWaiting]
  BY DEF Queues
<1>4. ASSUME NEW r \in Renderers, Renderer(r)
      PROVE  HandOK' /\ OrderOK'
  <2>1. CASE Loop(r) \/ OnContextDestroy(r) \/ NotifyDisabled(r) \/ Wake(r) \/ NotifyEnabled(r)
    BY <1>1, <1>2, <2>1, OrderWhenLeft DEF Loop, OnContextDestroy, NotifyDisabled, Wake, NotifyEnabled
  <2>2. CASE SkipFrame(r) \/ (r = "frontend" /\ (Frame \/ Unblock))
    BY <1>1, <1>2, <2>2, OrderWhenLeft DEF SkipFrame, Frame, Unblock
  <2>3. CASE PopMessage(r)
    <3>1. CASE waits[r] /\ IsEmptyQueue(r)
      <4>1. isWaiting' \in [Renderers -> BOOLEAN] /\ UNCHANGED <<messages, low, hand>>
        BY <1>2, <2>3, <3>1 DEF PopMessage
      <4> QED
        BY <1>1, <4>1, OrderWhenLeft
    <3>2. CASE ~(waits[r] /\ IsEmptyQueue(r))
      BY <1>1, <2>3, <3>2, OrderWhenTaken DEF PopMessage
    <3> QED
      BY <3>1, <3>2
  <2>4. CASE StopWaiting(r)
    BY <1>1, <2>4, OrderWhenTaken DEF StopWaiting
  <2>5. CASE CheckRenderingEnabled(r)
    <3>1. InGoodOrder(IF LosesContext(r) THEN Filtered(Queues, r) ELSE Queues)
      BY <1>1, WithoutInOrder DEF Filtered
    <3>2. hand' = hand /\ SetQueues(IF LosesContext(r) THEN Filtered(Queues, r) ELSE Queues)
      BY <2>5 DEF CheckRenderingEnabled
    <3> QED
      BY <1>1, <3>1, <3>2, OrderWhenSet
  <2>6. CASE CreateContext(r)
    <3> DEFINE q == IF r = "backend"
                      THEN Posted(Queues, "frontend", "FinishTexturesInitialization") ELSE Queues
    <3>1. InGoodOrder(q)
      BY <1>1, <1>2, PostedInOrder DEF Types, Renderers
    <3>2. hand' = hand /\ SetQueues(q)
      BY <2>6 DEF CreateContext
    <3> HIDE DEF q
    <3> QED
      BY <1>1, <3>1, <3>2, OrderWhenSet
  <2>7. CASE r = "frontend" /\ AcceptByFrontend
    <3>1. hand' = hand \/ hand' = [hand EXCEPT !["frontend"] = NoMessage]
      BY <2>7 DEF AcceptByFrontend, Handled
    <3>2. SetQueues(Queues)
      BY <1>3, <2>7 DEF AcceptByFrontend, SetQueues
    <3> QED
      BY <1>1, <2>7, <3>1, <3>2, OrderWhenSet
  <2>8. CASE r = "frontend" /\ PostToBackend
    <3>1. Head(todo) \in Types
      <4>1. pc["frontend"] = "post"
        BY <2>8 DEF PostToBackend, At
      <4>2. Head(todo) \in {"InvalidateReadManagerRect", "UpdateReadManager",
                            "RestartReading", "SwitchMapStyle"}
        BY <1>1, <4>1 DEF TodoOK
      <4> QED
        BY <4>2 DEF Types
    <3>2. InGoodOrder(Posted(Queues, "backend", Head(todo)))
      BY <1>1, <1>2, <3>1, PostedInOrder DEF Renderers
    <3>3. hand' = hand \/ hand' = [hand EXCEPT !["frontend"] = NoMessage]
      BY <2>8 DEF PostToBackend, Handled
    <3>4. SetQueues(Posted(Queues, "backend", Head(todo)))
      BY <2>8 DEF PostToBackend
    <3> QED
      BY <1>1, <2>8, <3>2, <3>3, <3>4, OrderWhenSet
  <2>9. CASE r = "backend" /\ AcceptByBackend
    <3> DEFINE type == hand["backend"].type
               w == Without(Queues, "frontend", WithRenderState)
               q == CASE type = "SwitchMapStyle" -> Posted(w, "frontend", "GuiLayerRecached")
                      [] type = "GuiRecache" -> Posted(Queues, "frontend", "GuiLayerRecached")
                      [] OTHER -> Queues
    <3>1. "frontend" \in Renderers /\ "GuiLayerRecached" \in Types
      BY DEF Renderers, Types
    <3>2. InGoodOrder(w)
      BY <1>1, <3>1, WithoutInOrder
    <3> HIDE DEF w, type
    <3>3. /\ InGoodOrder(Posted(w, "frontend", "GuiLayerRecached"))
          /\ InGoodOrder(Posted(Queues, "frontend", "GuiLayerRecached"))
      BY <1>1, <1>2, <3>1, <3>2, PostedInOrder
    <3>4. InGoodOrder(q)
      BY <1>1, <3>3
    <3>5. SetQueues(q)
      BY <2>9 DEF AcceptByBackend, w, type
    <3>6. hand' = [hand EXCEPT !["backend"] = NoMessage]
      BY <2>9 DEF AcceptByBackend, Handled
    <3> HIDE DEF q
    <3> QED
      BY <1>1, <2>9, <3>4, <3>5, <3>6, OrderWhenSet
  <2> QED
    BY <1>4, <2>1, <2>2, <2>3, <2>4, <2>5, <2>6, <2>7, <2>8, <2>9 DEF Renderer
<1>5. CASE \/ Toggle \/ Teardown \/ AskToDisable \/ AskToEnable \/ Answered \/ AskToStop \/ Join
           \/ UNCHANGED vars
  BY <1>1, <1>2, <1>5, OrderWhenLeft DEF Toggle, Teardown, AskToDisable, AskToEnable, Answered,
     AskToStop, Join, vars
<1>6. CASE CancelMessageWaiting
  <2>1. isWaiting' \in [Renderers -> BOOLEAN] /\ UNCHANGED <<messages, low, hand>>
    BY <1>2, <1>6 DEF CancelMessageWaiting
  <2> QED
    BY <1>1, <2>1, OrderWhenLeft
<1>7. CASE ClearQuery
  <2>1. gui.turn \in Renderers
    BY <1>1 DEF StateOK, GuiOK
  <2>2. InOrder(<<>>, hand[gui.turn]) /\ LowOnly(<<>>) /\ <<>> \in Seq(Message)
    BY DEF InOrder, LowOnly
  <2>3. /\ messages' = [messages EXCEPT ![gui.turn] = <<>>]
        /\ low' = [low EXCEPT ![gui.turn] = <<>>] /\ UNCHANGED <<hand, isWaiting>>
    BY <1>7 DEF ClearQuery
  <2> QED
    BY <1>1, <2>1, <2>2, <2>3 DEF HandOK, OrderOK
<1>8. CASE Post
  <2>1. PICK type \in External : SetQueues(Posted(Queues, Receiver(type), type))
    BY <1>8 DEF Post
  <2>2. type \in Types /\ Receiver(type) \in Renderers
    BY ExternalAssumption DEF Types, Receiver, Renderers
  <2>3. InGoodOrder(Posted(Queues, Receiver(type), type))
    BY <1>1, <1>2, <2>2, PostedInOrder
  <2>4. hand' = hand
    BY <1>8 DEF Post
  <2> QED
    BY <1>1, <2>1, <2>3, <2>4, OrderWhenSet
<1> QED
  BY <1>4, <1>5, <1>6, <1>7, <1>8 DEF Next, Platform

\* The queues and the variables of the renderers have their types, and the queues are
\* in order, always.
THEOREM QueuesAreSound == Spec => []QueueInv
<1>1. Init => QueueInv
  <2> SUFFICES ASSUME Init PROVE QueueInv
    OBVIOUS
  <2>1. StateOK
    <3>1. GuiOK
      BY DEF Init, GuiOK, Renderers
    <3>2. pc \in [Renderers -> Labels]
      BY DEF Init, Labels
    <3>3. posts \in 0..MaxPosts /\ toggles \in 0..MaxToggles
      BY BoundsAssumption DEF Init
    <3> QED
      BY <3>1, <3>2, <3>3 DEF Init, StateOK
  <2>2. HandOK /\ TodoOK
    BY DEF Init, HandOK, TodoOK, NoMessage, Message, Types, Renderers
  <2>3. OrderOK
    BY DEF Init, OrderOK, InOrder, LowOnly
  <2> QED
    BY <2>1, <2>2, <2>3 DEF QueueInv
<1>2. QueueInv /\ [Next]_vars => QueueInv'
  <2> SUFFICES ASSUME QueueInv, [Next]_vars PROVE QueueInv'
    OBVIOUS
  <2>1. StateOK'
    <3>1. CASE UNCHANGED vars
      BY <3>1 DEF vars, queueVars, threadVars, enableVars, contextVars, QueueInv, StateOK, GuiOK
    <3> QED
      BY <3>1, RendererState, PlatformState DEF Next, QueueInv
  <2>2. TodoOK'
    BY TodoStep DEF QueueInv
  <2> QED
    BY <2>1, <2>2, OrderStep DEF QueueInv
<1> QED
  BY <1>1, <1>2, PTL DEF Spec

\* Messages are handled by priority, and the Normal ones in the order in which they
\* were posted, whatever the renderers drop, filter and insert (message_queue.cpp).
THEOREM MessagesAreHandledInOrder == Spec => []MessagesKeepOrder
<1>1. QueueInv => MessagesKeepOrder
  BY OrderOfEachQueue DEF QueueInv, OrderOK
<1> QED
  BY <1>1, QueuesAreSound, PTL

-----------------------------------------------------------------------------
(* The second invariant: what the flags of a renderer say about where it is. *)

LifeOK ==
  \A r \in Renderers :
    /\ pc[r] = "done" => cancelled[r]
    /\ pc[r] \in {"destroy", "notify", "rest"} => ~isEnabled[r]
    /\ wasContextReset[r] => ~isEnabled[r]
    /\ filtered[r] =>
         /\ wasContextReset[r]
         /\ \/ pc[r] \in {"destroy", "notify", "rest"}
            \/ cancelled[r] /\ pc[r] \in {"notifyLoop", "loop", "done"}

\* On its way to rest, at rest, and on its way back.
Away == {"destroy", "notify", "rest", "notifyCreate", "notifyLoop"}

\* The renderer r goes from one place to another, and no flag changes.
Moves(r, from, to) ==
  /\ pc[r] \in from /\ \E x \in to : pc' = [pc EXCEPT ![r] = x]
  /\ UNCHANGED <<enableVars, gui>>

\* A renderer does not get near a rest.
Works(r) ==
  LET busy == Labels \ (Away \cup {"done"}) IN Moves(r, busy, busy) /\ UNCHANGED filtered

\* What a step of a renderer does to the flags.
FlagStep(r) ==
  \/ Works(r) /\ ~(cancelled[r] /\ pc[r] = "loop")
  \/ Moves(r, {"loop"}, {"done"}) /\ cancelled[r] /\ UNCHANGED filtered
  \/ CheckRenderingEnabled(r) /\ ~isEnabled[r]
  \/ OnContextDestroy(r) \/ NotifyDisabled(r) \/ Wake(r) \/ NotifyEnabled(r)

\* Each step of a renderer is one of those.
LEMMA RendererFlags ==
  ASSUME StateOK, NEW r \in Renderers, Renderer(r)
  PROVE  FlagStep(r)
<1> USE DEF At, Goto, queueVars, enableVars
<1> DEFINE Stays == /\ pc[r] \in Labels \ (Away \cup {"loop", "done"})
                    /\ \E x \in Labels \ (Away \cup {"done"}) : pc' = [pc EXCEPT ![r] = x]
                    /\ UNCHANGED <<cancelled, isEnabled, wasNotified, wasContextReset, handler, gui,
                                   filtered>>
<1>1. pc \in [Renderers -> Labels]
  BY DEF StateOK
<1>2. Stays => FlagStep(r)
  BY <1>1 DEF FlagStep, Works, Moves, Away
<1>3. CASE Loop(r)
  <2>1. CASE cancelled[r]
    BY <1>3, <2>1 DEF Loop, FlagStep, Moves
  <2>2. CASE ~cancelled[r]
    <3>1. /\ pc[r] = "loop" /\ \E x \in {"frame", "pop"} : pc' = [pc EXCEPT ![r] = x]
          /\ UNCHANGED <<cancelled, isEnabled, wasNotified, wasContextReset, handler, gui, filtered>>
      BY <1>3, <2>2 DEF Loop
    <3> QED
      BY <1>1, <2>2, <3>1 DEF FlagStep, Works, Moves, Away, Labels
  <2> QED
    BY <2>1, <2>2
<1>4. CASE PopMessage(r)
  BY <1>2, <1>4 DEF PopMessage, Take, Labels, Away
<1>5. CASE StopWaiting(r)
  BY <1>2, <1>5 DEF StopWaiting, Take, Labels, Away
<1>6. CASE CheckRenderingEnabled(r) /\ isEnabled[r]
  <2>1. filtered' = filtered
    BY <1>6 DEF CheckRenderingEnabled, LosesContext, StateOK
  <2>2. pc[r] = "check" /\ pc' = [pc EXCEPT ![r] = "loop"]
    BY <1>6 DEF CheckRenderingEnabled, LosesContext
  <2> QED
    BY <1>2, <1>6, <2>1, <2>2 DEF CheckRenderingEnabled, Labels, Away
<1>7. CASE CreateContext(r)
  BY <1>2, <1>7 DEF CreateContext, Labels, Away
<1>8. CASE SkipFrame(r) \/ (r = "frontend" /\ Frame)
  BY <1>2, <1>8 DEF SkipFrame, Frame, Labels, Away
<1>9. CASE r = "frontend" /\ AcceptByFrontend
  BY <1>2, <1>9 DEF AcceptByFrontend, Handled, Labels, Away
<1>10. CASE r = "frontend" /\ PostToBackend
  BY <1>2, <1>10 DEF PostToBackend, Handled, Labels, Away
<1>11. CASE r = "frontend" /\ Unblock
  BY <1>2, <1>11 DEF Unblock, Labels, Away
<1>12. CASE r = "backend" /\ AcceptByBackend
  BY <1>2, <1>12 DEF AcceptByBackend, Handled, Labels, Away
<1> QED
  BY <1>3, <1>4, <1>5, <1>6, <1>7, <1>8, <1>9, <1>10, <1>11, <1>12 DEF Renderer, FlagStep

\* Each step keeps LifeOK.
LEMMA LifeStep ==
  ASSUME StateOK, LifeOK, [Next]_vars
  PROVE  LifeOK'
<1> USE DEF At, Goto, queueVars, threadVars, enableVars, contextVars
<1>1. /\ pc \in [Renderers -> Labels] /\ filtered \in [Renderers -> BOOLEAN]
      /\ isEnabled \in [Renderers -> BOOLEAN] /\ wasContextReset \in [Renderers -> BOOLEAN]
      /\ cancelled \in [Renderers -> BOOLEAN] /\ gui.turn \in Renderers
  BY DEF StateOK, GuiOK
<1>2. ASSUME NEW r \in Renderers, FlagStep(r)
      PROVE  LifeOK'
  <2>1. CASE Works(r) /\ ~(cancelled[r] /\ pc[r] = "loop")
    <3>1. /\ pc[r] \notin Away \cup {"done"} /\ pc'[r] \notin Away \cup {"done"}
          /\ \A s \in Renderers : s # r => pc'[s] = pc[s]
          /\ UNCHANGED <<cancelled, isEnabled, wasContextReset, filtered>>
      BY <1>1, <2>1 DEF Works, Moves
    <3>2. ~filtered[r]
      BY <2>1, <3>1 DEF LifeOK, Away
    <3> QED
      BY <3>1, <3>2 DEF LifeOK, Away
  <2>2. CASE Moves(r, {"loop"}, {"done"}) /\ cancelled[r] /\ UNCHANGED filtered
    BY <1>1, <2>2 DEF Moves, LifeOK
  <2>3. CASE CheckRenderingEnabled(r) /\ ~isEnabled[r]
    BY <1>1, <2>3 DEF CheckRenderingEnabled, LosesContext, LifeOK
  <2>4. CASE OnContextDestroy(r)
    BY <1>1, <2>4 DEF OnContextDestroy, LifeOK
  <2>5. CASE NotifyDisabled(r)
    BY <1>1, <2>5 DEF NotifyDisabled, LifeOK
  <2>6. CASE Wake(r)
    BY <1>1, <2>6 DEF Wake, LifeOK
  <2>7. CASE NotifyEnabled(r)
    BY <1>1, <2>7 DEF NotifyEnabled, LifeOK
  <2> QED
    BY <1>2, <2>1, <2>2, <2>3, <2>4, <2>5, <2>6, <2>7 DEF FlagStep
<1>3. CASE Toggle \/ Teardown \/ CancelMessageWaiting \/ AskToEnable \/ Answered \/ ClearQuery \/ Join
           \/ Post \/ UNCHANGED vars
  BY <1>3 DEF Toggle, Teardown, CancelMessageWaiting, AskToEnable, Answered, ClearQuery, Join, Post,
     vars, LifeOK
<1>4. CASE AskToDisable
  BY <1>1, <1>4 DEF AskToDisable, LifeOK
<1>5. CASE AskToStop
  BY <1>1, <1>5 DEF AskToStop, LifeOK
<1> QED
  BY <1>2, <1>3, <1>4, <1>5, RendererFlags DEF Next, Platform

\* A renderer that filters its queue is at rest, or near it, and lost its context.
THEOREM FlagsAreTrue == Spec => []LifeOK
<1>1. Init => LifeOK
  BY DEF Init, LifeOK
<1>2. QueueInv /\ LifeOK /\ [Next]_vars => LifeOK'
  BY LifeStep DEF QueueInv
<1> QED
  BY <1>1, <1>2, QueuesAreSound, PTL DEF Spec

-----------------------------------------------------------------------------
(* What is in the queues, by type. *)

Kinds(s) == {s[n].type : n \in DOMAIN s}

\* PushMessage adds the message and nothing else.
LEMMA KindsOfInserted ==
  ASSUME NEW s \in Seq(Message), NEW m \in Message, m.type \in Types \ Low
  PROVE  Kinds(Inserted(s, m)) \subseteq Kinds(s) \cup {m.type}
<1>1. ASSUME NEW p \in 1..(Len(s) + 1)
      PROVE  Kinds(InsertAt(s, p, m)) \subseteq Kinds(s) \cup {m.type}
  <2> DEFINE v == InsertAt(s, p, m)
  <2>1. /\ v \in Seq(Message) /\ DOMAIN v = 1..(Len(s) + 1) /\ DOMAIN s = 1..Len(s)
        /\ Len(s) \in Nat
        /\ \A n \in 1..(Len(s) + 1) : v[n] = IF n < p THEN s[n] ELSE IF n = p THEN m ELSE s[n - 1]
    BY InsertAtMoves, LenProperties
  <2> HIDE DEF v
  <2>2. ASSUME NEW n \in DOMAIN v
        PROVE  v[n].type \in Kinds(s) \cup {m.type}
    <3>1. CASE n < p
      <4>1. n \in DOMAIN s /\ v[n] = s[n]
        BY <2>1, <3>1
      <4> QED
        BY <4>1 DEF Kinds
    <3>2. CASE n = p
      BY <2>1, <3>2
    <3>3. CASE n > p
      <4>1. n - 1 \in DOMAIN s /\ v[n] = s[n - 1]
        BY <2>1, <3>3
      <4> QED
        BY <4>1 DEF Kinds
    <3>4. n < p \/ n = p \/ n > p
      BY <2>1
    <3> QED
      BY <3>1, <3>2, <3>3, <3>4
  <2> QED
    BY <2>2 DEF Kinds, v
<1>2. LeadingIn(s, UberHighSingleton) + 1 \in 1..(Len(s) + 1) /\ PlaceAtBack(s) \in 1..(Len(s) + 1)
      /\ 1 \in 1..(Len(s) + 1)
  <2>1. Len(s) \in Nat /\ LeadingIn(s, UberHighSingleton) \in 0..Len(s)
    BY LeadingInIsPrefix, LenProperties
  <2> QED
    BY <2>1 DEF PlaceAtBack
<1>3. \/ Inserted(s, m) = InsertAt(s, LeadingIn(s, UberHighSingleton) + 1, m)
      \/ Inserted(s, m) = InsertAt(s, PlaceAtBack(s), m)
      \/ Inserted(s, m) = s \/ Inserted(s, m) = <<m>> \o s
  BY DEF Inserted
<1>4. Kinds(<<m>> \o s) \subseteq Kinds(s) \cup {m.type}
  <2>1. SubSeq(s, 1, 0) = <<>> /\ SubSeq(s, 1, Len(s)) = s /\ <<>> \o <<m>> = <<m>> /\ 1 - 1 = 0
    BY SubSeqEmpty, SubSeqFull
  <2>2. InsertAt(s, 1, m) = SubSeq(s, 1, 1 - 1) \o <<m>> \o SubSeq(s, 1, Len(s))
    BY DEF InsertAt
  <2>3. InsertAt(s, 1, m) = <<m>> \o s
    BY <2>1, <2>2
  <2> QED
    BY <1>1, <1>2, <2>3
<1> QED
  BY <1>1, <1>2, <1>3, <1>4

\* PostMessage adds one message, to one queue, if the filter lets it.
LEMMA KindsOfPosted ==
  ASSUME NEW q, InGoodOrder(q), hand \in [Renderers -> Message],
         NEW r \in Renderers, NEW type \in Types, NEW x \in Renderers
  PROVE  \A k \in Kinds(Posted(q, r, type).messages[x]) :
           \/ k \in Kinds(q.messages[x])
           \/ k = type /\ x = r /\ ~(filtered[r] /\ type \in ContextDependent)
<1> DEFINE m == [type |-> type, id |-> NextId(q, r, type)]
<1>1. q \in QueueState /\ NextId(q, r, type) \in Nat
  BY NextIdIsLarger DEF InGoodOrder
<1>2. m \in Message /\ m.type = type
  BY <1>1 DEF Message
<1>3. CASE cancelled[r] \/ (filtered[r] /\ type \in ContextDependent) \/ type \in Low
  BY <1>3 DEF Posted
<1>4. CASE ~(cancelled[r] \/ (filtered[r] /\ type \in ContextDependent)) /\ type \notin Low
  <2>1. Posted(q, r, type).messages = [q.messages EXCEPT ![r] = Inserted(@, m)]
    BY <1>4 DEF Posted, m
  <2>2. q.messages[r] \in Seq(Message)
    BY <1>1 DEF QueueState
  <2> HIDE DEF m
  <2>3. Kinds(Inserted(q.messages[r], m)) \subseteq Kinds(q.messages[r]) \cup {type}
    BY <1>2, <1>4, <2>2, KindsOfInserted
  <2> QED
    BY <1>1, <1>4, <2>1, <2>3 DEF QueueState
<1> QED
  BY <1>3, <1>4

\* A filter takes its types out of one queue and leaves the other alone.
LEMMA KindsOfWithout ==
  ASSUME NEW q, InGoodOrder(q), NEW r \in Renderers, NEW types, NEW x \in Renderers
  PROVE  /\ Kinds(Without(q, r, types).messages[x]) \subseteq Kinds(q.messages[x])
         /\ x = r => \A k \in Kinds(Without(q, r, types).messages[x]) : k \notin types
<1>1. q \in QueueState
  BY DEF InGoodOrder
<1>2. q.messages[r] \in Seq(Message)
  BY <1>1 DEF QueueState
<1>3. Thinned(Dropped(q.messages[r], types), q.messages[r], types)
  BY <1>2, DroppedIsThinned
<1>4. /\ Kinds(Dropped(q.messages[r], types)) \subseteq Kinds(q.messages[r])
      /\ \A k \in Kinds(Dropped(q.messages[r], types)) : k \notin types
  BY <1>3 DEF Thinned, Kinds
<1>5. Without(q, r, types).messages = [q.messages EXCEPT ![r] = Dropped(@, types)]
  BY <1>1, WithoutFields
<1> QED
  BY <1>1, <1>4, <1>5 DEF QueueState

\* The tail of a queue.
LEMMA KindsOfTail ==
  ASSUME NEW s \in Seq(Message), s # <<>>
  PROVE  Kinds(Tail(s)) \subseteq Kinds(s) /\ Head(s).type \in Kinds(s)
<1>1. /\ Head(s) = s[1] /\ DOMAIN s = 1..Len(s) /\ Len(s) \in Nat /\ Len(s) # 0
      /\ DOMAIN Tail(s) = 1..(Len(s) - 1)
      /\ \A n \in 1..(Len(s) - 1) : Tail(s)[n] = s[n + 1]
  BY HeadTailProperties, LenProperties, EmptySeq
<1>2. \A n \in DOMAIN Tail(s) : n + 1 \in DOMAIN s
  BY <1>1
<1>3. 1 \in DOMAIN s
  BY <1>1
<1> QED
  BY <1>1, <1>2, <1>3 DEF Kinds

\* What a step brings into a queue: nothing that its filter drops, and a blocking
\* message only from the frontend.  A filter that is set leaves nothing behind.
LEMMA KindsStep ==
  ASSUME QueueInv, [Next]_vars, NEW x \in Renderers, NEW k \in Kinds(messages'[x])
  PROVE  /\ \/ k \in Kinds(messages[x])
            \/ /\ ~(filtered[x] /\ k \in ContextDependent)
               /\ k \in Blocking => x = "backend" /\ PostToBackend /\ k = Head(todo)
         /\ filtered'[x] /\ ~filtered[x] => k \notin ContextDependent
<1> USE DEF queueVars, threadVars, enableVars, contextVars
<1> DEFINE Comes == \/ k \in Kinds(messages[x])
                    \/ /\ ~(filtered[x] /\ k \in ContextDependent)
                       /\ k \in Blocking => x = "backend" /\ PostToBackend /\ k = Head(todo)
           Leaves == filtered'[x] /\ ~filtered[x] => k \notin ContextDependent
<1>1. HandOK /\ OrderOK /\ TodoOK /\ StateOK /\ InGoodOrder(Queues)
  BY OrderOfState DEF QueueInv
<1>2. /\ hand \in [Renderers -> Message] /\ messages \in [Renderers -> Seq(Message)]
      /\ filtered \in [Renderers -> BOOLEAN] /\ Queues.messages = messages
  BY <1>1 DEF OrderOK, HandOK, StateOK, Queues
<1>3. messages' = messages => Comes
  OBVIOUS
<1>4. filtered' = filtered => Leaves
  OBVIOUS
<1>5. ASSUME NEW to \in Renderers, NEW type \in Types,
             SetQueues(Posted(Queues, to, type)) \/ messages' = messages,
             type \in Blocking => to = "backend" /\ PostToBackend /\ type = Head(todo)
      PROVE  Comes
  <2>1. CASE SetQueues(Posted(Queues, to, type))
    <3>1. messages' = Posted(Queues, to, type).messages
      BY <2>1 DEF SetQueues
    <3>2. \/ k \in Kinds(messages[x])
          \/ k = type /\ x = to /\ ~(filtered[to] /\ type \in ContextDependent)
      BY <1>1, <1>2, <3>1, KindsOfPosted
    <3> QED
      BY <1>5, <3>2
  <2> QED
    BY <1>3, <1>5, <2>1
<1>6. ASSUME NEW r \in Renderers, Renderer(r)
      PROVE  Comes /\ Leaves
  <2>1. CASE Loop(r) \/ OnContextDestroy(r) \/ NotifyDisabled(r) \/ NotifyEnabled(r)
    BY <1>3, <1>4, <2>1 DEF Loop, OnContextDestroy, NotifyDisabled, NotifyEnabled
  <2>2. CASE Wake(r)
    BY <1>2, <1>3, <2>2 DEF Wake
  <2>3. CASE SkipFrame(r) \/ (r = "frontend" /\ (Frame \/ Unblock \/ AcceptByFrontend))
    BY <1>3, <1>4, <2>3 DEF SkipFrame, Frame, Unblock, AcceptByFrontend
  <2>4. CASE PopMessage(r) \/ StopWaiting(r)
    <3>1. messages' = messages \/ (messages[r] # <<>> /\ messages' = [messages EXCEPT ![r] = Tail(@)])
      BY <2>4 DEF PopMessage, StopWaiting, Take
    <3>2. messages[r] # <<>> => Kinds(Tail(messages[r])) \subseteq Kinds(messages[r])
      BY <1>2, KindsOfTail
    <3>3. filtered' = filtered
      BY <2>4 DEF PopMessage, StopWaiting
    <3> QED
      BY <1>2, <1>3, <1>4, <3>1, <3>2, <3>3
  <2>5. CASE CheckRenderingEnabled(r) /\ LosesContext(r)
    <3>1. messages' = Without(Queues, r, ContextDependent).messages
      BY <2>5 DEF CheckRenderingEnabled, SetQueues, Filtered
    <3>2. filtered' = [filtered EXCEPT ![r] = TRUE]
      BY <1>2, <2>5 DEF CheckRenderingEnabled
    <3>3. k \in Kinds(messages[x]) /\ (x = r => k \notin ContextDependent)
      BY <1>1, <1>2, <3>1, KindsOfWithout
    <3> QED
      BY <1>2, <3>2, <3>3
  <2>6. CASE CheckRenderingEnabled(r) /\ ~LosesContext(r)
    <3>1. messages' = messages /\ filtered' = [filtered EXCEPT ![r] = filtered[r]]
      BY <1>2, <2>6 DEF CheckRenderingEnabled, SetQueues, LosesContext, StateOK
    <3> QED
      BY <1>2, <1>3, <3>1
  <2>7. CASE CreateContext(r)
    <3>1. "frontend" \in Renderers /\ "FinishTexturesInitialization" \in Types \ Blocking
      BY DEF Renderers, Types, Blocking
    <3>2. filtered' = filtered /\ (\/ SetQueues(Posted(Queues, "frontend", "FinishTexturesInitialization"))
                                 \/ messages' = messages)
      BY <1>2, <2>7 DEF CreateContext, SetQueues
    <3> QED
      BY <1>4, <1>5, <3>1, <3>2
  <2>8. CASE r = "frontend" /\ PostToBackend
    <3>1. pc["frontend"] = "post"
      BY <2>8 DEF PostToBackend, At
    <3>2. Head(todo) \in {"InvalidateReadManagerRect", "UpdateReadManager",
                          "RestartReading", "SwitchMapStyle"}
      BY <1>1, <3>1 DEF TodoOK
    <3>3. Head(todo) \in Types /\ "backend" \in Renderers
      BY <3>2 DEF Types, Renderers
    <3>4. SetQueues(Posted(Queues, "backend", Head(todo))) /\ filtered' = filtered
      BY <2>8 DEF PostToBackend
    <3> QED
      BY <1>4, <1>5, <2>8, <3>3, <3>4
  <2>9. CASE r = "backend" /\ AcceptByBackend
    <3> DEFINE w == Without(Queues, "frontend", WithRenderState)
    <3>1. filtered' = filtered
      BY <2>9 DEF AcceptByBackend
    <3>2. "frontend" \in Renderers /\ "GuiLayerRecached" \in Types \ Blocking
      BY DEF Renderers, Types, Blocking
    <3>3. InGoodOrder(w) /\ Kinds(w.messages[x]) \subseteq Kinds(messages[x])
      BY <1>1, <1>2, <3>2, WithoutInOrder, KindsOfWithout
    <3> HIDE DEF w
    <3>4. CASE SetQueues(Posted(w, "frontend", "GuiLayerRecached"))
      <4>1. \/ k \in Kinds(w.messages[x])
            \/ /\ k = "GuiLayerRecached" /\ x = "frontend"
               /\ ~(filtered["frontend"] /\ "GuiLayerRecached" \in ContextDependent)
        BY <1>2, <3>2, <3>3, <3>4, KindsOfPosted DEF SetQueues
      <4> QED
        BY <1>4, <3>1, <3>2, <3>3, <4>1
    <3>5. CASE SetQueues(Posted(Queues, "frontend", "GuiLayerRecached")) \/ messages' = messages
      BY <1>4, <1>5, <3>1, <3>2, <3>5
    <3>6. \/ SetQueues(Posted(w, "frontend", "GuiLayerRecached"))
          \/ SetQueues(Posted(Queues, "frontend", "GuiLayerRecached"))
          \/ SetQueues(Queues)
      BY <2>9 DEF AcceptByBackend, w
    <3> QED
      BY <1>2, <3>4, <3>5, <3>6 DEF SetQueues
  <2> QED
    BY <1>6, <2>1, <2>2, <2>3, <2>4, <2>5, <2>6, <2>7, <2>8, <2>9 DEF Renderer
<1>7. CASE \/ Toggle \/ Teardown \/ AskToDisable \/ AskToEnable \/ Answered \/ AskToStop \/ Join
           \/ CancelMessageWaiting \/ UNCHANGED vars
  BY <1>3, <1>4, <1>7 DEF Toggle, Teardown, AskToDisable, AskToEnable, Answered, AskToStop, Join,
     CancelMessageWaiting, vars
<1>8. CASE ClearQuery
  <2>1. messages' = [messages EXCEPT ![gui.turn] = <<>>] /\ filtered' = filtered
    BY <1>8 DEF ClearQuery
  <2>2. Kinds(<<>>) = {}
    BY DEF Kinds
  <2> QED
    BY <1>2, <1>3, <1>4, <2>1, <2>2
<1>9. CASE Post
  <2>1. PICK type \in External : SetQueues(Posted(Queues, Receiver(type), type))
    BY <1>9 DEF Post
  <2>2. type \in Types \ Blocking /\ Receiver(type) \in Renderers
    BY ExternalAssumption DEF Types, Blocking, Receiver, Renderers
  <2>3. filtered' = filtered
    BY <1>9 DEF Post
  <2> QED
    BY <1>4, <1>5, <2>1, <2>2, <2>3
<1> QED
  BY <1>6, <1>7, <1>8, <1>9 DEF Next, Platform

\* What a renderer handles came from its queues, or it was at hand.
LEMMA HandStep ==
  ASSUME QueueInv, [Next]_vars, NEW x \in Renderers
  PROVE  hand'[x].type \in {hand[x].type, "none"} \cup Kinds(messages[x]) \cup Low
<1> USE DEF queueVars, threadVars, enableVars, contextVars
<1>1. /\ hand \in [Renderers -> Message] /\ messages \in [Renderers -> Seq(Message)]
      /\ low \in [Renderers -> Seq(Message)] /\ \A r \in Renderers : LowOnly(low[r])
  BY DEF QueueInv, HandOK, OrderOK
<1>2. NoMessage.type = "none"
  BY DEF NoMessage
<1>3. ASSUME NEW r \in Renderers, Renderer(r)
      PROVE  hand'[x].type \in {hand[x].type, "none"} \cup Kinds(messages[x]) \cup Low
  <2>1. CASE \/ Loop(r) \/ OnContextDestroy(r) \/ NotifyDisabled(r) \/ NotifyEnabled(r) \/ Wake(r)
             \/ CheckRenderingEnabled(r) \/ CreateContext(r) \/ SkipFrame(r) \/ Frame \/ Unblock
    BY <2>1 DEF Loop, OnContextDestroy, NotifyDisabled, NotifyEnabled, Wake, CheckRenderingEnabled,
       CreateContext, SkipFrame, Frame, Unblock
  <2>2. CASE AcceptByFrontend \/ PostToBackend \/ AcceptByBackend
    BY <1>1, <1>2, <2>2 DEF AcceptByFrontend, PostToBackend, AcceptByBackend, Handled
  <2>3. CASE PopMessage(r) \/ StopWaiting(r)
    <3>1. \/ hand' = hand
          \/ messages[r] # <<>> /\ hand' = [hand EXCEPT ![r] = Head(messages[r])]
          \/ low[r] # <<>> /\ hand' = [hand EXCEPT ![r] = Head(low[r])]
      BY <2>3 DEF PopMessage, StopWaiting, Take, IsEmptyQueue
    <3>2. messages[r] # <<>> => Head(messages[r]).type \in Kinds(messages[r])
      BY <1>1, KindsOfTail
    <3>3. low[r] # <<>> => Head(low[r]).type \in Low
      BY <1>1, KindsOfTail DEF LowOnly, Kinds
    <3> QED
      BY <1>1, <3>1, <3>2, <3>3
  <2> QED
    BY <1>3, <2>1, <2>2, <2>3 DEF Renderer
<1>4. CASE Toggle \/ Teardown \/ Platform \/ Post \/ UNCHANGED vars
  BY <1>4 DEF Toggle, Teardown, Platform, Post, vars, AskToDisable, CancelMessageWaiting,
     AskToEnable, Answered, AskToStop, ClearQuery, Join
<1> QED
  BY <1>3, <1>4 DEF Next

-----------------------------------------------------------------------------
(* The frontend waits while the backend has its message. *)

BlockOK == IsBlocked => pc["frontend"] = "blocked"

\* IsBlocked, by type.
LEMMA BlockedByKind ==
  IsBlocked <=> \/ hand["backend"].type \in Blocking
                \/ \E k \in Kinds(messages["backend"]) : k \in Blocking
BY DEF IsBlocked, Kinds

\* Each step keeps BlockOK.
LEMMA BlockStep ==
  ASSUME QueueInv, BlockOK, [Next]_vars
  PROVE  BlockOK'
<1>1. SUFFICES ASSUME IsBlocked' PROVE pc'["frontend"] = "blocked"
  BY DEF BlockOK
<1>2. StateOK /\ TodoOK /\ "backend" \in Renderers /\ pc \in [Renderers -> Labels]
  BY DEF QueueInv, StateOK, Renderers
<1>3. \/ hand'["backend"].type \in Blocking
      \/ \E k \in Kinds(messages'["backend"]) : k \in Blocking
  BY <1>1 DEF IsBlocked, Kinds
<1>4. IsBlocked \/ (PostToBackend /\ Head(todo) \in Blocking)
  <2>1. \A k \in Blocking : k \notin Low /\ k # "none"
    BY DEF Blocking, Low
  <2>2. hand'["backend"].type \in Blocking => IsBlocked
    BY <1>2, <2>1, HandStep, BlockedByKind
  <2>3. ASSUME NEW k \in Kinds(messages'["backend"]), k \in Blocking
        PROVE  k \in Kinds(messages["backend"]) \/ (PostToBackend /\ k = Head(todo))
    BY <1>2, <2>3, KindsStep
  <2> QED
    BY <1>3, <2>2, <2>3, BlockedByKind
<1>5. CASE PostToBackend
  <2>1. pc["frontend"] = "post" /\ todo' = Tail(todo)
    BY <1>5 DEF PostToBackend, At
  <2>2. Head(todo) \in Blocking
    BY <1>4, <2>1 DEF BlockOK
  <2>3. todo' # <<>>
    <3>1. Head(<<"UpdateReadManager">>) \notin Blocking
      BY DEF Blocking
    <3>2. todo # <<"UpdateReadManager">>
      BY <2>2, <3>1
    <3>3. /\ Tail(<<"InvalidateReadManagerRect", "UpdateReadManager">>) # <<>>
          /\ Tail(<<"SwitchMapStyle", "UpdateReadManager">>) # <<>>
          /\ Tail(<<"RestartReading", "SwitchMapStyle", "UpdateReadManager">>) # <<>>
      OBVIOUS
    <3> QED
      BY <1>2, <2>1, <3>2, <3>3 DEF TodoOK
  <2> QED
    BY <1>2, <1>5, <2>3 DEF PostToBackend, Goto, Renderers
<1>6. CASE ~PostToBackend
  <2>1. IsBlocked /\ pc["frontend"] = "blocked"
    BY <1>4, <1>6 DEF BlockOK
  <2>2. ASSUME NEW r \in Renderers, Renderer(r)
        PROVE  pc'["frontend"] = "blocked"
    <3>1. r # "frontend"
      BY <1>6, <2>1, <2>2 DEF Renderer, At, Loop, PopMessage, StopWaiting, CheckRenderingEnabled,
         OnContextDestroy, NotifyDisabled, Wake, NotifyEnabled, CreateContext, SkipFrame, Frame,
         AcceptByFrontend, Unblock
    <3>2. FlagStep(r)
      BY <1>2, <2>2, RendererFlags
    <3>3. \E y : pc' = [pc EXCEPT ![r] = y]
      BY <3>2 DEF FlagStep, Works, Moves, Goto, CheckRenderingEnabled, OnContextDestroy,
         NotifyDisabled, Wake, NotifyEnabled
    <3> QED
      BY <1>2, <2>1, <3>1, <3>3 DEF Renderers
  <2>3. CASE Toggle \/ Teardown \/ Platform \/ Post \/ UNCHANGED vars
    BY <2>1, <2>3 DEF Toggle, Teardown, Platform, Post, vars, AskToDisable, CancelMessageWaiting,
       AskToEnable, Answered, AskToStop, ClearQuery, Join, threadVars
  <2> QED
    BY <2>2, <2>3 DEF Next
<1> QED
  BY <1>5, <1>6

\* The frontend waits as long as a blocking message of its own is queued or handled.
THEOREM BlockedIsTrue == Spec => []BlockOK
<1>1. Init => BlockOK
  BY DEF Init, BlockOK, IsBlocked, NoMessage, Blocking, Renderers
<1>2. QueueInv /\ BlockOK /\ [Next]_vars => BlockOK'
  BY BlockStep
<1> QED
  BY <1>1, <1>2, QueuesAreSound, PTL DEF Spec

\* The backend filters the frontend's queue while the frontend waits for it, and never
\* while the frontend filters it (the CHECK of MessageQueue::InstantFilter).
THEOREM FilterIsAlone == Spec => []InstantFilterIsAlone
<1>1. LifeOK /\ BlockOK => InstantFilterIsAlone
  <2> SUFFICES ASSUME LifeOK, BlockOK, hand["backend"].type = "SwitchMapStyle"
               PROVE  ~filtered["frontend"]
    BY DEF InstantFilterIsAlone
  <2>1. pc["frontend"] = "blocked"
    BY DEF BlockOK, IsBlocked, Blocking
  <2> QED
    BY <2>1 DEF LifeOK, Renderers
<1> QED
  BY <1>1, FlagsAreTrue, BlockedIsTrue, PTL

-----------------------------------------------------------------------------
(* The third invariant: how the platform thread stops the renderers and starts them. *)

\* A renderer draws, or rests, and nobody asks anything of it.
Drawing(r) == isEnabled[r] /\ ~handler[r] /\ ~wasNotified[r] /\ pc[r] \notin Away
Resting(r) == ~isEnabled[r] /\ ~handler[r] /\ ~wasNotified[r] /\ pc[r] = "rest"
Settled(r) == Drawing(r) \/ Resting(r)

\* A renderer was asked to rest and has not said that it does; the same for drawing.
ToRest(r) == /\ ~isEnabled[r] /\ handler[r] /\ ~wasNotified[r]
             /\ pc[r] \notin {"rest", "notifyCreate", "notifyLoop"}
ToDraw(r) == /\ handler[r]
             /\ \/ wasNotified[r] /\ ~isEnabled[r] /\ pc[r] = "rest"
                \/ ~wasNotified[r] /\ isEnabled[r] /\ pc[r] \in {"notifyCreate", "notifyLoop"}

Disables == gui.op \in {"disable", "destroy"}

\* What the operation asks a renderer to reach, and the way there.
Reached(r) == IF Disables THEN Resting(r) ELSE Drawing(r)
OnItsWay(r) == IF Disables THEN ToRest(r) ELSE ToDraw(r)

\* Between operations both renderers are where the last one wanted them.  During an
\* operation the first renderer is there before the second is asked, and the one that
\* is not asked is settled.
Handshake ==
  LET r == gui.turn
      o == Other(gui.turn)
      first == gui.turn = FirstOf(gui.op)
  IN
  /\ gui.op = "stop" => gui.at # "idle"
  /\ gui.op # "stop" =>
    /\ gui.at \in {"idle", "ask", "cancelWait", "await"}
    /\ \A s \in Renderers : ~cancelled[s]
    /\ gui.at = "idle" => \A s \in Renderers : Reached(s)
    /\ gui.at # "idle" =>
         /\ gui.op # "none"
         /\ IF first THEN Settled(o) ELSE Reached(o)
         /\ gui.op = "destroy" /\ first => isEnabled[o]
    /\ gui.at = "ask" => Settled(r) /\ (gui.op = "destroy" => isEnabled[r])
    /\ gui.at = "cancelWait" => Disables
    /\ gui.at \in {"cancelWait", "await"} => IF gui.notified THEN Reached(r) ELSE OnItsWay(r)

\* What a step of a renderer may do to its part in the handshake.
LEMMA PartStep ==
  ASSUME StateOK, LifeOK, NEW r \in Renderers, FlagStep(r)
  PROVE  /\ \A s \in Renderers : s # r =>
              /\ pc'[s] = pc[s] /\ isEnabled'[s] = isEnabled[s]
              /\ wasNotified'[s] = wasNotified[s] /\ handler'[s] = handler[s]
         /\ cancelled' = cancelled /\ (isEnabled[r] => isEnabled'[r])
         /\ Drawing(r) => Drawing(r)' /\ gui' = gui
         /\ Resting(r) => FALSE
         /\ ToRest(r) => \/ ToRest(r)' /\ gui' = gui
                         \/ Resting(r)' /\ gui' = [gui EXCEPT !.notified = TRUE]
         /\ ToDraw(r) /\ ~cancelled[r] =>
              \/ ToDraw(r)' /\ gui' = gui
              \/ Drawing(r)' /\ gui' = [gui EXCEPT !.notified = TRUE]
<1> USE DEF At, Goto, enableVars
<1>1. /\ pc \in [Renderers -> Labels] /\ isEnabled \in [Renderers -> BOOLEAN]
      /\ wasNotified \in [Renderers -> BOOLEAN] /\ handler \in [Renderers -> BOOLEAN]
      /\ cancelled \in [Renderers -> BOOLEAN] /\ wasContextReset \in [Renderers -> BOOLEAN]
      /\ GuiOK
  BY DEF StateOK
<1>2. CASE Works(r) \/ Moves(r, {"loop"}, {"done"})
  <2>1. pc[r] \notin Away /\ \E y : pc' = [pc EXCEPT ![r] = y] /\ y \notin Away
    BY <1>2 DEF Works, Moves, Away
  <2>2. UNCHANGED <<cancelled, isEnabled, wasNotified, handler, gui>>
    BY <1>2 DEF Works, Moves
  <2> QED
    BY <1>1, <2>1, <2>2 DEF Drawing, Resting, ToRest, ToDraw, Away
<1>3. CASE CheckRenderingEnabled(r) /\ ~isEnabled[r]
  <2>1. pc[r] = "check" /\ \E y \in {"destroy", "notify"} : pc' = [pc EXCEPT ![r] = y]
    BY <1>3 DEF CheckRenderingEnabled
  <2>2. UNCHANGED <<cancelled, isEnabled, wasNotified, handler, gui>>
    BY <1>3 DEF CheckRenderingEnabled
  <2> QED
    BY <1>1, <1>3, <2>1, <2>2 DEF Drawing, Resting, ToRest, ToDraw
<1>4. CASE OnContextDestroy(r)
  BY <1>1, <1>4 DEF OnContextDestroy, Drawing, Resting, ToRest, ToDraw, Away
<1>5. CASE NotifyDisabled(r)
  <2>1. /\ pc[r] = "notify" /\ pc' = [pc EXCEPT ![r] = "rest"] /\ ~isEnabled[r]
        /\ handler' = [handler EXCEPT ![r] = FALSE] /\ UNCHANGED <<cancelled, isEnabled, wasNotified>>
    BY <1>5 DEF NotifyDisabled, CallHandler, LifeOK
  <2>2. handler[r] => gui' = [gui EXCEPT !.notified = TRUE]
    BY <1>1, <1>5 DEF NotifyDisabled, CallHandler, GuiOK
  <2> QED
    BY <1>1, <2>1, <2>2 DEF Drawing, Resting, ToRest, ToDraw, Away
<1>6. CASE Wake(r)
  <2>1. /\ pc[r] = "rest" /\ wasNotified[r] /\ wasNotified' = [wasNotified EXCEPT ![r] = FALSE]
        /\ isEnabled' = [isEnabled EXCEPT ![r] = @ \/ ~cancelled[r]]
        /\ \E y \in {"notifyCreate", "notifyLoop"} : pc' = [pc EXCEPT ![r] = y]
        /\ UNCHANGED <<cancelled, handler, gui>>
    BY <1>6 DEF Wake, SignalTaken
  <2>2. ~cancelled[r] => isEnabled' = [isEnabled EXCEPT ![r] = TRUE]
    BY <1>1, <2>1
  <2> QED
    BY <1>1, <2>1, <2>2 DEF Drawing, Resting, ToRest, ToDraw, Away
<1>7. CASE NotifyEnabled(r)
  <2>1. /\ pc[r] \in {"notifyCreate", "notifyLoop"}
        /\ \E y \in {"create", "loop"} : pc' = [pc EXCEPT ![r] = y]
        /\ handler' = [handler EXCEPT ![r] = FALSE] /\ UNCHANGED <<cancelled, isEnabled, wasNotified>>
    BY <1>7 DEF NotifyEnabled, CallHandler
  <2>2. handler[r] => gui' = [gui EXCEPT !.notified = TRUE]
    BY <1>1, <1>7 DEF NotifyEnabled, CallHandler, GuiOK
  <2> QED
    BY <1>1, <2>1, <2>2 DEF Drawing, Resting, ToRest, ToDraw, Away
<1> QED
  BY <1>2, <1>3, <1>4, <1>5, <1>6, <1>7 DEF FlagStep

\* The parts that a step leaves alone.
LEMMA PartsLeft ==
  ASSUME NEW r, /\ pc'[r] = pc[r] /\ isEnabled'[r] = isEnabled[r]
                /\ wasNotified'[r] = wasNotified[r] /\ handler'[r] = handler[r]
  PROVE  /\ Drawing(r)' <=> Drawing(r)
         /\ Resting(r)' <=> Resting(r)
         /\ ToRest(r)' <=> ToRest(r)
         /\ ToDraw(r)' <=> ToDraw(r)
BY DEF Drawing, Resting, ToRest, ToDraw

\* A renderer keeps its part.
Keeps(s) ==
  /\ Drawing(s) => Drawing(s)'
  /\ Resting(s) => Resting(s)'
  /\ ToRest(s) => ToRest(s)'
  /\ ToDraw(s) => ToDraw(s)'
  /\ isEnabled[s] => isEnabled'[s]

\* Nothing happens to the handshake.
LEMMA HandshakeLeft ==
  ASSUME Handshake, GuiOK, gui' = gui, cancelled' = cancelled, \A s \in Renderers : Keeps(s)
  PROVE  Handshake'
<1>1. gui.turn \in Renderers /\ Other(gui.turn) \in Renderers
  BY OtherRenderer DEF GuiOK
<1>2. \A s \in Renderers : (Settled(s) => Settled(s)') /\ (Reached(s) => Reached(s)')
                          /\ (OnItsWay(s) => OnItsWay(s)') /\ (isEnabled[s] => isEnabled'[s])
  BY DEF Keeps, Settled, Reached, OnItsWay, Disables
<1> QED
  BY <1>1, <1>2 DEF Handshake, Disables

\* The renderer that was asked has answered.
LEMMA HandshakeAnswered ==
  ASSUME Handshake, GuiOK, gui' = [gui EXCEPT !.notified = TRUE], cancelled' = cancelled,
         gui.at \in {"cancelWait", "await"}, gui.op # "stop",
         IF Disables THEN Resting(gui.turn)' ELSE Drawing(gui.turn)', Keeps(Other(gui.turn))
  PROVE  Handshake'
<1> DEFINE o == Other(gui.turn)
<1>1. /\ gui'.op = gui.op /\ gui'.at = gui.at /\ gui'.turn = gui.turn /\ gui'.notified
  BY DEF GuiOK
<1>2. Disables' <=> Disables
  BY <1>1 DEF Disables
<1>3. (Settled(o) => Settled(o)') /\ (Reached(o) => Reached(o)') /\ (isEnabled[o] => isEnabled'[o])
  BY <1>1, <1>2 DEF Keeps, Settled, Reached
<1>4. Reached(gui.turn)'
  BY <1>1, <1>2 DEF Reached
<1> QED
  BY <1>1, <1>2, <1>3, <1>4 DEF Handshake

\* Each step of a renderer keeps the handshake.
LEMMA RendererHandshake ==
  ASSUME StateOK, LifeOK, Handshake, NEW s \in Renderers, Renderer(s)
  PROVE  Handshake'
<1> DEFINE r == gui.turn
           o == Other(gui.turn)
<1>1. /\ GuiOK /\ r \in Renderers /\ o \in Renderers /\ r # o
      /\ \A x \in Renderers : x = r \/ x = o
  BY OtherRenderer DEF StateOK, GuiOK, Renderers
<1>2. FlagStep(s)
  BY RendererFlags
<1>3. \A x \in Renderers : x # s => Keeps(x)
  BY <1>2, PartStep, PartsLeft DEF Keeps
<1>4. cancelled' = cancelled
  BY <1>2, PartStep
<1>5. CASE gui.op = "stop"
  <2>1. gui' = gui \/ \E b : gui' = [gui EXCEPT !.notified = b]
    BY <1>2 DEF FlagStep, Works, Moves, CheckRenderingEnabled, OnContextDestroy,
       NotifyDisabled, Wake, NotifyEnabled, CallHandler
  <2>2. gui'.op = "stop" /\ gui'.at = gui.at
    BY <1>1, <1>5, <2>1 DEF GuiOK
  <2> QED
    BY <1>5, <2>2 DEF Handshake
<1>6. CASE gui.op # "stop" /\ Drawing(s)
  <2>1. Drawing(s)' /\ gui' = gui
    BY <1>2, <1>6, PartStep
  <2>2. Keeps(s)
    BY <1>6, <2>1 DEF Keeps, Drawing, Resting, ToRest, ToDraw
  <2> QED
    BY <1>1, <1>3, <1>4, <2>1, <2>2, HandshakeLeft
<1>7. CASE gui.op # "stop" /\ ~Drawing(s)
  <2>1. ~Resting(s)
    BY <1>2, PartStep
  <2>2. /\ s = r /\ gui.at \in {"cancelWait", "await"} /\ ~gui.notified
        /\ OnItsWay(r) /\ ~cancelled[r]
    BY <1>1, <1>7, <2>1 DEF Handshake, Reached, Settled
  <2>3. \/ gui' = gui /\ OnItsWay(r) /\ (IF Disables THEN ToRest(s)' ELSE ToDraw(s)')
        \/ gui' = [gui EXCEPT !.notified = TRUE] /\ IF Disables THEN Resting(s)' ELSE Drawing(s)'
    BY <1>2, <2>2, PartStep DEF OnItsWay
  <2>4. CASE gui' = gui /\ (IF Disables THEN ToRest(s)' ELSE ToDraw(s)')
    <3>1. isEnabled[s] => isEnabled'[s]
      BY <1>2, PartStep
    <3>2. Keeps(s)
      BY <1>7, <2>1, <2>2, <2>4, <3>1 DEF Keeps, OnItsWay, ToRest, ToDraw
    <3> QED
      BY <1>1, <1>3, <1>4, <2>4, <3>2, HandshakeLeft
  <2>5. CASE gui' = [gui EXCEPT !.notified = TRUE] /\ IF Disables THEN Resting(s)' ELSE Drawing(s)'
    <3>1. Keeps(o)
      BY <1>1, <1>3, <2>2
    <3>2. s = gui.turn
      BY <2>2
    <3> HIDE DEF r
    <3> QED
      BY <1>1, <1>4, <1>7, <2>2, <2>5, <3>1, <3>2, HandshakeAnswered
  <2> QED
    BY <2>3, <2>4, <2>5
<1> QED
  BY <1>5, <1>6, <1>7

\* The platform thread goes on to the other renderer, or has finished.
LEMMA TurnHandshake ==
  ASSUME Handshake, GuiOK, NextTurn, Reached(gui.turn), gui.op # "stop", gui.at \in {"ask", "await"},
         UNCHANGED <<pc, isEnabled, wasNotified, handler, cancelled>>
  PROVE  Handshake'
<1>0. PICK r \in Renderers, o \in Renderers : r = gui.turn /\ o = Other(gui.turn)
  BY OtherRenderer DEF StateOK, GuiOK
<1>1. /\ r = gui.turn /\ o = Other(gui.turn) /\ r # o /\ Other(o) = r
      /\ \A x \in Renderers : x = r \/ x = o
      /\ gui.op \in {"none", "enable", "disable", "destroy", "stop"}
  BY <1>0, OtherRenderer DEF GuiOK, Renderers
<1>2. ASSUME NEW x
      PROVE  /\ Drawing(x)' <=> Drawing(x)
             /\ Resting(x)' <=> Resting(x)
  BY DEF Drawing, Resting
<1>3. gui'.op = gui.op
  BY DEF NextTurn, GuiOK
<1>4. Disables' <=> Disables
  BY <1>3 DEF Disables
<1>5. \A x : (Reached(x)' <=> Reached(x)) /\ (Settled(x)' <=> Settled(x))
  BY <1>2, <1>4 DEF Reached, Settled
<1>6. CASE r = FirstOf(gui.op)
  <2>1. gui'.at = "ask" /\ gui'.turn = o
    BY <1>1, <1>6 DEF NextTurn, GuiOK
  <2>2. gui'.turn # FirstOf(gui'.op) /\ Other(gui'.turn) = r
    BY <1>1, <1>3, <1>6, <2>1
  <2>3. Settled(o) /\ (gui.op = "destroy" => isEnabled[o]) /\ gui.op # "none"
    BY <1>1, <1>6 DEF Handshake
  <2>4. Settled(o)' /\ Reached(r)'
    BY <1>1, <1>5, <2>3
  <2> QED
    BY <1>3, <2>1, <2>2, <2>3, <2>4 DEF Handshake
<1>7. CASE r # FirstOf(gui.op)
  <2>1. gui'.at = "idle"
    BY <1>1, <1>7 DEF NextTurn, GuiOK
  <2>2. Reached(o)
    BY <1>1, <1>7 DEF Handshake
  <2>3. \A x \in Renderers : Reached(x)'
    BY <1>1, <1>5, <2>2
  <2>4. \A x \in Renderers : ~cancelled[x]
    BY DEF Handshake
  <2> QED
    BY <1>3, <2>1, <2>3, <2>4 DEF Handshake
<1> QED
  BY <1>6, <1>7

\* Each step of the others keeps the handshake.
LEMMA PlatformHandshake ==
  ASSUME StateOK, Handshake, Toggle \/ Teardown \/ Platform \/ Post \/ UNCHANGED vars
  PROVE  Handshake'
<1> USE DEF queueVars, threadVars, enableVars, contextVars
<1>0. PICK r \in Renderers, o \in Renderers : r = gui.turn /\ o = Other(gui.turn)
  BY OtherRenderer DEF StateOK, GuiOK
<1>1. /\ GuiOK /\ r = gui.turn /\ o = Other(gui.turn) /\ r # o
      /\ \A x \in Renderers : x = r \/ x = o
  BY <1>0, OtherRenderer DEF StateOK, GuiOK, Renderers
<1>2. /\ isEnabled \in [Renderers -> BOOLEAN] /\ wasNotified \in [Renderers -> BOOLEAN]
      /\ handler \in [Renderers -> BOOLEAN]
  BY DEF StateOK
<1>3. CASE ClearQuery \/ Join \/ AskToStop
  <2>1. gui.op = "stop" /\ gui.at # "idle"
    BY <1>3 DEF ClearQuery, Join, AskToStop, Handshake
  <2>2. gui'.op = "stop" /\ gui'.at # "idle"
    BY <1>1, <1>3, <2>1 DEF ClearQuery, Join, AskToStop, NextTurn, GuiOK
  <2> QED
    BY <2>2 DEF Handshake
<1>4. CASE Post \/ UNCHANGED vars
  <2>1. UNCHANGED <<pc, isEnabled, wasNotified, handler, cancelled, gui>>
    BY <1>4 DEF Post, vars
  <2>2. \A x \in Renderers : Keeps(x)
    BY <2>1 DEF Keeps, Drawing, Resting, ToRest, ToDraw
  <2> QED
    BY <1>1, <2>1, <2>2, HandshakeLeft
<1>5. CASE Teardown
  <2>1. gui'.op = "stop" /\ gui'.at = "ask"
    BY <1>1, <1>5 DEF Teardown, Ask, GuiOK
  <2> QED
    BY <2>1 DEF Handshake
<1>6. CASE Toggle
  <2>1. PICK op \in {"enable", "disable", "destroy"} : Ask(op) /\ (op = "destroy" => isEnabled["frontend"])
    BY <1>6 DEF Toggle
  <2>2. gui.at = "idle" /\ gui.op # "stop" /\ UNCHANGED <<pc, isEnabled, wasNotified, handler, cancelled>>
    BY <1>6 DEF Toggle, Handshake
  <2>3. gui'.at = "ask" /\ gui'.op = op /\ gui'.turn = FirstOf(op) /\ gui'.turn \in Renderers
    BY <1>1, <2>1 DEF Ask, GuiOK, FirstOf, Renderers
  <2>4. /\ \A x \in Renderers : Reached(x) /\ ~cancelled[x]
        /\ \A x \in Renderers : Settled(x)
    BY <2>2 DEF Handshake, Reached, Settled
  <2>5. op = "destroy" => \A x \in Renderers : isEnabled[x]
    BY <2>1, <2>4 DEF Reached, Drawing, Resting, Renderers
  <2>6. \A x \in Renderers : Settled(x)'
    BY <2>2, <2>4 DEF Settled, Drawing, Resting
  <2>7. Other(FirstOf(op)) \in Renderers
    BY <2>3, OtherRenderer
  <2> QED
    BY <2>1, <2>2, <2>3, <2>4, <2>5, <2>6, <2>7 DEF Handshake
<1>7. CASE AskToDisable
  <2>1. gui.at = "ask" /\ gui.op \in {"disable", "destroy"} /\ Settled(r) /\ Disables
    BY <1>1, <1>7 DEF AskToDisable, Handshake, Disables
  <2>2. CASE ~isEnabled[r]
    <3>1. Reached(r)
      BY <2>1, <2>2 DEF Settled, Reached, Drawing
    <3>2. NextTurn /\ UNCHANGED <<pc, isEnabled, wasNotified, handler, cancelled>>
      BY <1>1, <1>7, <2>2 DEF AskToDisable
    <3> QED
      BY <1>1, <2>1, <3>1, <3>2, TurnHandshake
  <2>3. CASE isEnabled[r]
    <3>1. /\ handler' = [handler EXCEPT ![r] = TRUE] /\ isEnabled' = [isEnabled EXCEPT ![r] = FALSE]
          /\ gui' = [gui EXCEPT !.at = "cancelWait", !.notified = FALSE]
          /\ UNCHANGED <<pc, wasNotified, cancelled>>
      BY <1>1, <1>7, <2>3 DEF AskToDisable
    <3>2. gui'.at = "cancelWait" /\ ~gui'.notified /\ gui'.op = gui.op /\ gui'.turn = gui.turn
      BY <1>1, <3>1 DEF GuiOK
    <3>3. ToRest(r)'
      BY <1>1, <1>2, <2>1, <2>3, <3>1 DEF Settled, Drawing, Resting, ToRest, Away
    <3>4. /\ isEnabled'[o] = isEnabled[o] /\ handler'[o] = handler[o]
          /\ wasNotified'[o] = wasNotified[o] /\ pc'[o] = pc[o]
      BY <1>1, <1>2, <3>1
    <3>5. /\ Drawing(o)' <=> Drawing(o)
          /\ Resting(o)' <=> Resting(o)
      BY <3>4, PartsLeft
    <3>6. Disables' <=> Disables
      BY <3>2 DEF Disables
    <3>7. (Settled(o)' <=> Settled(o)) /\ (Reached(o)' <=> Reached(o)) /\ OnItsWay(r)'
      BY <2>1, <3>3, <3>5, <3>6 DEF Settled, Reached, OnItsWay
    <3> QED
      BY <1>1, <2>1, <3>1, <3>2, <3>4, <3>6, <3>7 DEF Handshake
  <2> QED
    BY <2>2, <2>3
<1>8. CASE CancelMessageWaiting
  <2>1. UNCHANGED <<pc, isEnabled, wasNotified, handler, cancelled>> /\ gui.at = "cancelWait"
    BY <1>8 DEF CancelMessageWaiting
  <2>2. /\ gui'.op = gui.op /\ gui'.turn = gui.turn /\ gui'.notified = gui.notified
        /\ gui'.at = IF gui.op = "stop" THEN "clear" ELSE "await"
    BY <1>1, <1>8 DEF CancelMessageWaiting, GuiOK
  <2>3. \A x : /\ (Drawing(x)' <=> Drawing(x))
               /\ (Resting(x)' <=> Resting(x))
               /\ (ToRest(x)' <=> ToRest(x))
               /\ (ToDraw(x)' <=> ToDraw(x))
    BY <2>1, PartsLeft
  <2>4. Disables' <=> Disables
    BY <2>2 DEF Disables
  <2>5. \A x : /\ (Settled(x)' <=> Settled(x))
               /\ (Reached(x)' <=> Reached(x))
               /\ (OnItsWay(x)' <=> OnItsWay(x))
    BY <2>3, <2>4 DEF Settled, Reached, OnItsWay
  <2> QED
    BY <2>1, <2>2, <2>4, <2>5 DEF Handshake
<1>9. CASE AskToEnable
  <2>1. gui.at = "ask" /\ gui.op = "enable" /\ Settled(r) /\ ~Disables
    BY <1>1, <1>9 DEF AskToEnable, Handshake, Disables
  <2>2. CASE isEnabled[r]
    <3>1. Reached(r)
      BY <2>1, <2>2 DEF Settled, Reached, Resting
    <3>2. NextTurn /\ UNCHANGED <<pc, isEnabled, wasNotified, handler, cancelled>>
      BY <1>1, <1>9, <2>2 DEF AskToEnable
    <3> QED
      BY <1>1, <2>1, <3>1, <3>2, TurnHandshake
  <2>3. CASE ~isEnabled[r]
    <3>1. /\ handler' = [handler EXCEPT ![r] = TRUE] /\ wasNotified' = [wasNotified EXCEPT ![r] = TRUE]
          /\ gui' = [gui EXCEPT !.at = "await", !.notified = FALSE]
          /\ UNCHANGED <<pc, isEnabled, cancelled>>
      BY <1>1, <1>9, <2>3 DEF AskToEnable
    <3>2. gui'.at = "await" /\ ~gui'.notified /\ gui'.op = gui.op /\ gui'.turn = gui.turn
      BY <1>1, <3>1 DEF GuiOK
    <3>3. ToDraw(r)'
      BY <1>1, <1>2, <2>1, <2>3, <3>1 DEF Settled, Drawing, Resting, ToDraw
    <3>4. /\ isEnabled'[o] = isEnabled[o] /\ handler'[o] = handler[o]
          /\ wasNotified'[o] = wasNotified[o] /\ pc'[o] = pc[o]
      BY <1>1, <1>2, <3>1
    <3>5. /\ Drawing(o)' <=> Drawing(o)
          /\ Resting(o)' <=> Resting(o)
      BY <3>4, PartsLeft
    <3>6. Disables' <=> Disables
      BY <3>2 DEF Disables
    <3>7. (Settled(o)' <=> Settled(o)) /\ (Reached(o)' <=> Reached(o)) /\ OnItsWay(r)'
      BY <2>1, <3>3, <3>5, <3>6 DEF Settled, Reached, OnItsWay
    <3> QED
      BY <1>1, <2>1, <3>1, <3>2, <3>4, <3>6, <3>7 DEF Handshake
  <2> QED
    BY <2>2, <2>3
<1>10. CASE Answered
  <2>1. gui.at = "await" /\ gui.notified /\ NextTurn
        /\ UNCHANGED <<pc, isEnabled, wasNotified, handler, cancelled>>
    BY <1>10 DEF Answered
  <2>2. CASE gui.op = "stop"
    <3>1. gui'.op = "stop" /\ gui'.at # "idle"
      BY <1>1, <2>1, <2>2 DEF NextTurn, GuiOK
    <3> QED
      BY <3>1 DEF Handshake
  <2>3. CASE gui.op # "stop"
    BY <1>1, <2>1, <2>3, TurnHandshake DEF Handshake
  <2> QED
    BY <2>2, <2>3
<1> QED
  BY <1>3, <1>4, <1>5, <1>6, <1>7, <1>8, <1>9, <1>10 DEF Platform

\* The platform thread and the renderers agree, always.
THEOREM HandshakeHolds == Spec => []Handshake
<1>1. Init => Handshake
  BY DEF Init, Handshake, Reached, Disables, Drawing, Away
<1>2. QueueInv /\ LifeOK /\ Handshake /\ [Next]_vars => Handshake'
  BY RendererHandshake, PlatformHandshake DEF Next, QueueInv
<1> QED
  BY <1>1, <1>2, QueuesAreSound, FlagsAreTrue, PTL DEF Spec

\* When SetRenderingDisabled has returned both renderers rest, and they do until they
\* are enabled: the surface may go.
THEOREM DisabledRenderersStay == Spec => []DisabledRenderersRest
<1>1. Handshake => DisabledRenderersRest
  BY DEF Handshake, DisabledRenderersRest, Reached, Disables, Resting, At
<1> QED
  BY <1>1, HandshakeHolds, PTL

-----------------------------------------------------------------------------
(* The fourth invariant: the contexts. *)

\* A renderer that filters its queue has nothing in it that the filter drops.
Quiet ==
  \A r \in Renderers : filtered[r] => \A k \in Kinds(messages[r]) : k \notin ContextDependent

\* Each step keeps Quiet: what comes into a queue passes the filter.
LEMMA QuietStep ==
  ASSUME QueueInv, Quiet, [Next]_vars
  PROVE  Quiet'
<1>1. SUFFICES ASSUME NEW r \in Renderers, filtered'[r], NEW k \in Kinds(messages'[r])
               PROVE  k \notin ContextDependent
  BY DEF Quiet, Kinds
<1>2. CASE filtered[r]
  BY <1>1, <1>2, KindsStep DEF Quiet
<1>3. CASE ~filtered[r]
  BY <1>1, <1>3, KindsStep
<1> QED
  BY <1>2, <1>3

\* Where a renderer is says whether it has a context.
HasContext(r) ==
  /\ pc[r] \in Draws \cup {"destroy"} => context[r]
  /\ pc[r] \in {"create", "notifyCreate"} => ~context[r]
  /\ pc[r] \in {"loop", "notifyLoop"} => context[r] \/ cancelled[r]
  /\ pc[r] \in {"notify", "rest"} =>
       /\ context[r] <=> ~wasContextReset[r]
       /\ context[r] \/ filtered[r]
  /\ pc[r] = "destroy" => wasContextReset[r] /\ filtered[r]

One(b) == IF b THEN 1 ELSE 0

ContextOK ==
  /\ contextCounter = One(context["frontend"]) + One(context["backend"])
  /\ \A r \in Renderers : HasContext(r)

\* A renderer creates a context when it has none and destroys one that it has.
LEMMA CounterStep ==
  ASSUME context \in [Renderers -> BOOLEAN], NEW r \in Renderers, NEW b \in BOOLEAN,
         contextCounter = One(context["frontend"]) + One(context["backend"]),
         context' = [context EXCEPT ![r] = b], context[r] = ~b,
         contextCounter' = IF b THEN contextCounter + 1 ELSE contextCounter - 1
  PROVE  contextCounter' = One(context'["frontend"]) + One(context'["backend"])
BY DEF One, Renderers

\* Each step of a renderer keeps ContextOK.
LEMMA RendererContext ==
  ASSUME StateOK, LifeOK, ContextOK, NEW r \in Renderers, Renderer(r)
  PROVE  ContextOK'
<1> USE DEF At, Goto, queueVars, enableVars, contextVars
<1>1. /\ pc \in [Renderers -> Labels] /\ filtered \in [Renderers -> BOOLEAN]
      /\ context \in [Renderers -> BOOLEAN] /\ cancelled \in [Renderers -> BOOLEAN]
      /\ wasContextReset \in [Renderers -> BOOLEAN] /\ isEnabled \in [Renderers -> BOOLEAN]
      /\ HasContext(r) /\ contextCounter = One(context["frontend"]) + One(context["backend"])
  BY DEF StateOK, ContextOK
<1> DEFINE OthersStay ==
      \A s \in Renderers : s # r =>
        /\ pc'[s] = pc[s] /\ context'[s] = context[s] /\ cancelled'[s] = cancelled[s]
        /\ wasContextReset'[s] = wasContextReset[s] /\ filtered'[s] = filtered[s]
<1>2. ASSUME OthersStay, HasContext(r)',
             contextCounter' = One(context'["frontend"]) + One(context'["backend"])
      PROVE  ContextOK'
  <2>1. \A s \in Renderers : s # r => (HasContext(s) => HasContext(s)')
    BY <1>2 DEF HasContext
  <2> QED
    BY <1>2, <2>1 DEF ContextOK
<1>3. CASE /\ pc[r] \in Draws /\ \E x \in Draws \cup {"loop"} : pc' = [pc EXCEPT ![r] = x]
           /\ UNCHANGED <<context, contextCounter, cancelled, wasContextReset, filtered>>
  <2>1. OthersStay
    BY <1>1, <1>3
  <2>2. HasContext(r)'
    BY <1>1, <1>3 DEF HasContext, Draws
  <2> QED
    BY <1>1, <1>2, <1>3, <2>1, <2>2
<1>4. CASE Loop(r)
  <2>1. OthersStay
    BY <1>1, <1>4 DEF Loop
  <2>2. HasContext(r)'
    BY <1>1, <1>4 DEF Loop, HasContext, Draws
  <2> QED
    BY <1>1, <1>2, <1>4, <2>1, <2>2 DEF Loop
<1>5. CASE PopMessage(r) \/ StopWaiting(r)
  BY <1>3, <1>5 DEF PopMessage, StopWaiting, Take, Draws
<1>6. CASE \/ SkipFrame(r)
           \/ r = "frontend" /\ (Frame \/ AcceptByFrontend \/ PostToBackend \/ Unblock)
  BY <1>3, <1>6 DEF SkipFrame, Frame, AcceptByFrontend, PostToBackend, Unblock, Handled, Draws
<1>7. CASE r = "backend" /\ AcceptByBackend
  BY <1>3, <1>7 DEF AcceptByBackend, Handled, Draws
<1>8. CASE CheckRenderingEnabled(r)
  <2>1. OthersStay /\ UNCHANGED <<context, contextCounter, cancelled, wasContextReset>>
    BY <1>1, <1>8 DEF CheckRenderingEnabled
  <2>2. context[r]
    BY <1>1, <1>8 DEF CheckRenderingEnabled, HasContext, Draws
  <2>3. /\ LosesContext(r) => /\ wasContextReset[r] /\ filtered'[r] /\ pc'[r] = "destroy"
        /\ ~LosesContext(r) => /\ pc'[r] \in {"loop", "notify"}
                               /\ pc'[r] = "notify" => ~wasContextReset[r]
    BY <1>1, <1>8 DEF CheckRenderingEnabled, LosesContext
  <2>4. HasContext(r)'
    BY <2>1, <2>2, <2>3 DEF HasContext, Draws
  <2> QED
    BY <1>1, <1>2, <2>1, <2>4
<1>9. CASE OnContextDestroy(r)
  <2>1. OthersStay /\ UNCHANGED <<wasContextReset, filtered>> /\ pc[r] = "destroy"
        /\ pc'[r] = "notify" /\ ~context'[r]
    BY <1>1, <1>9 DEF OnContextDestroy
  <2>2. HasContext(r)' /\ context[r]
    BY <1>1, <2>1 DEF HasContext, Draws
  <2>3. contextCounter' = One(context'["frontend"]) + One(context'["backend"])
    BY <1>1, <1>9, <2>2, CounterStep DEF OnContextDestroy
  <2> QED
    BY <1>2, <2>1, <2>2, <2>3
<1>10. CASE NotifyDisabled(r)
  <2>1. OthersStay /\ UNCHANGED <<context, contextCounter, wasContextReset, filtered>>
        /\ pc[r] = "notify" /\ pc'[r] = "rest"
    BY <1>1, <1>10 DEF NotifyDisabled
  <2>2. HasContext(r)'
    BY <1>1, <2>1 DEF HasContext, Draws
  <2> QED
    BY <1>1, <1>2, <2>1, <2>2
<1>11. CASE Wake(r)
  <2>1. OthersStay /\ UNCHANGED <<context, contextCounter, cancelled>> /\ pc[r] = "rest"
    BY <1>1, <1>11 DEF Wake
  <2>2. pc'[r] = IF ~cancelled[r] /\ wasContextReset[r] THEN "notifyCreate" ELSE "notifyLoop"
    BY <1>1, <1>11 DEF Wake
  <2>3. HasContext(r)'
    BY <1>1, <2>1, <2>2 DEF HasContext, Draws
  <2> QED
    BY <1>1, <1>2, <2>1, <2>3
<1>12. CASE NotifyEnabled(r)
  <2>1. OthersStay /\ UNCHANGED <<context, contextCounter, cancelled, wasContextReset, filtered>>
        /\ pc[r] \in {"notifyCreate", "notifyLoop"}
        /\ pc'[r] = IF pc[r] = "notifyCreate" THEN "create" ELSE "loop"
    BY <1>1, <1>12 DEF NotifyEnabled
  <2>2. HasContext(r)'
    BY <1>1, <2>1 DEF HasContext, Draws
  <2> QED
    BY <1>1, <1>2, <2>1, <2>2
<1>13. CASE CreateContext(r)
  <2>1. OthersStay /\ pc[r] = "create" /\ pc'[r] = "loop" /\ context'[r]
    BY <1>1, <1>13 DEF CreateContext
  <2>2. HasContext(r)' /\ ~context[r]
    BY <1>1, <2>1 DEF HasContext, Draws
  <2>3. contextCounter' = One(context'["frontend"]) + One(context'["backend"])
    BY <1>1, <1>13, <2>2, CounterStep DEF CreateContext
  <2> QED
    BY <1>2, <2>1, <2>2, <2>3
<1> QED
  BY <1>4, <1>5, <1>6, <1>7, <1>8, <1>9, <1>10, <1>11, <1>12, <1>13 DEF Renderer

\* Each step of the others keeps ContextOK: a surface is taken only from a renderer
\* that draws.
LEMMA PlatformContext ==
  ASSUME StateOK, Handshake, ContextOK,
         Toggle \/ Teardown \/ Platform \/ Post \/ UNCHANGED vars
  PROVE  ContextOK'
<1> USE DEF queueVars, threadVars, enableVars, contextVars
<1>1. /\ cancelled \in [Renderers -> BOOLEAN] /\ wasContextReset \in [Renderers -> BOOLEAN]
      /\ gui.turn \in Renderers
  BY DEF StateOK, GuiOK
<1>2. UNCHANGED <<pc, context, contextCounter, filtered>>
  BY DEF Platform, Toggle, Teardown, Post, vars, AskToDisable, CancelMessageWaiting, AskToEnable,
     Answered, AskToStop, ClearQuery, Join
<1>3. ASSUME NEW r \in Renderers
      PROVE  HasContext(r)'
  <2>1. HasContext(r)
    BY DEF ContextOK
  <2>2. cancelled'[r] = cancelled[r] \/ cancelled'[r] = TRUE
    BY <1>1 DEF Platform, Toggle, Teardown, Post, vars, AskToDisable, CancelMessageWaiting,
       AskToEnable, Answered, AskToStop, ClearQuery, Join
  <2>3. CASE wasContextReset'[r] = wasContextReset[r]
    BY <1>2, <2>1, <2>2, <2>3 DEF HasContext
  <2>4. CASE wasContextReset'[r] # wasContextReset[r]
    <3>1. AskToDisable
      BY <2>4 DEF Platform, Toggle, Teardown, Post, vars, CancelMessageWaiting, AskToEnable,
         Answered, AskToStop, ClearQuery, Join
    <3>2. gui.op = "destroy" /\ gui.at = "ask" /\ r = gui.turn
      BY <1>1, <2>4, <3>1 DEF AskToDisable
    <3>3. pc[r] \notin Away
      BY <3>2 DEF Handshake, Settled, Resting, Drawing
    <3> QED
      BY <1>2, <2>1, <2>2, <3>3 DEF HasContext, Away
  <2> QED
    BY <2>3, <2>4
<1> QED
  BY <1>2, <1>3 DEF ContextOK

\* The contexts are what the renderers think they are, always.
THEOREM ContextsAreKnown == Spec => [](Quiet /\ ContextOK)
<1>1. Init => Quiet /\ ContextOK
  BY DEF Init, Quiet, ContextOK, HasContext, One, Renderers, Draws
<1>2. QueueInv /\ LifeOK /\ Handshake /\ Quiet /\ ContextOK /\ [Next]_vars => (Quiet /\ ContextOK)'
  BY QuietStep, RendererContext, PlatformContext DEF Next, QueueInv
<1> QED
  BY <1>1, <1>2, QueuesAreSound, FlagsAreTrue, HandshakeHolds, PTL DEF Spec

\* m_contextCounter never leaves the range of its CHECK; the other types are those
\* of QueueInv.
THEOREM TypesAreSafe == Spec => []TypeOK
<1>1. QueueInv /\ ContextOK => TypeOK
  <2> SUFFICES ASSUME QueueInv, ContextOK PROVE TypeOK
    OBVIOUS
  <2>1. contextCounter \in 0..2
    BY DEF ContextOK, One
  <2>2. todo \in Seq(Types)
    <3>1. {"InvalidateReadManagerRect", "UpdateReadManager", "RestartReading", "SwitchMapStyle"}
            \subseteq Types
      BY DEF Types
    <3>2. \A x, y, z \in Types : /\ <<>> \in Seq(Types) /\ <<x>> \in Seq(Types)
                                /\ <<x, y>> \in Seq(Types) /\ <<x, y, z>> \in Seq(Types)
      OBVIOUS
    <3> QED
      BY <3>1, <3>2 DEF QueueInv, TodoOK
  <2> QED
    BY <2>1, <2>2 DEF TypeOK, QueueInv, StateOK, HandOK, OrderOK, GuiOK
<1> QED
  BY <1>1, QueuesAreSound, ContextsAreKnown, PTL

\* A renderer that draws or handles messages has a context, m_contextCounter counts
\* the contexts, and a renderer that lost its context keeps no message made for it.
THEOREM RenderersHaveContexts == Spec => []ContextsAreThere
<1>1. QueueInv /\ Quiet /\ ContextOK => ContextsAreThere
  <2> SUFFICES ASSUME QueueInv, Quiet, ContextOK PROVE ContextsAreThere
    OBVIOUS
  <2> DEFINE H == {r \in Renderers : context[r]}
  <2>1. contextCounter = Cardinality(H)
    <3>1. /\ Cardinality({}) = 0 /\ \A x : Cardinality({x}) = 1
          /\ Cardinality({"backend"} \cup {"frontend"}) = 2
      <4>1. \A x : IsFiniteSet({x}) /\ Cardinality({x}) = 1
        BY FS_Singleton
      <4>2. "frontend" \notin {"backend"}
        OBVIOUS
      <4>3. Cardinality({"backend"} \cup {"frontend"}) = Cardinality({"backend"}) + 1
        BY <4>1, <4>2, FS_AddElement
      <4>4. Cardinality({"backend"}) = 1
        BY <4>1
      <4>5. Cardinality({"backend"} \cup {"frontend"}) = 2
        BY <4>3, <4>4
      <4> QED
        BY <4>1, <4>5, FS_EmptySet
    <3>2. H = (IF context["frontend"] THEN {"frontend"} ELSE {})
              \cup (IF context["backend"] THEN {"backend"} ELSE {})
      BY DEF Renderers
    <3>3. contextCounter = One(context["frontend"]) + One(context["backend"])
      BY DEF ContextOK
    <3>5. CASE context["frontend"] /\ context["backend"]
      <4>1. H = {"backend"} \cup {"frontend"} /\ contextCounter = 2
        BY <3>2, <3>3, <3>5 DEF One
      <4> QED
        BY <3>1, <4>1
    <3>6. CASE context["frontend"] /\ ~context["backend"]
      <4>1. H = {"frontend"} /\ contextCounter = 1
        BY <3>2, <3>3, <3>6 DEF One
      <4> QED
        BY <3>1, <4>1
    <3>7. CASE ~context["frontend"] /\ context["backend"]
      <4>1. H = {"backend"} /\ contextCounter = 1
        BY <3>2, <3>3, <3>7 DEF One
      <4> QED
        BY <3>1, <4>1
    <3>8. CASE ~context["frontend"] /\ ~context["backend"]
      <4>1. H = {} /\ contextCounter = 0
        BY <3>2, <3>3, <3>8 DEF One
      <4> QED
        BY <3>1, <4>1
    <3> QED
      BY <3>5, <3>6, <3>7, <3>8
  <2>2. ASSUME NEW r \in Renderers
        PROVE  /\ pc[r] \in Draws => context[r]
               /\ At(r, "rest") /\ ~context[r] =>
                    \A n \in DOMAIN messages[r] : messages[r][n].type \notin ContextDependent
    BY DEF ContextOK, HasContext, Quiet, Kinds, At
  <2> QED
    BY <2>1, <2>2 DEF ContextsAreThere
<1> QED
  BY <1>1, QueuesAreSound, ContextsAreKnown, PTL
=============================================================================
