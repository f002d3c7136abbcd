------------------------- MODULE SearchEngineProofs -------------------------
(***************************************************************************)
(* What holds of the search engine for any number of threads and calls:    *)
(* its types, that a search sees just the broadcasts that were called for  *)
(* before it, that a cancellation reaches its search and no other, that    *)
(* each mode has one search that is not cancelled, and that the map shows  *)
(* results of the last search on it.                                       *)
(*                                                                         *)
(* The first of them needs what the comments of Engine::Context say: the   *)
(* messages of a thread ascend through todo, own and messages.  Then a     *)
(* broadcast that the thread has not applied is still behind what it does. *)
(* The others need that the calls which are still to be made give up a     *)
(* search before they begin another one; the last needs that one thread    *)
(* alone gets done with the searches in the order of the calls.            *)
(***************************************************************************)
EXTENDS SearchEngine, SequenceTheorems, FiniteSetTheorems, TLAPS

Sorted(s) == \A i, j \in DOMAIN s : i < j => s[i] < s[j]
Below(s, u) == \A x \in Range(s), y \in Range(u) : x < y

\* "Messages are ordered here by a timestamp and all timestamps are less than
\* timestamps in the global |m_messages| queue" (engine.hpp, Context).
Ordered(t) ==
  /\ Sorted(todo[t]) /\ Sorted(own[t]) /\ Sorted(messages)
  /\ Below(todo[t], own[t]) /\ Below(todo[t], messages) /\ Below(own[t], messages)

Waiting(t) == Range(todo[t]) \cup Range(own[t]) \cup Range(messages)

\* A broadcast is applied, or waits for the thread.
Complete(t) == \A k \in 1..Len(order) : IsBroadcast(k) => k \in applied[t] \cup Waiting(t)

\* What was applied was a broadcast, and came before what waits.
Past(t) == \A k \in applied[t] : /\ k \in 1..Len(order) /\ IsBroadcast(k)
                                 /\ \A w \in Waiting(t) : k < w

\* The queues of the threads.
QueueOK ==
  /\ order \in Seq(Modes \cup {"broadcast"})
  /\ contexts \subseteq Threads
  /\ messages \in Seq(Nat)
  /\ own \in [Threads -> Seq(Nat)] /\ todo \in [Threads -> Seq(Nat)]
  /\ applied \in [Threads -> SUBSET Nat]
  /\ \A t \in contexts : /\ Waiting(t) \subseteq 1..Len(order)
                         /\ Ordered(t) /\ Complete(t) /\ Past(t)

\* Where the threads are.
PlaceOK ==
  /\ at \in [Threads -> Positions]
  /\ \A t \in Threads : at[t] \in {"asleep", "awake", "left"} <=> todo[t] = <<>>
  /\ \A t \in contexts :
       at[t] \in Searching \cup {"reset"} => ~IsBroadcast(Head(todo[t]))

\* Who is attached to which processor.
HandleOK ==
  /\ status \in [Threads -> {"active", "cancelled"}]
  /\ attached \in [Threads -> Nat] /\ sent \in [Threads -> Nat]
  /\ cancelled \subseteq Nat
  /\ \A t \in contexts :
       /\ attached[t] = IF at[t] \in Searching THEN Head(todo[t]) ELSE 0
       /\ at[t] = "reset" => status[t] = "active"
  /\ CancelReachesItsSearch

Calls == [op : {"cancel", "start", "broadcast"}, mode : Modes]

\* SearchAPI.
ClientOK ==
  /\ calls \in Seq(Calls)
  /\ shutdown \in BOOLEAN /\ ready \in BOOLEAN
  /\ intents \in [Modes -> [asked : BOOLEAN, handle : Nat, delayed : BOOLEAN]]

\* The inductive invariant.
IInv == QueueOK /\ PlaceOK /\ HandleOK /\ ClientOK

-----------------------------------------------------------------------------
(* Sequences. *)

\* What is in a sequence after a message was appended.
LEMMA RangeOfAppend ==
  ASSUME NEW S, NEW s \in Seq(S), NEW e \in S
  PROVE  Range(Append(s, e)) = Range(s) \cup {e}
BY DEF Range

\* What is in two sequences, one after the other.
LEMMA RangeOfConcat ==
  ASSUME NEW S, NEW s \in Seq(S), NEW u \in Seq(S)
  PROVE  Range(s \o u) = Range(s) \cup Range(u)
BY RangeConcatenation

\* A sequence is its head and what is in its tail.
LEMMA RangeOfTail ==
  ASSUME NEW S, NEW s \in Seq(S), s # <<>>
  PROVE  /\ Tail(s) \in Seq(S) /\ Head(s) \in S
         /\ Range(s) = {Head(s)} \cup Range(Tail(s))
<1>1. Tail(s) \in Seq(S) /\ Head(s) \in S /\ s[1] = Head(s) /\ Len(s) \in Nat \ {0}
  BY HeadTailProperties, LenProperties
<1>2. DOMAIN s = 1..Len(s) /\ DOMAIN Tail(s) = 1..(Len(s) - 1)
  BY HeadTailProperties, LenProperties
<1>3. \A i \in DOMAIN Tail(s) : Tail(s)[i] = s[i + 1]
  BY HeadTailProperties
<1>4. \A i \in DOMAIN s : i = 1 \/ s[i] = Tail(s)[i - 1]
  BY <1>1, <1>2, <1>3
<1>5. Range(s) \subseteq {Head(s)} \cup Range(Tail(s))
  BY <1>1, <1>2, <1>4 DEF Range
<1>6. {Head(s)} \cup Range(Tail(s)) \subseteq Range(s)
  BY <1>1, <1>2, <1>3 DEF Range
<1> QED
  BY <1>1, <1>5, <1>6

\* The tail of an ascending sequence ascends and lacks its head.
LEMMA SortedTail ==
  ASSUME NEW s \in Seq(Nat), s # <<>>, Sorted(s)
  PROVE  Sorted(Tail(s)) /\ \A x \in Range(Tail(s)) : Head(s) < x
<1>1. DOMAIN s = 1..Len(s) /\ DOMAIN Tail(s) = 1..(Len(s) - 1) /\ Len(s) \in Nat
  BY HeadTailProperties, LenProperties
<1>2. \A i \in DOMAIN Tail(s) : Tail(s)[i] = s[i + 1] /\ i + 1 \in DOMAIN s
  BY <1>1, HeadTailProperties
<1>3. s[1] = Head(s) /\ 1 \in DOMAIN s
  BY <1>1, HeadTailProperties, LenProperties
<1>4. Sorted(Tail(s))
  <2>1. SUFFICES ASSUME NEW i \in DOMAIN Tail(s), NEW j \in DOMAIN Tail(s), i < j
                 PROVE  Tail(s)[i] < Tail(s)[j]
    BY DEF Sorted
  <2>2. i + 1 < j + 1
    BY <1>1, <2>1
  <2> QED
    BY <1>2, <2>2 DEF Sorted
<1>5. \A i \in DOMAIN Tail(s) : Head(s) < Tail(s)[i]
  BY <1>1, <1>2, <1>3 DEF Sorted
<1> QED
  BY <1>4, <1>5 DEF Range

\* Ascending sequences, one before the other, ascend together.
LEMMA SortedConcat ==
  ASSUME NEW s \in Seq(Nat), NEW u \in Seq(Nat), Sorted(s), Sorted(u), Below(s, u)
  PROVE  Sorted(s \o u)
<1> DEFINE c == s \o u
<1>1. /\ DOMAIN s = 1..Len(s) /\ DOMAIN u = 1..Len(u) /\ Len(s) \in Nat /\ Len(u) \in Nat
      /\ DOMAIN c = 1..(Len(s) + Len(u))
      /\ \A i \in 1..(Len(s) + Len(u)) : c[i] = IF i <= Len(s) THEN s[i] ELSE u[i - Len(s)]
  BY ConcatProperties, LenProperties
<1> HIDE DEF c
<1>2. SUFFICES ASSUME NEW i \in 1..(Len(s) + Len(u)), NEW j \in 1..(Len(s) + Len(u)), i < j
               PROVE  c[i] < c[j]
  BY <1>1 DEF Sorted, c
<1>3. CASE j <= Len(s)
  <2>1. i \in DOMAIN s /\ j \in DOMAIN s /\ i <= Len(s)
    BY <1>1, <1>2, <1>3
  <2>2. s[i] < s[j]
    BY <1>2, <2>1 DEF Sorted
  <2> QED
    BY <1>1, <1>3, <2>1, <2>2
<1>4. CASE i > Len(s)
  <2>1. /\ i - Len(s) \in DOMAIN u /\ j - Len(s) \in DOMAIN u
        /\ i - Len(s) < j - Len(s) /\ ~(i <= Len(s)) /\ ~(j <= Len(s))
    BY <1>1, <1>2, <1>4
  <2>2. u[i - Len(s)] < u[j - Len(s)]
    BY <2>1 DEF Sorted
  <2> QED
    BY <1>1, <2>1, <2>2
<1>5. CASE i <= Len(s) /\ j > Len(s)
  <2>1. i \in DOMAIN s /\ j - Len(s) \in DOMAIN u
    BY <1>1, <1>5
  <2>2. s[i] < u[j - Len(s)]
    BY <2>1 DEF Below, Range
  <2> QED
    BY <1>1, <1>5, <2>2
<1> QED
  BY <1>1, <1>3, <1>4, <1>5

\* A message that is greater than all before it keeps a sequence ascending.
LEMMA SortedAppend ==
  ASSUME NEW s \in Seq(Nat), NEW e \in Nat, Sorted(s), \A x \in Range(s) : x < e
  PROVE  Sorted(Append(s, e))
<1>1. \A i \in DOMAIN s : s[i] < e
  BY DEF Range
<1> QED
  BY <1>1 DEF Sorted

\* A sorted sequence cut in two.
LEMMA SortedParts ==
  ASSUME NEW S, NEW s \in Seq(S), NEW n \in 0..Len(s)
  PROVE  LET a == SubSeq(s, 1, n)
             b == SubSeq(s, n + 1, Len(s))
         IN  /\ a \in Seq(S) /\ b \in Seq(S) /\ Len(a) = n
             /\ \A i \in 1..n : a[i] = s[i]
             /\ Range(s) = Range(a) \cup Range(b)
             /\ S = Nat /\ Sorted(s) => Sorted(a) /\ Sorted(b) /\ Below(a, b)
<1> DEFINE a == SubSeq(s, 1, n)
           b == SubSeq(s, n + 1, Len(s))
<1>1. /\ a \in Seq(S) /\ b \in Seq(S)
      /\ Len(a) = n /\ Len(b) = Len(s) - n /\ Len(s) \in Nat
      /\ DOMAIN a = 1..n /\ DOMAIN b = 1..(Len(s) - n) /\ DOMAIN s = 1..Len(s)
      /\ n \in Nat /\ n <= Len(s)
      /\ \A i \in 1..n : a[i] = s[i]
      /\ \A i \in 1..(Len(s) - n) : b[i] = s[n + i]
  BY SubSeqProperties, LenProperties
<1> HIDE DEF a, b
<1>2. \A i \in DOMAIN s : IF i <= n THEN i \in DOMAIN a /\ s[i] = a[i]
                                    ELSE i - n \in DOMAIN b /\ s[i] = b[i - n]
  BY <1>1
<1>3. Range(s) \subseteq Range(a) \cup Range(b)
  BY <1>2 DEF Range
<1>4. /\ \A i \in DOMAIN a : i \in DOMAIN s /\ a[i] = s[i]
      /\ \A i \in DOMAIN b : n + i \in DOMAIN s /\ b[i] = s[n + i]
  BY <1>1
<1>7. Range(a) \cup Range(b) \subseteq Range(s)
  BY <1>4 DEF Range
<1>5. ASSUME S = Nat, Sorted(s) PROVE Sorted(a) /\ Sorted(b) /\ Below(a, b)
  <2>1. Sorted(a)
    BY <1>4, <1>5 DEF Sorted
  <2>2. Sorted(b)
    <3>1. SUFFICES ASSUME NEW i \in DOMAIN b, NEW j \in DOMAIN b, i < j PROVE b[i] < b[j]
      BY DEF Sorted
    <3>2. n + i < n + j
      BY <1>1, <3>1
    <3> QED
      BY <1>4, <1>5, <3>2 DEF Sorted
  <2>3. \A i \in DOMAIN a, j \in DOMAIN b : i < n + j
    BY <1>1
  <2>4. \A i \in DOMAIN a, j \in DOMAIN b : a[i] < b[j]
    BY <1>4, <1>5, <2>3 DEF Sorted
  <2> QED
    BY <2>1, <2>2, <2>4 DEF Below, Range
<1>6. /\ a \in Seq(S) /\ b \in Seq(S) /\ Len(a) = n /\ \A i \in 1..n : a[i] = s[i]
      /\ Range(s) = Range(a) \cup Range(b)
      /\ S = Nat /\ Sorted(s) => Sorted(a) /\ Sorted(b) /\ Below(a, b)
  BY <1>1, <1>3, <1>7, <1>5
<1> QED
  BY <1>6 DEF a, b

-----------------------------------------------------------------------------
(* The queues. *)

queueVars == <<order, contexts, messages, own, todo, applied>>

\* What is said of queues stays true while they and the order of calls stay.
LEMMA QueuesStay ==
  ASSUME QueueOK, UNCHANGED queueVars
  PROVE  QueueOK'
BY DEF QueueOK, queueVars, Waiting, Ordered, Sorted, Below, Complete, Past, IsBroadcast

\* What a thread handles is a message.
LEMMA HeadIsAMessage ==
  ASSUME QueueOK, NEW t \in contexts, todo[t] # <<>>
  PROVE  Head(todo[t]) \in 1..Len(order) /\ Head(todo[t]) \in Waiting(t)
<1>1. todo[t] \in Seq(Nat) /\ Waiting(t) \subseteq 1..Len(order)
  BY DEF QueueOK
<1>2. Head(todo[t]) \in Range(todo[t])
  BY <1>1, RangeOfTail
<1> QED
  BY <1>1, <1>2 DEF Waiting

\* A search that is alive is a message that waits for some thread, or is in work.
LEMMA AliveIsAMessage ==
  ASSUME QueueOK, NEW k, IsAlive(k)
  PROVE  k \in 1..Len(order) /\ \E t \in contexts : k \in Waiting(t)
<1>1. PICK t \in contexts : Contains(Queued(t), k)
  BY DEF IsAlive
<1>2. /\ todo[t] \in Seq(Nat) /\ own[t] \in Seq(Nat) /\ messages \in Seq(Nat)
      /\ Waiting(t) \subseteq 1..Len(order)
  BY DEF QueueOK
<1>3. todo[t] \o own[t] \in Seq(Nat)
  BY <1>2, ConcatProperties
<1>4. Range(Queued(t)) = Waiting(t)
  <2>1. Range(todo[t] \o own[t]) = Range(todo[t]) \cup Range(own[t])
    BY <1>2, RangeOfConcat
  <2>2. Range((todo[t] \o own[t]) \o messages) = Range(todo[t] \o own[t]) \cup Range(messages)
    BY <1>2, <1>3, RangeOfConcat
  <2> QED
    BY <2>1, <2>2 DEF Queued, Waiting
<1>5. k \in Range(Queued(t))
  <2>1. Queued(t) \in Seq(Nat)
    BY <1>2, <1>3, ConcatProperties DEF Queued
  <2> QED
    BY <1>1, <2>1 DEF Contains, Range
<1> QED
  BY <1>2, <1>4, <1>5

\* A new message comes last everywhere.
LEMMA PostKeepsQueues ==
  ASSUME QueueOK, NEW kind \in Modes \cup {"broadcast"},
         order' = Append(order, kind), messages' = Append(messages, Len(order) + 1),
         UNCHANGED <<contexts, own, todo, applied>>
  PROVE  /\ QueueOK'
         /\ \A k \in 1..Len(order) : IsBroadcast(k)' = IsBroadcast(k)
         /\ \A t \in contexts : Waiting(t)' = Waiting(t) \cup {Len(order) + 1}
<1>1. /\ order \in Seq(Modes \cup {"broadcast"}) /\ messages \in Seq(Nat)
      /\ own \in [Threads -> Seq(Nat)] /\ todo \in [Threads -> Seq(Nat)]
      /\ contexts \subseteq Threads /\ applied \in [Threads -> SUBSET Nat]
      /\ Len(order) \in Nat
  BY LenProperties DEF QueueOK
<1>2. /\ order' \in Seq(Modes \cup {"broadcast"}) /\ messages' \in Seq(Nat)
      /\ Len(order') = Len(order) + 1 /\ Len(order') \in Nat
      /\ \A k \in 1..Len(order) : order'[k] = order[k]
  BY <1>1, AppendProperties
<1>3. \A k \in 1..Len(order) : IsBroadcast(k)' = IsBroadcast(k)
  BY <1>2 DEF IsBroadcast
<1>4. Range(messages') = Range(messages) \cup {Len(order) + 1}
  <2> DEFINE e == Len(order) + 1
  <2>1. e \in Nat /\ messages' = Append(messages, e)
    BY <1>1
  <2> HIDE DEF e
  <2>2. Range(Append(messages, e)) = Range(messages) \cup {e}
    BY <1>1, <2>1, RangeOfAppend, Zenon
  <2>3. Range(messages') = Range(messages) \cup {e}
    BY <2>1, <2>2, Zenon
  <2> QED
    BY <2>3 DEF e
<1>5. ASSUME NEW t \in contexts
      PROVE  /\ Waiting(t)' \subseteq 1..Len(order')
             /\ Ordered(t)' /\ Complete(t)' /\ Past(t)'
  <2>1. /\ Waiting(t) \subseteq 1..Len(order)
        /\ Ordered(t) /\ Complete(t) /\ Past(t)
    BY DEF QueueOK
  <2>2. Waiting(t)' = Waiting(t) \cup {Len(order) + 1}
    BY <1>4 DEF Waiting
  <2>3. \A w \in Waiting(t) : w \in Nat /\ w < Len(order) + 1
    BY <1>1, <2>1
  <2>4. \A x \in Range(todo[t]) \cup Range(own[t]) \cup Range(messages) : x \in Waiting(t)
    BY DEF Waiting
  <2>5. Ordered(t)'
    <3>1. Sorted(messages')
      BY <1>1, <2>1, <2>3, <2>4, SortedAppend DEF Ordered
    <3>2. Below(todo[t], messages') /\ Below(own[t], messages')
      BY <1>4, <2>1, <2>3, <2>4 DEF Ordered, Below
    <3> QED
      BY <2>1, <3>1, <3>2 DEF Ordered, Sorted, Below
  <2>6. Complete(t)'
    <3>1. \A k \in 1..Len(order') : k \in 1..Len(order) \/ k = Len(order) + 1
      BY <1>1, <1>2
    <3> QED
      BY <1>3, <2>1, <2>2, <3>1 DEF Complete
  <2>7. Past(t)'
    BY <1>1, <1>2, <1>3, <2>1, <2>2 DEF Past
  <2> QED
    BY <1>1, <1>2, <2>1, <2>2, <2>5, <2>6, <2>7
<1>6. contexts' = contexts
  OBVIOUS
<1>7. QueueOK'
  BY <1>1, <1>2, <1>5, <1>6 DEF QueueOK
<1>8. \A t \in contexts : Waiting(t)' = Waiting(t) \cup {Len(order) + 1}
  BY <1>4 DEF Waiting
<1> QED
  BY <1>3, <1>7, <1>8

\* A thread that is done with a message has applied it if it was a broadcast.
LEMMA PopKeepsQueues ==
  ASSUME QueueOK, NEW t \in contexts, todo[t] # <<>>,
         todo' = [todo EXCEPT ![t] = Tail(@)],
         \/ /\ IsBroadcast(Head(todo[t]))
            /\ applied' = [applied EXCEPT ![t] = @ \cup {Head(todo[t])}]
         \/ ~IsBroadcast(Head(todo[t])) /\ UNCHANGED applied,
         UNCHANGED <<order, contexts, messages, own>>
  PROVE  /\ QueueOK'
         /\ Waiting(t) = {Head(todo[t])} \cup Waiting(t)'
         /\ \A w \in Waiting(t)' : Head(todo[t]) < w
         /\ \A u \in contexts \ {t} : Waiting(u)' = Waiting(u)
<1> DEFINE head == Head(todo[t])
           tail == Tail(todo[t])
<1>1. /\ messages \in Seq(Nat) /\ own \in [Threads -> Seq(Nat)] /\ t \in Threads
      /\ todo \in [Threads -> Seq(Nat)] /\ applied \in [Threads -> SUBSET Nat]
      /\ contexts \subseteq Threads
  BY DEF QueueOK
<1>2. /\ Waiting(t) \subseteq 1..Len(order) /\ Ordered(t) /\ Complete(t) /\ Past(t)
  BY DEF QueueOK
<1>3. /\ tail \in Seq(Nat) /\ head \in Nat
      /\ Range(todo[t]) = {head} \cup Range(tail)
  BY <1>1, RangeOfTail
<1>4. Sorted(tail) /\ \A x \in Range(tail) : head < x
  BY <1>1, <1>2, SortedTail DEF Ordered
<1> HIDE DEF head, tail
<1>5. /\ todo' \in [Threads -> Seq(Nat)] /\ todo'[t] = tail
      /\ \A u \in Threads \ {t} : todo'[u] = todo[u] /\ applied'[u] = applied[u]
      /\ applied' \in [Threads -> SUBSET Nat]
      /\ \/ IsBroadcast(head) /\ applied'[t] = applied[t] \cup {head}
         \/ ~IsBroadcast(head) /\ applied'[t] = applied[t]
  BY <1>1, <1>3 DEF head, tail
<1>6. \A w \in Range(own[t]) \cup Range(messages) : head < w
  BY <1>2, <1>3 DEF Ordered, Below
<1>7. /\ Waiting(t)' = Range(tail) \cup Range(own[t]) \cup Range(messages)
      /\ Waiting(t) = {head} \cup Waiting(t)'
  BY <1>3, <1>5 DEF Waiting
<1>8. \A w \in Waiting(t)' : head < w
  BY <1>4, <1>6, <1>7
<1>9. Ordered(t)'
  BY <1>2, <1>3, <1>4, <1>5 DEF Ordered, Below, Sorted
<1>10. Complete(t)'
  BY <1>2, <1>5, <1>7 DEF Complete, IsBroadcast
<1>11. Past(t)'
  BY <1>2, <1>5, <1>7, <1>8 DEF Past, IsBroadcast
<1>12. \A u \in contexts \ {t} : /\ Waiting(u)' \subseteq 1..Len(order)
                                 /\ Ordered(u)' /\ Complete(u)' /\ Past(u)'
  BY <1>1, <1>5 DEF QueueOK, Waiting, Ordered, Sorted, Below, Complete, Past, IsBroadcast
<1>13. \A u \in contexts \ {t} : Waiting(u)' = Waiting(u)
  BY <1>1, <1>5 DEF Waiting
<1>14. QueueOK'
  BY <1>1, <1>2, <1>5, <1>7, <1>9, <1>10, <1>11, <1>12 DEF QueueOK
<1> QED
  BY <1>7, <1>8, <1>13, <1>14 DEF head

\* Taking messages keeps every queue ordered and complete: those who lose the task
\* get the broadcasts before it.
LEMMA TakeKeepsQueues ==
  ASSUME QueueOK, NEW t \in contexts, todo[t] = <<>>,
         NEW n \in 0..Len(messages), StartsWithBroadcasts(n),
         NEW last \in 0..Len(messages), last = IF n < Len(messages) THEN n + 1 ELSE n,
         todo' = [todo EXCEPT ![t] = own[t] \o SubSeq(messages, 1, last)],
         messages' = SubSeq(messages, last + 1, Len(messages)),
         own' = Replicated(t, n),
         UNCHANGED <<order, contexts, applied>>
  PROVE  /\ QueueOK'
         /\ Waiting(t)' = Waiting(t)
         /\ \A u \in contexts : Waiting(u)' \subseteq Waiting(u)
<1> DEFINE taken == SubSeq(messages, 1, last)
           copied == SubSeq(messages, 1, n)
           rest == SubSeq(messages, last + 1, Len(messages))
<1>1. /\ messages \in Seq(Nat) /\ own \in [Threads -> Seq(Nat)] /\ t \in Threads
      /\ todo \in [Threads -> Seq(Nat)] /\ contexts \subseteq Threads
      /\ \A u \in contexts : own[u] \in Seq(Nat) /\ todo[u] \in Seq(Nat)
  BY DEF QueueOK
<1>2. \A u \in contexts : /\ Waiting(u) \subseteq 1..Len(order)
                          /\ Ordered(u) /\ Complete(u) /\ Past(u)
  BY DEF QueueOK
<1>3. Sorted(messages)
  BY <1>2 DEF Ordered
<1>4. /\ taken \in Seq(Nat) /\ rest \in Seq(Nat)
      /\ Range(messages) = Range(taken) \cup Range(rest)
      /\ Sorted(taken) /\ Sorted(rest) /\ Below(taken, rest)
      /\ Len(taken) = last /\ \A i \in 1..last : taken[i] = messages[i]
  BY <1>1, <1>3, SortedParts
<1>5. /\ copied \in Seq(Nat) /\ Sorted(copied)
      /\ Len(copied) = n /\ \A i \in 1..n : copied[i] = messages[i]
  BY <1>1, <1>3, SortedParts
<1>6. Range(copied) \subseteq Range(taken)
      /\ \A k \in Range(taken) : IsBroadcast(k) => k \in Range(copied)
  <2>1. DOMAIN taken = 1..last /\ DOMAIN copied = 1..n
    BY <1>4, <1>5, LenProperties
  <2>2. \A i \in 1..n : i \in 1..last
    OBVIOUS
  <2>3. Range(copied) \subseteq Range(taken)
    BY <1>4, <1>5, <2>1, <2>2 DEF Range
  <2>4. ASSUME NEW k \in Range(taken), IsBroadcast(k) PROVE k \in Range(copied)
    <3>1. PICK i \in 1..last : k = messages[i]
      BY <1>4, <2>1 DEF Range
    <3>2. CASE i \in 1..n
      BY <1>5, <2>1, <3>1, <3>2 DEF Range
    <3>3. CASE i \notin 1..n
      <4>1. n < Len(messages) /\ i = n + 1
        BY <3>1, <3>3
      <4> QED
        BY <2>4, <3>1, <4>1 DEF StartsWithBroadcasts
    <3> QED
      BY <3>2, <3>3
  <2> QED
    BY <2>3, <2>4
<1>7. messages' = rest
  OBVIOUS
<1>8. /\ \A u \in contexts \ {t} : own'[u] = own[u] \o copied /\ todo'[u] = todo[u]
      /\ own'[t] = <<>> /\ todo'[t] = own[t] \o taken
      /\ DOMAIN own' = Threads /\ \A u \in Threads \ contexts : own'[u] = <<>>
      /\ \A u \in Threads \ {t} : todo'[u] = todo[u]
  BY <1>1 DEF Replicated
<1> HIDE DEF taken, copied, rest
<1>9. /\ own[t] \o taken \in Seq(Nat)
      /\ \A u \in contexts : own[u] \o copied \in Seq(Nat)
  BY <1>1, <1>4, <1>5, ConcatProperties
<1>10. todo' \in [Threads -> Seq(Nat)] /\ own' \in [Threads -> Seq(Nat)]
  <2>1. todo' = [todo EXCEPT ![t] = own[t] \o taken]
    BY DEF taken
  <2>2. own' = [u \in Threads |-> own'[u]]
    BY DEF Replicated
  <2>3. <<>> \in Seq(Nat)
    OBVIOUS
  <2>4. \A u \in Threads : own'[u] \in Seq(Nat)
    BY <1>8, <1>9, <2>3, Zenon
  <2> QED
    BY <1>1, <1>9, <2>1, <2>2, <2>4
<1>11. /\ Range(<<>>) = {}
       /\ Range(own[t] \o taken) = Range(own[t]) \cup Range(taken)
       /\ \A u \in contexts : Range(own[u] \o copied) = Range(own[u]) \cup Range(copied)
  <2>1. Range(<<>>) = {}
    BY DEF Range
  <2>2. Range(own[t] \o taken) = Range(own[t]) \cup Range(taken)
    BY <1>1, <1>4, RangeOfConcat
  <2>3. ASSUME NEW u \in contexts
        PROVE  Range(own[u] \o copied) = Range(own[u]) \cup Range(copied)
    BY <1>1, <1>5, RangeOfConcat
  <2> QED
    BY <2>1, <2>2, <2>3
<1>12. \A u \in contexts : /\ Sorted(todo[u]) /\ Sorted(own[u])
                           /\ Below(todo[u], own[u]) /\ Below(todo[u], messages)
                           /\ Below(own[u], messages)
  BY <1>2 DEF Ordered
<1>13. /\ Waiting(t)' = Waiting(t) /\ Waiting(t)' \subseteq 1..Len(order)
       /\ Ordered(t)' /\ Complete(t)' /\ Past(t)'
  <2>1. Waiting(t)' = Waiting(t)
    BY <1>4, <1>7, <1>8, <1>11 DEF Waiting
  <2>2. Sorted(own[t] \o taken)
    <3>1. Below(own[t], taken)
      BY <1>4, <1>12 DEF Below
    <3> QED
      BY <1>1, <1>4, <1>12, <3>1, SortedConcat
  <2>3. Below(own[t] \o taken, rest)
    BY <1>4, <1>11, <1>12 DEF Below
  <2>4. Sorted(<<>>) /\ Below(own[t] \o taken, <<>>) /\ Below(<<>>, rest)
    BY <1>11 DEF Sorted, Below
  <2>5. Ordered(t)'
    BY <1>4, <1>7, <1>8, <2>2, <2>3, <2>4 DEF Ordered, Sorted, Below
  <2> QED
    BY <1>2, <2>1, <2>5 DEF Complete, Past, IsBroadcast
<1>14. ASSUME NEW u \in contexts \ {t}
       PROVE  /\ Waiting(u)' \subseteq Waiting(u) /\ Waiting(u)' \subseteq 1..Len(order)
              /\ Ordered(u)' /\ Complete(u)' /\ Past(u)'
  <2>1. /\ Waiting(u)' \subseteq Waiting(u)
        /\ \A k \in Waiting(u) : IsBroadcast(k) => k \in Waiting(u)'
    BY <1>4, <1>6, <1>7, <1>8, <1>11 DEF Waiting
  <2>2. Below(own[u], copied) /\ Below(todo[u], own[u] \o copied)
    BY <1>4, <1>6, <1>11, <1>12 DEF Below
  <2>3. Sorted(own[u] \o copied)
    BY <1>1, <1>5, <1>12, <2>2, SortedConcat
  <2>4. Below(todo[u], rest) /\ Below(own[u] \o copied, rest)
    BY <1>4, <1>6, <1>11, <1>12 DEF Below
  <2>5. Ordered(u)'
    BY <1>4, <1>7, <1>8, <1>12, <2>2, <2>3, <2>4 DEF Ordered, Sorted, Below
  <2> QED
    BY <1>2, <2>1, <2>5 DEF Complete, Past, IsBroadcast
<1>15. order' = order /\ contexts' = contexts /\ applied' = applied
  OBVIOUS
<1>16. QueueOK'
  BY <1>1, <1>4, <1>7, <1>10, <1>13, <1>14, <1>15 DEF QueueOK
<1> QED
  BY <1>13, <1>14, <1>16

-----------------------------------------------------------------------------
(* The steps. *)

\* Calls that only write down what the user wants.
LEMMA ClientStep ==
  ASSUME IInv, UNCHANGED <<threadVars, engineVars>>, ClientOK'
  PROVE  IInv'
<1>1. QueueOK'
  BY QueuesStay DEF IInv, queueVars, threadVars, engineVars
<1>2. PlaceOK'
  BY DEF IInv, PlaceOK, IsBroadcast, threadVars, engineVars
<1>3. HandleOK'
  BY DEF IInv, HandleOK, CancelReachesItsSearch, threadVars, engineVars
<1> QED
  BY <1>1, <1>2, <1>3 DEF IInv

\* Intents stay well typed under every change that a call makes to one of them.
LEMMA IntentsStay ==
  ASSUME IInv, NEW mode \in Modes, NEW b \in BOOLEAN, NEW k \in Nat
  PROVE  LET type == [Modes -> [asked : BOOLEAN, handle : Nat, delayed : BOOLEAN]]
         IN  /\ [intents EXCEPT ![mode].asked = b] \in type
             /\ [intents EXCEPT ![mode].handle = k] \in type
             /\ [intents EXCEPT ![mode].handle = k, ![mode].delayed = b] \in type
             /\ [intents EXCEPT ![mode].delayed = b] \in type
BY DEF IInv, ClientOK

\* Only messages are cancelled, and no handle is attached twice.
LEMMA CancelStep ==
  ASSUME IInv, NEW k \in Nat \ {0}, Cancel(k),
         UNCHANGED <<todo, at, applied, attached, sent, contexts, order, messages, own,
                     shutdown>>,
         ClientOK'
  PROVE  IInv'
<1>1. QueueOK'
  BY QueuesStay DEF IInv, queueVars
<1>2. PlaceOK'
  BY DEF IInv, PlaceOK, IsBroadcast
<1>3. contexts \subseteq Threads
  BY DEF IInv, QueueOK
<1>4. ASSUME NEW t \in contexts
      PROVE  /\ attached[t] = IF at[t] \in Searching THEN Head(todo[t]) ELSE 0
             /\ at[t] = "reset" => status'[t] = "active"
             /\ at[t] \in Searching =>
                  (status'[t] = "cancelled" <=> Head(todo[t]) \in cancelled')
  <2>1. t \in Threads /\ status'[t] = IF attached[t] = k THEN "cancelled" ELSE status[t]
    BY <1>3 DEF Cancel
  <2>2. at[t] = "reset" => at[t] \notin Searching
    BY DEF Searching
  <2> QED
    BY <2>1, <2>2 DEF IInv, HandleOK, CancelReachesItsSearch, Cancel
<1>5. HandleOK'
  BY <1>4 DEF IInv, HandleOK, CancelReachesItsSearch, Cancel
<1> QED
  BY <1>1, <1>2, <1>5 DEF IInv

\* A new message disturbs no thread.
LEMMA PostStep ==
  ASSUME IInv, NEW kind \in Modes \cup {"broadcast"}, PostMessage(kind),
         UNCHANGED <<contexts, own, todo, applied, status, attached, sent, cancelled>>,
         ClientOK'
  PROVE  IInv'
<1>1. /\ QueueOK'
      /\ \A k \in 1..Len(order) : IsBroadcast(k)' = IsBroadcast(k)
  BY PostKeepsQueues DEF IInv, PostMessage
<1>2. /\ at' \in [Threads -> Positions]
      /\ \A t \in Threads : at'[t] = at[t] \/ (at[t] = "asleep" /\ at'[t] = "awake")
  <2>1. at \in [Threads -> Positions] /\ contexts \subseteq Threads /\ "awake" \in Positions
    BY DEF IInv, PlaceOK, QueueOK, Positions
  <2>2. CASE at' = at
    BY <2>1, <2>2
  <2>3. CASE \E t \in Asleep : at' = [at EXCEPT ![t] = "awake"]
    <3>1. PICK u \in Asleep : at' = [at EXCEPT ![u] = "awake"]
      BY <2>3
    <3>2. at[u] = "asleep" /\ u \in Threads
      BY <2>1 DEF Asleep
    <3>3. at' \in [Threads -> Positions]
      BY <2>1, <3>1, <3>2
    <3>4. \A t \in Threads : at'[t] = at[t] \/ (at[t] = "asleep" /\ at'[t] = "awake")
      BY <2>1, <3>1, <3>2
    <3> QED
      BY <3>3, <3>4
  <2> QED
    BY <2>2, <2>3 DEF PostMessage, NotifyOne
<1>3. contexts \subseteq Threads
  BY DEF IInv, QueueOK
<1>4. \A t \in Threads : /\ at'[t] \in Searching <=> at[t] \in Searching
                         /\ at'[t] = "reset" <=> at[t] = "reset"
                         /\ at'[t] \in {"asleep", "awake", "left"}
                              <=> at[t] \in {"asleep", "awake", "left"}
  BY <1>2 DEF Searching
<1>5. ASSUME NEW t \in contexts, at[t] \in Searching \cup {"reset"}
      PROVE  IsBroadcast(Head(todo[t]))' = IsBroadcast(Head(todo[t]))
  <2>1. todo[t] # <<>>
    BY <1>3, <1>5 DEF IInv, PlaceOK, Searching
  <2> QED
    BY <1>1, <2>1, HeadIsAMessage DEF IInv, IsBroadcast
<1>6. PlaceOK'
  BY <1>2, <1>3, <1>4, <1>5 DEF IInv, PlaceOK, IsBroadcast
<1>7. HandleOK'
  BY <1>3, <1>4 DEF IInv, HandleOK, CancelReachesItsSearch
<1> QED
  BY <1>1, <1>6, <1>7 DEF IInv

\* Threads that sleep, wake up or leave.
LEMMA WakingStep ==
  ASSUME IInv, at' \in [Threads -> Positions],
         \A t \in Threads : \/ at'[t] = at[t]
                            \/ /\ at[t] \in {"asleep", "awake", "left"}
                               /\ at'[t] \in {"asleep", "awake", "left"}
                            \/ at[t] = "notify" /\ at'[t] = "run",
         UNCHANGED <<todo, applied, status, attached, sent, contexts, order, messages, own,
                     cancelled>>,
         ClientOK'
  PROVE  IInv'
<1>1. QueueOK'
  BY QueuesStay DEF IInv, queueVars
<1>2. /\ at' \in [Threads -> Positions] /\ contexts \subseteq Threads
      /\ \A t \in Threads : /\ at'[t] \in Searching <=> at[t] \in Searching
                            /\ at'[t] = "reset" <=> at[t] = "reset"
                            /\ at'[t] \in {"asleep", "awake", "left"}
                                 <=> at[t] \in {"asleep", "awake", "left"}
  BY DEF Searching, Positions, IInv, QueueOK
<1>3. PlaceOK'
  BY <1>2 DEF IInv, PlaceOK, IsBroadcast
<1>4. HandleOK'
  BY <1>2 DEF IInv, HandleOK, CancelReachesItsSearch
<1> QED
  BY <1>1, <1>3, <1>4 DEF IInv

\* SetToSeq returns a sequence of what is in the set, each once.
LEMMA SetToSeqIsASequence ==
  ASSUME NEW S, IsFiniteSet(S)
  PROVE  SetToSeq(S) \in Seq(S) /\ IsInjective(SetToSeq(S))
<1>1. Cardinality(S) \in Nat /\ ExistsBijection(1..Cardinality(S), S)
  BY FS_CardinalityType
<1>2. PICK f \in [1..Cardinality(S) -> S] : IsInjective(f)
  BY <1>1, Zenon DEF ExistsBijection, Bijection, Injection
<1>3. SetToSeq(S) \in [1..Cardinality(S) -> S] /\ IsInjective(SetToSeq(S))
  BY <1>2, Zenon DEF SetToSeq
<1>4. SetToSeq(S) \in Seq(S)
  BY <1>1, <1>3, SeqDef
<1> QED
  BY <1>3, <1>4

\* The searches that wait for the first viewport are of different modes, and none is
\* on the map.
LEMMA DelayedStartsAreDistinct ==
  /\ DelayedStarts \in Seq(Calls)
  /\ \A i \in DOMAIN DelayedStarts :
       /\ DelayedStarts[i].op = "start" /\ DelayedStarts[i].mode # Viewport
       /\ \A j \in DOMAIN DelayedStarts : DelayedStarts[j] = DelayedStarts[i] => i = j
<1> DEFINE delayed == {mode \in Modes \ {Viewport} : intents[mode].delayed}
           starts == {Call("start", mode) : mode \in delayed}
<1>1. IsFiniteSet(delayed)
  BY ModesAssumption, FS_Subset
<1>2. IsFiniteSet(starts)
  <2> DEFINE f == [mode \in delayed |-> Call("start", mode)]
  <2>1. f \in Surjection(delayed, starts)
    BY DEF Surjection
  <2> HIDE DEF f, delayed, starts
  <2> QED
    BY <1>1, <2>1, FS_Surjection
<1>3. starts \subseteq Calls /\ \A c \in starts : c.op = "start" /\ c.mode # Viewport
  BY DEF Call, Calls
<1>4. DelayedStarts = SetToSeq(starts)
  BY DEF DelayedStarts
<1> HIDE DEF starts, delayed
<1>5. SetToSeq(starts) \in Seq(starts) /\ IsInjective(SetToSeq(starts))
  BY <1>2, SetToSeqIsASequence
<1> DEFINE s == SetToSeq(starts)
<1> HIDE DEF s
<1>6. s \in Seq(starts) /\ IsInjective(s)
  BY <1>5 DEF s
<1>7. \A i \in DOMAIN s : s[i] \in starts
  BY <1>6
<1>8. \A i, j \in DOMAIN s : s[j] = s[i] => i = j
  BY <1>6 DEF IsInjective
<1>9. \A i \in DOMAIN s : /\ s[i].op = "start" /\ s[i].mode # Viewport
                          /\ \A j \in DOMAIN s : s[j] = s[i] => i = j
  BY <1>3, <1>7, <1>8
<1>10. s \in Seq(Calls)
  BY <1>3, <1>6, SeqMonotonic
<1> QED
  BY <1>4, <1>9, <1>10 DEF s

\* The call that runs, and what is left of it.
LEMMA DoingACall ==
  ASSUME IInv, NEW op, Doing(op)
  PROVE  This \in Modes /\ calls' \in Seq(Calls)
<1>1. calls \in Seq(Calls) /\ calls # <<>>
  BY DEF IInv, ClientOK, Doing
<1>2. Head(calls) \in Calls /\ Tail(calls) \in Seq(Calls)
  BY <1>1, HeadTailProperties
<1> QED
  BY <1>2 DEF Doing, This, Calls

\* The calls of the GUI thread.
LEMMA GuiStep ==
  ASSUME IInv, GuiThread
  PROVE  IInv'
<1> USE DEF ClientOK
<1>0. /\ calls \in Seq(Calls) /\ shutdown \in BOOLEAN /\ ready \in BOOLEAN
      /\ intents \in [Modes -> [asked : BOOLEAN, handle : Nat, delayed : BOOLEAN]]
      /\ Viewport \in Modes
  BY ModesAssumption DEF IInv
<1>c. \A mode \in Modes : /\ <<Call("cancel", mode), Call("start", mode)>> \in Seq(Calls)
                          /\ <<Call("cancel", mode)>> \in Seq(Calls)
                          /\ <<Call("broadcast", mode)>> \in Seq(Calls)
                          /\ <<>> \in Seq(Calls)
  <2>1. \A mode \in Modes : /\ Call("cancel", mode) \in Calls /\ Call("start", mode) \in Calls
                            /\ Call("broadcast", mode) \in Calls
    BY DEF Call, Calls
  <2> QED
    BY <2>1
<1>p. Poke \in Seq(Calls) /\ DelayedStarts \o Poke \in Seq(Calls)
  <2>1. Poke \in Seq(Calls)
    BY <1>0, <1>c DEF Poke
  <2> QED
    BY <2>1, DelayedStartsAreDistinct, ConcatProperties
<1>1. CASE \E mode \in Modes : Search(mode)
  <2>1. PICK mode \in Modes : Search(mode)
    BY <1>1
  <2>2. intents' \in [Modes -> [asked : BOOLEAN, handle : Nat, delayed : BOOLEAN]]
    BY <2>1, IntentsStay DEF Search
  <2> QED
    BY <1>0, <1>c, <2>1, <2>2, ClientStep DEF Search, engineVars
<1>2. CASE \E mode \in Modes : CancelSearch(mode)
  <2>1. PICK mode \in Modes : CancelSearch(mode)
    BY <1>2
  <2>2. intents' \in [Modes -> [asked : BOOLEAN, handle : Nat, delayed : BOOLEAN]]
    BY <2>1, IntentsStay DEF CancelSearch
  <2> QED
    BY <1>0, <1>c, <2>1, <2>2, ClientStep DEF CancelSearch, engineVars
<1>3. CASE OnViewportChanged
  BY <1>0, <1>p, <1>3, ClientStep DEF OnViewportChanged, engineVars
<1>4. CASE Broadcast
  BY <1>0, <1>c, <1>4, ClientStep DEF Broadcast, engineVars
<1>5. CASE ShowResults
  BY <1>0, <1>5, ClientStep DEF ShowResults, engineVars
<1>6. CASE Shutdown
  <2>1. ClientOK'
    BY <1>0, <1>6 DEF Shutdown, apiVars
  <2>2. at' \in [Threads -> Positions]
    BY <1>6 DEF Shutdown, IInv, PlaceOK, Positions
  <2>3. \A t \in Threads : at'[t] = at[t] \/ (at[t] = "asleep" /\ at'[t] = "awake")
    BY <1>6 DEF Shutdown
  <2>4. UNCHANGED <<todo, applied, status, attached, sent, contexts, order, messages, own,
                    cancelled>>
    BY <1>6 DEF Shutdown
  <2> QED
    BY <2>1, <2>2, <2>3, <2>4, WakingStep
<1>7. CASE CancelQuery
  <2>1. This \in Modes /\ calls' \in Seq(Calls)
    BY <1>7, DoingACall DEF CancelQuery
  <2>2. ClientOK'
    <3>1. intents' \in [Modes -> [asked : BOOLEAN, handle : Nat, delayed : BOOLEAN]]
      BY <1>7, <2>1, IntentsStay DEF CancelQuery
    <3> QED
      BY <1>0, <1>7, <2>1, <3>1 DEF CancelQuery
  <2> DEFINE k == intents[This].handle
  <2>3. k \in Nat
    BY <1>0, <2>1
  <2>4. CASE IsAlive(k)
    <3>1. k # 0
      <4>1. k \in 1..Len(order)
        BY <2>4, AliveIsAMessage DEF IInv
      <4> QED
        BY <4>1
    <3>2. Cancel(k)
      BY <1>7, <2>4 DEF CancelQuery
    <3> QED
      BY <1>7, <2>2, <2>3, <3>1, <3>2, CancelStep DEF CancelQuery
  <2>5. CASE ~IsAlive(k)
    BY <1>7, <2>2, <2>5, ClientStep DEF CancelQuery, threadVars, engineVars
  <2> QED
    BY <2>4, <2>5
<1>8. CASE StartSearch
  <2>1. This \in Modes /\ calls' \in Seq(Calls)
    BY <1>8, DoingACall DEF StartSearch
  <2>2. Len(order) + 1 \in Nat
    BY LenProperties DEF IInv, QueueOK
  <2>3. intents' \in [Modes -> [asked : BOOLEAN, handle : Nat, delayed : BOOLEAN]]
    BY <1>8, <2>1, <2>2, IntentsStay DEF StartSearch
  <2>4. ClientOK'
    BY <1>0, <1>8, <2>1, <2>3 DEF StartSearch
  <2> QED
    BY <1>8, <2>1, <2>4, PostStep DEF StartSearch
<1>9. CASE DelaySearch
  <2>1. This \in Modes /\ calls' \in Seq(Calls)
    BY <1>9, DoingACall DEF DelaySearch
  <2>2. intents' \in [Modes -> [asked : BOOLEAN, handle : Nat, delayed : BOOLEAN]]
    BY <1>9, <2>1, IntentsStay DEF DelaySearch
  <2>3. ClientOK'
    BY <1>0, <1>9, <2>1, <2>2 DEF DelaySearch, engineVars
  <2> QED
    BY <1>9, <2>3, ClientStep DEF DelaySearch
<1>10. CASE PostBroadcast
  <2>1. calls' \in Seq(Calls)
    BY <1>10, DoingACall DEF PostBroadcast
  <2>2. ClientOK'
    BY <1>0, <1>10, <2>1 DEF PostBroadcast
  <2> QED
    BY <1>10, <2>2, PostStep DEF PostBroadcast
<1> QED
  BY <1>1, <1>2, <1>3, <1>4, <1>5, <1>6, <1>7, <1>8, <1>9, <1>10 DEF GuiThread

\* A step of one thread that keeps its first message, and what is cancelled.
LEMMA OwnStep ==
  ASSUME IInv, NEW t \in contexts, NEW place \in Positions, NEW s \in {"active", "cancelled"},
         at' = [at EXCEPT ![t] = place], status' = [status EXCEPT ![t] = s],
         at[t] \notin {"asleep", "awake", "left"}, place \notin {"asleep", "awake", "left"},
         place \in Searching \cup {"reset"} => ~IsBroadcast(Head(todo[t])),
         attached' = [attached EXCEPT ![t] = IF place \in Searching THEN Head(todo[t]) ELSE 0],
         place = "reset" => s = "active",
         place \in Searching => (s = "cancelled" <=> Head(todo[t]) \in cancelled),
         sent' \in [Threads -> Nat],
         UNCHANGED <<todo, applied, contexts, order, messages, own, cancelled>>,
         ClientOK'
  PROVE  IInv'
<1>1. QueueOK'
  BY QueuesStay DEF IInv, queueVars
<1>2. /\ t \in Threads /\ contexts \subseteq Threads /\ todo[t] # <<>>
      /\ at \in [Threads -> Positions] /\ status \in [Threads -> {"active", "cancelled"}]
      /\ attached \in [Threads -> Nat] /\ QueueOK
  BY DEF IInv, QueueOK, PlaceOK, HandleOK
<1>3. Head(todo[t]) \in Nat
  BY <1>2, HeadIsAMessage
<1>4. /\ at' \in [Threads -> Positions] /\ status' \in [Threads -> {"active", "cancelled"}]
      /\ attached' \in [Threads -> Nat]
      /\ at'[t] = place /\ status'[t] = s
      /\ attached'[t] = IF place \in Searching THEN Head(todo[t]) ELSE 0
      /\ \A u \in Threads \ {t} : /\ at'[u] = at[u] /\ status'[u] = status[u]
                                  /\ attached'[u] = attached[u]
  BY <1>2, <1>3
<1>5. PlaceOK'
  BY <1>2, <1>4 DEF IInv, PlaceOK, IsBroadcast
<1>6. HandleOK'
  BY <1>2, <1>4 DEF IInv, HandleOK, CancelReachesItsSearch
<1> QED
  BY <1>1, <1>5, <1>6 DEF IInv

\* A thread is done with a message, and has none in its hands.
LEMMA PopStep ==
  ASSUME IInv, NEW t \in contexts, Pop(t), at[t] \in {"run", "detach"},
         \/ /\ IsBroadcast(Head(todo[t]))
            /\ applied' = [applied EXCEPT ![t] = @ \cup {Head(todo[t])}]
         \/ ~IsBroadcast(Head(todo[t])) /\ UNCHANGED applied,
         attached' = [attached EXCEPT ![t] = 0],
         UNCHANGED <<order, contexts, messages, own, status, sent, cancelled>>,
         ClientOK'
  PROVE  IInv'
<1>1. /\ t \in Threads /\ contexts \subseteq Threads /\ todo \in [Threads -> Seq(Nat)]
      /\ at \in [Threads -> Positions] /\ attached \in [Threads -> Nat] /\ QueueOK
      /\ \A u \in Threads : at[u] \in {"asleep", "awake", "left"} <=> todo[u] = <<>>
  BY DEF IInv, QueueOK, PlaceOK, HandleOK
<1>2. todo[t] # <<>>
  BY <1>1
<1>3. QueueOK'
  BY <1>1, <1>2, PopKeepsQueues DEF Pop
<1>4. /\ \A u \in Threads \ {t} : /\ at'[u] = at[u] /\ todo'[u] = todo[u]
                                  /\ attached'[u] = attached[u]
      /\ attached' \in [Threads -> Nat] /\ attached'[t] = 0
      /\ todo'[t] = Tail(todo[t])
      /\ at'[t] = IF Len(todo[t]) = 1 THEN "awake" ELSE "run"
      /\ at' \in [Threads -> Positions]
  BY <1>1 DEF Pop, Positions
<1>5. Len(todo[t]) = 1 <=> Tail(todo[t]) = <<>>
  <2> DEFINE s == todo[t]
             tail == Tail(s)
  <2>1. s \in Seq(Nat) /\ s # <<>>
    BY <1>1, <1>2
  <2> HIDE DEF s
  <2>2. Len(tail) = Len(s) - 1 /\ tail \in Seq(Nat) /\ Len(s) \in Nat
    BY <2>1, HeadTailProperties, LenProperties
  <2> HIDE DEF tail
  <2>3. tail = <<>> <=> Len(tail) = 0
    BY <2>2, EmptySeq
  <2>4. Len(s) = 1 <=> tail = <<>>
    BY <2>2, <2>3
  <2> QED
    BY <2>4 DEF s, tail
<1>6. at'[t] \in {"asleep", "awake", "left"} <=> todo'[t] = <<>>
  BY <1>4, <1>5
<1>7. at'[t] \notin Searching \cup {"reset"}
  BY <1>4 DEF Searching
<1>8. PlaceOK'
  BY <1>1, <1>4, <1>6, <1>7 DEF IInv, PlaceOK, IsBroadcast
<1>9. HandleOK'
  <2>1. ASSUME NEW u \in contexts
        PROVE  /\ attached'[u] = IF at'[u] \in Searching THEN Head(todo'[u]) ELSE 0
               /\ at'[u] = "reset" => status[u] = "active"
               /\ at'[u] \in Searching =>
                    (status[u] = "cancelled" <=> Head(todo'[u]) \in cancelled)
    <3>1. CASE u = t
      BY <1>4, <1>7, <3>1
    <3>2. CASE u # t
      <4>1. at'[u] = at[u] /\ todo'[u] = todo[u] /\ attached'[u] = attached[u]
        BY <1>1, <1>4, <3>2
      <4> QED
        BY <4>1 DEF IInv, HandleOK, CancelReachesItsSearch
    <3> QED
      BY <3>1, <3>2
  <2> QED
    BY <1>4, <2>1 DEF IInv, HandleOK, CancelReachesItsSearch
<1> QED
  BY <1>3, <1>8, <1>9 DEF IInv

\* What a thread may do.
LEMMA ThreadStep ==
  ASSUME IInv, NEW t \in contexts, MainLoop(t) \/ WakeSpuriously(t)
  PROVE  IInv'
<1> USE DEF Positions
<1>1. /\ t \in Threads /\ contexts \subseteq Threads /\ QueueOK
      /\ at \in [Threads -> Positions] /\ todo \in [Threads -> Seq(Nat)]
      /\ status \in [Threads -> {"active", "cancelled"}]
      /\ attached \in [Threads -> Nat] /\ sent \in [Threads -> Nat]
      /\ \A u \in Threads : at[u] \in {"asleep", "awake", "left"} <=> todo[u] = <<>>
      /\ \A u \in contexts :
           at[u] \in Searching \cup {"reset"} => ~IsBroadcast(Head(todo[u]))
      /\ attached[t] = IF at[t] \in Searching THEN Head(todo[t]) ELSE 0
      /\ at[t] = "reset" => status[t] = "active"
      /\ at[t] \in Searching => (status[t] = "cancelled" <=> Head(todo[t]) \in cancelled)
  BY DEF IInv, QueueOK, PlaceOK, HandleOK, CancelReachesItsSearch
<1>2. ASSUME UNCHANGED apiVars, UNCHANGED shutdown PROVE ClientOK'
  BY <1>2 DEF IInv, ClientOK, apiVars
<1>3. CASE Sleep(t) \/ WakeSpuriously(t) \/ Leave(t) \/ NotifyAll(t)
  <2>1. at' \in [Threads -> Positions]
    BY <1>1, <1>3 DEF Sleep, WakeSpuriously, Leave, NotifyAll
  <2>2. \A u \in Threads : \/ at'[u] = at[u]
                           \/ /\ at[u] \in {"asleep", "awake", "left"}
                              /\ at'[u] \in {"asleep", "awake", "left"}
                           \/ at[u] = "notify" /\ at'[u] = "run"
    BY <1>1, <1>3 DEF Sleep, WakeSpuriously, Leave, NotifyAll
  <2>3. /\ UNCHANGED <<todo, applied, status, attached, sent, contexts, order, messages,
                       own, cancelled>>
        /\ ClientOK'
    BY <1>2, <1>3 DEF Sleep, WakeSpuriously, Leave, NotifyAll, engineVars
  <2> QED
    BY <2>1, <2>2, <2>3, WakingStep
<1>4. CASE ApplyBroadcast(t)
  <2>1. attached' = [attached EXCEPT ![t] = 0]
    BY <1>1, <1>4 DEF ApplyBroadcast, Searching
  <2>2. ClientOK'
    BY <1>2, <1>4 DEF ApplyBroadcast, engineVars
  <2> QED
    BY <1>4, <2>1, <2>2, PopStep DEF ApplyBroadcast, engineVars
<1>5. CASE Detach(t)
  <2>1. ~IsBroadcast(Head(todo[t]))
    BY <1>1, <1>5 DEF Detach, Searching
  <2>2. ClientOK'
    BY <1>2, <1>5 DEF Detach, engineVars
  <2> QED
    BY <1>5, <2>1, <2>2, PopStep DEF Detach, engineVars
<1>6. CASE Reset(t)
  <2>1. attached' = [attached EXCEPT ![t] = IF "reset" \in Searching THEN Head(todo[t]) ELSE 0]
    BY <1>1, <1>6 DEF Reset, Searching
  <2>2. /\ at' = [at EXCEPT ![t] = "reset"] /\ status' = [status EXCEPT ![t] = "active"]
        /\ at[t] = "run" /\ ~IsBroadcast(Head(todo[t])) /\ sent' \in [Threads -> Nat]
        /\ UNCHANGED <<todo, applied, contexts, order, messages, own, cancelled>>
        /\ ClientOK'
    BY <1>1, <1>2, <1>6 DEF Reset, engineVars
  <2>3. "reset" \notin Searching
    BY DEF Searching
  <2> QED
    BY <2>1, <2>2, <2>3, OwnStep
<1>7. CASE Attach(t)
  <2> DEFINE s == StatusAfterAttach(t)
  <2>1. /\ s \in {"active", "cancelled"}
        /\ s = "cancelled" <=> Head(todo[t]) \in cancelled
    BY <1>1, <1>7 DEF Attach, StatusAfterAttach
  <2>2. /\ at' = [at EXCEPT ![t] = "search"] /\ status' = [status EXCEPT ![t] = s]
        /\ at[t] = "reset" /\ sent' \in [Threads -> Nat]
        /\ attached' = [attached EXCEPT ![t] = Head(todo[t])]
        /\ UNCHANGED <<todo, applied, contexts, order, messages, own, cancelled>>
        /\ ClientOK'
    BY <1>1, <1>2, <1>7 DEF Attach, engineVars
  <2>3. "search" \in Searching /\ ~IsBroadcast(Head(todo[t]))
    BY <1>1, <2>2 DEF Searching
  <2> HIDE DEF s
  <2> QED
    BY <2>1, <2>2, <2>3, OwnStep
<1>8. CASE EmitBatch(t) \/ ReadStatus(t) \/ Finish(t)
  <2>1. PICK place \in {"search", "finished", "cancelled", "detach"} :
          at' = [at EXCEPT ![t] = place]
    <3>1. CASE EmitBatch(t)
      <4>1. at' = [at EXCEPT ![t] = "search"]
        BY <1>1, <3>1 DEF EmitBatch
      <4> QED
        BY <4>1
    <3>2. CASE ReadStatus(t)
      BY <1>1, <3>2 DEF ReadStatus
    <3>3. CASE Finish(t)
      BY <1>1, <3>3 DEF Finish
    <3> QED
      BY <1>8, <3>1, <3>2, <3>3
  <2>2. /\ at[t] \in Searching /\ place \in Searching
        /\ at[t] \notin {"asleep", "awake", "left"} /\ place \notin {"asleep", "awake", "left"}
    BY <1>8, <2>1 DEF EmitBatch, ReadStatus, Finish, Searching
  <2>3. /\ status' = [status EXCEPT ![t] = status[t]]
        /\ attached' = [attached EXCEPT ![t] = Head(todo[t])]
        /\ sent' \in [Threads -> Nat]
    BY <1>1, <1>8, <2>2 DEF EmitBatch, ReadStatus, Finish
  <2>4. /\ UNCHANGED <<todo, applied, contexts, order, messages, own, cancelled>>
        /\ ClientOK'
    BY <1>2, <1>8 DEF EmitBatch, ReadStatus, Finish, engineVars
  <2>5. ~IsBroadcast(Head(todo[t])) /\ status[t] \in {"active", "cancelled"} /\ place # "reset"
    BY <1>1, <2>1, <2>2
  <2>6. status[t] = "cancelled" <=> Head(todo[t]) \in cancelled
    BY <1>1, <2>2
  <2>7. place \in Positions
    BY <2>1
  <2> QED
    BY <2>1, <2>2, <2>3, <2>4, <2>5, <2>6, <2>7, OwnStep
<1>9. CASE Take(t)
  <2>1. PICK n \in 0..Len(messages) :
          LET last == IF n < Len(messages) THEN n + 1 ELSE n
          IN  /\ StartsWithBroadcasts(n)
              /\ todo' = [todo EXCEPT ![t] = own[t] \o SubSeq(messages, 1, last)]
              /\ messages' = SubSeq(messages, last + 1, Len(messages))
              /\ own' = Replicated(t, n)
              /\ at' = [at EXCEPT ![t] = AfterTaking(n)]
    BY <1>9 DEF Take
  <2> DEFINE last == IF n < Len(messages) THEN n + 1 ELSE n
  <2>2. /\ messages \in Seq(Nat) /\ own[t] \in Seq(Nat) /\ Len(messages) \in Nat
        /\ todo[t] = <<>> /\ HasWork(t)
    BY <1>1, <1>9, LenProperties DEF Take, QueueOK
  <2>3. last \in 0..Len(messages) /\ (Len(messages) # 0 => last # 0)
    BY <2>2
  <2>4. /\ todo' = [todo EXCEPT ![t] = own[t] \o SubSeq(messages, 1, last)]
        /\ messages' = SubSeq(messages, last + 1, Len(messages))
        /\ own' = Replicated(t, n) /\ StartsWithBroadcasts(n)
        /\ at' = [at EXCEPT ![t] = AfterTaking(n)]
        /\ last = IF n < Len(messages) THEN n + 1 ELSE n
    BY <2>1
  <2>5. /\ UNCHANGED <<order, contexts, applied, status, attached, sent, cancelled>>
        /\ UNCHANGED apiVars /\ UNCHANGED shutdown
    BY <1>9 DEF Take
  <2> HIDE DEF last
  <2>6. QueueOK'
    BY <1>1, <2>2, <2>3, <2>4, <2>5, TakeKeepsQueues
  <2>7. own[t] \o SubSeq(messages, 1, last) # <<>>
    <3> DEFINE a == own[t]
               b == SubSeq(messages, 1, last)
    <3>1. a \in Seq(Nat) /\ b \in Seq(Nat) /\ Len(b) = last
      BY <2>2, <2>3, SubSeqProperties, LenProperties
    <3>2. Len(a) # 0 \/ Len(b) # 0
      <4>1. own[t] # <<>> => Len(own[t]) # 0
        BY <2>2, EmptySeq
      <4>2. messages # <<>> => Len(messages) # 0
        BY <2>2, EmptySeq
      <4> QED
        BY <2>2, <2>3, <3>1, <4>1, <4>2 DEF HasWork
    <3> HIDE DEF a, b
    <3>3. Len(a \o b) = Len(a) + Len(b) /\ Len(a) \in Nat /\ Len(b) \in Nat /\ Len(<<>>) = 0
      BY <3>1, ConcatProperties, LenProperties
    <3>4. a \o b # <<>>
      BY <3>2, <3>3
    <3> QED
      BY <3>4 DEF a, b
  <2>8. /\ at' \in [Threads -> Positions] /\ at'[t] \in {"run", "notify"}
        /\ at[t] = "awake"
        /\ \A u \in Threads \ {t} : at'[u] = at[u] /\ todo'[u] = todo[u]
    BY <1>1, <1>9, <2>4 DEF Take, AfterTaking
  <2>9. todo'[t] # <<>>
    BY <1>1, <2>4, <2>7
  <2>10. PlaceOK'
    BY <1>1, <2>5, <2>8, <2>9 DEF PlaceOK, IsBroadcast, Searching
  <2>11. HandleOK'
    <3>1. ASSUME NEW u \in contexts
          PROVE  /\ attached[u] = IF at'[u] \in Searching THEN Head(todo'[u]) ELSE 0
                 /\ at'[u] = "reset" => status[u] = "active"
                 /\ at'[u] \in Searching =>
                      (status[u] = "cancelled" <=> Head(todo'[u]) \in cancelled)
      <4>1. CASE u = t
        BY <1>1, <2>8, <4>1 DEF Searching
      <4>2. CASE u # t
        <5>1. at'[u] = at[u] /\ todo'[u] = todo[u]
          BY <1>1, <2>8, <4>2
        <5> QED
          BY <5>1 DEF IInv, HandleOK, CancelReachesItsSearch
      <4> QED
        BY <4>1, <4>2
    <3> QED
      BY <2>5, <3>1 DEF IInv, HandleOK, CancelReachesItsSearch
  <2> QED
    BY <1>2, <2>5, <2>6, <2>10, <2>11 DEF IInv
<1> QED
  BY <1>3, <1>4, <1>5, <1>6, <1>7, <1>8, <1>9 DEF MainLoop

-----------------------------------------------------------------------------
(* The theorems. *)

\* A new engine satisfies the invariant.
LEMMA InitIsInductive == Init => IInv
<1> SUFFICES ASSUME Init PROVE IInv
  OBVIOUS
<1>1. <<>> \in Seq(Nat) /\ Range(<<>>) = {} /\ Len(<<>>) = 0
  BY DEF Range
<1>2. QueueOK
  <2>1. \A t \in contexts : Waiting(t) = {} /\ applied[t] = {}
    BY <1>1 DEF Init, Waiting
  <2>2. \A t \in contexts : Ordered(t)
    BY <1>1 DEF Init, Ordered, Sorted, Below
  <2>3. /\ order \in Seq(Modes \cup {"broadcast"}) /\ Len(order) = 0 /\ contexts \subseteq Threads
        /\ messages \in Seq(Nat) /\ own \in [Threads -> Seq(Nat)]
        /\ todo \in [Threads -> Seq(Nat)] /\ applied \in [Threads -> SUBSET Nat]
    BY <1>1 DEF Init
  <2> QED
    BY <2>1, <2>2, <2>3 DEF QueueOK, Complete, Past
<1>3. PlaceOK
  BY DEF Init, PlaceOK, Positions, Searching
<1>4. HandleOK
  BY DEF Init, HandleOK, Searching, CancelReachesItsSearch
<1>5. ClientOK
  <2>1. Call("broadcast", Viewport) \in Calls
    BY ModesAssumption DEF Call, Calls
  <2>2. <<Call("broadcast", Viewport)>> \in Seq(Calls)
    BY <2>1
  <2>3. intents \in [Modes -> [asked : BOOLEAN, handle : Nat, delayed : BOOLEAN]]
    BY DEF Init
  <2> QED
    BY <2>2, <2>3 DEF Init, ClientOK
<1> QED
  BY <1>2, <1>3, <1>4, <1>5 DEF IInv

\* Every step keeps the invariant.
LEMMA StepKeepsInvariant == IInv /\ [Next]_vars => IInv'
<1> SUFFICES ASSUME IInv, [Next]_vars PROVE IInv'
  OBVIOUS
<1>1. CASE GuiThread
  BY <1>1, GuiStep
<1>2. CASE \E t \in contexts : MainLoop(t) \/ WakeSpuriously(t)
  BY <1>2, ThreadStep
<1>3. CASE UNCHANGED vars
  <2>1. UNCHANGED <<threadVars, engineVars>> /\ UNCHANGED apiVars
    BY <1>3 DEF vars
  <2>2. ClientOK'
    BY <2>1 DEF IInv, ClientOK, apiVars, engineVars
  <2> QED
    BY <2>1, <2>2, ClientStep
<1> QED
  BY <1>1, <1>2, <1>3 DEF Next

\* The queues of the threads are ordered and complete, a processor is attached to the
\* search its thread does, and its status says whether that search was cancelled.
THEOREM Invariance == Spec => []IInv
<1> QED
  BY InitIsInductive, StepKeepsInvariant, PTL DEF Spec

\* The layout of the queues tells which broadcasts a search has seen.
LEMMA InvariantImpliesOrder == IInv => SearchesSeeTheirBroadcasts
<1> SUFFICES ASSUME IInv, NEW t \in contexts, at[t] \in Searching \cup {"reset"}
             PROVE  applied[t] = {k \in 1..Head(todo[t]) : IsBroadcast(k)}
  BY DEF SearchesSeeTheirBroadcasts
<1> DEFINE head == Head(todo[t])
<1>1. /\ QueueOK /\ Ordered(t) /\ Complete(t) /\ Past(t) /\ ~IsBroadcast(head)
      /\ Waiting(t) \subseteq 1..Len(order)
  BY DEF IInv, QueueOK, PlaceOK
<1>2. todo[t] # <<>> /\ todo[t] \in Seq(Nat)
  BY DEF IInv, QueueOK, PlaceOK, Searching
<1>3. head \in 1..Len(order) /\ head \in Waiting(t)
  BY <1>1, <1>2, HeadIsAMessage
<1>4. \A w \in Waiting(t) : w = head \/ head < w
  <2>1. /\ Range(todo[t]) = {head} \cup Range(Tail(todo[t]))
        /\ \A x \in Range(Tail(todo[t])) : head < x
    BY <1>1, <1>2, RangeOfTail, SortedTail DEF Ordered
  <2> QED
    BY <1>1, <2>1 DEF Ordered, Below, Waiting
<1> HIDE DEF head
<1>5. Len(order) \in Nat
  BY <1>1, LenProperties DEF QueueOK
<1>6. ASSUME NEW k \in applied[t] PROVE k \in 1..head /\ IsBroadcast(k)
  BY <1>1, <1>3, <1>5 DEF Past
<1>7. ASSUME NEW k \in 1..head, IsBroadcast(k) PROVE k \in applied[t]
  <2>1. k \in 1..Len(order)
    BY <1>3, <1>5
  <2>2. k \in applied[t] \cup Waiting(t)
    BY <1>1, <1>7, <2>1 DEF Complete
  <2>3. k \notin Waiting(t)
    BY <1>1, <1>3, <1>4, <1>7
  <2> QED
    BY <2>2, <2>3
<1>8. applied[t] = {k \in 1..head : IsBroadcast(k)}
  BY <1>6, <1>7
<1> QED
  BY <1>8 DEF head

\* A search sees the broadcasts that were called for before it and none that came
\* later, however many threads share them out (Engine::MainLoop).
THEOREM SearchesSeeThePast == Spec => []SearchesSeeTheirBroadcasts
<1> QED
  BY Invariance, InvariantImpliesOrder, PTL

\* Whenever ProcessorHandle::Cancel is called, the search it was returned for is
\* cancelled, and a search is never cancelled by the handle of another one.
THEOREM CancelsReach == Spec => []CancelReachesItsSearch
<1>1. IInv => CancelReachesItsSearch
  BY DEF IInv, HandleOK
<1> QED
  BY <1>1, Invariance, PTL

\* The variables have their types: part of it is in the inductive invariant.
THEOREM TypeCorrect == Spec => []TypeOK
<1>1. IInv => TypeOK
  BY DEF IInv, QueueOK, PlaceOK, HandleOK, ClientOK, TypeOK, Calls
<1> QED
  BY <1>1, Invariance, PTL

-----------------------------------------------------------------------------
(* One search of each mode, and what the client knows of it. *)

\* A handle is that of the last search of its mode, which is not cancelled.
HandlesOK ==
  /\ cancelled \subseteq 1..Len(order)
  /\ \A mode \in Modes : intents[mode].handle # 0 =>
       /\ intents[mode].handle \in (1..Len(order)) \ cancelled
       /\ order[intents[mode].handle] = mode
       /\ \A k \in 1..Len(order) : order[k] = mode => k <= intents[mode].handle

\* A search that is alive is cancelled or can be, within a call as well.
NoneIsLost ==
  \A k \in 1..Len(order) :
    ~IsBroadcast(k) /\ IsAlive(k) => k \in cancelled \/ intents[order[k]].handle = k

\* A search begins when the last one of its mode was given up: just before, or there
\* was none.
StartsOK ==
  \A i \in DOMAIN calls : calls[i].op = "start" =>
    \/ i - 1 \in DOMAIN calls /\ calls[i - 1] = Call("cancel", calls[i].mode)
    \/ /\ intents[calls[i].mode].handle = 0
       /\ \A j \in DOMAIN calls : calls[j] = calls[i] => i <= j

\* Nothing is searched before the first viewport.
FirstOK ==
  ~ready => /\ \A mode \in Modes : intents[mode].handle = 0
            /\ \A k \in 1..Len(order) : IsBroadcast(k)
            /\ gui = <<>> /\ shown = {}

Held == intents[Viewport].handle
Asked == intents[Viewport].asked

OneInv == IInv /\ HandlesOK /\ NoneIsLost /\ StartsOK /\ FirstOK

\* What is in three sequences, one after the other.
LEMMA RangeOfThree ==
  ASSUME NEW a \in Seq(Nat), NEW b \in Seq(Nat), NEW c \in Seq(Nat)
  PROVE  \A k : Contains(a \o b \o c, k) <=> k \in Range(a) \cup Range(b) \cup Range(c)
<1>1. a \o b \in Seq(Nat) /\ (a \o b) \o c \in Seq(Nat)
  BY ConcatProperties
<1>2. Range((a \o b) \o c) = Range(a) \cup Range(b) \cup Range(c)
  <2>1. Range(a \o b) = Range(a) \cup Range(b)
    BY RangeOfConcat
  <2>2. Range((a \o b) \o c) = Range(a \o b) \cup Range(c)
    BY <1>1, RangeOfConcat
  <2> QED
    BY <2>1, <2>2
<1> DEFINE d == (a \o b) \o c
<1>3. DOMAIN d = 1..Len(d)
  BY <1>1, LenProperties
<1> HIDE DEF d
<1>4. \A k : Contains(d, k) <=> k \in Range(d)
  BY <1>3 DEF Contains, Range
<1> QED
  BY <1>2, <1>4 DEF d

\* To be alive is to wait for some thread.
LEMMA AliveIsWaiting ==
  ASSUME QueueOK
  PROVE  \A k : IsAlive(k) <=> \E t \in contexts : k \in Waiting(t)
<1>1. ASSUME NEW t \in contexts
      PROVE  todo[t] \in Seq(Nat) /\ own[t] \in Seq(Nat) /\ messages \in Seq(Nat)
  BY DEF QueueOK
<1>2. ASSUME NEW t \in contexts, NEW k
      PROVE  Contains(Queued(t), k) <=> k \in Waiting(t)
  BY <1>1, RangeOfThree DEF Queued, Waiting
<1> QED
  BY <1>2 DEF IsAlive

\* The same after a step.
LEMMA AliveWillBeWaiting ==
  ASSUME QueueOK'
  PROVE  \A k : IsAlive(k)' <=> \E t \in contexts' : k \in Waiting(t)'
<1>1. ASSUME NEW t \in contexts'
      PROVE  todo'[t] \in Seq(Nat) /\ own'[t] \in Seq(Nat) /\ messages' \in Seq(Nat)
  BY DEF QueueOK
<1>2. ASSUME NEW t \in contexts', NEW k
      PROVE  Contains(Queued(t)', k) <=> k \in Waiting(t)'
  BY <1>1, RangeOfThree DEF Queued, Waiting
<1> QED
  BY <1>2 DEF IsAlive

\* A thread changes no request, and only gets done with messages.
LEMMA ThreadEffects ==
  ASSUME IInv, NEW t \in contexts, MainLoop(t) \/ WakeSpuriously(t)
  PROVE  /\ UNCHANGED <<order, contexts, cancelled, intents, ready, calls, shown>>
         /\ \A u \in contexts : Waiting(u)' \subseteq Waiting(u)
<1>1. /\ QueueOK /\ t \in Threads /\ at \in [Threads -> Positions]
      /\ todo \in [Threads -> Seq(Nat)]
      /\ \A u \in Threads : at[u] \in {"asleep", "awake", "left"} <=> todo[u] = <<>>
      /\ at[t] \in Searching \cup {"reset"} => ~IsBroadcast(Head(todo[t]))
  BY DEF IInv, QueueOK, PlaceOK
<1>2. CASE \/ Sleep(t) \/ WakeSpuriously(t) \/ Leave(t) \/ NotifyAll(t) \/ Reset(t)
           \/ Attach(t) \/ EmitBatch(t) \/ ReadStatus(t) \/ Finish(t)
  <2>1. UNCHANGED <<todo, engineVars, apiVars>>
    BY <1>2 DEF Sleep, WakeSpuriously, Leave, NotifyAll, Reset, Attach, EmitBatch,
                ReadStatus, Finish
  <2> QED
    BY <2>1 DEF engineVars, apiVars, Waiting
<1>3. CASE ApplyBroadcast(t) \/ Detach(t)
  <2>1. UNCHANGED <<engineVars, apiVars>>
    BY <1>3 DEF ApplyBroadcast, Detach
  <2>2. /\ todo' = [todo EXCEPT ![t] = Tail(@)]
        /\ todo[t] # <<>>
        /\ \/ /\ IsBroadcast(Head(todo[t]))
              /\ applied' = [applied EXCEPT ![t] = @ \cup {Head(todo[t])}]
           \/ ~IsBroadcast(Head(todo[t])) /\ UNCHANGED applied
    BY <1>1, <1>3 DEF ApplyBroadcast, Detach, Pop, Searching
  <2>3. UNCHANGED <<order, contexts, messages, own>>
    BY <2>1 DEF engineVars
  <2>4. /\ Waiting(t) = {Head(todo[t])} \cup Waiting(t)'
        /\ \A u \in contexts \ {t} : Waiting(u)' = Waiting(u)
    BY <1>1, <2>2, <2>3, PopKeepsQueues
  <2> QED
    BY <2>1, <2>4 DEF engineVars, apiVars
<1>4. CASE Take(t)
  <2>1. PICK n \in 0..Len(messages) :
          LET last == IF n < Len(messages) THEN n + 1 ELSE n
          IN  /\ StartsWithBroadcasts(n)
              /\ todo' = [todo EXCEPT ![t] = own[t] \o SubSeq(messages, 1, last)]
              /\ messages' = SubSeq(messages, last + 1, Len(messages))
              /\ own' = Replicated(t, n)
    BY <1>4 DEF Take
  <2> DEFINE last == IF n < Len(messages) THEN n + 1 ELSE n
  <2>2. Len(messages) \in Nat /\ todo[t] = <<>>
    BY <1>1, <1>4, LenProperties DEF Take, QueueOK
  <2>3. /\ todo' = [todo EXCEPT ![t] = own[t] \o SubSeq(messages, 1, last)]
        /\ messages' = SubSeq(messages, last + 1, Len(messages))
        /\ own' = Replicated(t, n) /\ StartsWithBroadcasts(n)
        /\ last = IF n < Len(messages) THEN n + 1 ELSE n
        /\ last \in 0..Len(messages)
    BY <2>1, <2>2
  <2>4. UNCHANGED <<order, contexts, applied, cancelled, apiVars>>
    BY <1>4 DEF Take
  <2> HIDE DEF last
  <2>5. \A u \in contexts : Waiting(u)' \subseteq Waiting(u)
    BY <1>1, <2>2, <2>3, <2>4, TakeKeepsQueues
  <2> QED
    BY <2>4, <2>5 DEF apiVars
<1> QED
  BY <1>2, <1>3, <1>4 DEF MainLoop

\* Only a search on the map sends tasks to the GUI.
LEMMA WhoTellsTheGui ==
  ASSUME IInv, NEW t \in contexts, MainLoop(t) \/ WakeSpuriously(t)
  PROVE  \/ UNCHANGED gui
         \/ /\ at[t] \in Searching /\ Head(todo[t]) \in 1..Len(order)
            /\ order[Head(todo[t])] = Viewport
<1>1. CASE \/ Sleep(t) \/ WakeSpuriously(t) \/ Leave(t) \/ NotifyAll(t) \/ Reset(t)
           \/ Attach(t) \/ ReadStatus(t) \/ Take(t) \/ ApplyBroadcast(t) \/ Detach(t)
  BY <1>1 DEF Sleep, WakeSpuriously, Leave, NotifyAll, Reset, Attach, ReadStatus, Take,
              ApplyBroadcast, Detach
<1>2. CASE EmitBatch(t) \/ Finish(t)
  <2>1. at[t] \in Searching
    BY <1>2 DEF EmitBatch, Finish, Searching
  <2>2. t \in Threads /\ todo[t] # <<>> /\ QueueOK
    BY <2>1 DEF IInv, QueueOK, PlaceOK, Searching
  <2>3. Head(todo[t]) \in 1..Len(order)
    BY <2>2, HeadIsAMessage
  <2> QED
    BY <1>2, <2>1, <2>3 DEF EmitBatch, Finish, Results
<1> QED
  BY <1>1, <1>2 DEF MainLoop

\* "broadcast" is no mode.
LEMMA BroadcastsAreNoSearches ==
  ASSUME NEW k
  PROVE  order[k] \in Modes => ~IsBroadcast(k)
BY ModesAssumption DEF IsBroadcast

\* A thread loses no search and starts none.
LEMMA OneThreadStep ==
  ASSUME OneInv, NEW t \in contexts, MainLoop(t) \/ WakeSpuriously(t)
  PROVE  OneInv'
<1>1. IInv' /\ IInv
  BY ThreadStep DEF OneInv
<1>2. /\ UNCHANGED <<order, contexts, cancelled, intents, ready, calls, shown>>
      /\ \A u \in contexts : Waiting(u)' \subseteq Waiting(u)
  BY <1>1, ThreadEffects
<1>3. \A k : IsAlive(k)' => IsAlive(k)
  BY <1>1, <1>2, AliveIsWaiting, AliveWillBeWaiting DEF IInv
<1>4. HandlesOK'
  BY <1>2 DEF OneInv, HandlesOK
<1>5. NoneIsLost'
  BY <1>2, <1>3 DEF OneInv, NoneIsLost, IsBroadcast
<1>6. StartsOK'
  BY <1>2 DEF OneInv, StartsOK
<1>7. FirstOK'
  <2>1. ~ready => UNCHANGED gui
    BY <1>1, WhoTellsTheGui, BroadcastsAreNoSearches, ModesAssumption DEF OneInv, FirstOK
  <2> QED
    BY <1>2, <2>1 DEF OneInv, FirstOK, IsBroadcast
<1> QED
  BY <1>1, <1>4, <1>5, <1>6, <1>7 DEF OneInv

\* What a call leaves of the calls.
LEMMA CallsAfterOne ==
  ASSUME calls \in Seq(Calls), NEW op, Doing(op)
  PROVE  /\ 1 \in DOMAIN calls /\ calls[1] = Call(op, This)
         /\ \A i \in DOMAIN calls' : i + 1 \in DOMAIN calls /\ calls'[i] = calls[i + 1]
         /\ \A i \in DOMAIN calls : i # 1 => i - 1 \in DOMAIN calls'
<1>1. calls # <<>> /\ calls' = Tail(calls) /\ Head(calls).op = op
  BY DEF Doing
<1>2. /\ Head(calls) \in Calls /\ Head(calls) = calls[1] /\ Len(calls) \in Nat \ {0}
      /\ DOMAIN calls = 1..Len(calls) /\ DOMAIN calls' = 1..(Len(calls) - 1)
      /\ \A i \in 1..(Len(calls) - 1) : calls'[i] = calls[i + 1]
  BY <1>1, HeadTailProperties, LenProperties
<1>3. calls[1] = Call(op, This)
  BY <1>1, <1>2 DEF Calls, Call, This
<1> QED
  BY <1>2, <1>3

\* Handles may be forgotten, and a start sets its own: the rest of the calls stay as
\* they should be.
LEMMA StartsStay ==
  ASSUME StartsOK, calls \in Seq(Calls),
         NEW op, Doing(op),
         intents \in [Modes -> [asked : BOOLEAN, handle : Nat, delayed : BOOLEAN]],
         \A mode \in Modes : \/ intents'[mode].handle = intents[mode].handle
                             \/ intents'[mode].handle = 0
                             \/ op = "start" /\ mode = This,
         op = "cancel" => intents'[This].handle = 0
  PROVE  StartsOK'
<1>1. /\ 1 \in DOMAIN calls /\ calls[1] = Call(op, This)
      /\ \A i \in DOMAIN calls' : i + 1 \in DOMAIN calls /\ calls'[i] = calls[i + 1]
      /\ \A i \in DOMAIN calls : i # 1 => i - 1 \in DOMAIN calls'
      /\ DOMAIN calls \subseteq Nat /\ DOMAIN calls' \subseteq Nat
      /\ \A i \in DOMAIN calls : calls[i] \in Calls
  <2>1. DOMAIN calls = 1..Len(calls) /\ \A i \in DOMAIN calls : calls[i] \in Calls
    BY LenProperties
  <2>2. DOMAIN calls' \subseteq Nat
    BY HeadTailProperties, LenProperties DEF Doing
  <2> QED
    BY <2>1, <2>2, CallsAfterOne
<1> SUFFICES ASSUME NEW i \in DOMAIN calls', calls'[i].op = "start"
             PROVE  \/ i - 1 \in DOMAIN calls' /\ calls'[i - 1] = Call("cancel", calls'[i].mode)
                    \/ /\ intents'[calls'[i].mode].handle = 0
                       /\ \A j \in DOMAIN calls' : calls'[j] = calls'[i] => i <= j
  BY DEF StartsOK
<1>2. i + 1 \in DOMAIN calls /\ calls'[i] = calls[i + 1] /\ i \in Nat
  BY <1>1
<1>3. CASE i \in DOMAIN calls /\ calls[i] = Call("cancel", calls[i + 1].mode)
  <2>1. CASE i = 1
    <3>1. op = "cancel" /\ This = calls'[i].mode
      BY <1>1, <1>2, <1>3, <2>1 DEF Call
    <3>2. \A j \in DOMAIN calls' : i <= j
      <4>1. DOMAIN calls' = 1..Len(Tail(calls))
        BY HeadTailProperties, LenProperties DEF Doing
      <4> QED
        BY <2>1, <4>1
    <3> QED
      BY <3>1, <3>2
  <2>2. CASE i # 1
    <3>1. i - 1 \in DOMAIN calls' /\ calls'[i - 1] = calls[i]
      BY <1>1, <1>2, <1>3, <2>2
    <3> QED
      BY <1>2, <1>3, <3>1
  <2> QED
    BY <2>1, <2>2
<1>4. CASE /\ intents[calls[i + 1].mode].handle = 0
           /\ \A j \in DOMAIN calls : calls[j] = calls[i + 1] => i + 1 <= j
  <2>0. calls[i + 1].mode \in Modes /\ calls[i + 1] = Call("start", calls[i + 1].mode)
    BY <1>1, <1>2 DEF Calls, Call
  <2>p. op = "start" => calls[i + 1].mode # This
    <3>1. i # 0
      BY <1>1, <1>2, HeadTailProperties, LenProperties DEF Doing
    <3>2. SUFFICES ASSUME op = "start", calls[i + 1].mode = This PROVE FALSE
      OBVIOUS
    <3>3. calls[1] = calls[i + 1]
      BY <1>1, <2>0, <3>2
    <3> QED
      BY <1>1, <1>2, <1>4, <3>1, <3>3
  <2>1. intents'[calls'[i].mode].handle = 0
    BY <1>1, <1>2, <1>4, <2>0, <2>p
  <2>2. ASSUME NEW j \in DOMAIN calls', calls'[j] = calls'[i] PROVE i <= j
    <3>1. j + 1 \in DOMAIN calls /\ calls'[j] = calls[j + 1] /\ j \in Nat
      BY <1>1
    <3>2. i + 1 <= j + 1
      BY <1>2, <1>4, <2>2, <3>1
    <3> QED
      BY <1>2, <3>1, <3>2
  <2> QED
    BY <2>1, <2>2
<1> QED
  <2>1. \/ i + 1 - 1 \in DOMAIN calls /\ calls[i + 1 - 1] = Call("cancel", calls[i + 1].mode)
        \/ /\ intents[calls[i + 1].mode].handle = 0
           /\ \A j \in DOMAIN calls : calls[j] = calls[i + 1] => i + 1 <= j
    BY <1>2 DEF StartsOK
  <2>2. i + 1 - 1 = i
    BY <1>2
  <2> QED
    BY <1>3, <1>4, <2>1, <2>2

\* Calls in which each search is the first of its mode or follows a cancellation, and
\* one on the map begins just if the user asks for it.
FollowsTheUser(c) ==
  /\ DOMAIN c \subseteq Nat
  /\ \A i \in DOMAIN c : c[i].op = "start" =>
       \/ i - 1 \in DOMAIN c /\ c[i - 1] = Call("cancel", c[i].mode)
       \/ \A j \in DOMAIN c : c[j] = c[i] => i <= j
  /\ \A i \in DOMAIN c : c[i] = Call("cancel", Viewport) =>
       i + 1 \in DOMAIN c /\ c[i + 1] = Call("start", Viewport)
  /\ Asked <=> \E i \in DOMAIN c : c[i] = Call("start", Viewport)

\* Searches that begin with the viewport, and then one on the map or none.
LEMMA StartsAndPoke ==
  ASSUME NEW c, NEW n \in Nat,
         \A i \in 1..n : /\ c[i].op = "start" /\ c[i].mode # Viewport
                        /\ \A j \in 1..n : c[j] = c[i] => i = j,
         Asked => /\ DOMAIN c = 1..(n + 2)
                  /\ c[n + 1] = Call("cancel", Viewport)
                  /\ c[n + 2] = Call("start", Viewport),
         ~Asked => DOMAIN c = 1..n
  PROVE  FollowsTheUser(c)
<1>1. /\ Call("cancel", Viewport).op = "cancel" /\ Call("start", Viewport).op = "start"
      /\ Call("cancel", Viewport).mode = Viewport /\ Call("start", Viewport).mode = Viewport
  BY DEF Call
<1>2. CASE ~Asked
  <2>1. DOMAIN c = 1..n
    BY <1>2
  <2> QED
    BY <1>1, <1>2, <2>1 DEF FollowsTheUser
<1>3. CASE Asked
  <2>1. /\ DOMAIN c = 1..(n + 2) /\ c[n + 1] = Call("cancel", Viewport)
        /\ c[n + 2] = Call("start", Viewport)
    BY <1>3
  <2>2. \A i \in DOMAIN c : i \in 1..n \/ i = n + 1 \/ i = n + 2
    BY <2>1
  <2>3. /\ n + 1 \in DOMAIN c /\ n + 2 \in DOMAIN c /\ n + 2 - 1 = n + 1 /\ n + 1 + 1 = n + 2
        /\ DOMAIN c \subseteq Nat /\ 1..n \subseteq DOMAIN c
    BY <2>1
  <2>4. ASSUME NEW i \in DOMAIN c, c[i].op = "start"
        PROVE  \/ i - 1 \in DOMAIN c /\ c[i - 1] = Call("cancel", c[i].mode)
               \/ \A j \in DOMAIN c : c[j] = c[i] => i <= j
    <3>1. CASE i \in 1..n
      <4>1. c[i].mode # Viewport /\ \A j \in 1..n : c[j] = c[i] => i = j
        BY <3>1
      <4>2. c[n + 1].mode = Viewport /\ c[n + 2].mode = Viewport
        BY <1>1, <2>1
      <4>3. ASSUME NEW j \in DOMAIN c, c[j] = c[i] PROVE i <= j
        <5>1. j \in 1..n
          BY <2>2, <4>1, <4>2, <4>3
        <5> QED
          BY <3>1, <4>1, <4>3, <5>1
      <4> QED
        BY <4>3
    <3>2. CASE i = n + 1
      BY <1>1, <2>1, <2>4, <3>2
    <3>3. CASE i = n + 2
      BY <1>1, <2>1, <2>3, <3>3
    <3> QED
      BY <2>2, <3>1, <3>2, <3>3
  <2>5. ASSUME NEW i \in DOMAIN c, c[i] = Call("cancel", Viewport)
        PROVE  i + 1 \in DOMAIN c /\ c[i + 1] = Call("start", Viewport)
    <3>1. i = n + 1
      <4>1. i \notin 1..n
        BY <1>1, <2>5
      <4>2. i # n + 2
        BY <1>1, <2>1, <2>5
      <4> QED
        BY <2>2, <4>1, <4>2
    <3> QED
      BY <2>1, <2>3, <3>1
  <2>6. Asked <=> \E i \in DOMAIN c : c[i] = Call("start", Viewport)
    BY <1>3, <2>1, <2>3
  <2> QED
    BY <2>3, <2>4, <2>5, <2>6 DEF FollowsTheUser
<1> QED
  BY <1>2, <1>3

\* What the first viewport calls for.
LEMMA FirstViewportCalls ==
  ASSUME NEW c, c = DelayedStarts \o Poke,
         intents \in [Modes -> [asked : BOOLEAN, handle : Nat, delayed : BOOLEAN]]
  PROVE  FollowsTheUser(c)
<1> DEFINE d == DelayedStarts
           p == Poke
<1>1. Asked \in BOOLEAN
  BY ModesAssumption DEF Asked
<1>2. /\ Asked => p = <<Call("cancel", Viewport), Call("start", Viewport)>>
      /\ ~Asked => p = <<>>
  BY DEF Poke, Asked
<1>3. p \in Seq(Calls)
  <2>1. Call("cancel", Viewport) \in Calls /\ Call("start", Viewport) \in Calls
    BY ModesAssumption DEF Call, Calls
  <2>2. <<Call("cancel", Viewport), Call("start", Viewport)>> \in Seq(Calls) /\ <<>> \in Seq(Calls)
    BY <2>1
  <2> QED
    BY <1>2, <2>2, Zenon
<1>4. /\ d \in Seq(Calls) /\ c = d \o p
      /\ \A i \in DOMAIN d : /\ d[i].op = "start" /\ d[i].mode # Viewport
                             /\ \A j \in DOMAIN d : d[j] = d[i] => i = j
  BY DelayedStartsAreDistinct
<1> HIDE DEF d, p
<1>5. /\ Asked => Len(p) = 2 /\ p[1] = Call("cancel", Viewport) /\ p[2] = Call("start", Viewport)
      /\ ~Asked => Len(p) = 0
  BY <1>2
<1>6. /\ Len(d) \in Nat /\ DOMAIN d = 1..Len(d) /\ Len(p) \in Nat
      /\ DOMAIN c = 1..(Len(d) + Len(p))
      /\ \A i \in 1..(Len(d) + Len(p)) : c[i] = IF i <= Len(d) THEN d[i] ELSE p[i - Len(d)]
  BY <1>3, <1>4, ConcatProperties, LenProperties
<1> DEFINE n == Len(d)
<1> HIDE DEF n
<1>7. /\ n \in Nat
      /\ \A i \in 1..n : /\ c[i].op = "start" /\ c[i].mode # Viewport
                         /\ \A j \in 1..n : c[j] = c[i] => i = j
  <2>1. n \in Nat /\ \A i \in 1..n : c[i] = d[i] /\ i \in DOMAIN d
    BY <1>6 DEF n
  <2> QED
    BY <1>4, <2>1
<1>8. /\ Asked => /\ DOMAIN c = 1..(n + 2)
                  /\ c[n + 1] = Call("cancel", Viewport)
                  /\ c[n + 2] = Call("start", Viewport)
      /\ ~Asked => DOMAIN c = 1..n
  <2>1. ASSUME Asked
        PROVE  /\ DOMAIN c = 1..(n + 2)
               /\ c[n + 1] = p[1] /\ c[n + 2] = p[2]
    <3>1. /\ n \in Nat /\ DOMAIN c = 1..(n + 2)
          /\ \A i \in 1..(n + 2) : c[i] = IF i <= n THEN d[i] ELSE p[i - n]
      BY <1>5, <1>6, <2>1 DEF n
    <3>2. c[n + 1] = p[n + 1 - n] /\ c[n + 2] = p[n + 2 - n]
      BY <3>1
    <3>3. n + 1 - n = 1 /\ n + 2 - n = 2
      BY <3>1
    <3> QED
      BY <3>1, <3>2, <3>3
  <2>2. ASSUME ~Asked PROVE DOMAIN c = 1..n
    <3>1. Len(p) = 0 /\ DOMAIN c = 1..(n + Len(p)) /\ n \in Nat
      BY <1>5, <1>6, <2>2 DEF n
    <3>2. n + Len(p) = n
      BY <3>1
    <3> QED
      BY <3>1, <3>2, Zenon
  <2> QED
    BY <1>5, <2>1, <2>2
<1> QED
  BY <1>1, <1>7, <1>8, StartsAndPoke, Zenon

\* What is alive does not depend on what the threads do with it.
LEMMA AliveStays ==
  ASSUME UNCHANGED <<contexts, todo, own, messages>>
  PROVE  \A k : IsAlive(k)' <=> IsAlive(k)
BY DEF IsAlive, Queued

\* A call that leaves the requests and the handles as they are.
LEMMA OneClientStep ==
  ASSUME OneInv, IInv',
         UNCHANGED <<contexts, todo, own, messages, order, cancelled>>,
         \A mode \in Modes : intents'[mode].handle = intents[mode].handle,
         StartsOK',
         ready => ready',
         ~ready' => gui' = <<>> /\ shown' = {}
  PROVE  OneInv'
<1>1. \A k : IsAlive(k)' <=> IsAlive(k)
  BY AliveStays
<1>2. \A k \in 1..Len(order) : ~IsBroadcast(k) => order[k] \in Modes
  BY ElementOfSeq DEF OneInv, IInv, QueueOK, IsBroadcast
<1>3. HandlesOK'
  BY DEF OneInv, HandlesOK
<1>4. NoneIsLost'
  BY <1>1, <1>2 DEF OneInv, NoneIsLost, IsBroadcast
<1>5. FirstOK'
  BY DEF OneInv, FirstOK, IsBroadcast, IInv, ClientOK
<1> QED
  BY <1>3, <1>4, <1>5 DEF OneInv

\* The calls that are left when a search was given up.
LEMMA CancelKeepsStarts ==
  ASSUME IInv, StartsOK, CancelQuery
  PROVE  StartsOK'
<1>1. /\ Doing("cancel") /\ calls \in Seq(Calls) /\ This \in Modes
      /\ intents \in [Modes -> [asked : BOOLEAN, handle : Nat, delayed : BOOLEAN]]
      /\ intents' = [intents EXCEPT ![This].handle = 0]
  BY DoingACall DEF CancelQuery, IInv, ClientOK
<1>2. \A mode \in Modes : \/ intents'[mode].handle = intents[mode].handle
                          \/ intents'[mode].handle = 0
                          \/ "cancel" = "start" /\ mode = This
  BY <1>1
<1>3. "cancel" = "cancel" => intents'[This].handle = 0
  BY <1>1
<1> QED
  BY <1>1, <1>2, <1>3, StartsStay

\* The calls that are left when a search was started.
LEMMA StartKeepsStarts ==
  ASSUME IInv, StartsOK, StartSearch
  PROVE  StartsOK'
<1>1. /\ Doing("start") /\ calls \in Seq(Calls) /\ This \in Modes
      /\ intents \in [Modes -> [asked : BOOLEAN, handle : Nat, delayed : BOOLEAN]]
      /\ intents' = [intents EXCEPT ![This].handle = Len(order) + 1, ![This].delayed = FALSE]
  BY DoingACall DEF StartSearch, IInv, ClientOK
<1>2. \A mode \in Modes : \/ intents'[mode].handle = intents[mode].handle
                          \/ intents'[mode].handle = 0
                          \/ "start" = "start" /\ mode = This
  BY <1>1
<1>3. "start" = "cancel" => intents'[This].handle = 0
  OBVIOUS
<1> QED
  BY <1>1, <1>2, <1>3, StartsStay

\* The handle that is forgotten is that of a search that is over, or cancelled now.
LEMMA OneCancelStep ==
  ASSUME OneInv, IInv', CancelQuery
  PROVE  OneInv'
<1> DEFINE k == intents[This].handle
<1>1. /\ IInv /\ Doing("cancel") /\ calls \in Seq(Calls) /\ This \in Modes
      /\ intents \in [Modes -> [asked : BOOLEAN, handle : Nat, delayed : BOOLEAN]]
      /\ order \in Seq(Modes \cup {"broadcast"}) /\ QueueOK
  BY DoingACall DEF OneInv, CancelQuery, IInv, ClientOK, QueueOK
<1>2. /\ UNCHANGED <<contexts, todo, own, messages, order, ready, gui, shown>>
      /\ intents' = [intents EXCEPT ![This].handle = 0]
      /\ IF IsAlive(k) THEN cancelled' = cancelled \cup {k} ELSE cancelled' = cancelled
  BY DEF CancelQuery, Cancel
<1>3. PICK mode \in Modes : mode = This
  BY <1>1
<1>4. /\ intents'[mode].handle = 0
      /\ \A m \in Modes \ {mode} : intents'[m].handle = intents[m].handle
      /\ k = intents[mode].handle
  BY <1>1, <1>2, <1>3
<1>5. PICK h : h = intents[mode].handle
  OBVIOUS
<1>6. /\ IF IsAlive(h) THEN cancelled' = cancelled \cup {h} ELSE cancelled' = cancelled
      /\ IsAlive(h) => h \in 1..Len(order)
  <2>1. h = k
    BY <1>4, <1>5
  <2>2. IsAlive(h) => h \in 1..Len(order)
    BY <1>1, AliveIsAMessage
  <2> QED
    BY <1>2, <2>1, <2>2
<1>7. \A m \in 1..Len(order) : IsAlive(m)' <=> IsAlive(m)
  BY <1>2, AliveStays
<1> HIDE DEF k
<1>8. HandlesOK'
  <2>1. IsAlive(h) => order[h] = mode
    BY <1>5, <1>6 DEF OneInv, HandlesOK
  <2> QED
    BY <1>2, <1>4, <1>6, <2>1 DEF OneInv, HandlesOK
<1>9. NoneIsLost'
  <2>1. ASSUME NEW m \in 1..Len(order), ~IsBroadcast(m), IsAlive(m)
        PROVE  m \in cancelled' \/ intents'[order[m]].handle = m
    <3>1. order[m] \in Modes
      BY <1>1, <2>1, ElementOfSeq DEF IsBroadcast
    <3>2. m \in cancelled \/ intents[order[m]].handle = m
      BY <2>1 DEF OneInv, NoneIsLost
    <3>3. CASE order[m] = mode
      BY <1>5, <1>6, <2>1, <3>2, <3>3
    <3>4. CASE order[m] # mode
      BY <1>4, <1>6, <3>1, <3>2, <3>4
    <3> QED
      BY <3>3, <3>4
  <2> QED
    BY <1>2, <1>7, <2>1 DEF NoneIsLost, IsBroadcast
<1>10. StartsOK'
  BY CancelKeepsStarts DEF OneInv
<1>11. FirstOK'
  BY <1>2, <1>4 DEF OneInv, FirstOK, IsBroadcast
<1> QED
  BY <1>8, <1>9, <1>10, <1>11 DEF OneInv

\* A new message is alive and the last of its kind; what was alive may stay so.
LEMMA PostEffects ==
  ASSUME IInv, IInv', NEW kind \in Modes \cup {"broadcast"}, PostMessage(kind),
         UNCHANGED <<contexts, own, todo, applied>>
  PROVE  /\ Len(order) \in Nat /\ Len(order') = Len(order) + 1
         /\ \A k \in 1..Len(order') : k \in 1..Len(order) \/ k = Len(order) + 1
         /\ order'[Len(order) + 1] = kind
         /\ \A k \in 1..Len(order) : /\ k \in 1..Len(order')
                                     /\ order'[k] = order[k]
                                     /\ IsAlive(k)' => IsAlive(k)
         /\ \A t \in contexts : Waiting(t)' = Waiting(t) \cup {Len(order) + 1}
<1>1. /\ order \in Seq(Modes \cup {"broadcast"}) /\ order' = Append(order, kind)
      /\ messages' = Append(messages, Len(order) + 1) /\ QueueOK /\ QueueOK'
  BY DEF IInv, QueueOK, PostMessage
<1>2. /\ Len(order) \in Nat /\ Len(order') = Len(order) + 1
      /\ order'[Len(order) + 1] = kind
      /\ \A k \in 1..Len(order) : order'[k] = order[k]
  BY <1>1, AppendProperties, LenProperties
<1>3. \A t \in contexts : Waiting(t)' = Waiting(t) \cup {Len(order) + 1}
  BY <1>1, PostKeepsQueues
<1>4. /\ \A k \in 1..Len(order') : k \in 1..Len(order) \/ k = Len(order) + 1
      /\ \A k \in 1..Len(order) : k \in 1..Len(order') /\ k # Len(order) + 1
  BY <1>2
<1>5. \A k \in 1..Len(order) : IsAlive(k)' => IsAlive(k)
  BY <1>1, <1>3, <1>4, AliveIsWaiting, AliveWillBeWaiting
<1> QED
  BY <1>2, <1>3, <1>4, <1>5

\* The new search takes the place of none: the last one was given up.
LEMMA OneStartStep ==
  ASSUME OneInv, IInv', StartSearch
  PROVE  OneInv'
<1>1. /\ IInv /\ Doing("start") /\ calls \in Seq(Calls) /\ This \in Modes /\ ready
      /\ intents \in [Modes -> [asked : BOOLEAN, handle : Nat, delayed : BOOLEAN]]
      /\ order \in Seq(Modes \cup {"broadcast"})
  BY DoingACall DEF OneInv, StartSearch, IInv, ClientOK, QueueOK
<1>2. PICK mode \in Modes : mode = This
  BY <1>1
<1>3. PICK new : new = Len(order) + 1
  OBVIOUS
<1>4. /\ Len(order) \in Nat /\ Len(order') = new
      /\ \A k \in 1..Len(order') : k \in 1..Len(order) \/ k = new
      /\ order'[new] = mode
      /\ \A k \in 1..Len(order) : /\ k \in 1..Len(order')
                                  /\ order'[k] = order[k]
                                  /\ IsAlive(k)' => IsAlive(k)
  BY <1>1, <1>2, <1>3, PostEffects DEF StartSearch
<1>5. /\ new \in 1..Len(order') /\ new \notin 1..Len(order)
      /\ \A k \in 1..Len(order') : k <= new
  BY <1>3, <1>4
<1>6. /\ intents'[mode].handle = new
      /\ \A m \in Modes \ {mode} : intents'[m].handle = intents[m].handle
      /\ UNCHANGED <<cancelled, ready, gui, shown>>
  BY <1>1, <1>2, <1>3 DEF StartSearch
<1>7. intents[mode].handle = 0
  <2>1. 1 \in DOMAIN calls /\ calls[1] = Call("start", mode)
    BY <1>1, <1>2, CallsAfterOne
  <2>2. 1 - 1 \notin DOMAIN calls
    BY <1>1, LenProperties
  <2>3. calls[1].op = "start" /\ calls[1].mode = mode
    BY <2>1 DEF Call
  <2> QED
    BY <2>1, <2>2, <2>3 DEF OneInv, StartsOK
<1>8. HandlesOK'
  BY <1>4, <1>5, <1>6 DEF OneInv, HandlesOK
<1>9. NoneIsLost'
  <2>1. ASSUME NEW k \in 1..Len(order'), order'[k] # "broadcast", IsAlive(k)'
        PROVE  k \in cancelled \/ intents'[order'[k]].handle = k
    <3>1. CASE k = new
      BY <1>4, <1>6, <3>1
    <3>2. CASE k \in 1..Len(order)
      <4>1. order[k] = order'[k] /\ order[k] \in Modes
        BY <1>1, <1>4, <2>1, <3>2, ElementOfSeq
      <4>2. k \in cancelled \/ intents[order[k]].handle = k
        BY <1>4, <2>1, <3>2 DEF OneInv, NoneIsLost, IsBroadcast
      <4>3. order[k] = mode => k # intents[order[k]].handle
        BY <1>4, <1>7, <3>2
      <4> QED
        BY <1>6, <4>1, <4>2, <4>3
    <3> QED
      BY <1>4, <3>1, <3>2
  <2> QED
    BY <1>6, <2>1 DEF NoneIsLost, IsBroadcast
<1>10. StartsOK'
  BY StartKeepsStarts DEF OneInv
<1>11. FirstOK'
  BY <1>1, <1>6 DEF FirstOK
<1> QED
  BY <1>8, <1>9, <1>10, <1>11 DEF OneInv

\* Calls that begin with a cancellation, or are no search, are as they should be.
LEMMA ShortCalls ==
  ASSUME NEW mode \in Modes,
         \/ calls' = <<Call("cancel", mode), Call("start", mode)>>
         \/ calls' = <<Call("cancel", mode)>>
         \/ calls' = <<Call("broadcast", mode)>>
         \/ calls' = <<>>
  PROVE  StartsOK'
<1>1. /\ Call("cancel", mode).op = "cancel" /\ Call("broadcast", mode).op = "broadcast"
      /\ Call("start", mode).mode = mode
  BY DEF Call
<1>2. CASE calls' = <<Call("cancel", mode), Call("start", mode)>>
  <2>1. /\ DOMAIN calls' = {1, 2} /\ calls'[1] = Call("cancel", mode)
        /\ calls'[2] = Call("start", mode)
    BY <1>2
  <2>2. calls'[1].op # "start" /\ calls'[2].mode = mode /\ 2 - 1 = 1
    BY <1>1, <2>1
  <2> QED
    BY <2>1, <2>2 DEF StartsOK
<1>3. CASE calls' = <<Call("cancel", mode)>> \/ calls' = <<Call("broadcast", mode)>>
  <2>1. DOMAIN calls' = {1} /\ calls'[1].op # "start"
    BY <1>1, <1>3
  <2> QED
    BY <2>1 DEF StartsOK
<1>4. CASE calls' = <<>>
  BY <1>4 DEF StartsOK
<1> QED
  BY <1>2, <1>3, <1>4

\* The calls of the GUI thread.
LEMMA OneGuiStep ==
  ASSUME OneInv, GuiThread
  PROVE  OneInv'
<1>0. /\ IInv /\ IInv' /\ calls \in Seq(Calls) /\ ready \in BOOLEAN /\ StartsOK
      /\ intents \in [Modes -> [asked : BOOLEAN, handle : Nat, delayed : BOOLEAN]]
      /\ order \in Seq(Modes \cup {"broadcast"}) /\ Viewport \in Modes
      /\ (~ready => gui = <<>> /\ shown = {})
  BY GuiStep, ModesAssumption DEF OneInv, IInv, ClientOK, QueueOK, FirstOK
<1>1. CASE \E mode \in Modes : Search(mode) \/ CancelSearch(mode)
  <2>1. PICK mode \in Modes : Search(mode) \/ CancelSearch(mode)
    BY <1>1
  <2>2. StartsOK'
    BY <2>1, ShortCalls DEF Search, CancelSearch
  <2>3. /\ UNCHANGED <<contexts, todo, own, messages, order, cancelled, ready, gui>>
        /\ \A m \in Modes : intents'[m].handle = intents[m].handle
        /\ shown' = shown \/ shown' = {}
    <3>1. \/ intents' = [intents EXCEPT ![mode].asked = TRUE]
          \/ intents' = [intents EXCEPT ![mode].asked = FALSE]
      BY <2>1 DEF Search, CancelSearch
    <3>2. \A m \in Modes : intents'[m].handle = intents[m].handle
      BY <1>0, <3>1
    <3>3. UNCHANGED <<threadVars, engineVars, ready, gui>>
      BY <2>1 DEF Search, CancelSearch
    <3>4. shown' = shown \/ shown' = {}
      BY <2>1 DEF Search, CancelSearch
    <3> QED
      BY <3>2, <3>3, <3>4 DEF threadVars, engineVars
  <2> QED
    BY <1>0, <2>2, <2>3, OneClientStep
<1>2. CASE OnViewportChanged
  <2>1. /\ UNCHANGED <<contexts, todo, own, messages, order, cancelled, gui, shown, intents>>
        /\ ready' = TRUE /\ calls' = IF ready THEN Poke ELSE DelayedStarts \o Poke
    BY <1>2 DEF OnViewportChanged, threadVars, engineVars
  <2>2. CASE ready
    <3>1. Poke = <<Call("cancel", Viewport), Call("start", Viewport)>> \/ Poke = <<>>
      BY DEF Poke
    <3>2. StartsOK'
      BY <1>0, <2>1, <2>2, <3>1, ShortCalls
    <3> QED
      BY <1>0, <2>1, <3>2, OneClientStep
  <2>3. CASE ~ready
    <3>1. PICK c : c = DelayedStarts \o Poke
      OBVIOUS
    <3>2. FollowsTheUser(c)
      BY <1>0, <3>1, FirstViewportCalls
    <3>3. calls' = c
      BY <2>1, <2>3, <3>1
    <3>4. c \in Seq(Calls)
      BY <3>3, <1>0 DEF IInv, ClientOK
    <3>5. \A i \in DOMAIN c : c[i].mode \in Modes
      <4>1. \A i \in DOMAIN c : c[i] \in Calls
        BY <3>4, LenProperties
      <4> QED
        BY <4>1 DEF Calls
    <3>6. \A m \in Modes : intents'[m].handle = 0
      BY <2>1, <2>3 DEF OneInv, FirstOK
    <3>7. StartsOK'
      BY <3>2, <3>3, <3>5, <3>6 DEF FollowsTheUser, StartsOK
    <3> QED
      BY <1>0, <2>1, <3>7, OneClientStep
  <2> QED
    BY <2>2, <2>3
<1>3. CASE Broadcast \/ ShowResults \/ Shutdown
  <2>1. /\ UNCHANGED <<contexts, todo, own, messages, order, cancelled, ready, intents>>
        /\ \/ calls' = <<Call("broadcast", Viewport)>> /\ UNCHANGED <<gui, shown>>
           \/ gui # <<>> /\ UNCHANGED calls
           \/ UNCHANGED <<calls, gui, shown>>
    BY <1>3 DEF Broadcast, ShowResults, Shutdown, threadVars, engineVars, apiVars
  <2>2. StartsOK'
    <3>1. CASE calls' = <<Call("broadcast", Viewport)>>
      BY <1>0, <3>1, ShortCalls
    <3>2. CASE UNCHANGED calls
      BY <1>0, <2>1, <3>2 DEF StartsOK
    <3> QED
      BY <2>1, <3>1, <3>2
  <2>3. ~ready' => gui' = <<>> /\ shown' = {}
    BY <1>0, <2>1
  <2>4. \A m \in Modes : intents'[m].handle = intents[m].handle
    BY <2>1
  <2> QED
    BY <1>0, <2>1, <2>2, <2>3, <2>4, OneClientStep
<1>4. CASE CancelQuery
  BY <1>0, <1>4, OneCancelStep
<1>5. CASE StartSearch
  BY <1>0, <1>5, OneStartStep
<1>6. CASE DelaySearch
  <2>1. /\ Doing("start") /\ ~ready /\ This \in Modes
        /\ UNCHANGED <<contexts, todo, own, messages, order, cancelled, ready, gui, shown>>
        /\ intents' = [intents EXCEPT ![This].delayed = TRUE]
    BY <1>0, <1>6, DoingACall DEF DelaySearch, threadVars, engineVars
  <2>2. \A m \in Modes : intents'[m].handle = intents[m].handle
    BY <1>0, <2>1
  <2>3. \A m \in Modes : \/ intents'[m].handle = intents[m].handle
                         \/ intents'[m].handle = 0
                         \/ "start" = "start" /\ m = This
    BY <2>2
  <2>4. "start" = "cancel" => intents'[This].handle = 0
    OBVIOUS
  <2>5. StartsOK'
    BY <1>0, <2>1, <2>3, <2>4, StartsStay
  <2> QED
    BY <1>0, <2>1, <2>2, <2>5, OneClientStep
<1>7. CASE PostBroadcast
  <2>1. Doing("broadcast") /\ UNCHANGED <<intents, cancelled, ready, gui, shown>>
    BY <1>7 DEF PostBroadcast
  <2>2. PICK new : new = Len(order) + 1
    OBVIOUS
  <2>3. /\ Len(order) \in Nat /\ Len(order') = new
        /\ \A k \in 1..Len(order') : k \in 1..Len(order) \/ k = new
        /\ order'[new] = "broadcast"
        /\ \A k \in 1..Len(order) : /\ k \in 1..Len(order')
                                    /\ order'[k] = order[k]
                                    /\ IsAlive(k)' => IsAlive(k)
    BY <1>0, <1>7, <2>2, PostEffects DEF PostBroadcast
  <2>4. HandlesOK'
    BY <2>1, <2>3, ModesAssumption DEF OneInv, HandlesOK
  <2>5. NoneIsLost'
    <3>1. ASSUME NEW k \in 1..Len(order'), order'[k] # "broadcast", IsAlive(k)'
          PROVE  k \in cancelled \/ intents[order'[k]].handle = k
      BY <2>3, <3>1 DEF OneInv, NoneIsLost, IsBroadcast
    <3> QED
      BY <2>1, <3>1 DEF NoneIsLost, IsBroadcast
  <2>6. StartsOK'
    <3>1. \A m \in Modes : \/ intents'[m].handle = intents[m].handle
                           \/ intents'[m].handle = 0
                           \/ "broadcast" = "start" /\ m = This
      BY <2>1
    <3>2. "broadcast" = "cancel" => intents'[This].handle = 0
      OBVIOUS
    <3> QED
      BY <1>0, <2>1, <3>1, <3>2, StartsStay
  <2>7. FirstOK'
    BY <2>1, <2>3 DEF OneInv, FirstOK, IsBroadcast
  <2> QED
    BY <1>0, <2>4, <2>5, <2>6, <2>7 DEF OneInv
<1> QED
  BY <1>1, <1>2, <1>3, <1>4, <1>5, <1>6, <1>7 DEF GuiThread

\* A new engine has no search.
LEMMA InitIsOne == Init => OneInv
<1> SUFFICES ASSUME Init PROVE OneInv
  OBVIOUS
<1>1. IInv /\ Len(order) = 0
  BY InitIsInductive DEF Init
<1>2. HandlesOK /\ NoneIsLost /\ FirstOK
  BY <1>1 DEF Init, HandlesOK, NoneIsLost, FirstOK
<1>3. DOMAIN calls = {1} /\ calls[1].op = "broadcast"
  BY DEF Init, Call
<1> QED
  BY <1>1, <1>2, <1>3 DEF OneInv, StartsOK

\* Handles, calls and what is alive agree: a search that can no longer be cancelled was
\* cancelled, and none begins over another one of its mode.
THEOREM HandlesAgree == Spec => []OneInv
<1>1. Init => OneInv
  BY InitIsOne
<1>2. OneInv /\ [Next]_vars => OneInv'
  <2> SUFFICES ASSUME OneInv, [Next]_vars PROVE OneInv'
    OBVIOUS
  <2>1. CASE GuiThread
    BY <2>1, OneGuiStep
  <2>2. CASE \E t \in contexts : MainLoop(t) \/ WakeSpuriously(t)
    BY <2>2, OneThreadStep
  <2>3. CASE UNCHANGED vars
    <3>1. IInv'
      BY StepKeepsInvariant DEF OneInv
    <3>2. UNCHANGED <<contexts, todo, own, messages, order, cancelled, intents, calls, ready,
                      gui, shown>>
      BY <2>3 DEF vars, threadVars, engineVars, apiVars
    <3>3. StartsOK'
      BY <3>2 DEF OneInv, StartsOK
    <3>4. ~ready' => gui' = <<>> /\ shown' = {}
      BY <3>2 DEF OneInv, FirstOK
    <3> QED
      BY <3>1, <3>2, <3>3, <3>4, OneClientStep
  <2> QED
    BY <2>1, <2>2, <2>3 DEF Next
<1> QED
  BY <1>1, <1>2, PTL DEF Spec

\* Each mode has one search that is not cancelled, the one its handle can still cancel
\* (SearchAPI::CancelQuery resets the handle, Search cancels before it searches): so
\* it is between two calls, and within a call as well.
THEOREM OneSearchOfEachMode == Spec => []OneSearchPerMode
<1>1. OneInv => OneSearchPerMode
  <2>1. ASSUME OneInv PROVE DOMAIN order = 1..Len(order)
    BY <2>1, LenProperties DEF OneInv, IInv, QueueOK
  <2> QED
    BY <2>1 DEF OneInv, NoneIsLost, OneSearchPerMode
<1> QED
  BY <1>1, HandlesAgree, PTL

-----------------------------------------------------------------------------
(* The results on the map. *)

\* The calls in progress do to the search on the map what the user wants.
PlanOK ==
  /\ Asked /\ ready => Held # 0 \/ \E i \in DOMAIN calls : calls[i] = Call("start", Viewport)
  /\ Asked => \A i \in DOMAIN calls : calls[i] = Call("cancel", Viewport) =>
       i + 1 \in DOMAIN calls /\ calls[i + 1] = Call("start", Viewport)
  /\ ~Asked => /\ shown = {}
               /\ \A i \in DOMAIN calls : calls[i] # Call("start", Viewport)
               /\ Held # 0 => \E i \in DOMAIN calls : calls[i] = Call("cancel", Viewport)

\* A search begins with nothing sent, and ends as cancelled only if it was.
SentOK ==
  \A t \in contexts : /\ at[t] = "reset" => sent[t] = 0
                      /\ at[t] = "cancelled" => status[t] = "cancelled"

\* One thread alone has all messages before it from some number on.
Alone(t) == contexts = {t}
LineOK ==
  \A t \in contexts : Alone(t) =>
    \A w \in Waiting(t) : \A k \in w..Len(order) : k \in Waiting(t)

\* The thread has sent the GUI something of the search.
Emitted(t, k) ==
  \/ k \notin Waiting(t)
  \/ /\ todo[t] # <<>> /\ Head(todo[t]) = k
     /\ at[t] = "detach" \/ (at[t] \in {"search", "finished"} /\ sent[t] # 0)

\* From some task on, or from now on, only results of this search are shown.
OnlyFrom(i, k) == \A j \in DOMAIN gui : i <= j => gui[j].results \subseteq {k}
WillShow(k) ==
  \/ \E i \in DOMAIN gui : gui[i].first /\ gui[i].end # "cancelled" /\ OnlyFrom(i, k)
  \/ shown \subseteq {k} /\ OnlyFrom(1, k)

Tasks == [first : BOOLEAN, results : SUBSET Nat, end : {"none", "normal", "cancelled"}]

\* When the last search has sent something, the map will show nothing else.
MapOK ==
  \A t \in contexts :
    Alone(t) /\ Asked /\ Held # 0 /\ Emitted(t, Held) => WillShow(Held)

ShowInv == OneInv /\ PlanOK /\ SentOK /\ LineOK /\ gui \in Seq(Tasks) /\ MapOK

\* Two calls are the same just if they do the same to the same mode.
LEMMA CallsDiffer ==
  ASSUME NEW op, NEW mode, NEW op2, NEW mode2
  PROVE  Call(op, mode) = Call(op2, mode2) <=> op = op2 /\ mode = mode2
<1>1. /\ Call(op, mode).op = op /\ Call(op, mode).mode = mode
      /\ Call(op2, mode2).op = op2 /\ Call(op2, mode2).mode = mode2
  BY DEF Call
<1> QED
  BY <1>1

\* The plan after one call of it was done.
LEMMA PlanGoesOn ==
  ASSUME PlanOK, calls \in Seq(Calls), NEW op, Doing(op),
         Asked' <=> Asked, UNCHANGED <<ready, shown>>,
         op = "cancel" /\ This = Viewport => Held' = 0,
         op = "start" /\ This = Viewport => ~ready \/ Held' # 0,
         \/ op \in {"cancel", "start"} /\ This = Viewport
         \/ Held' = Held
  PROVE  PlanOK'
<1> DEFINE cancel == Call("cancel", Viewport)
           start == Call("start", Viewport)
<1>1. /\ 1 \in DOMAIN calls /\ calls[1] = Call(op, This)
      /\ \A i \in DOMAIN calls' : i + 1 \in DOMAIN calls /\ calls'[i] = calls[i + 1]
      /\ \A i \in DOMAIN calls : i # 1 => i - 1 \in DOMAIN calls'
      /\ DOMAIN calls \subseteq Nat
  BY CallsAfterOne, LenProperties
<1>2. /\ calls[1] = cancel <=> op = "cancel" /\ This = Viewport
      /\ calls[1] = start <=> op = "start" /\ This = Viewport
      /\ cancel # start
  BY <1>1, CallsDiffer
<1>3. \A i \in DOMAIN calls : i # 1 => i - 1 \in DOMAIN calls' /\ calls'[i - 1] = calls[i]
  <2> SUFFICES ASSUME NEW i \in DOMAIN calls, i # 1
               PROVE  i - 1 \in DOMAIN calls' /\ calls'[i - 1] = calls[i]
    OBVIOUS
  <2>1. i - 1 \in DOMAIN calls' /\ i - 1 + 1 = i
    BY <1>1
  <2> QED
    BY <1>1, <2>1
<1>4. ASSUME Asked, ready PROVE Held' # 0 \/ \E i \in DOMAIN calls' : calls'[i] = start
  <2>1. CASE calls[1] = cancel
    <3>1. 2 \in DOMAIN calls /\ calls[2] = start
      <4>1. 1 + 1 \in DOMAIN calls /\ calls[1 + 1] = start
        BY <1>1, <1>4, <2>1 DEF PlanOK
      <4> QED
        BY <4>1
    <3>2. 2 - 1 \in DOMAIN calls' /\ calls'[2 - 1] = start
      BY <1>3, <3>1
    <3> QED
      BY <3>2
  <2>2. CASE calls[1] = start
    BY <1>2, <1>4, <2>2
  <2>3. CASE calls[1] # start /\ calls[1] # cancel
    <3>1. Held' = Held
      BY <1>2, <2>3
    <3>2. Held # 0 \/ \E i \in DOMAIN calls : calls[i] = start
      BY <1>4 DEF PlanOK
    <3> QED
      BY <1>3, <2>3, <3>1, <3>2
  <2> QED
    BY <2>1, <2>2, <2>3
<1>5. ASSUME Asked, NEW i \in DOMAIN calls', calls'[i] = cancel
      PROVE  i + 1 \in DOMAIN calls' /\ calls'[i + 1] = start
  <2>1. i + 1 \in DOMAIN calls /\ calls[i + 1] = cancel
    BY <1>1, <1>5
  <2>2. i + 1 + 1 \in DOMAIN calls /\ calls[i + 1 + 1] = start
    BY <1>5, <2>1 DEF PlanOK
  <2>3. i + 1 + 1 # 1
    BY <1>2, <2>1, <2>2, <1>1, <1>5
  <2>4. i + 1 + 1 - 1 \in DOMAIN calls' /\ calls'[i + 1 + 1 - 1] = start
    BY <1>3, <2>2, <2>3
  <2>5. i + 1 + 1 - 1 = i + 1
    <3>1. DOMAIN calls' \subseteq Nat
      BY HeadTailProperties, LenProperties DEF Doing
    <3> QED
      BY <3>1
  <2> QED
    BY <2>4, <2>5
<1>6. ASSUME ~Asked
      PROVE  /\ shown = {}
             /\ \A i \in DOMAIN calls' : calls'[i] # start
             /\ Held' # 0 => \E i \in DOMAIN calls' : calls'[i] = cancel
  <2>1. /\ shown = {} /\ \A i \in DOMAIN calls : calls[i] # start
        /\ Held # 0 => \E i \in DOMAIN calls : calls[i] = cancel
    BY <1>6 DEF PlanOK
  <2>2. \A i \in DOMAIN calls' : calls'[i] # start
    BY <1>1, <2>1
  <2>3. ASSUME Held' # 0 PROVE \E i \in DOMAIN calls' : calls'[i] = cancel
    <3>1. calls[1] # cancel /\ calls[1] # start
      BY <1>1, <1>2, <2>1, <2>3
    <3>2. PICK i \in DOMAIN calls : calls[i] = cancel
      BY <1>2, <2>1, <2>3, <3>1
    <3> QED
      BY <1>3, <3>1, <3>2
  <2> QED
    BY <2>1, <2>2, <2>3
<1> QED
  BY <1>4, <1>5, <1>6 DEF PlanOK

\* A plan that is made when there is none.
LEMMA PlanBegins ==
  ASSUME PlanOK, NEW mode \in Modes, calls = <<>>, UNCHANGED <<ready, Held, Asked, shown>>,
         \/ /\ mode # Viewport
            /\ \/ calls' = <<Call("cancel", mode), Call("start", mode)>>
               \/ calls' = <<Call("cancel", mode)>>
         \/ calls' = <<Call("broadcast", mode)>>
  PROVE  PlanOK'
<1>1. /\ Asked /\ ready => Held # 0
      /\ ~Asked => shown = {} /\ Held = 0
  BY DEF PlanOK
<1>2. \A i \in DOMAIN calls' :
        calls'[i] # Call("start", Viewport) /\ calls'[i] # Call("cancel", Viewport)
  <2>1. CASE mode # Viewport /\ calls' = <<Call("cancel", mode), Call("start", mode)>>
    <3>1. DOMAIN calls' = {1, 2} /\ calls'[1] = Call("cancel", mode)
          /\ calls'[2] = Call("start", mode)
      BY <2>1
    <3> QED
      BY <2>1, <3>1, CallsDiffer
  <2>2. CASE mode # Viewport /\ calls' = <<Call("cancel", mode)>>
    <3>1. DOMAIN calls' = {1} /\ calls'[1] = Call("cancel", mode)
      BY <2>2
    <3> QED
      BY <2>2, <3>1, CallsDiffer
  <2>3. CASE calls' = <<Call("broadcast", mode)>>
    <3>1. DOMAIN calls' = {1} /\ calls'[1] = Call("broadcast", mode)
      BY <2>3
    <3> QED
      BY <3>1, CallsDiffer
  <2> QED
    BY <2>1, <2>2, <2>3
<1> QED
  BY <1>1, <1>2 DEF PlanOK

\* What Poke calls for, alone.
LEMMA PokeFollowsTheUser ==
  ASSUME intents \in [Modes -> [asked : BOOLEAN, handle : Nat, delayed : BOOLEAN]],
         NEW c, c = Poke
  PROVE  FollowsTheUser(c)
<1>1. /\ Asked => c = <<Call("cancel", Viewport), Call("start", Viewport)>>
      /\ ~Asked => c = <<>>
  BY DEF Poke, Asked
<1>2. /\ Asked => /\ DOMAIN c = 1..(0 + 2)
                  /\ c[0 + 1] = Call("cancel", Viewport)
                  /\ c[0 + 2] = Call("start", Viewport)
      /\ ~Asked => DOMAIN c = 1..0
  <2>1. CASE Asked
    <3>1. c = <<Call("cancel", Viewport), Call("start", Viewport)>>
      BY <1>1, <2>1
    <3>2. DOMAIN c = 1..2 /\ c[1] = Call("cancel", Viewport) /\ c[2] = Call("start", Viewport)
      BY <3>1
    <3> QED
      BY <2>1, <3>2
  <2>2. CASE ~Asked
    BY <1>1, <2>2
  <2> QED
    BY <2>1, <2>2
<1>3. 0 \in Nat /\ \A i \in 1..0 : FALSE
  OBVIOUS
<1> QED
  BY <1>2, <1>3, StartsAndPoke

\* Every call of the GUI thread keeps the plan.
LEMMA PlanStep ==
  ASSUME OneInv, PlanOK, GuiThread
  PROVE  PlanOK'
<1>0. /\ IInv /\ calls \in Seq(Calls) /\ ready \in BOOLEAN
      /\ intents \in [Modes -> [asked : BOOLEAN, handle : Nat, delayed : BOOLEAN]]
      /\ Viewport \in Modes /\ Len(order) \in Nat
  BY ModesAssumption, LenProperties DEF OneInv, IInv, ClientOK, QueueOK
<1>1. CASE \E mode \in Modes : Search(mode)
  <2>1. PICK mode \in Modes : Search(mode)
    BY <1>1
  <2>2. /\ calls = <<>> /\ UNCHANGED <<ready, shown>>
        /\ intents' = [intents EXCEPT ![mode].asked = TRUE]
        /\ calls' = <<Call("cancel", mode), Call("start", mode)>>
    BY <2>1 DEF Search, MayCall
  <2>3. CASE mode = Viewport
    <3>1. Asked'
      BY <1>0, <2>2, <2>3 DEF Asked
    <3>2. /\ DOMAIN calls' = {1, 2} /\ calls'[1] = Call("cancel", Viewport)
          /\ calls'[2] = Call("start", Viewport)
      BY <2>2, <2>3
    <3>3. Call("start", Viewport) # Call("cancel", Viewport) /\ 1 + 1 = 2
      BY CallsDiffer
    <3> QED
      BY <3>1, <3>2, <3>3 DEF PlanOK
  <2>4. CASE mode # Viewport
    <3>1. UNCHANGED <<Held, Asked>>
      BY <1>0, <2>2, <2>4 DEF Held, Asked
    <3> QED
      BY <2>2, <2>4, <3>1, PlanBegins
  <2> QED
    BY <2>3, <2>4
<1>2. CASE \E mode \in Modes : CancelSearch(mode)
  <2>1. PICK mode \in Modes : CancelSearch(mode)
    BY <1>2
  <2>2. /\ calls = <<>> /\ UNCHANGED <<ready>>
        /\ intents' = [intents EXCEPT ![mode].asked = FALSE]
        /\ calls' = <<Call("cancel", mode)>>
        /\ shown' = IF mode = Viewport THEN {} ELSE shown
    BY <2>1 DEF CancelSearch, MayCall
  <2>3. CASE mode = Viewport
    <3>1. ~Asked' /\ shown' = {}
      BY <1>0, <2>2, <2>3 DEF Asked
    <3>2. DOMAIN calls' = {1} /\ calls'[1] = Call("cancel", Viewport)
      BY <2>2, <2>3
    <3>3. Call("start", Viewport) # Call("cancel", Viewport)
      BY CallsDiffer
    <3> QED
      BY <3>1, <3>2, <3>3 DEF PlanOK
  <2>4. CASE mode # Viewport
    <3>1. UNCHANGED <<Held, Asked, shown>>
      BY <1>0, <2>2, <2>4 DEF Held, Asked
    <3> QED
      BY <2>2, <2>4, <3>1, PlanBegins
  <2> QED
    BY <2>3, <2>4
<1>3. CASE OnViewportChanged
  <2>1. /\ calls = <<>> /\ UNCHANGED <<intents, shown>>
        /\ calls' = IF ready THEN Poke ELSE DelayedStarts \o Poke
    BY <1>3 DEF OnViewportChanged, MayCall
  <2>2. PICK c : c = calls'
    OBVIOUS
  <2>3. FollowsTheUser(c)
    <3>1. CASE ready
      <4>1. c = Poke
        BY <2>1, <2>2, <3>1
      <4> QED
        BY <1>0, <4>1, PokeFollowsTheUser
    <3>2. CASE ~ready
      <4>1. c = DelayedStarts \o Poke
        BY <2>1, <2>2, <3>2
      <4> QED
        BY <1>0, <4>1, FirstViewportCalls
    <3> QED
      BY <3>1, <3>2
  <2>4. UNCHANGED <<Held, Asked>>
    BY <2>1 DEF Held, Asked
  <2>5. ~Asked => shown = {} /\ Held = 0
    BY <2>1 DEF PlanOK
  <2> QED
    BY <2>1, <2>2, <2>3, <2>4, <2>5 DEF FollowsTheUser, PlanOK
<1>4. CASE Broadcast
  <2>1. /\ calls = <<>> /\ UNCHANGED <<intents, ready, shown>>
        /\ calls' = <<Call("broadcast", Viewport)>>
    BY <1>4 DEF Broadcast, MayCall
  <2>2. UNCHANGED <<Held, Asked>>
    BY <2>1 DEF Held, Asked
  <2> QED
    BY <1>0, <2>1, <2>2, PlanBegins
<1>5. CASE ShowResults
  <2>1. /\ UNCHANGED <<intents, ready, calls>>
        /\ ~Asked => shown' = shown
    BY <1>5 DEF ShowResults, IsShown, Asked
  <2> QED
    BY <2>1 DEF PlanOK, Held, Asked
<1>6. CASE Shutdown
  BY <1>6 DEF Shutdown, apiVars, PlanOK, Held, Asked
<1>7. CASE CancelQuery
  <2>1. /\ Doing("cancel") /\ This \in Modes /\ UNCHANGED <<ready, shown>>
        /\ intents' = [intents EXCEPT ![This].handle = 0]
    BY <1>0, <1>7, DoingACall DEF CancelQuery
  <2>2. Asked' <=> Asked
    BY <1>0, <2>1 DEF Asked
  <2>3. /\ This = Viewport => Held' = 0
        /\ This # Viewport => Held' = Held
    BY <1>0, <2>1 DEF Held
  <2> QED
    BY <1>0, <2>1, <2>2, <2>3, PlanGoesOn
<1>8. CASE StartSearch
  <2>1. /\ Doing("start") /\ This \in Modes /\ UNCHANGED <<ready, shown>>
        /\ intents' = [intents EXCEPT ![This].handle = Len(order) + 1, ![This].delayed = FALSE]
    BY <1>0, <1>8, DoingACall DEF StartSearch
  <2>2. Asked' <=> Asked
    BY <1>0, <2>1 DEF Asked
  <2>3. /\ This = Viewport => Held' # 0
        /\ This # Viewport => Held' = Held
    BY <1>0, <2>1 DEF Held
  <2> QED
    BY <1>0, <2>1, <2>2, <2>3, PlanGoesOn
<1>9. CASE DelaySearch
  <2>1. /\ Doing("start") /\ This \in Modes /\ UNCHANGED <<ready, shown>> /\ ~ready
        /\ intents' = [intents EXCEPT ![This].delayed = TRUE]
    BY <1>0, <1>9, DoingACall DEF DelaySearch
  <2>2. (Asked' <=> Asked) /\ Held' = Held
    BY <1>0, <2>1 DEF Asked, Held
  <2> QED
    BY <1>0, <2>1, <2>2, PlanGoesOn
<1>10. CASE PostBroadcast
  <2>1. Doing("broadcast") /\ UNCHANGED <<ready, shown, intents>>
    BY <1>10 DEF PostBroadcast
  <2>2. (Asked' <=> Asked) /\ Held' = Held
    BY <2>1 DEF Asked, Held
  <2> QED
    BY <1>0, <2>1, <2>2, PlanGoesOn
<1> QED
  BY <1>1, <1>2, <1>3, <1>4, <1>5, <1>6, <1>7, <1>8, <1>9, <1>10 DEF GuiThread

\* A task that belongs to the search, and comes first of it or behind others of it.
LEMMA WillShowAfterAppend ==
  ASSUME NEW k, gui \in Seq(Tasks), NEW task \in Tasks, task.results \subseteq {k},
         gui' = Append(gui, task), shown' = shown,
         (task.first /\ task.end # "cancelled") \/ WillShow(k)
  PROVE  WillShow(k)'
<1>1. /\ Len(gui) \in Nat /\ DOMAIN gui = 1..Len(gui) /\ DOMAIN gui' = 1..(Len(gui) + 1)
      /\ \A i \in 1..Len(gui) : gui'[i] = gui[i]
      /\ gui'[Len(gui) + 1] = task
  BY AppendProperties, LenProperties
<1>2. PICK n \in Nat : n = Len(gui) + 1
  BY <1>1
<1>3. /\ n \in DOMAIN gui' /\ gui'[n] = task
      /\ \A i \in DOMAIN gui' : i = n \/ (i \in DOMAIN gui /\ gui'[i] = gui[i])
      /\ \A i \in DOMAIN gui : i \in DOMAIN gui' /\ gui'[i] = gui[i]
      /\ \A i \in DOMAIN gui' : i <= n /\ (n <= i => i = n)
  BY <1>1, <1>2
<1>4. CASE task.first /\ task.end # "cancelled"
  <2>1. OnlyFrom(n, k)'
    BY <1>3 DEF OnlyFrom
  <2> QED
    BY <1>3, <1>4, <2>1 DEF WillShow
<1>5. ASSUME NEW i, OnlyFrom(i, k) PROVE OnlyFrom(i, k)'
  BY <1>3, <1>5 DEF OnlyFrom
<1>6. CASE WillShow(k)
  BY <1>3, <1>5, <1>6 DEF WillShow
<1> QED
  BY <1>4, <1>6

\* A task of the GUI takes the map closer to that.
LEMMA WillShowAfterShowing ==
  ASSUME NEW k, gui \in Seq(Tasks), ShowResults, Asked, WillShow(k)
  PROVE  WillShow(k)'
<1>1. /\ gui # <<>> /\ gui' = Tail(gui)
      /\ shown' = IF Head(gui).end # "cancelled"
                    THEN (IF Head(gui).first THEN {} ELSE shown) \cup Head(gui).results
                    ELSE shown
  BY DEF ShowResults, IsShown, Asked
<1>2. /\ Len(gui) \in Nat /\ DOMAIN gui = 1..Len(gui) /\ DOMAIN gui' = 1..(Len(gui) - 1)
      /\ Head(gui) = gui[1] /\ Len(gui) # 0
      /\ \A i \in 1..(Len(gui) - 1) : gui'[i] = gui[i + 1]
  BY <1>1, HeadTailProperties, LenProperties
<1>3. /\ 1 \in DOMAIN gui
      /\ \A i \in DOMAIN gui' : i \in Nat /\ i + 1 \in DOMAIN gui /\ gui'[i] = gui[i + 1]
      /\ \A i \in DOMAIN gui : i # 1 => i - 1 \in DOMAIN gui' /\ gui'[i - 1] = gui[i]
      /\ \A i \in DOMAIN gui : i \in Nat /\ 1 <= i
  <2>1. \A i \in DOMAIN gui : i # 1 => i - 1 \in DOMAIN gui' /\ i - 1 + 1 = i
    BY <1>2
  <2>2. \A i \in DOMAIN gui : i # 1 => gui'[i - 1] = gui[i - 1 + 1]
    BY <1>2, <2>1
  <2> QED
    BY <1>2, <2>1, <2>2
<1>4. CASE \E i \in DOMAIN gui : gui[i].first /\ gui[i].end # "cancelled" /\ OnlyFrom(i, k)
  <2>1. PICK i \in DOMAIN gui : gui[i].first /\ gui[i].end # "cancelled" /\ OnlyFrom(i, k)
    BY <1>4
  <2>2. CASE i = 1
    <3>1. shown' \subseteq {k}
      BY <1>1, <1>2, <1>3, <2>1, <2>2 DEF OnlyFrom
    <3>2. OnlyFrom(1, k)'
      <4>1. \A j \in DOMAIN gui' : 1 <= j + 1
        BY <1>3
      <4> QED
        BY <1>3, <2>1, <2>2, <4>1 DEF OnlyFrom
    <3> QED
      BY <3>1, <3>2 DEF WillShow
  <2>3. CASE i # 1
    <3>1. i - 1 \in DOMAIN gui' /\ gui'[i - 1] = gui[i]
      BY <1>3, <2>3
    <3>2. OnlyFrom(i - 1, k)'
      <4>1. \A j \in DOMAIN gui' : i - 1 <= j => i <= j + 1
        BY <1>3, <2>3
      <4> QED
        BY <1>3, <2>1, <4>1 DEF OnlyFrom
    <3> QED
      BY <2>1, <3>1, <3>2 DEF WillShow
  <2> QED
    BY <2>2, <2>3
<1>5. CASE shown \subseteq {k} /\ OnlyFrom(1, k)
  <2>1. Head(gui).results \subseteq {k}
    BY <1>2, <1>3, <1>5 DEF OnlyFrom
  <2>2. shown' \subseteq {k}
    BY <1>1, <1>5, <2>1
  <2>3. OnlyFrom(1, k)'
    <3>1. \A j \in DOMAIN gui' : 1 <= j + 1
      BY <1>3
    <3> QED
      BY <1>3, <1>5, <3>1 DEF OnlyFrom
  <2> QED
    BY <2>2, <2>3 DEF WillShow
<1> QED
  BY <1>4, <1>5 DEF WillShow

\* Steps that send nothing to the map and let no search send more.
LEMMA MapFrame ==
  ASSUME MapOK, UNCHANGED <<contexts, gui>>,
         Asked' /\ Held' # 0 => Asked /\ Held' = Held /\ shown' = shown,
         \A t \in contexts : \A k : Emitted(t, k)' /\ k = Held /\ Held' = Held => Emitted(t, k)
  PROVE  MapOK'
<1> SUFFICES ASSUME NEW t \in contexts', Alone(t)', Asked', Held' # 0, Emitted(t, Held)'
             PROVE  WillShow(Held)'
  BY DEF MapOK
<1>1. /\ Alone(t) /\ Asked /\ Held' = Held /\ Held # 0 /\ shown' = shown /\ t \in contexts
  BY DEF Alone
<1>2. PICK h : h = Held
  OBVIOUS
<1>3. Emitted(t, h)'
  BY <1>1, <1>2 DEF Emitted
<1>4. Emitted(t, h)
  BY <1>1, <1>2, <1>3
<1>5. WillShow(h)
  BY <1>1, <1>2, <1>4 DEF MapOK
<1>6. WillShow(h)'
  BY <1>1, <1>5 DEF WillShow, OnlyFrom
<1> QED
  BY <1>1, <1>2, <1>6 DEF WillShow, OnlyFrom

\* What a thread has sent does not change when it wakes up, nor by a cancellation.
LEMMA SentStays ==
  ASSUME SentOK, UNCHANGED <<contexts, sent>>,
         \A t \in contexts : at'[t] = at[t] \/ at'[t] = "awake",
         \A t \in contexts : status'[t] = status[t] \/ status'[t] = "cancelled"
  PROVE  SentOK'
BY DEF SentOK

\* The same for a search that the thread has sent results of.
LEMMA EmittedStays ==
  ASSUME UNCHANGED <<todo, sent>>, NEW t, NEW k,
         at'[t] = at[t] \/ at'[t] = "awake",
         k \in Waiting(t) => k \in Waiting(t)',
         Emitted(t, k)'
  PROVE  Emitted(t, k)
BY DEF Emitted

\* A new message disturbs neither the line of the thread nor the results.
LEMMA ShowPostStep ==
  ASSUME ShowInv, IInv', NEW kind \in Modes \cup {"broadcast"}, PostMessage(kind),
         UNCHANGED <<contexts, own, todo, applied, status, sent, gui, shown>>,
         Asked' <=> Asked,
         \/ Held' = Held
         \/ Held' = Len(order) + 1
  PROVE  SentOK' /\ LineOK' /\ MapOK'
<1>1. /\ IInv /\ QueueOK /\ contexts \subseteq Threads /\ at \in [Threads -> Positions]
      /\ \A t \in contexts : Waiting(t) \subseteq 1..Len(order)
      /\ SentOK /\ LineOK /\ MapOK
  BY DEF ShowInv, OneInv, IInv, QueueOK, PlaceOK
<1>2. PICK new : new = Len(order) + 1
  OBVIOUS
<1>3. /\ Len(order) \in Nat /\ Len(order') = new
      /\ \A t \in contexts : Waiting(t)' = Waiting(t) \cup {new}
  BY <1>1, <1>2, PostEffects
<1>4. \A t \in contexts : at'[t] = at[t] \/ at'[t] = "awake"
  <2>1. CASE at' = at
    BY <2>1
  <2>2. CASE \E t \in Asleep : at' = [at EXCEPT ![t] = "awake"]
    BY <1>1, <2>2
  <2> QED
    BY <2>1, <2>2 DEF PostMessage, NotifyOne
<1>5. SentOK'
  BY <1>1, <1>4, SentStays
<1>6. LineOK'
  <2>1. ASSUME NEW t \in contexts, Alone(t), NEW w \in Waiting(t) \cup {new}, NEW k \in w..new
        PROVE  k \in Waiting(t) \cup {new}
    <3>1. CASE w = new
      BY <1>2, <1>3, <2>1, <3>1
    <3>2. CASE w \in Waiting(t)
      <4>1. k = new \/ k \in w..Len(order)
        BY <1>1, <1>2, <1>3, <3>2
      <4> QED
        BY <1>1, <2>1, <3>2, <4>1 DEF LineOK
    <3> QED
      BY <2>1, <3>1, <3>2
  <2> QED
    BY <1>3, <2>1 DEF LineOK, Alone
<1>7. CASE Held' = Held
  <2>1. ASSUME NEW t \in contexts, NEW k, Emitted(t, k)' PROVE Emitted(t, k)
    BY <1>3, <1>4, <2>1, EmittedStays
  <2> QED
    BY <1>1, <1>5, <1>6, <1>7, <2>1, MapFrame
<1>8. CASE Held' = new
  <2>1. ASSUME NEW t \in contexts PROVE ~Emitted(t, new)'
    <3>1. new \in Waiting(t)'
      BY <1>3
    <3>2. todo[t] # <<>> => Head(todo[t]) # new
      BY <1>1, <1>2, <1>3, HeadIsAMessage
    <3> QED
      BY <3>1, <3>2 DEF Emitted
  <2>2. MapOK'
    <3> SUFFICES ASSUME NEW t \in contexts', Emitted(t, Held)' PROVE FALSE
      BY DEF MapOK
    <3>1. Emitted(t, new)'
      BY <1>8 DEF Emitted
    <3> QED
      BY <2>1, <3>1
  <2> QED
    BY <1>5, <1>6, <2>2
<1> QED
  BY <1>2, <1>7, <1>8

\* A call that neither posts a message nor shows results.
LEMMA ShowClientStep ==
  ASSUME ShowInv, OneInv', PlanOK',
         UNCHANGED <<contexts, order, todo, own, messages, sent, gui>>,
         \A t \in contexts : at'[t] = at[t] \/ at'[t] = "awake",
         \A t \in contexts : status'[t] = status[t] \/ status'[t] = "cancelled",
         Asked' /\ Held' # 0 => Asked /\ Held' = Held /\ shown' = shown
  PROVE  ShowInv'
<1>1. \A t : Waiting(t)' = Waiting(t)
  BY DEF Waiting
<1>2. SentOK'
  BY SentStays DEF ShowInv
<1>3. LineOK'
  BY <1>1 DEF ShowInv, LineOK, Alone
<1>4. MapOK'
  <2>1. ASSUME NEW t \in contexts, NEW k, Emitted(t, k)' PROVE Emitted(t, k)
    BY <1>1, <2>1, EmittedStays
  <2> QED
    BY <2>1, MapFrame DEF ShowInv
<1> QED
  BY <1>2, <1>3, <1>4 DEF ShowInv

\* The calls of the GUI thread, and the tasks it does.
LEMMA ShowGuiStep ==
  ASSUME ShowInv, GuiThread
  PROVE  ShowInv'
<1>0. /\ OneInv /\ IInv /\ PlanOK /\ OneInv' /\ PlanOK' /\ IInv'
      /\ calls \in Seq(Calls) /\ Viewport \in Modes /\ contexts \subseteq Threads
      /\ intents \in [Modes -> [asked : BOOLEAN, handle : Nat, delayed : BOOLEAN]]
      /\ at \in [Threads -> Positions] /\ order \in Seq(Modes \cup {"broadcast"})
  BY OneGuiStep, PlanStep, ModesAssumption
     DEF ShowInv, OneInv, IInv, ClientOK, QueueOK, PlaceOK
<1>1. CASE \E mode \in Modes : Search(mode)
  <2>1. PICK mode \in Modes : Search(mode)
    BY <1>1
  <2>2. /\ calls = <<>> /\ UNCHANGED <<threadVars, engineVars, gui, shown>>
        /\ intents' = [intents EXCEPT ![mode].asked = TRUE]
    BY <2>1 DEF Search, MayCall
  <2>3. Held' = Held
    BY <1>0, <2>2 DEF Held
  <2>4. Held # 0 => Asked
    BY <1>0, <2>2 DEF PlanOK
  <2> QED
    BY <1>0, <2>2, <2>3, <2>4, ShowClientStep DEF threadVars, engineVars
<1>2. CASE \E mode \in Modes : CancelSearch(mode)
  <2>1. PICK mode \in Modes : CancelSearch(mode)
    BY <1>2
  <2>2. /\ UNCHANGED <<threadVars, engineVars, gui>>
        /\ intents' = [intents EXCEPT ![mode].asked = FALSE]
        /\ mode # Viewport => shown' = shown
    BY <2>1 DEF CancelSearch
  <2>3. Asked' => mode # Viewport /\ Asked /\ Held' = Held
    BY <1>0, <2>2 DEF Held, Asked
  <2> QED
    BY <1>0, <2>2, <2>3, ShowClientStep DEF threadVars, engineVars
<1>3. CASE OnViewportChanged \/ Broadcast
  <2>1. UNCHANGED <<threadVars, engineVars, gui, shown, intents>>
    BY <1>3 DEF OnViewportChanged, Broadcast
  <2>2. (Asked' <=> Asked) /\ Held' = Held
    BY <2>1 DEF Asked, Held
  <2> QED
    BY <1>0, <2>1, <2>2, ShowClientStep DEF threadVars, engineVars
<1>4. CASE Shutdown
  <2>1. /\ UNCHANGED <<todo, sent, status, contexts, order, messages, own, gui, shown, intents>>
        /\ \A t \in contexts : at'[t] = at[t] \/ at'[t] = "awake"
    BY <1>0, <1>4 DEF Shutdown, apiVars
  <2>2. (Asked' <=> Asked) /\ Held' = Held
    BY <2>1 DEF Asked, Held
  <2> QED
    BY <1>0, <2>1, <2>2, ShowClientStep
<1>5. CASE DelaySearch
  <2>1. /\ UNCHANGED <<threadVars, engineVars, gui, shown>> /\ This \in Modes
        /\ intents' = [intents EXCEPT ![This].delayed = TRUE]
    BY <1>0, <1>5, DoingACall DEF DelaySearch
  <2>2. (Asked' <=> Asked) /\ Held' = Held
    BY <1>0, <2>1 DEF Asked, Held
  <2> QED
    BY <1>0, <2>1, <2>2, ShowClientStep DEF threadVars, engineVars
<1>6. CASE CancelQuery
  <2>1. /\ UNCHANGED <<contexts, order, todo, own, messages, at, sent, gui, shown>>
        /\ This \in Modes
        /\ intents' = [intents EXCEPT ![This].handle = 0]
    BY <1>0, <1>6, DoingACall DEF CancelQuery
  <2>2. \A t \in contexts : status'[t] = status[t] \/ status'[t] = "cancelled"
    BY <1>0, <1>6 DEF CancelQuery, Cancel
  <2>3. (Asked' <=> Asked) /\ (Held' = Held \/ Held' = 0)
    BY <1>0, <2>1 DEF Asked, Held
  <2> QED
    BY <1>0, <2>1, <2>2, <2>3, ShowClientStep
<1>7. CASE StartSearch
  <2>1. /\ PostMessage(This) /\ This \in Modes
        /\ UNCHANGED <<contexts, own, todo, applied, status, sent, gui, shown>>
        /\ intents' = [intents EXCEPT ![This].handle = Len(order) + 1, ![This].delayed = FALSE]
    BY <1>0, <1>7, DoingACall DEF StartSearch
  <2>2. (Asked' <=> Asked) /\ (Held' = Held \/ Held' = Len(order) + 1)
    BY <1>0, <2>1 DEF Asked, Held
  <2>3. SentOK' /\ LineOK' /\ MapOK'
    BY <1>0, <2>1, <2>2, ShowPostStep
  <2> QED
    BY <1>0, <2>1, <2>3 DEF ShowInv
<1>8. CASE PostBroadcast
  <2>1. /\ PostMessage("broadcast")
        /\ UNCHANGED <<contexts, own, todo, applied, status, sent, gui, shown, intents>>
    BY <1>8 DEF PostBroadcast
  <2>2. (Asked' <=> Asked) /\ Held' = Held
    BY <2>1 DEF Asked, Held
  <2>3. SentOK' /\ LineOK' /\ MapOK'
    BY <1>0, <2>1, <2>2, ShowPostStep
  <2> QED
    BY <1>0, <2>1, <2>3 DEF ShowInv
<1>9. CASE ShowResults
  <2>1. /\ UNCHANGED <<threadVars, engineVars, intents>> /\ gui # <<>> /\ gui' = Tail(gui)
    BY <1>9 DEF ShowResults
  <2>2. /\ (Asked' <=> Asked) /\ Held' = Held
        /\ \A t : Waiting(t)' = Waiting(t)
    BY <2>1 DEF Asked, Held, Waiting, threadVars, engineVars
  <2>3. SentOK' /\ LineOK'
    BY <2>1, <2>2 DEF ShowInv, SentOK, LineOK, Alone, threadVars, engineVars
  <2>4. gui \in Seq(Tasks) /\ gui' \in Seq(Tasks)
    BY <2>1, HeadTailProperties DEF ShowInv
  <2>5. MapOK'
    <3> SUFFICES ASSUME NEW t \in contexts', Alone(t)', Asked', Held' # 0, Emitted(t, Held)'
                 PROVE  WillShow(Held)'
      BY DEF MapOK
    <3>1. t \in contexts /\ Alone(t) /\ Asked /\ Held # 0 /\ Emitted(t, Held)
      BY <2>1, <2>2 DEF Alone, Emitted, threadVars, engineVars
    <3>2. PICK h : h = Held
      OBVIOUS
    <3>3. WillShow(h)
      BY <3>1, <3>2 DEF ShowInv, MapOK
    <3>4. WillShow(h)'
      BY <1>9, <2>4, <3>1, <3>3, WillShowAfterShowing
    <3> QED
      BY <2>2, <3>2, <3>4 DEF WillShow, OnlyFrom
  <2> QED
    BY <1>0, <2>3, <2>4, <2>5 DEF ShowInv
<1> QED
  BY <1>1, <1>2, <1>3, <1>4, <1>5, <1>6, <1>7, <1>8, <1>9 DEF GuiThread

\* A step of a thread that sends nothing and begins no search.
LEMMA ShowThreadFrame ==
  ASSUME ShowInv, OneInv', UNCHANGED <<contexts, order, intents, ready, calls, shown, gui>>,
         SentOK', LineOK',
         \A t \in contexts : \A k : Alone(t) /\ k = Held /\ Emitted(t, k)' => Emitted(t, k)
  PROVE  ShowInv'
<1>1. PlanOK'
  BY DEF ShowInv, PlanOK, Held, Asked
<1>2. /\ Held' = Held /\ (Asked' <=> Asked)
  BY DEF Held, Asked
<1>3. MapOK'
  <2> SUFFICES ASSUME NEW t \in contexts', Alone(t)', Asked', Held' # 0, Emitted(t, Held)'
               PROVE  WillShow(Held)'
    BY DEF MapOK
  <2>1. PICK h : h = Held
    OBVIOUS
  <2>2. t \in contexts /\ Alone(t) /\ Asked /\ h # 0 /\ Emitted(t, h)'
    BY <1>2, <2>1 DEF Alone, Emitted
  <2>3. Emitted(t, h)
    BY <2>1, <2>2
  <2>4. WillShow(h)
    BY <2>1, <2>2, <2>3 DEF ShowInv, MapOK
  <2> QED
    BY <1>2, <2>1, <2>4 DEF WillShow, OnlyFrom
<1> QED
  BY <1>1, <1>3 DEF ShowInv

\* What a thread alone sends about the search on the map is of the last one, or comes
\* before the first of the last one.
LEMMA ShowSendStep ==
  ASSUME ShowInv, OneInv', NEW t \in contexts, EmitBatch(t) \/ Finish(t)
  PROVE  ShowInv'
<1>1. /\ OneInv /\ IInv /\ QueueOK /\ t \in Threads /\ contexts \subseteq Threads
      /\ at \in [Threads -> Positions] /\ sent \in [Threads -> Nat]
      /\ status \in [Threads -> {"active", "cancelled"}]
      /\ order \in Seq(Modes \cup {"broadcast"}) /\ Viewport \in Modes
      /\ intents \in [Modes -> [asked : BOOLEAN, handle : Nat, delayed : BOOLEAN]]
      /\ SentOK /\ LineOK /\ MapOK /\ PlanOK /\ gui \in Seq(Tasks)
  BY ModesAssumption DEF ShowInv, OneInv, IInv, QueueOK, PlaceOK, HandleOK, ClientOK
<1>2. at[t] \in Searching /\ todo[t] # <<>>
  BY <1>1 DEF EmitBatch, Finish, Searching, IInv, PlaceOK
<1>3. PICK head : head = Head(todo[t])
  OBVIOUS
<1>4. head \in 1..Len(order) /\ head \in Waiting(t) /\ Len(order) \in Nat
  BY <1>1, <1>2, <1>3, HeadIsAMessage, LenProperties
<1>5. PICK h : h = Held
  OBVIOUS
<1>6. /\ UNCHANGED <<contexts, order, todo, own, messages, intents, ready, calls, shown, status,
                     cancelled>>
      /\ Held' = h /\ (Asked' <=> Asked) /\ Waiting(t)' = Waiting(t)
      /\ \A u \in contexts : Waiting(u)' = Waiting(u)
  BY <1>5 DEF EmitBatch, Finish, engineVars, apiVars, Held, Asked, Waiting
<1>7. PICK task \in Tasks :
        /\ Results(t, task.results, task.end) /\ task.first = (sent[t] = 0)
        /\ task = [first |-> sent[t] = 0, results |-> task.results, end |-> task.end]
        /\ task.results \subseteq {head}
        /\ task.end = "cancelled" => at[t] = "cancelled"
        /\ at[t] = "cancelled" => task.end = "cancelled"
  <2> DEFINE Task(results, end) == [first |-> sent[t] = 0, results |-> results, end |-> end]
  <2>0. \A results \in {{}, {head}} : results \in SUBSET Nat
    BY <1>4
  <2>1. ASSUME NEW results \in {{}, {head}}, NEW end \in {"none", "normal", "cancelled"}
        PROVE  Task(results, end) \in Tasks
    BY <2>0, <2>1 DEF Tasks
  <2>2. CASE EmitBatch(t)
    <3>1. Results(t, {head}, "none") /\ at[t] = "search"
      BY <1>3, <2>2 DEF EmitBatch
    <3>2. Task({head}, "none") \in Tasks
      BY <2>1
    <3> QED
      BY <3>1, <3>2
  <2>3. CASE Finish(t) /\ at[t] = "finished"
    <3>1. PICK results \in {{}, {head}} : Results(t, results, "normal")
      BY <1>3, <2>3 DEF Finish
    <3>2. Task(results, "normal") \in Tasks
      BY <2>1
    <3> QED
      BY <2>3, <3>1, <3>2
  <2>4. CASE Finish(t) /\ at[t] # "finished"
    <3>1. Results(t, {}, "cancelled") /\ at[t] = "cancelled"
      BY <2>4 DEF Finish
    <3>2. Task({}, "cancelled") \in Tasks
      BY <2>1
    <3> QED
      BY <3>1, <3>2
  <2> QED
    BY <2>2, <2>3, <2>4
<1>8. gui' = IF order[head] = Viewport THEN Append(gui, task) ELSE gui
  BY <1>3, <1>7 DEF Results
<1>9. SentOK'
  <2>1. /\ at' = at \/ at' = [at EXCEPT ![t] = "detach"]
        /\ sent' = sent \/ (sent' = [sent EXCEPT ![t] = @ + 1] /\ at[t] = "search")
    BY DEF EmitBatch, Finish
  <2> QED
    BY <1>1, <1>6, <2>1 DEF SentOK
<1>10. LineOK'
  BY <1>1, <1>6 DEF LineOK, Alone
<1>11. PlanOK'
  BY <1>1, <1>6 DEF PlanOK, Held, Asked
<1>12. gui' \in Seq(Tasks)
  BY <1>1, <1>7, <1>8, AppendProperties
<1>13. MapOK'
  <2> SUFFICES ASSUME NEW u \in contexts', Alone(u)', Asked', Held' # 0, Emitted(u, Held)'
               PROVE  WillShow(Held)'
    BY DEF MapOK
  <2>1. u = t /\ Alone(t) /\ Asked /\ h # 0 /\ Emitted(t, h)'
    BY <1>6 DEF Alone, Emitted
  <2>2. /\ h \in (1..Len(order)) \ cancelled /\ order[h] = Viewport
        /\ \A k \in 1..Len(order) : order[k] = Viewport => k <= h
    BY <1>1, <1>5, <2>1 DEF OneInv, HandlesOK, Held
  <2>3. Emitted(t, h) => WillShow(h)
    BY <1>1, <1>5, <2>1 DEF MapOK
  <2>4. WillShow(h)'
    <3>1. CASE head # h
      <4>1. h \notin Waiting(t)
        BY <1>3, <1>6, <2>1, <3>1 DEF Emitted
      <4>2. order[head] # Viewport
        <5> SUFFICES ASSUME order[head] = Viewport PROVE FALSE
          OBVIOUS
        <5>1. h \in head..Len(order)
          BY <1>4, <2>2
        <5> QED
          BY <1>1, <1>4, <2>1, <4>1, <5>1 DEF LineOK
      <4>3. WillShow(h) /\ gui' = gui
        BY <1>8, <2>3, <4>1, <4>2 DEF Emitted
      <4> QED
        BY <1>6, <4>3 DEF WillShow, OnlyFrom
    <3>2. CASE head = h
      <4>1. at[t] # "cancelled" /\ task.end # "cancelled"
        <5>1. at[t] = "cancelled" => head \in cancelled
          BY <1>1, <1>2, <1>3 DEF SentOK, IInv, HandleOK, CancelReachesItsSearch
        <5> QED
          BY <1>7, <2>2, <3>2, <5>1
      <4>2. task.first \/ WillShow(h)
        <5>1. CASE sent[t] = 0
          BY <1>7, <5>1
        <5>2. CASE sent[t] # 0
          <6>1. at[t] \in {"search", "finished"}
            BY <4>1 DEF EmitBatch, Finish
          <6>2. Emitted(t, h)
            BY <1>2, <1>3, <3>2, <5>2, <6>1 DEF Emitted
          <6> QED
            BY <2>3, <6>2
        <5> QED
          BY <5>1, <5>2
      <4>3. gui' = Append(gui, task) /\ task.results \subseteq {h} /\ shown' = shown
        BY <1>6, <1>7, <1>8, <2>2, <3>2
      <4> QED
        BY <1>1, <1>7, <4>1, <4>2, <4>3, WillShowAfterAppend
    <3> QED
      BY <3>1, <3>2
  <2> QED
    BY <1>6, <2>4 DEF WillShow, OnlyFrom
<1> QED
  BY <1>9, <1>10, <1>11, <1>12, <1>13 DEF ShowInv

\* Taking and dropping messages: what a thread alone has before it loses its head only.
LEMMA LineEffects ==
  ASSUME IInv, NEW t \in contexts, Take(t) \/ ApplyBroadcast(t) \/ Detach(t)
  PROVE  \/ Take(t) /\ Waiting(t)' = Waiting(t)
         \/ /\ ~Take(t)
            /\ Waiting(t) = {Head(todo[t])} \cup Waiting(t)'
            /\ \A w \in Waiting(t)' : Head(todo[t]) < w
<1>1. /\ QueueOK /\ t \in Threads /\ at \in [Threads -> Positions]
      /\ todo \in [Threads -> Seq(Nat)]
      /\ \A u \in Threads : at[u] \in {"asleep", "awake", "left"} <=> todo[u] = <<>>
      /\ at[t] \in Searching \cup {"reset"} => ~IsBroadcast(Head(todo[t]))
  BY DEF IInv, QueueOK, PlaceOK
<1>2. CASE ~Take(t)
  <2>1. UNCHANGED <<order, contexts, messages, own>>
    BY <1>2 DEF ApplyBroadcast, Detach, engineVars
  <2>2. /\ todo' = [todo EXCEPT ![t] = Tail(@)]
        /\ todo[t] # <<>>
        /\ \/ /\ IsBroadcast(Head(todo[t]))
              /\ applied' = [applied EXCEPT ![t] = @ \cup {Head(todo[t])}]
           \/ ~IsBroadcast(Head(todo[t])) /\ UNCHANGED applied
    BY <1>1, <1>2 DEF ApplyBroadcast, Detach, Pop, Searching
  <2> QED
    BY <1>1, <1>2, <2>1, <2>2, PopKeepsQueues
<1>3. CASE Take(t)
  <2>1. PICK n \in 0..Len(messages) :
          LET last == IF n < Len(messages) THEN n + 1 ELSE n
          IN  /\ StartsWithBroadcasts(n)
              /\ todo' = [todo EXCEPT ![t] = own[t] \o SubSeq(messages, 1, last)]
              /\ messages' = SubSeq(messages, last + 1, Len(messages))
              /\ own' = Replicated(t, n)
    BY <1>3 DEF Take
  <2> DEFINE last == IF n < Len(messages) THEN n + 1 ELSE n
  <2>2. Len(messages) \in Nat /\ todo[t] = <<>>
    BY <1>1, <1>3, LenProperties DEF Take, QueueOK
  <2>3. /\ todo' = [todo EXCEPT ![t] = own[t] \o SubSeq(messages, 1, last)]
        /\ messages' = SubSeq(messages, last + 1, Len(messages))
        /\ own' = Replicated(t, n) /\ StartsWithBroadcasts(n)
        /\ last = IF n < Len(messages) THEN n + 1 ELSE n
        /\ last \in 0..Len(messages)
    BY <2>1, <2>2
  <2>4. UNCHANGED <<order, contexts, applied>>
    BY <1>3 DEF Take
  <2> HIDE DEF last
  <2> QED
    BY <1>1, <1>3, <2>2, <2>3, <2>4, TakeKeepsQueues
<1> QED
  BY <1>2, <1>3

\* What a thread may do.
LEMMA ShowThreadStep ==
  ASSUME ShowInv, NEW t \in contexts, MainLoop(t) \/ WakeSpuriously(t)
  PROVE  ShowInv'
<1>1. /\ OneInv /\ IInv /\ t \in Threads /\ contexts \subseteq Threads
      /\ at \in [Threads -> Positions] /\ sent \in [Threads -> Nat]
      /\ status \in [Threads -> {"active", "cancelled"}]
      /\ SentOK /\ LineOK /\ OneInv'
      /\ \A u \in Threads : at[u] \in {"asleep", "awake", "left"} <=> todo[u] = <<>>
  BY OneThreadStep DEF ShowInv, OneInv, IInv, QueueOK, PlaceOK, HandleOK
<1>2. UNCHANGED <<order, contexts, cancelled, intents, ready, calls, shown>>
  BY <1>1, ThreadEffects
<1>3. CASE \/ Sleep(t) \/ WakeSpuriously(t) \/ Leave(t) \/ NotifyAll(t) \/ Reset(t)
           \/ Attach(t) \/ ReadStatus(t)
  <2>1. /\ UNCHANGED <<todo, own, messages, gui>>
        /\ \A u : Waiting(u)' = Waiting(u)
    BY <1>3 DEF Sleep, WakeSpuriously, Leave, NotifyAll, Reset, Attach, ReadStatus,
                engineVars, Waiting
  <2>2. /\ \A u \in contexts \ {t} : /\ at'[u] = at[u] \/ at'[u] = "awake"
                                     /\ sent'[u] = sent[u] /\ status'[u] = status[u]
        /\ \/ at'[t] \in {"asleep", "awake", "left", "run"}
           \/ at'[t] = "reset" /\ sent'[t] = 0
           \/ at[t] = "reset" /\ at'[t] = "search" /\ sent'[t] = sent[t]
           \/ at[t] = "search" /\ at'[t] = "finished" /\ sent'[t] = sent[t]
           \/ at[t] = "search" /\ at'[t] = "cancelled" /\ status'[t] = "cancelled"
    <3>1. CASE Sleep(t) \/ WakeSpuriously(t) \/ Leave(t)
      BY <1>1, <3>1 DEF Sleep, WakeSpuriously, Leave
    <3>2. CASE NotifyAll(t)
      BY <1>1, <3>2 DEF NotifyAll
    <3>3. CASE Reset(t)
      BY <1>1, <3>3 DEF Reset
    <3>4. CASE Attach(t)
      BY <1>1, <3>4 DEF Attach
    <3>5. CASE ReadStatus(t)
      BY <1>1, <3>5 DEF ReadStatus
    <3> QED
      BY <1>3, <3>1, <3>2, <3>3, <3>4, <3>5
  <2>3. SentOK'
    BY <1>1, <1>2, <2>2 DEF SentOK
  <2>4. LineOK'
    BY <1>1, <1>2, <2>1 DEF LineOK, Alone
  <2>5. ASSUME NEW u \in contexts, NEW k, Alone(u), Emitted(u, k)' PROVE Emitted(u, k)
    <3>1. u = t
      BY <2>5 DEF Alone
    <3>2. k \in Waiting(t) => sent'[t] # 0 /\ at[t] = "search" /\ sent'[t] = sent[t]
      BY <1>1, <2>1, <2>2, <2>5, <3>1 DEF Emitted, SentOK
    <3> QED
      BY <2>1, <2>5, <3>1, <3>2 DEF Emitted
  <2> QED
    BY <1>1, <1>2, <2>1, <2>3, <2>4, <2>5, ShowThreadFrame
<1>4. CASE Take(t) \/ ApplyBroadcast(t) \/ Detach(t)
  <2>1. /\ UNCHANGED <<gui, sent, status>>
        /\ \A u \in contexts \ {t} : at'[u] = at[u]
        /\ at'[t] \in {"run", "notify", "awake"}
    BY <1>1, <1>4 DEF Take, ApplyBroadcast, Detach, Pop, AfterTaking
  <2>2. SentOK'
    BY <1>1, <1>2, <2>1 DEF SentOK
  <2>3. PICK head : head = Head(todo[t])
    OBVIOUS
  <2>4. \/ Take(t) /\ Waiting(t)' = Waiting(t)
        \/ /\ ~Take(t)
           /\ Waiting(t) = {head} \cup Waiting(t)'
           /\ \A w \in Waiting(t)' : head < w
    BY <1>1, <1>4, <2>3, LineEffects
  <2>5. LineOK'
    <3>1. ASSUME NEW w \in Waiting(t)', NEW k \in w..Len(order), Alone(t)
          PROVE  k \in Waiting(t)'
      <4>1. w \in Waiting(t) /\ k \in Waiting(t)
        BY <1>1, <2>4, <3>1 DEF LineOK
      <4>2. Waiting(t) \subseteq Nat
        <5>1. Waiting(t) \subseteq 1..Len(order)
          BY <1>1 DEF IInv, QueueOK
        <5> QED
          BY <5>1
      <4>3. k # head \/ Waiting(t)' = Waiting(t)
        BY <2>4, <3>1, <4>1, <4>2
      <4> QED
        BY <2>4, <4>1, <4>3
    <3> QED
      BY <1>2, <3>1 DEF LineOK, Alone
  <2>6. ASSUME NEW u \in contexts, NEW k, Alone(u), k = Held, Emitted(u, k)' PROVE Emitted(u, k)
    <3>1. u = t /\ k \notin Waiting(t)'
      BY <2>1, <2>6 DEF Alone, Emitted
    <3>2. CASE k \notin Waiting(t)
      BY <3>1, <3>2 DEF Emitted
    <3>3. CASE k \in Waiting(t)
      <4>1. k = head /\ ~Take(t)
        BY <2>4, <3>1, <3>3
      <4>2. CASE Detach(t)
        <5>1. at[t] = "detach" /\ todo[t] # <<>>
          BY <1>1, <4>2 DEF Detach
        <5> QED
          BY <2>3, <3>1, <4>1, <5>1 DEF Emitted
      <4>3. CASE ApplyBroadcast(t)
        <5>1. IsBroadcast(k) /\ at[t] = "run" /\ todo[t] # <<>>
          BY <1>1, <2>3, <4>1, <4>3 DEF ApplyBroadcast
        <5>2. k \in 1..Len(order)
          BY <1>1, <3>3 DEF IInv, QueueOK
        <5>3. k # 0 /\ order[k] = Viewport
          BY <1>1, <2>6, <5>2, ModesAssumption DEF OneInv, HandlesOK, Held
        <5> QED
          BY <5>1, <5>3, ModesAssumption DEF IsBroadcast
      <4> QED
        BY <1>4, <4>1, <4>2, <4>3
    <3> QED
      BY <3>2, <3>3
  <2> QED
    BY <1>1, <1>2, <2>1, <2>2, <2>5, <2>6, ShowThreadFrame
<1>5. CASE EmitBatch(t) \/ Finish(t)
  BY <1>1, <1>5, ShowSendStep
<1> QED
  BY <1>3, <1>4, <1>5 DEF MainLoop

\* When the last search on the map has sent something, the tasks of the GUI that come
\* after it will leave results of this search only.
THEOREM MapFollowsTheUser == Spec => []ShowInv
<1>1. Init => ShowInv
  <2> SUFFICES ASSUME Init PROVE ShowInv
    OBVIOUS
  <2>1. OneInv
    BY InitIsOne
  <2>2. ~Asked /\ Held = 0 /\ shown = {} /\ gui = <<>>
    BY ModesAssumption DEF Init, Asked, Held
  <2>3. \A t \in contexts : Waiting(t) = {}
    BY DEF Init, Waiting, Range
  <2>4. DOMAIN calls = {1} /\ calls[1] = Call("broadcast", Viewport)
    BY DEF Init
  <2>5. PlanOK
    BY <2>2, <2>4, CallsDiffer DEF PlanOK
  <2>6. SentOK
    BY DEF Init, SentOK
  <2> QED
    BY <2>1, <2>2, <2>3, <2>5, <2>6 DEF ShowInv, LineOK, MapOK
<1>2. ShowInv /\ [Next]_vars => ShowInv'
  <2> SUFFICES ASSUME ShowInv, [Next]_vars PROVE ShowInv'
    OBVIOUS
  <2>1. CASE GuiThread
    BY <2>1, ShowGuiStep
  <2>2. CASE \E t \in contexts : MainLoop(t) \/ WakeSpuriously(t)
    BY <2>2, ShowThreadStep
  <2>3. CASE UNCHANGED vars
    <3>1. UNCHANGED <<threadVars, engineVars, apiVars, gui>>
      BY <2>3 DEF vars
    <3>2. IInv'
      BY StepKeepsInvariant, <2>3 DEF ShowInv, OneInv
    <3>3. OneInv' /\ PlanOK'
      <4>1. UNCHANGED <<contexts, todo, own, messages, order, cancelled, intents, calls, ready,
                        gui, shown>>
        BY <3>1 DEF threadVars, engineVars, apiVars
      <4>2. StartsOK'
        BY <4>1 DEF ShowInv, OneInv, StartsOK
      <4>3. ~ready' => gui' = <<>> /\ shown' = {}
        BY <4>1 DEF ShowInv, OneInv, FirstOK
      <4>4. OneInv'
        BY <3>2, <4>1, <4>2, <4>3, OneClientStep DEF ShowInv
      <4>5. PlanOK'
        BY <4>1 DEF ShowInv, PlanOK, Held, Asked
      <4> QED
        BY <4>4, <4>5
    <3>4. (Asked' <=> Asked) /\ Held' = Held
      BY <3>1 DEF Asked, Held, apiVars
    <3> QED
      BY <3>1, <3>3, <3>4, ShowClientStep DEF threadVars, engineVars, apiVars
  <2> QED
    BY <2>1, <2>2, <2>3 DEF Next
<1> QED
  BY <1>1, <1>2, PTL DEF Spec

\* When all searches on the map are over and delivered, the map shows results of the
\* last one only, or none if the user gave it up: with one search thread, whatever was
\* called while the earlier ones ran (SearchAPI, ViewportSearchCallback).
THEOREM MapIsUpToDate == Spec => []MapShowsTheLastSearch
<1>1. ShowInv => MapShowsTheLastSearch
  <2> SUFFICES ASSUME ShowInv, AtRest, Cardinality(contexts) = 1
               PROVE  shown \subseteq IF Asked THEN {Held} ELSE {}
    BY DEF MapShowsTheLastSearch, Asked, Held
  <2>1. /\ calls = <<>> /\ gui = <<>> /\ IInv /\ QueueOK
        /\ \A k \in DOMAIN order : order[k] = Viewport => ~IsAlive(k)
        /\ DOMAIN order = 1..Len(order)
    BY LenProperties DEF AtRest, ShowInv, OneInv, IInv, QueueOK
  <2>2. CASE ~Asked
    BY <2>2 DEF ShowInv, PlanOK
  <2>3. CASE Asked /\ ~ready
    BY <2>3 DEF ShowInv, OneInv, FirstOK
  <2>4. CASE Asked /\ ready
    <3>1. Held # 0
      BY <2>1, <2>4 DEF ShowInv, PlanOK
    <3>2. Held \in 1..Len(order) /\ order[Held] = Viewport
      BY <3>1, ModesAssumption DEF ShowInv, OneInv, HandlesOK, Held
    <3>3. ~IsAlive(Held)
      BY <2>1, <3>2
    <3>4. PICK t : contexts = {t}
      <4>1. contexts \subseteq Threads /\ IsFiniteSet(contexts)
        BY <2>1, ThreadsAssumption, FS_Subset DEF QueueOK
      <4> QED
        BY <4>1, FS_Singleton
    <3>5. Held \notin Waiting(t)
      BY <2>1, <3>3, <3>4, AliveIsWaiting
    <3>6. WillShow(Held)
      BY <2>4, <3>1, <3>4, <3>5 DEF ShowInv, MapOK, Alone, Emitted
    <3> QED
      BY <2>1, <2>4, <3>6 DEF WillShow
  <2> QED
    BY <2>2, <2>3, <2>4
<1> QED
  BY <1>1, MapFollowsTheUser, PTL
=============================================================================
