----------------------------- MODULE Utils_proofs -----------------------------
(***************************************************************************)
(* Proofs about what utils.rs offers.  FifoQueue: for every set of         *)
(* consumers, every capacity and every number of messages, with or without *)
(* spurious wakeups.  LimitedHashMap: for every set of keys and values and *)
(* every maximum size, the map and its order never come apart, the maximum *)
(* is kept, and what is dropped is what was updated longest ago.           *)
(*                                                                         *)
(* IInv is the inductive invariant of FifoQueue.  QueueIsNewest alone is   *)
(* inductive, but the bounds of TypeOK on the three counters and the order *)
(* of deliveries need to know how the counters relate to the window:       *)
(* Counters.  MapIInv is that of LimitedHashMapOps.                        *)
(***************************************************************************)
EXTENDS FifoQueue, LimitedHashMapOps, FiniteSetTheorems, FunctionTheorems, SequenceTheorems, TLAPS

-----------------------------------------------------------------------------
(* FifoQueue.                                                              *)

\* What has left the window is at least what was taken, and the message handed
\* over last is among it.
Counters ==
    /\ dropped_count <= added
    /\ taken + Len(queue) <= added
    /\ last + Len(queue) <= added

IInv ==
    /\ TypeOK
    /\ QueueIsNewest
    /\ Counters
    /\ Accounting
    /\ Bounded
    /\ NoLostWakeup

-----------------------------------------------------------------------------
(* The window of newest messages.                                          *)

\* A window of k messages is a sequence of that length.
LEMMA NewestIsSeq ==
    ASSUME NEW n \in Nat, NEW k \in 0 .. n
    PROVE  /\ Newest(n, k) \in Seq(1 .. n)
           /\ Len(Newest(n, k)) = k
BY DEF Newest

\* Taking the oldest message of a window leaves the window one shorter.
LEMMA NewestTail ==
    ASSUME NEW n \in Nat, NEW k \in 1 .. n
    PROVE  /\ Head(Newest(n, k)) = n - k + 1
           /\ Tail(Newest(n, k)) = Newest(n, k - 1)
<1> DEFINE s == Newest(n, k)
           t == Newest(n, k - 1)
<1>1. s \in Seq(1 .. n) /\ Len(s) = k /\ s # <<>>
  BY NewestIsSeq
<1>2. t \in Seq(1 .. n) /\ Len(t) = k - 1
  BY NewestIsSeq
<1>3. Head(s) = n - k + 1
  BY <1>1 DEF Newest
<1>4. /\ Tail(s) \in Seq(1 .. n)
      /\ Len(Tail(s)) = k - 1
      /\ \A i \in 1 .. k - 1 : Tail(s)[i] = s[i + 1]
  BY <1>1, HeadTailProperties
<1>5. \A i \in 1 .. k - 1 : s[i + 1] = t[i]
  BY DEF Newest
<1>6. Tail(s) = t
  <2> HIDE DEF s, t
  <2> QED BY <1>2, <1>4, <1>5, SeqEqual
<1> QED BY <1>3, <1>6

\* Appending the next message to a window gives the window one longer.
LEMMA NewestAppend ==
    ASSUME NEW n \in Nat, NEW k \in 0 .. n
    PROVE  Append(Newest(n, k), n + 1) = Newest(n + 1, k + 1)
<1> DEFINE s == Newest(n, k)
           t == Newest(n + 1, k + 1)
<1>1. s \in Seq(1 .. n + 1) /\ Len(s) = k
  BY DEF Newest
<1>2. t \in Seq(1 .. n + 1) /\ Len(t) = k + 1
  BY NewestIsSeq
<1>3. /\ Append(s, n + 1) \in Seq(1 .. n + 1)
      /\ Len(Append(s, n + 1)) = k + 1
      /\ \A i \in 1 .. k : Append(s, n + 1)[i] = s[i]
      /\ Append(s, n + 1)[k + 1] = n + 1
  <2> HIDE DEF s
  <2> QED BY <1>1
<1>4. (\A i \in 1 .. k : t[i] = s[i]) /\ t[k + 1] = n + 1
  BY DEF Newest
<1>5. \A i \in 1 .. k + 1 : Append(s, n + 1)[i] = t[i]
  <2> HIDE DEF s, t
  <2> QED BY <1>3, <1>4
<1>6. Append(s, n + 1) = t
  <2> HIDE DEF s, t
  <2> QED BY <1>2, <1>3, <1>5, SeqEqual
<1> QED BY <1>6

-----------------------------------------------------------------------------
(* What the shared effects do to a state that satisfies the invariant.     *)

\* Handing a message over takes the oldest of the window.
LEMMA PopFrontEffect ==
    ASSUME IInv, PopFront, UNCHANGED added
    PROVE  /\ Len(queue) \in 1 .. added
           /\ queue' = Newest(added, Len(queue) - 1)
           /\ Len(queue') = Len(queue) - 1
           /\ last' = added - Len(queue) + 1
           /\ taken' = taken + 1
<1>1. Len(queue) \in 1 .. added /\ added \in Nat
  BY MaxAddsAssumption DEF IInv, TypeOK, Counters, PopFront
<1>2. Len(queue) - 1 \in 0 .. added
  BY <1>1
<1>3. queue = Newest(added, Len(queue))
  BY DEF IInv, QueueIsNewest
<1>4. /\ Head(queue) = added - Len(queue) + 1
      /\ Tail(queue) = Newest(added, Len(queue) - 1)
  BY <1>1, <1>3, NewestTail
<1>5. Len(Newest(added, Len(queue) - 1)) = Len(queue) - 1
  BY <1>1, <1>2, NewestIsSeq
<1> QED BY <1>1, <1>4, <1>5 DEF PopFront

\* Adding a message slides the window, or extends it while there is room.
LEMMA AddEffect ==
    ASSUME IInv, Add
    PROVE  \E k \in 0 .. added :
             /\ queue' = Newest(added', k + 1)
             /\ Len(queue') = k + 1
             /\ k = IF Overflow /\ queue # <<>> THEN Len(queue) - 1 ELSE Len(queue)
<1>1. added \in Nat /\ Len(queue) \in 0 .. added /\ queue = Newest(added, Len(queue))
  BY MaxAddsAssumption DEF IInv, TypeOK, Counters, QueueIsNewest
<1> DEFINE k == IF Overflow /\ queue # <<>> THEN Len(queue) - 1 ELSE Len(queue)
<1>2. queue # <<>> => Len(queue) \in 1 .. added
  BY <1>1 DEF IInv, TypeOK
<1>3. k \in 0 .. added
  BY <1>1, <1>2
<1>4. Kept = Newest(added, k)
  BY <1>1, <1>2, NewestTail DEF Kept
<1>5. queue' = Newest(added', k + 1)
  <2> HIDE DEF k
  <2> QED BY <1>1, <1>3, <1>4, NewestAppend DEF Add
<1>6. Len(queue') = k + 1
  <2>1. added' \in Nat /\ k + 1 \in 0 .. added'
    BY <1>1, <1>3 DEF Add
  <2> HIDE DEF k
  <2> QED BY <2>1, <1>5, NewestIsSeq
<1> QED BY <1>3, <1>5, <1>6

\* The consumers on their way to the queue are finitely many.
LEMMA AwakeFinite ==
    /\ IsFiniteSet(Awake)
    /\ Cardinality(Awake) \in Nat
BY ConsumersAssumption, FS_Subset, FS_CardinalityType DEF Awake

\* A parked consumer that gets up is one more on its way.
LEMMA GetUp ==
    ASSUME TypeOK, NEW c \in Parked, NEW s \in {"woken", "expired"},
           waiter' = [waiter EXCEPT ![c] = s]
    PROVE  /\ waiter' \in [Consumers -> WaiterStates]
           /\ Parked' \subseteq Parked
           /\ Cardinality(Awake') = Cardinality(Awake) + 1
<1>1. waiter' \in [Consumers -> WaiterStates] /\ Parked' \subseteq Parked
  BY DEF TypeOK, Parked, WaiterStates
<1>2. Awake' = Awake \cup {c} /\ c \notin Awake
  BY DEF TypeOK, Parked, Awake
<1> QED BY <1>1, <1>2, AwakeFinite, FS_AddElement

-----------------------------------------------------------------------------
(* The invariant is inductive.                                             *)

LEMMA InitIInv == Init => IInv
<1> SUFFICES ASSUME Init PROVE IInv
  OBVIOUS
<1>1. Len(queue) = 0 /\ queue = <<>>
  BY DEF Init
<1>2. QueueIsNewest
  BY <1>1 DEF Init, QueueIsNewest, Newest
<1>3. TypeOK
  BY <1>1, MaxAddsAssumption DEF Init, TypeOK, WaiterStates
<1>4. Counters /\ Accounting /\ Bounded
  BY <1>1, MaxSizeAssumption DEF Init, Counters, Accounting, Bounded
<1>5. NoLostWakeup
  BY <1>1, AwakeFinite DEF NoLostWakeup
<1> QED BY <1>2, <1>3, <1>4, <1>5 DEF IInv

\* add keeps the window, the accounts and the promise to parked consumers:
\* the one message it adds is matched by the one consumer it notifies.
LEMMA AddIInv ==
    ASSUME IInv, Add
    PROVE  IInv'
<1>1. PICK k \in 0 .. added :
        /\ queue' = Newest(added', k + 1)
        /\ Len(queue') = k + 1
        /\ k = IF Overflow /\ queue # <<>> THEN Len(queue) - 1 ELSE Len(queue)
  BY AddEffect
<1>2. /\ added \in Nat /\ added < MaxAdds /\ added' = added + 1
      /\ Len(queue) \in 0 .. added
      /\ queue = <<>> <=> Len(queue) = 0
      /\ taken' = taken /\ last' = last
      /\ dropped_count' = IF Overflow THEN dropped_count + 1 ELSE dropped_count
  BY MaxAddsAssumption DEF IInv, TypeOK, Counters, Add
<1>3. QueueIsNewest'
  BY <1>1 DEF QueueIsNewest
<1>4. /\ waiter' \in [Consumers -> WaiterStates]
      /\ NoLostWakeup'
  <2>1. CASE Parked = {} /\ UNCHANGED waiter
    BY <2>1 DEF IInv, TypeOK, NoLostWakeup, Parked
  <2>2. CASE \E c \in Parked : waiter' = [waiter EXCEPT ![c] = "woken"]
    <3>1. /\ waiter' \in [Consumers -> WaiterStates]
          /\ Parked' \subseteq Parked /\ Parked # {}
          /\ Cardinality(Awake') = Cardinality(Awake) + 1
      BY <2>2, GetUp DEF IInv
    <3>2. Len(queue) <= Cardinality(Awake)
      BY <3>1 DEF IInv, NoLostWakeup
    <3>3. Len(queue') <= Cardinality(Awake')
      BY <1>1, <1>2, <3>1, <3>2, AwakeFinite
    <3> QED BY <3>1, <3>3 DEF NoLostWakeup
  <2> QED BY <2>1, <2>2 DEF Add, NotifyOne
<1>5. TypeOK'
  <2>1. queue' \in Seq(1 .. MaxAdds)
    <3> DEFINE n == added'
               m == k + 1
    <3>0. n \in Nat /\ m \in 0 .. n /\ queue' = Newest(n, m)
      BY <1>1, <1>2
    <3>1. queue' \in Seq(1 .. n)
      <4> HIDE DEF n, m
      <4> QED BY <3>0, NewestIsSeq
    <3>2. 1 .. added' \subseteq 1 .. MaxAdds
      BY <1>2, MaxAddsAssumption
    <3> QED BY <3>1, <3>2, SeqMonotonic
  <2>2. dropped_count' \in 0 .. MaxAdds
    BY <1>2, MaxAddsAssumption DEF IInv, TypeOK, Counters
  <2>3. /\ added' \in 0 .. MaxAdds
        /\ taken' \in 0 .. MaxAdds
        /\ last' \in 0 .. MaxAdds
    BY <1>2, MaxAddsAssumption DEF IInv, TypeOK
  <2> QED BY <1>4, <2>1, <2>2, <2>3 DEF TypeOK
<1>6. Counters'
  BY <1>1, <1>2 DEF IInv, TypeOK, Counters
<1>7. Accounting'
  BY <1>1, <1>2, MaxSizeAssumption DEF IInv, TypeOK, Accounting, Overflow
<1>8. Bounded'
  BY <1>1, <1>2, MaxSizeAssumption DEF IInv, Bounded, Overflow
<1> QED BY <1>3, <1>4, <1>5, <1>6, <1>7, <1>8 DEF IInv

\* A message handed over, by whichever operation, keeps everything but what
\* that operation does to the consumers.
LEMMA PopFrontIInv ==
    ASSUME IInv, PopFront, UNCHANGED <<dropped_count, added>>,
           waiter' \in [Consumers -> WaiterStates], NoLostWakeup'
    PROVE  IInv'
<1>1. /\ Len(queue) \in 1 .. added
      /\ queue' = Newest(added, Len(queue) - 1)
      /\ Len(queue') = Len(queue) - 1
      /\ last' = added - Len(queue) + 1
      /\ taken' = taken + 1
  BY PopFrontEffect
<1>2. added \in 0 .. MaxAdds /\ MaxAdds \in Nat
  BY MaxAddsAssumption DEF IInv, TypeOK
<1>3. QueueIsNewest'
  BY <1>1 DEF QueueIsNewest
<1>4. Counters'
  BY <1>1, <1>2 DEF IInv, TypeOK, Counters
<1>5. TypeOK'
  <2>1. queue' \in Seq(1 .. MaxAdds)
    BY DEF IInv, TypeOK, PopFront
  <2>2. taken' \in 0 .. MaxAdds /\ last' \in 0 .. MaxAdds
    BY <1>1, <1>2, <1>4 DEF IInv, TypeOK, Counters
  <2> QED BY <2>1, <2>2 DEF IInv, TypeOK
<1>6. Accounting' /\ Bounded'
  BY <1>1, <1>2, MaxSizeAssumption DEF IInv, TypeOK, Accounting, Bounded
<1> QED BY <1>3, <1>4, <1>5, <1>6 DEF IInv

\* So does a step that only moves consumers between their places in wait.
LEMMA WaiterIInv ==
    ASSUME IInv, UNCHANGED <<queue, dropped_count, added, taken, last>>,
           waiter' \in [Consumers -> WaiterStates], NoLostWakeup'
    PROVE  IInv'
BY DEF IInv, TypeOK, QueueIsNewest, Counters, Accounting, Bounded

LEMMA NextIInv == IInv /\ [Next]_vars => IInv'
<1> SUFFICES ASSUME IInv, [Next]_vars PROVE IInv'
  OBVIOUS
<1> USE DEF PopNothing
<1>0. /\ TypeOK /\ NoLostWakeup
      /\ Len(queue) \in Nat
      /\ queue = <<>> => Len(queue) = 0
  BY DEF IInv, TypeOK
<1>1. CASE Add
  BY <1>1, AddIInv
<1>2. ASSUME NEW c \in Consumers, Get(c) PROVE IInv'
  <2>1. CASE PopFront
    <3>1. Len(queue') <= Len(queue) /\ Len(queue') \in Nat
      BY <1>2, <2>1, PopFrontEffect, <1>0 DEF Get
    <3>2. NoLostWakeup'
      BY <1>0, <1>2, <3>1, AwakeFinite DEF Get, NoLostWakeup, Parked, Awake
    <3> QED BY <1>0, <1>2, <2>1, <3>2, PopFrontIInv DEF Get, TypeOK
  <2>2. CASE PopNothing
    <3>1. NoLostWakeup'
      BY <1>0, <1>2, <2>2 DEF Get, NoLostWakeup, Parked, Awake
    <3> QED BY <1>0, <1>2, <2>2, <3>1, WaiterIInv DEF Get, TypeOK
  <2> QED BY <1>2, <2>1, <2>2 DEF Get
<1>3. ASSUME NEW c \in Consumers, Wait(c) PROVE IInv'
  <2>1. CASE PopFront /\ UNCHANGED waiter
    <3>1. Len(queue') <= Len(queue) /\ Len(queue') \in Nat
      BY <1>3, <2>1, PopFrontEffect, <1>0 DEF Wait
    <3>2. NoLostWakeup'
      BY <1>0, <2>1, <3>1, AwakeFinite DEF NoLostWakeup, Parked, Awake
    <3> QED BY <1>0, <1>3, <2>1, <3>2, PopFrontIInv DEF Wait, TypeOK
  <2>2. CASE /\ queue = <<>>
             /\ waiter' = [waiter EXCEPT ![c] = "parked"]
             /\ UNCHANGED <<queue, last, taken>>
    <3>1. waiter' \in [Consumers -> WaiterStates]
      BY <1>0, <2>2 DEF TypeOK, WaiterStates
    <3>2. Cardinality(Awake') \in Nat
      BY ConsumersAssumption, FS_Subset, FS_CardinalityType DEF Awake
    <3>3. NoLostWakeup'
      BY <1>0, <2>2, <3>2 DEF NoLostWakeup
    <3> QED BY <1>3, <2>2, <3>1, <3>3, WaiterIInv DEF Wait
  <2> QED BY <1>3, <2>1, <2>2 DEF Wait
<1>4. ASSUME NEW c \in Consumers, Timeout(c) PROVE IInv'
  <2>1. /\ waiter' \in [Consumers -> WaiterStates]
        /\ Parked' \subseteq Parked
        /\ Cardinality(Awake') = Cardinality(Awake) + 1
    BY <1>0, <1>4, GetUp DEF Timeout, Parked
  <2>2. NoLostWakeup'
    BY <1>0, <1>4, <2>1, AwakeFinite DEF Timeout, NoLostWakeup
  <2> QED BY <1>4, <2>1, <2>2, WaiterIInv DEF Timeout
<1>5. ASSUME NEW c \in Consumers, Spurious(c) PROVE IInv'
  <2>1. /\ waiter' \in [Consumers -> WaiterStates]
        /\ Parked' \subseteq Parked
        /\ Cardinality(Awake') = Cardinality(Awake) + 1
    BY <1>0, <1>5, GetUp DEF Spurious, Parked
  <2>2. NoLostWakeup'
    BY <1>0, <1>5, <2>1, AwakeFinite DEF Spurious, NoLostWakeup
  <2> QED BY <1>5, <2>1, <2>2, WaiterIInv DEF Spurious
<1>6. ASSUME NEW c \in Consumers, Resume(c) PROVE IInv'
  <2>1. waiter' \in [Consumers -> WaiterStates]
    BY <1>0, <1>6 DEF Resume, TypeOK, WaiterStates
  <2>2. /\ Parked' = Parked
        /\ Awake' = Awake \ {c} /\ c \in Awake
    BY <1>0, <1>6 DEF Resume, TypeOK, Parked, Awake
  <2>3. /\ Cardinality(Awake') = Cardinality(Awake) - 1
        /\ Cardinality(Awake') \in Nat
    BY <2>2, AwakeFinite, FS_RemoveElement, FS_CardinalityType
  <2>4. CASE PopFront
    <3>1. Len(queue') = Len(queue) - 1
      BY <1>6, <2>4, PopFrontEffect DEF Resume
    <3>2. NoLostWakeup'
      BY <1>0, <2>2, <2>3, <3>1, AwakeFinite DEF NoLostWakeup
    <3> QED BY <1>6, <2>1, <2>4, <3>2, PopFrontIInv DEF Resume
  <2>5. CASE PopNothing
    <3>1. NoLostWakeup'
      BY <1>0, <2>3, <2>5 DEF NoLostWakeup
    <3> QED BY <1>6, <2>1, <2>5, <3>1, WaiterIInv DEF Resume
  <2> QED BY <1>6, <2>4, <2>5 DEF Resume
<1>7. CASE UNCHANGED vars
  BY <1>7 DEF vars, IInv, TypeOK, QueueIsNewest, Counters, Accounting, Bounded,
              NoLostWakeup, Parked, Awake
<1> QED BY <1>1, <1>2, <1>3, <1>4, <1>5, <1>6, <1>7 DEF Next

-----------------------------------------------------------------------------
(* Theorems about every execution.                                         *)

\* The invariant holds throughout.
THEOREM Invariant == Spec => []IInv
BY InitIInv, NextIInv, PTL DEF Spec

\* The queue's variables keep their types: in particular dropped_count never
\* exceeds the number of messages added.
THEOREM TypeCorrect == Spec => []TypeOK
<1>1. IInv => TypeOK
  BY DEF IInv
<1> QED BY <1>1, Invariant, PTL

\* "Drops the oldest if the FIFO is full": the queue always holds exactly the
\* newest messages, in order and without a gap.
THEOREM HoldsNewest == Spec => []QueueIsNewest
<1>1. IInv => QueueIsNewest
  BY DEF IInv
<1> QED BY <1>1, Invariant, PTL

\* dropped_count() is exactly the number of messages no consumer can see.
THEOREM DropsAccounted == Spec => []Accounting
<1>1. IInv => Accounting
  BY DEF IInv
<1> QED BY <1>1, Invariant, PTL

\* The queue never outgrows its capacity, or 1 if that is 0.
THEOREM StaysBounded == Spec => []Bounded
<1>1. IInv => Bounded
  BY DEF IInv
<1> QED BY <1>1, Invariant, PTL

\* A consumer stays parked only while every message held has a consumer on its
\* way to it, for any number of consumers.
THEOREM WakeupsNotLost == Spec => []NoLostWakeup
<1>1. IInv => NoLostWakeup
  BY DEF IInv
<1> QED BY <1>1, Invariant, PTL

\* Consumers together see the messages in order, each at most once.
THEOREM InOrder == Spec => DeliveryInOrder
<1>1. ASSUME IInv, [Next]_vars
      PROVE  taken' # taken => last < last'
  <2>1. CASE PopFront /\ UNCHANGED added
    BY <1>1, <2>1, PopFrontEffect DEF IInv, TypeOK, Counters
  <2>2. CASE taken' = taken
    BY <2>2
  <2> QED BY <1>1, <2>1, <2>2
          DEF Next, Add, Get, Wait, Timeout, Spurious, Resume, PopNothing, vars
<1> QED BY <1>1, Invariant, PTL DEF Spec, DeliveryInOrder

\* A queue of capacity at least 1 implements the lossy channel of DropOldest.
THEOREM Refinement ==
    ASSUME MaxSize > 0
    PROVE  Spec => DropsOldest
<1>1. Init => Window!Empty
  <2> SUFFICES ASSUME Init PROVE Window!Empty
    OBVIOUS
  <2>1. /\ Len(queue) \in Int /\ Len(queue) = 0
        /\ added \in Int /\ added = 0 /\ dropped_count = 0 /\ last = 0
    BY DEF Init
  <2>2. added - Len(queue) = 0
    BY <2>1
  <2> QED BY <2>1, <2>2 DEF Window!Empty
<1>2. ASSUME IInv, [Next]_vars
      PROVE  [Window!Arrive \/ Window!Read]_(Window!channel)
  <2> USE <1>2 DEF Window!channel
  <2>1. CASE Add
    <3>1. PICK k \in 0 .. added :
            /\ queue' = Newest(added', k + 1)
            /\ Len(queue') = k + 1
            /\ k = IF Overflow /\ queue # <<>> THEN Len(queue) - 1 ELSE Len(queue)
      BY <2>1, AddEffect
    <3>2. /\ added \in Nat /\ added' = added + 1
          /\ Len(queue) \in 0 .. MaxSize
          /\ queue = <<>> => Len(queue) = 0
          /\ last' = last
      BY <2>1, MaxSizeAssumption, MaxAddsAssumption DEF IInv, TypeOK, Bounded, Add
    <3>3. CASE Overflow
      BY <2>1, <3>1, <3>2, <3>3, MaxSizeAssumption DEF Window!Arrive, Overflow, Add
    <3>4. CASE ~Overflow
      BY <2>1, <3>1, <3>2, <3>4, MaxSizeAssumption DEF Window!Arrive, Overflow, Add
    <3> QED BY <3>3, <3>4
  <2>2. CASE PopFront /\ UNCHANGED <<dropped_count, added>>
    <3>1. /\ Len(queue) \in 1 .. added
          /\ Len(queue') = Len(queue) - 1
          /\ last' = added - Len(queue) + 1
      BY <2>2, PopFrontEffect
    <3>2. added \in Nat
      BY MaxAddsAssumption DEF IInv, TypeOK
    <3> QED BY <2>2, <3>1, <3>2 DEF Window!Read
  <2>3. CASE UNCHANGED <<queue, dropped_count, added, last>>
    BY <2>3
  <2> QED BY <2>1, <2>2, <2>3
          DEF Next, Get, Wait, Timeout, Spurious, Resume, PopNothing, vars
<1> QED BY <1>1, <1>2, Invariant, PTL DEF Spec, DropsOldest, Window!Channel

-----------------------------------------------------------------------------
(* LimitedHashMap.                                                         *)

-----------------------------------------------------------------------------
(* Sequences without duplicates.                                           *)

\* Such a sequence has as many elements as it is long.
LEMMA ListedCardinality ==
    ASSUME NEW S, NEW s \in Seq(S), NoDuplicates(s)
    PROVE  /\ IsFiniteSet(Listed(s))
           /\ Cardinality(Listed(s)) = Len(s)
<1>1. s \in [1 .. Len(s) -> Listed(s)] /\ Len(s) \in Nat
  <2>1. s \in [1 .. Len(s) -> S] /\ Len(s) \in Nat
    BY LenProperties
  <2> QED BY <2>1 DEF Listed
<1>2. \A t \in Listed(s) : \E i \in 1 .. Len(s) : s[i] = t
  BY DEF Listed
<1>3. s \in Bijection(1 .. Len(s), Listed(s))
  BY <1>1, <1>2, Fun_IsBij DEF NoDuplicates
<1>4. ExistsBijection(1 .. Len(s), Listed(s))
  BY <1>3 DEF ExistsBijection
<1> QED BY <1>1, <1>4, FS_CountingElements, FS_NatBijection

\* Appending a new element keeps the sequence free of duplicates.
LEMMA AppendNew ==
    ASSUME NEW S, NEW s \in Seq(S), NoDuplicates(s), NEW e \in S, e \notin Listed(s)
    PROVE  /\ Append(s, e) \in Seq(S)
           /\ Len(Append(s, e)) = Len(s) + 1
           /\ NoDuplicates(Append(s, e))
           /\ Listed(Append(s, e)) = Listed(s) \cup {e}
<1> DEFINE t == Append(s, e)
<1>1. /\ t \in Seq(S) /\ Len(t) = Len(s) + 1 /\ Len(s) \in Nat
      /\ \A i \in 1 .. Len(s) : t[i] = s[i]
      /\ t[Len(s) + 1] = e
  OBVIOUS
<1> HIDE DEF t
<1>2. NoDuplicates(t)
  BY <1>1 DEF NoDuplicates, Listed
<1>3. Listed(t) = Listed(s) \cup {e}
  BY <1>1 DEF Listed
<1> QED BY <1>1, <1>2, <1>3 DEF t

\* Dropping elements from the front keeps it so, and takes exactly those out.
LEMMA DropFront ==
    ASSUME NEW S, NEW s \in Seq(S), NoDuplicates(s), NEW n \in 0 .. Len(s)
    PROVE  /\ SubSeq(s, n + 1, Len(s)) \in Seq(S)
           /\ Len(SubSeq(s, n + 1, Len(s))) = Len(s) - n
           /\ NoDuplicates(SubSeq(s, n + 1, Len(s)))
           /\ Listed(SubSeq(s, n + 1, Len(s))) = Listed(s) \ {s[i] : i \in 1 .. n}
<1> DEFINE t == SubSeq(s, n + 1, Len(s))
<1>0. Len(s) \in Nat /\ n \in Nat /\ \A i \in 1 .. Len(s) : s[i] \in S
  BY LenProperties, ElementOfSeq
<1>1. /\ t \in Seq(S)
      /\ Len(t) = Len(s) - n
      /\ \A i \in 1 .. Len(s) - n : t[i] = s[i + n]
  BY <1>0, SubSeqProperties
<1> HIDE DEF t
<1>2. NoDuplicates(t)
  <2>1. ASSUME NEW i \in 1 .. Len(t), NEW j \in 1 .. Len(t), t[i] = t[j] PROVE i = j
    <3>1. i + n \in 1 .. Len(s) /\ j + n \in 1 .. Len(s)
      BY <1>0, <1>1
    <3>2. s[i + n] = s[j + n]
      BY <1>1, <2>1
    <3>3. i + n = j + n
      BY <3>1, <3>2 DEF NoDuplicates
    <3> QED BY <1>0, <1>1, <3>3
  <2> QED BY <2>1 DEF NoDuplicates
<1>3. Listed(t) = Listed(s) \ {s[i] : i \in 1 .. n}
  <2>1. ASSUME NEW x \in Listed(t) PROVE x \in Listed(s) \ {s[i] : i \in 1 .. n}
    <3>1. PICK i \in 1 .. Len(s) - n : x = s[i + n]
      BY <1>1, <2>1 DEF Listed
    <3>2. i + n \in 1 .. Len(s) /\ \A j \in 1 .. n : j # i + n /\ j \in 1 .. Len(s)
      BY <1>0
    <3> QED BY <3>1, <3>2 DEF Listed, NoDuplicates
  <2>2. ASSUME NEW x \in Listed(s) \ {s[i] : i \in 1 .. n} PROVE x \in Listed(t)
    <3>1. PICK i \in 1 .. Len(s) : x = s[i]
      BY <2>2 DEF Listed
    <3>2. i \notin 1 .. n
      BY <2>2, <3>1
    <3>3. i - n \in 1 .. Len(t) /\ t[i - n] = s[i]
      BY <1>0, <1>1, <3>2
    <3> QED BY <3>1, <3>3 DEF Listed
  <2> QED BY <2>1, <2>2
<1> QED BY <1>1, <1>2, <1>3 DEF t

\* Forgetting a key takes exactly that key out.
LEMMA ForgetKey ==
    ASSUME NEW S, NEW s \in Seq(S), NoDuplicates(s), NEW e
    PROVE  /\ Forget(s, e) \in Seq(S)
           /\ NoDuplicates(Forget(s, e))
           /\ Listed(Forget(s, e)) = Listed(s) \ {e}
           /\ Len(Forget(s, e)) <= Len(s)
<1>0. Len(s) \in Nat /\ \A i \in 1 .. Len(s) : s[i] \in S
  BY LenProperties, ElementOfSeq
<1>1. CASE ~Occurs(s, e)
  BY <1>0, <1>1 DEF Forget, Occurs, Listed
<1>2. CASE Occurs(s, e)
  <2> DEFINE p == CHOOSE i \in 1 .. Len(s) : s[i] = e
             t == Forget(s, e)
  <2>1. p \in 1 .. Len(s) /\ s[p] = e
    BY <1>2 DEF Occurs
  <2>2. t = [i \in 1 .. Len(s) - 1 |-> IF i < p THEN s[i] ELSE s[i + 1]]
    BY <1>2 DEF Forget
  <2> HIDE DEF p, t
  <2>3. \A i \in 1 .. Len(s) - 1 : t[i] = IF i < p THEN s[i] ELSE s[i + 1]
    BY <2>2
  <2>4. t \in Seq(S) /\ Len(t) = Len(s) - 1
    <3>1. t \in [1 .. Len(s) - 1 -> S]
      BY <1>0, <2>2
    <3>2. Len(s) - 1 \in Nat
      BY <1>0, <2>1
    <3> QED BY <3>1, <3>2
  <2>5. NoDuplicates(t)
    BY <1>0, <2>1, <2>3, <2>4 DEF NoDuplicates
  <2>6. ASSUME NEW x \in Listed(t) PROVE x \in Listed(s) \ {e}
    <3>1. PICK i \in 1 .. Len(s) - 1 : x = t[i]
      BY <2>4 DEF Listed
    <3>2. PICK j \in 1 .. Len(s) : x = s[j] /\ j # p
      BY <1>0, <2>1, <2>3, <3>1
    <3> QED BY <2>1, <3>2 DEF Listed, NoDuplicates
  <2>7. ASSUME NEW x \in Listed(s) \ {e} PROVE x \in Listed(t)
    <3>1. PICK j \in 1 .. Len(s) : x = s[j] /\ j # p
      BY <2>1, <2>7 DEF Listed
    <3>2. CASE j < p
      <4>1. j \in 1 .. Len(t) /\ t[j] = x
        BY <1>0, <2>1, <2>3, <2>4, <3>1, <3>2
      <4> QED BY <4>1 DEF Listed
    <3>3. CASE j > p
      <4>1. j - 1 \in 1 .. Len(t) /\ t[j - 1] = x
        BY <1>0, <2>1, <2>3, <2>4, <3>1, <3>3
      <4> QED BY <4>1 DEF Listed
    <3> QED BY <1>0, <2>1, <3>1, <3>2, <3>3
  <2> QED BY <1>0, <2>4, <2>5, <2>6, <2>7 DEF t
<1> QED BY <1>1, <1>2

LEMMA WholeSequence ==
    ASSUME NEW S, NEW s \in Seq(S)
    PROVE  SubSeq(s, 1, Len(s)) = s
<1> DEFINE t == SubSeq(s, 1, Len(s))
<1>1. Len(s) \in Nat /\ \A i \in 1 .. Len(s) : s[i] \in S
  BY LenProperties, ElementOfSeq
<1>2. t \in Seq(S) /\ Len(t) = Len(s) /\ \A i \in 1 .. Len(s) : t[i] = s[i]
  BY <1>1, SubSeqProperties
<1> HIDE DEF t
<1>3. t = s
  BY <1>2, SeqEqual
<1> QED BY <1>3 DEF t

\* Without its head, a sequence is what DropFront says for one element.
LEMMA DropHead ==
    ASSUME NEW S, NEW s \in Seq(S), NoDuplicates(s), Len(s) > 0
    PROVE  /\ Tail(s) \in Seq(S)
           /\ Len(Tail(s)) = Len(s) - 1
           /\ NoDuplicates(Tail(s))
           /\ Listed(Tail(s)) = Listed(s) \ {Head(s)}
<1>1. Len(s) \in Nat /\ 1 \in 0 .. Len(s)
  BY LenProperties
<1>2. Tail(s) = SubSeq(s, 1 + 1, Len(s)) /\ Head(s) = s[1]
  <2>1. s # <<>>
    BY <1>1
  <2>2. Tail(s) = SubSeq(s, 2, Len(s))
    BY <2>1, TailIsSubSeq
  <2> QED BY <1>1, <2>2
<1>3. {s[i] : i \in 1 .. 1} = {Head(s)}
  BY <1>2
<1>4. PICK n \in 0 .. Len(s) : n = 1
  BY <1>1
<1>5. /\ SubSeq(s, n + 1, Len(s)) \in Seq(S)
      /\ Len(SubSeq(s, n + 1, Len(s))) = Len(s) - n
      /\ NoDuplicates(SubSeq(s, n + 1, Len(s)))
      /\ Listed(SubSeq(s, n + 1, Len(s))) = Listed(s) \ {s[i] : i \in 1 .. n}
  BY DropFront
<1> QED BY <1>2, <1>3, <1>4, <1>5

-----------------------------------------------------------------------------
(* Each operation keeps the map, the order and the maximum together.       *)

\* A map whose parts agree.
Consistent(m) == m \in Maps /\ OrderMatchesKeys(m) /\ WithinMaxSize(m)

LEMMA HoldingInMaps ==
    ASSUME NEW S \in SUBSET Keys, NEW map \in [S -> Values], NEW order \in Seq(Keys),
           NEW n \in Nat, NEW allocated \in BOOLEAN
    PROVE  Holding(map, order, n, allocated) \in Maps
<1>1. map \in UNION {[T -> Values] : T \in SUBSET Keys}
  OBVIOUS
<1> QED BY <1>1 DEF Holding, Maps

\* The key refreshed is last in the order, and nothing else has gone.
LEMMA Refreshed ==
    ASSUME NEW m, Consistent(m), NEW k \in Keys
    PROVE  /\ Refresh(m, k) \in Seq(Keys)
           /\ NoDuplicates(Refresh(m, k))
           /\ Listed(Refresh(m, k)) = KeysOf(m) \cup {k}
           /\ Len(Refresh(m, k)) \in 1 .. Len(m.order) + 1
<1> DEFINE s == IF k \in KeysOf(m) THEN Forget(m.order, k) ELSE m.order
<1>1. m.order \in Seq(Keys) /\ NoDuplicates(m.order) /\ Listed(m.order) = KeysOf(m)
  BY DEF Consistent, Maps, OrderMatchesKeys
<1>2. /\ s \in Seq(Keys) /\ NoDuplicates(s)
      /\ Listed(s) = KeysOf(m) \ {k}
      /\ Len(s) <= Len(m.order)
  <2>1. CASE k \in KeysOf(m)
    BY <1>1, <2>1, ForgetKey
  <2>2. CASE k \notin KeysOf(m)
    <3>1. Len(m.order) \in Nat
      BY <1>1
    <3> QED BY <1>1, <2>2, <3>1
  <2> QED BY <2>1, <2>2
<1>3. Refresh(m, k) = Append(s, k)
  BY DEF Refresh
<1> HIDE DEF s
<1>4. Len(s) \in Nat /\ Len(m.order) \in Nat
  BY <1>1, <1>2
<1> QED BY <1>1, <1>2, <1>3, <1>4, AppendNew

\* What Insert leaves: the refreshed order, without its head when too long.
LEMMA Inserted ==
    ASSUME NEW m, Consistent(m), NEW k \in Keys, NEW v \in Values
    PROVE  /\ Consistent(Insert(m, k, v))
           /\ Insert(m, k, v).map =
                Without(With(m.map, k, v),
                        IF Len(Refresh(m, k)) > m.max_size THEN {Head(Refresh(m, k))} ELSE {})
           /\ Insert(m, k, v).order =
                IF Len(Refresh(m, k)) > m.max_size THEN Tail(Refresh(m, k)) ELSE Refresh(m, k)
<1> DEFINE map == With(m.map, k, v)
           order == Refresh(m, k)
           n == Insert(m, k, v)
<1>1. /\ m = [map |-> m.map, order |-> m.order, max_size |-> m.max_size,
              allocated |-> m.allocated]
      /\ m.max_size \in Nat /\ m.allocated \in BOOLEAN
      /\ m.map \in [KeysOf(m) -> Values] /\ KeysOf(m) \subseteq Keys
      /\ m.order \in Seq(Keys) /\ Len(m.order) \in Nat /\ Len(m.order) <= m.max_size
  BY LenProperties DEF Consistent, Maps, WithinMaxSize, KeysOf
<1>2. /\ order \in Seq(Keys) /\ NoDuplicates(order)
      /\ Listed(order) = KeysOf(m) \cup {k}
      /\ Len(order) \in 1 .. Len(m.order) + 1
  BY Refreshed
<1>3. map \in [KeysOf(m) \cup {k} -> Values]
  BY <1>1 DEF With, KeysOf
<1>4. Cardinality(DOMAIN map) = Len(order)
  BY <1>2, <1>3, ListedCardinality
<1>5. n = IF Len(order) > m.max_size
          THEN [map |-> Without(map, {Head(order)}), order |-> Tail(order),
                max_size |-> m.max_size, allocated |-> TRUE]
          ELSE [map |-> map, order |-> order, max_size |-> m.max_size, allocated |-> TRUE]
  BY <1>1, <1>4 DEF Insert, Holding
<1>6. map = Without(map, {})
  BY <1>3 DEF Without
<1> HIDE DEF map, order, n
<1>7. CASE Len(order) > m.max_size
  <2>1. /\ Tail(order) \in Seq(Keys) /\ NoDuplicates(Tail(order))
        /\ Listed(Tail(order)) = Listed(order) \ {Head(order)}
        /\ Len(Tail(order)) = Len(order) - 1
    BY <1>2, DropHead
  <2>2. Without(map, {Head(order)}) \in [Listed(Tail(order)) -> Values]
    BY <1>2, <1>3, <2>1 DEF Without
  <2>3. Listed(Tail(order)) \subseteq Keys
    BY <1>1, <1>2, <2>1
  <2>4. Len(Tail(order)) <= m.max_size
    BY <1>1, <1>2, <2>1
  <2>5. /\ n.map = Without(map, {Head(order)}) /\ n.order = Tail(order)
        /\ n.max_size = m.max_size
        /\ n = [map |-> n.map, order |-> n.order, max_size |-> m.max_size,
                allocated |-> TRUE]
    BY <1>5, <1>7
  <2>6. n \in Maps
    <3>1. Listed(Tail(order)) \in SUBSET Keys
      BY <2>3
    <3>2. Holding(n.map, n.order, m.max_size, TRUE) \in Maps
      BY <1>1, <2>1, <2>2, <2>5, <3>1, HoldingInMaps
    <3> QED BY <2>5, <3>2 DEF Holding
  <2>7. OrderMatchesKeys(n) /\ WithinMaxSize(n)
    BY <2>1, <2>2, <2>4, <2>5 DEF OrderMatchesKeys, WithinMaxSize, KeysOf
  <2> QED BY <1>7, <2>5, <2>6, <2>7 DEF Consistent, map, order, n
<1>8. CASE ~(Len(order) > m.max_size)
  <2>1. /\ n.map = map /\ n.order = order /\ n.max_size = m.max_size
        /\ n = [map |-> n.map, order |-> n.order, max_size |-> m.max_size,
                allocated |-> TRUE]
    BY <1>5, <1>8
  <2>2. n \in Maps
    <3> DEFINE S == KeysOf(m) \cup {k}
    <3>1. S \in SUBSET Keys
      BY <1>1
    <3>2. map \in [S -> Values] /\ order \in Seq(Keys) /\ m.max_size \in Nat
      BY <1>1, <1>2, <1>3
    <3> HIDE DEF S
    <3>3. Holding(map, order, m.max_size, TRUE) \in Maps
      BY <3>1, <3>2, HoldingInMaps
    <3> QED BY <2>1, <3>3 DEF Holding
  <2>3. OrderMatchesKeys(n) /\ WithinMaxSize(n)
    BY <1>1, <1>2, <1>3, <1>8, <2>1 DEF OrderMatchesKeys, WithinMaxSize, KeysOf
  <2> QED BY <1>6, <1>8, <2>1, <2>2, <2>3 DEF Consistent, map, order, n
<1> QED BY <1>7, <1>8

LEMMA Removed ==
    ASSUME NEW m, Consistent(m), NEW k \in Keys
    PROVE  /\ Consistent(Remove(m, k))
           /\ Remove(m, k).map = Without(m.map, {k})
           /\ Remove(m, k).order =
                IF k \in KeysOf(m) THEN Forget(m.order, k) ELSE m.order
<1> DEFINE n == Remove(m, k)
           order == IF k \in KeysOf(m) THEN Forget(m.order, k) ELSE m.order
<1>1. /\ m = [map |-> m.map, order |-> m.order, max_size |-> m.max_size,
              allocated |-> m.allocated]
      /\ m.max_size \in Nat /\ m.allocated \in BOOLEAN
      /\ m.map \in [KeysOf(m) -> Values] /\ KeysOf(m) \subseteq Keys
      /\ m.order \in Seq(Keys) /\ Len(m.order) \in Nat /\ Len(m.order) <= m.max_size
      /\ NoDuplicates(m.order) /\ Listed(m.order) = KeysOf(m)
  BY LenProperties DEF Consistent, Maps, WithinMaxSize, OrderMatchesKeys, KeysOf
<1>2. /\ order \in Seq(Keys) /\ NoDuplicates(order)
      /\ Listed(order) = KeysOf(m) \ {k}
      /\ Len(order) \in Nat /\ Len(order) <= Len(m.order)
  BY <1>1, ForgetKey, LenProperties
<1>3. Without(m.map, {k}) \in [KeysOf(m) \ {k} -> Values]
  BY <1>1 DEF Without, KeysOf
<1>4. n = [map |-> Without(m.map, {k}), order |-> order, max_size |-> m.max_size,
           allocated |-> m.allocated]
  BY <1>1 DEF Remove, Holding
<1> HIDE DEF order, n
<1>5. /\ n.map = Without(m.map, {k}) /\ n.order = order /\ n.max_size = m.max_size
  BY <1>4
<1>6. n \in Maps
  BY <1>1, <1>2, <1>3, <1>4 DEF Maps
<1>7. KeysOf(n) = KeysOf(m) \ {k}
  BY <1>3, <1>5 DEF KeysOf
<1>8. OrderMatchesKeys(n) /\ WithinMaxSize(n)
  BY <1>1, <1>2, <1>5, <1>7 DEF OrderMatchesKeys, WithinMaxSize
<1> QED BY <1>5, <1>6, <1>8 DEF Consistent, order, n

\* The number of entries set_max_size takes out.
Surplus(m, n) == IF Len(m.order) > n THEN Len(m.order) - n ELSE 0

LEMMA Resized ==
    ASSUME NEW m, Consistent(m), NEW n \in Nat
    PROVE  /\ Consistent(SetMaxSize(m, n))
           /\ Surplus(m, n) \in 0 .. Len(m.order)
           /\ SetMaxSize(m, n).map =
                Without(m.map, {m.order[i] : i \in 1 .. Surplus(m, n)})
           /\ SetMaxSize(m, n).order =
                SubSeq(m.order, Surplus(m, n) + 1, Len(m.order))
<1> DEFINE r == SetMaxSize(m, n)
           surplus == Surplus(m, n)
           map == Without(m.map, {m.order[i] : i \in 1 .. surplus})
           order == SubSeq(m.order, surplus + 1, Len(m.order))
<1>1. /\ m = [map |-> m.map, order |-> m.order, max_size |-> m.max_size,
              allocated |-> m.allocated]
      /\ m.max_size \in Nat /\ m.allocated \in BOOLEAN
      /\ m.map \in [KeysOf(m) -> Values] /\ KeysOf(m) \subseteq Keys
      /\ m.order \in Seq(Keys) /\ Len(m.order) \in Nat /\ Len(m.order) <= m.max_size
      /\ NoDuplicates(m.order) /\ Listed(m.order) = KeysOf(m)
  BY LenProperties DEF Consistent, Maps, WithinMaxSize, OrderMatchesKeys, KeysOf
<1>2. Cardinality(KeysOf(m)) = Len(m.order)
  BY <1>1, ListedCardinality
<1>3. surplus \in 0 .. Len(m.order) /\ Len(m.order) - surplus <= n
  BY <1>1 DEF Surplus
<1> HIDE DEF surplus
<1>4. /\ order \in Seq(Keys) /\ NoDuplicates(order) /\ Len(order) = Len(m.order) - surplus
      /\ Listed(order) = KeysOf(m) \ {m.order[i] : i \in 1 .. surplus}
  BY <1>1, <1>3, DropFront
<1>5. map \in [Listed(order) -> Values]
  BY <1>1, <1>4 DEF Without, KeysOf
<1>6. r = [map |-> map, order |-> order, max_size |-> n, allocated |-> m.allocated]
  <2>1. CASE Len(m.order) > n
    <3>1. surplus = Len(m.order) - n /\ surplus > 0
      BY <1>1, <2>1 DEF Surplus, surplus
    <3> QED BY <1>1, <1>2, <3>1 DEF SetMaxSize, Holding
  <2>2. CASE ~(Len(m.order) > n)
    <3>1. surplus = 0 /\ ~(Len(m.order) - n > 0)
      BY <1>1, <2>2 DEF Surplus, surplus
    <3>2. map = m.map
      <4>1. {m.order[i] : i \in 1 .. surplus} = {}
        BY <3>1
      <4>2. map = [k \in KeysOf(m) |-> m.map[k]]
        BY <4>1 DEF Without, KeysOf
      <4> QED BY <1>1, <4>2
    <3>3. order = m.order
      <4>1. order = SubSeq(m.order, 1, Len(m.order))
        BY <3>1
      <4> QED BY <1>1, <4>1, WholeSequence
    <3> HIDE DEF map, order
    <3> QED BY <1>1, <1>2, <3>1, <3>2, <3>3 DEF SetMaxSize, Holding
  <2> QED BY <2>1, <2>2
<1> HIDE DEF map, order, r
<1>7. r.map = map /\ r.order = order /\ r.max_size = n
  BY <1>6
<1>8. r \in Maps
  BY <1>1, <1>4, <1>5, <1>6 DEF Maps
<1>9. OrderMatchesKeys(r) /\ WithinMaxSize(r)
  BY <1>3, <1>4, <1>5, <1>7 DEF OrderMatchesKeys, WithinMaxSize, KeysOf
<1> QED BY <1>3, <1>7, <1>8, <1>9 DEF Consistent, map, order, r, surplus

-----------------------------------------------------------------------------
(* The order against the history of the updates.                           *)

\* Listed from the one updated longest ago to the latest.
Ascending(s, u) == \A i, j \in 1 .. Len(s) : i < j => u[s[i]] < u[s[j]]

LEMMA ForgetAscending ==
    ASSUME NEW S, NEW s \in Seq(S), NoDuplicates(s), NEW u, Ascending(s, u), NEW e
    PROVE  Ascending(Forget(s, e), u)
<1>0. Len(s) \in Nat
  BY LenProperties
<1>1. CASE ~Occurs(s, e)
  BY <1>1 DEF Forget
<1>2. CASE Occurs(s, e)
  <2> DEFINE p == CHOOSE i \in 1 .. Len(s) : s[i] = e
             t == Forget(s, e)
  <2>1. p \in 1 .. Len(s)
    BY <1>2 DEF Occurs
  <2>2. t = [i \in 1 .. Len(s) - 1 |-> IF i < p THEN s[i] ELSE s[i + 1]]
    BY <1>2 DEF Forget
  <2>3. Forget(s, e) \in Seq(S)
    BY ForgetKey
  <2> HIDE DEF p
  <2>4. Len(t) = Len(s) - 1
    <3>1. DOMAIN t = 1 .. Len(t) /\ Len(t) \in Nat
      BY <2>3, LenProperties
    <3>2. DOMAIN t = 1 .. Len(s) - 1 /\ Len(s) - 1 \in Nat
      BY <1>0, <2>1, <2>2
    <3> HIDE DEF t
    <3> QED BY <3>1, <3>2
  <2> HIDE DEF t
  <2>5. ASSUME NEW i \in 1 .. Len(t), NEW j \in 1 .. Len(t), i < j
        PROVE  u[t[i]] < u[t[j]]
    <3> DEFINE a == IF i < p THEN i ELSE i + 1
               b == IF j < p THEN j ELSE j + 1
    <3>1. a \in 1 .. Len(s) /\ b \in 1 .. Len(s) /\ a < b
      BY <1>0, <2>1, <2>4, <2>5
    <3>2. t[i] = s[a] /\ t[j] = s[b]
      BY <2>2, <2>4
    <3> QED BY <3>1, <3>2 DEF Ascending
  <2> QED BY <2>5 DEF Ascending, t
<1> QED BY <1>1, <1>2

LEMMA DropAscending ==
    ASSUME NEW S, NEW s \in Seq(S), NEW n \in 0 .. Len(s), NEW u, Ascending(s, u)
    PROVE  Ascending(SubSeq(s, n + 1, Len(s)), u)
<1> DEFINE t == SubSeq(s, n + 1, Len(s))
<1>1. Len(s) \in Nat /\ n \in Nat /\ \A i \in 1 .. Len(s) : s[i] \in S
  BY LenProperties, ElementOfSeq
<1>2. /\ Len(t) = Len(s) - n
      /\ \A i \in 1 .. Len(s) - n : t[i] = s[i + n]
  BY <1>1, SubSeqProperties
<1> HIDE DEF t
<1>3. ASSUME NEW i \in 1 .. Len(t), NEW j \in 1 .. Len(t), i < j
      PROVE  u[t[i]] < u[t[j]]
  <2>1. i + n \in 1 .. Len(s) /\ j + n \in 1 .. Len(s) /\ i + n < j + n
    BY <1>1, <1>2, <1>3
  <2>2. u[s[i + n]] < u[s[j + n]]
    BY <2>1 DEF Ascending
  <2>3. t[i] = s[i + n] /\ t[j] = s[j + n]
    BY <1>2, <1>3
  <2> QED BY <2>2, <2>3
<1> QED BY <1>3 DEF Ascending, t

\* A later update appended keeps it so.
LEMMA AppendAscending ==
    ASSUME NEW S, NEW s \in Seq(S), NEW u, Ascending(s, u), NEW e \in S, NEW w,
           \A x \in Listed(s) : w[x] = u[x] /\ w[x] < w[e]
    PROVE  Ascending(Append(s, e), w)
<1> DEFINE t == Append(s, e)
<1>1. /\ Len(t) = Len(s) + 1 /\ Len(s) \in Nat
      /\ \A i \in 1 .. Len(s) : t[i] = s[i]
      /\ t[Len(s) + 1] = e
  OBVIOUS
<1> HIDE DEF t
<1>2. ASSUME NEW i \in 1 .. Len(t), NEW j \in 1 .. Len(t), i < j
      PROVE  w[t[i]] < w[t[j]]
  <2>1. i \in 1 .. Len(s) /\ t[i] = s[i] /\ s[i] \in Listed(s)
    BY <1>1, <1>2 DEF Listed
  <2>2. CASE j = Len(s) + 1
    BY <1>1, <2>1, <2>2
  <2>3. CASE j # Len(s) + 1
    <3>1. j \in 1 .. Len(s) /\ t[j] = s[j] /\ s[j] \in Listed(s)
      BY <1>1, <2>3 DEF Listed
    <3>2. u[s[i]] < u[s[j]]
      BY <1>2, <2>1, <3>1 DEF Ascending
    <3> QED BY <2>1, <3>1, <3>2
  <2> QED BY <2>2, <2>3
<1> QED BY <1>2 DEF Ascending, t

-----------------------------------------------------------------------------
(* The inductive invariant: no key was updated in the future, and the      *)
(* properties themselves, which need each other.                           *)

MapIInv ==
    /\ MapTypeOK
    /\ Consistent(lhm)
    /\ \A k \in Keys : updated[k] <= clock
    /\ OrderIsByUpdate
    /\ KeepsNewest

LEMMA MapInitInvariant == MapInit => MapIInv
<1> SUFFICES ASSUME MapInit PROVE MapIInv
  OBVIOUS
<1>1. PICK n \in Nat : \E a \in BOOLEAN : lhm = Holding(<<>>, <<>>, n, a)
  <2>1. PICK n \in MaxSizes : lhm = NewMap(n) \/ lhm = VoidMap
    BY DEF MapInit
  <2>2. n \in Nat /\ (n > 0) \in BOOLEAN
    BY MaxSizesAssumption
  <2> QED BY <2>1, <2>2 DEF NewMap, VoidMap
<1>2. PICK a \in BOOLEAN : lhm = Holding(<<>>, <<>>, n, a)
  BY <1>1
<1>3. <<>> \in [{} -> Values] /\ <<>> \in Seq(Keys) /\ Len(<<>>) = 0
  OBVIOUS
<1>4. lhm \in Maps
  BY <1>2, <1>3, HoldingInMaps
<1>5. lhm.map = <<>> /\ lhm.order = <<>> /\ lhm.max_size = n
  BY <1>2 DEF Holding
<1>6. KeysOf(lhm) = {} /\ Listed(lhm.order) = {} /\ NoDuplicates(lhm.order)
  BY <1>3, <1>5 DEF KeysOf, Listed, NoDuplicates
<1>7. Consistent(lhm)
  BY <1>3, <1>4, <1>5, <1>6 DEF Consistent, OrderMatchesKeys, WithinMaxSize
<1>8. MapTypeOK
  BY <1>4, KeysAssumption DEF MapInit, MapTypeOK
<1>9. OrderIsByUpdate /\ KeepsNewest
  BY <1>3, <1>5, <1>6 DEF OrderIsByUpdate, KeepsNewest
<1> QED BY <1>7, <1>8, <1>9 DEF MapInit, MapIInv

\* An insert: the refreshed order ascends, and losing its head, the least
\* recent, keeps the rest more recent than whatever is not in the map.
LEMMA InsertInvariant ==
    ASSUME MapIInv, NEW k \in Keys, NEW v \in Values, InsertKey(k, v)
    PROVE  MapIInv'
<1> DEFINE order == Refresh(lhm, k)
           base == IF k \in KeysOf(lhm) THEN Forget(lhm.order, k) ELSE lhm.order
           over == Len(order) > lhm.max_size
<1>1. /\ MapTypeOK /\ Consistent(lhm) /\ OrderIsByUpdate /\ KeepsNewest
      /\ \A x \in Keys : updated[x] \in Nat /\ updated[x] <= clock
      /\ clock \in Nat /\ clock + 1 \in 0 .. MaxUpdates
      /\ updated \in [Keys -> 0 .. MaxUpdates] /\ content \in [Keys -> Values]
  BY KeysAssumption DEF MapIInv, MapTypeOK, InsertKey
<1>2. /\ lhm.order \in Seq(Keys) /\ NoDuplicates(lhm.order)
      /\ Listed(lhm.order) = KeysOf(lhm) /\ KeysOf(lhm) \subseteq Keys
      /\ lhm.map \in [KeysOf(lhm) -> Values]
  <2>1. lhm \in Maps /\ OrderMatchesKeys(lhm)
    BY <1>1 DEF Consistent
  <2>2. /\ lhm.order \in Seq(Keys)
        /\ lhm.map \in UNION {[S -> Values] : S \in SUBSET Keys}
    BY <2>1 DEF Maps
  <2>3. KeysOf(lhm) \subseteq Keys /\ lhm.map \in [KeysOf(lhm) -> Values]
    BY <2>2 DEF KeysOf
  <2> QED BY <2>1, <2>2, <2>3 DEF OrderMatchesKeys
<1>3. /\ updated' = [updated EXCEPT ![k] = clock + 1] /\ clock' = clock + 1
      /\ content' = [content EXCEPT ![k] = v] /\ lhm' = Insert(lhm, k, v)
  BY DEF InsertKey
<1>4. \A x \in Keys : updated'[x] = IF x = k THEN clock + 1 ELSE updated[x]
  BY <1>1, <1>3
<1>5. /\ order \in Seq(Keys) /\ NoDuplicates(order) /\ Len(order) \in Nat /\ Len(order) > 0
      /\ Listed(order) = KeysOf(lhm) \cup {k}
  BY <1>1, Refreshed, LenProperties
<1>6. Ascending(order, updated')
  <2>1. Ascending(lhm.order, updated)
    BY <1>1 DEF OrderIsByUpdate, Ascending
  <2>2. /\ base \in Seq(Keys) /\ Ascending(base, updated)
        /\ Listed(base) = KeysOf(lhm) \ {k}
    BY <1>2, <2>1, ForgetKey, ForgetAscending
  <2>3. order = Append(base, k)
    BY DEF Refresh
  <2> HIDE DEF base, order
  <2>4. \A x \in Listed(base) : updated'[x] = updated[x] /\ updated'[x] < updated'[k]
    BY <1>1, <1>2, <1>4, <2>2
  <2> QED BY <2>2, <2>3, <2>4, AppendAscending
<1>7. /\ Consistent(lhm')
      /\ lhm'.map = Without(With(lhm.map, k, v), IF over THEN {Head(order)} ELSE {})
      /\ lhm'.order = IF over THEN Tail(order) ELSE order
  BY <1>1, <1>3, Inserted
<1> HIDE DEF base, order
<1>8. /\ KeysOf(lhm') = (KeysOf(lhm) \cup {k}) \ (IF over THEN {Head(order)} ELSE {})
      /\ \A x \in KeysOf(lhm') : lhm'.map[x] = IF x = k THEN v ELSE lhm.map[x]
  BY <1>2, <1>7 DEF Without, With, KeysOf
<1>9. Ascending(lhm'.order, updated')
  <2>1. CASE over
    <3>1. 1 \in 0 .. Len(order) /\ order # <<>>
      BY <1>5
    <3>2. Tail(order) = SubSeq(order, 1 + 1, Len(order))
      BY <1>5, <3>1, TailIsSubSeq
    <3> QED BY <1>5, <1>6, <1>7, <2>1, <3>1, <3>2, DropAscending
  <2>2. CASE ~over
    BY <1>6, <1>7, <2>2
  <2> QED BY <2>1, <2>2
<1>10. \A x \in KeysOf(lhm') : over => updated'[Head(order)] < updated'[x]
  <2> SUFFICES ASSUME NEW x \in KeysOf(lhm'), over
               PROVE  updated'[Head(order)] < updated'[x]
    OBVIOUS
  <2>1. x \in Listed(order) /\ x # Head(order)
    BY <1>5, <1>8
  <2>2. PICK j \in 1 .. Len(order) : x = order[j]
    BY <2>1 DEF Listed
  <2>3. Head(order) = order[1]
    BY <1>5
  <2>4. 1 \in 1 .. Len(order) /\ 1 < j
    BY <1>5, <2>1, <2>2, <2>3
  <2> QED BY <1>6, <2>2, <2>3, <2>4 DEF Ascending
<1>11. ASSUME NEW x \in KeysOf(lhm')
       PROVE  /\ lhm'.map[x] = content'[x]
              /\ updated'[x] > 0
              /\ \A d \in Keys \ KeysOf(lhm') : updated'[d] < updated'[x]
  <2>1. x \in Keys /\ (x = k \/ x \in KeysOf(lhm))
    BY <1>2, <1>8
  <2>2. lhm'.map[x] = content'[x]
    BY <1>1, <1>3, <1>8, <2>1 DEF KeepsNewest
  <2>3. updated'[x] > 0
    BY <1>1, <1>4, <2>1 DEF KeepsNewest
  <2>4. ASSUME NEW d \in Keys \ KeysOf(lhm') PROVE updated'[d] < updated'[x]
    <3>1. CASE over /\ d = Head(order)
      BY <1>10, <3>1
    <3>2. CASE ~(over /\ d = Head(order))
      <4>1. d \notin KeysOf(lhm) /\ d # k
        BY <1>8, <2>4, <3>2
      <4>2. updated'[d] = updated[d] /\ updated[d] <= clock /\ updated[d] \in Nat
        BY <1>1, <1>4, <4>1
      <4>3. x # k => updated[d] < updated[x]
        BY <1>1, <2>1, <4>1 DEF KeepsNewest
      <4> QED BY <1>1, <1>4, <2>1, <4>2, <4>3
    <3> QED BY <3>1, <3>2
  <2> QED BY <2>2, <2>3, <2>4
<1>12. MapTypeOK'
  BY <1>1, <1>3, <1>7 DEF MapTypeOK, Consistent
<1>13. \A x \in Keys : updated'[x] <= clock'
  BY <1>1, <1>3, <1>4
<1> QED BY <1>7, <1>9, <1>11, <1>12, <1>13 DEF MapIInv, KeepsNewest, OrderIsByUpdate, Ascending

\* A removal forgets when the key was updated, so nothing else is disturbed.
LEMMA RemoveInvariant ==
    ASSUME MapIInv, NEW k \in Keys, RemoveKey(k)
    PROVE  MapIInv'
<1>1. /\ MapTypeOK /\ Consistent(lhm) /\ OrderIsByUpdate /\ KeepsNewest
      /\ \A x \in Keys : updated[x] \in Nat /\ updated[x] <= clock
      /\ clock \in Nat
      /\ updated \in [Keys -> 0 .. MaxUpdates] /\ content \in [Keys -> Values]
  BY KeysAssumption DEF MapIInv, MapTypeOK
<1>2. /\ lhm.order \in Seq(Keys) /\ NoDuplicates(lhm.order)
      /\ Listed(lhm.order) = KeysOf(lhm) /\ KeysOf(lhm) \subseteq Keys
      /\ lhm.map \in [KeysOf(lhm) -> Values]
  BY <1>1 DEF Consistent, Maps, OrderMatchesKeys, KeysOf
<1>3. /\ updated' = [updated EXCEPT ![k] = 0] /\ clock' = clock
      /\ content' = content /\ lhm' = Remove(lhm, k)
  BY DEF RemoveKey
<1>4. \A x \in Keys : updated'[x] = IF x = k THEN 0 ELSE updated[x]
  BY <1>1, <1>3
<1>5. /\ Consistent(lhm') /\ lhm'.map = Without(lhm.map, {k})
      /\ lhm'.order = IF k \in KeysOf(lhm) THEN Forget(lhm.order, k) ELSE lhm.order
  BY <1>1, <1>3, Removed
<1>6. /\ KeysOf(lhm') = KeysOf(lhm) \ {k}
      /\ \A x \in KeysOf(lhm') : lhm'.map[x] = lhm.map[x]
  BY <1>2, <1>5 DEF Without, KeysOf
<1>7. Ascending(lhm'.order, updated')
  <2>1. Ascending(lhm.order, updated)
    BY <1>1 DEF OrderIsByUpdate, Ascending
  <2>2. Ascending(lhm'.order, updated)
    BY <1>2, <1>5, <2>1, ForgetAscending
  <2>3. Listed(lhm'.order) = KeysOf(lhm) \ {k}
    BY <1>5, <1>6 DEF Consistent, OrderMatchesKeys
  <2>4. \A i \in 1 .. Len(lhm'.order) :
            lhm'.order[i] \in Keys /\ updated'[lhm'.order[i]] = updated[lhm'.order[i]]
    BY <1>2, <1>4, <2>3 DEF Listed
  <2> QED BY <2>2, <2>4 DEF Ascending
<1>8. ASSUME NEW x \in KeysOf(lhm')
      PROVE  /\ lhm'.map[x] = content'[x]
             /\ updated'[x] > 0
             /\ \A d \in Keys \ KeysOf(lhm') : updated'[d] < updated'[x]
  BY <1>1, <1>2, <1>3, <1>4, <1>6, <1>8 DEF KeepsNewest
<1>9. MapTypeOK'
  BY <1>1, <1>3, <1>5, KeysAssumption DEF MapTypeOK, Consistent
<1>10. \A x \in Keys : updated'[x] <= clock'
  BY <1>1, <1>3, <1>4
<1> QED BY <1>5, <1>7, <1>8, <1>9, <1>10 DEF MapIInv, KeepsNewest, OrderIsByUpdate, Ascending

\* A new maximum drops the entries the order lists first.
LEMMA ResizeInvariant ==
    ASSUME MapIInv, NEW n \in MaxSizes, Resize(n)
    PROVE  MapIInv'
<1> DEFINE surplus == Surplus(lhm, n)
<1>1. /\ MapTypeOK /\ Consistent(lhm) /\ OrderIsByUpdate /\ KeepsNewest /\ n \in Nat
      /\ \A x \in Keys : updated[x] <= clock
  BY MaxSizesAssumption DEF MapIInv
<1>2. /\ lhm.order \in Seq(Keys) /\ Len(lhm.order) \in Nat
      /\ Listed(lhm.order) = KeysOf(lhm) /\ KeysOf(lhm) \subseteq Keys
      /\ lhm.map \in [KeysOf(lhm) -> Values]
  BY <1>1, LenProperties DEF Consistent, Maps, OrderMatchesKeys, KeysOf
<1>3. updated' = updated /\ content' = content /\ clock' = clock /\ lhm' = SetMaxSize(lhm, n)
  BY DEF Resize
<1>4. /\ Consistent(lhm') /\ surplus \in 0 .. Len(lhm.order)
      /\ lhm'.map = Without(lhm.map, {lhm.order[i] : i \in 1 .. surplus})
      /\ lhm'.order = SubSeq(lhm.order, surplus + 1, Len(lhm.order))
  BY <1>1, <1>3, Resized
<1> HIDE DEF surplus
<1>5. /\ KeysOf(lhm') = KeysOf(lhm) \ {lhm.order[i] : i \in 1 .. surplus}
      /\ \A x \in KeysOf(lhm') : lhm'.map[x] = lhm.map[x]
  BY <1>2, <1>4 DEF Without, KeysOf
<1>6. Ascending(lhm.order, updated)
  BY <1>1 DEF OrderIsByUpdate, Ascending
<1>7. Ascending(lhm'.order, updated)
  BY <1>2, <1>4, <1>6, DropAscending
<1>8. ASSUME NEW x \in KeysOf(lhm'), NEW d \in Keys \ KeysOf(lhm')
      PROVE  updated[d] < updated[x]
  <2>1. CASE d \notin KeysOf(lhm)
    BY <1>1, <1>5, <2>1 DEF KeepsNewest
  <2>2. CASE d \in KeysOf(lhm)
    <3>1. PICK i \in 1 .. surplus : d = lhm.order[i]
      BY <1>5, <1>8, <2>2
    <3>2. PICK j \in 1 .. Len(lhm.order) : x = lhm.order[j]
      BY <1>2, <1>5 DEF Listed
    <3>3. j \notin 1 .. surplus
      BY <1>5, <1>8, <3>2
    <3>4. i \in 1 .. Len(lhm.order) /\ i < j
      BY <1>2, <1>4, <3>3
    <3> QED BY <1>6, <3>1, <3>2, <3>4 DEF Ascending
  <2> QED BY <2>1, <2>2
<1>9. KeepsNewest'
  BY <1>1, <1>3, <1>5, <1>8 DEF KeepsNewest
<1>10. OrderIsByUpdate'
  BY <1>3, <1>7 DEF OrderIsByUpdate, Ascending
<1>11. MapTypeOK'
  BY <1>1, <1>3, <1>4 DEF MapTypeOK, Consistent
<1> QED BY <1>1, <1>3, <1>4, <1>9, <1>10, <1>11 DEF MapIInv

\* MapIInv holds in every reachable state.
THEOREM MapInvariant == MapSpec => []MapIInv
<1>1. MapInit => MapIInv
  BY MapInitInvariant
<1>2. MapIInv /\ [MapNext]_mapVars => MapIInv'
  <2> SUFFICES ASSUME MapIInv, [MapNext]_mapVars PROVE MapIInv'
    OBVIOUS
  <2>1. CASE UNCHANGED mapVars
    BY <2>1 DEF mapVars, MapIInv, MapTypeOK, Consistent, OrderIsByUpdate, KeepsNewest
  <2>2. CASE MapNext
    BY <2>2, InsertInvariant, RemoveInvariant, ResizeInvariant DEF MapNext
  <2> QED BY <2>1, <2>2
<1> QED BY <1>1, <1>2, PTL DEF MapSpec

\* Types, for every set of keys, values and maximum sizes.
THEOREM MapTypeCorrect == MapSpec => []MapTypeOK
<1>1. MapIInv => MapTypeOK
  BY DEF MapIInv
<1> QED BY <1>1, MapInvariant, PTL

\* The HashMap and the order of its keys never come apart and stay within the
\* maximum (utils.rs:46-95), so set_max_size's loop always ends.
THEOREM StaysWellFormed == MapSpec => []WellFormed
<1>1. MapIInv => WellFormed
  BY DEF MapIInv, Consistent, WellFormed
<1> QED BY <1>1, MapInvariant, PTL

\* Whatever was dropped is older than whatever is kept (utils.rs:46).
THEOREM DropsOldestUpdated == MapSpec => []KeepsNewest
<1>1. MapIInv => KeepsNewest
  BY DEF MapIInv
<1> QED BY <1>1, MapInvariant, PTL

\* keys() is sorted by time of update (utils.rs:83-85).
THEOREM KeysSortedByUpdate == MapSpec => []OrderIsByUpdate
<1>1. MapIInv => OrderIsByUpdate
  BY DEF MapIInv
<1> QED BY <1>1, MapInvariant, PTL

=============================================================================
