------------------------- MODULE AsyncDelivery_proofs -------------------------
(***************************************************************************)
(* Proofs about AsyncDelivery, for any number of receivers and endpoints,  *)
(* any capacity of the channels, and whatever callbacks panic or hang: the *)
(* order of the callbacks, that no message read is forgotten, and that     *)
(* nothing but a callback keeps a listener from its next message.          *)
(***************************************************************************)
EXTENDS AsyncDelivery, TLAPS

\* What a listener has in hand is of an endpoint it serves.
HandOK ==
    \A r \in Receivers :
        hand[r] # None => Serves[hand[r]] = r /\ listener[r] = "running"

\* A channel holds the messages that follow the one begun last, and between
\* the socket and the callback there is nothing else but the one in hand.
QueueOK ==
    \A e \in Endpoints :
        /\ begun[e] <= read[e]
        /\ \A i \in 1 .. Len(queue[e]) : queue[e][i] = begun[e] + i
        /\ concurrent => queue[e] = <<>> /\ task[e] = "none"
        /\ task[e] # "panicked" =>
              read[e] = begun[e] + Len(queue[e]) + IF hand[Serves[e]] = e THEN 1 ELSE 0

\* A task awaits the callback begun last, or nothing.
BusyOK ==
    ~concurrent => \A e \in Endpoints :
        busy[e] = IF task[e] = "awaiting" THEN {begun[e]} ELSE {}

\* The receivers of which a callback was begun that panics when it is made,
\* and when it is awaited.
Made == {r \in Receivers : Begun(r, "panicsMaking")}
Awaited == {r \in Receivers : Begun(r, "panicsAwaited")}

\* Why a mutex is poisoned, a task is gone, and a listener has panicked.
CausesOK ==
    /\ poisoned => pooled /\ Made # {}
    /\ \A e \in Endpoints :
          task[e] = "panicked" => ~concurrent /\ (poisoned \/ Serves[e] \in Made \cup Awaited)
    /\ \A r \in Receivers :
          listener[r] = "panicked" =>
             r \in Made \/ (pooled /\ Made # {}) \/ (~concurrent /\ r \in Awaited)

IInv == TypeOK /\ HandOK /\ QueueOK /\ BusyOK /\ CausesOK

USE DEF Receivers

-----------------------------------------------------------------------------
\* At the start nothing has been read and nothing has panicked.
LEMMA InitIInv == Init => IInv
  <1> SUFFICES ASSUME Init PROVE IInv OBVIOUS
  <1> USE ReceiversAssumption, CapacityAssumption, BoundsAssumption, NoneAssumption DEF Init
  <1>1. TypeOK
    <2>1. outcome \in [Messages -> Outcomes] BY DEF Faulty
    <2>2. queue \in [Endpoints -> Seq(Nat)] OBVIOUS
    <2>3. \A e \in Endpoints : Len(queue[e]) = 0 OBVIOUS
    <2>4. \A e \in Endpoints : read[e] <= MaxRead[e] /\ Len(queue[e]) <= Capacity BY <2>3
    <2>5. stopping \in 0 .. N /\ joined \subseteq Receivers OBVIOUS
    <2>6. /\ concurrent \in BOOLEAN /\ pooled \in BOOLEAN /\ poisoned \in BOOLEAN
          /\ interrupted \in [Receivers -> BOOLEAN] OBVIOUS
    <2>7. listener \in [Receivers -> {"running", "ended", "panicked"}] OBVIOUS
    <2>8. hand \in [Receivers -> Endpoints \cup {None}] OBVIOUS
    <2>9. read \in [Endpoints -> Nat] /\ begun \in [Endpoints -> Nat] OBVIOUS
    <2>10. task \in [Endpoints -> {"none", "waiting", "awaiting", "panicked", "ended"}] OBVIOUS
    <2>11. busy \in [Endpoints -> SUBSET Nat] /\ finished \in [Endpoints -> SUBSET Nat] OBVIOUS
    <2> HIDE DEF Init
    <2> QED BY <2>1, <2>2, <2>4, <2>5, <2>6, <2>7, <2>8, <2>9, <2>10, <2>11 DEF TypeOK
  <1>2. HandOK BY DEF HandOK
  <1>3. QueueOK BY DEF QueueOK
  <1>4. BusyOK BY DEF BusyOK
  <1>5. CausesOK BY DEF CausesOK
  <1> QED BY <1>1, <1>2, <1>3, <1>4, <1>5 DEF IInv

\* A callback that was begun stays begun, for the receiver it is of.
LEMMA CausesStay ==
  ASSUME TypeOK, begun' \in [Endpoints -> Nat], outcome' = outcome,
         \A e \in Endpoints : begun[e] <= begun'[e]
  PROVE  Made \subseteq Made' /\ Awaited \subseteq Awaited'
  <1>1. ASSUME NEW e \in Endpoints PROVE 1 .. begun[e] \subseteq 1 .. begun'[e]
    BY DEF TypeOK
  <1>2. Made \subseteq Made' BY <1>1 DEF Made, Begun
  <1>3. Awaited \subseteq Awaited' BY <1>1 DEF Awaited, Begun
  <1> QED BY <1>2, <1>3

\* Calling the closure for the message that follows: what the next state
\* knows of the call.
LEMMA CallBegins ==
  ASSUME TypeOK, NEW e \in Endpoints, Call(e, begun[e] + 1), outcome' = outcome
  PROVE  /\ begun' \in [Endpoints -> Nat]
         /\ \A d \in Endpoints : begun[d] <= begun'[d]
         /\ begun'[e] = begun[e] + 1
         /\ \A d \in Endpoints : d # e => begun'[d] = begun[d]
         /\ outcome[<<e, begun[e] + 1>>] = "panicsMaking" => Serves[e] \in Made'
         /\ outcome[<<e, begun[e] + 1>>] = "panicsAwaited" => Serves[e] \in Awaited'
  <1>1. /\ begun' \in [Endpoints -> Nat]
        /\ \A d \in Endpoints : begun[d] <= begun'[d]
        /\ begun'[e] = begun[e] + 1
        /\ \A d \in Endpoints : d # e => begun'[d] = begun[d]
    BY DEF Call, TypeOK
  <1>2. begun[e] + 1 \in 1 .. begun'[e]
    BY <1>1 DEF TypeOK
  <1>3. Serves[e] \in Receivers BY ReceiversAssumption
  <1>4. outcome[<<e, begun[e] + 1>>] = "panicsMaking" => Serves[e] \in Made'
    BY <1>2, <1>3 DEF Made, Begun
  <1>5. outcome[<<e, begun[e] + 1>>] = "panicsAwaited" => Serves[e] \in Awaited'
    BY <1>2, <1>3 DEF Awaited, Begun
  <1> QED BY <1>1, <1>4, <1>5

\* The causes stay true as long as what panics in a step has one.
LEMMA CausesKept ==
  ASSUME IInv, begun' \in [Endpoints -> Nat],
         \A e \in Endpoints : begun[e] <= begun'[e],
         UNCHANGED mode, poisoned => poisoned',
         poisoned' => poisoned \/ (pooled /\ Made' # {}),
         \A e \in Endpoints : task'[e] = "panicked" =>
            task[e] = "panicked" \/ (~concurrent /\ (poisoned' \/ Serves[e] \in Made' \cup Awaited')),
         \A r \in Receivers : listener'[r] = "panicked" =>
            \/ listener[r] = "panicked"
            \/ r \in Made' \/ (pooled /\ Made' # {}) \/ (~concurrent /\ r \in Awaited')
  PROVE  CausesOK'
  <1>1. TypeOK /\ CausesOK BY DEF IInv
  <1>2. outcome' = outcome /\ pooled' = pooled /\ concurrent' = concurrent BY DEF mode
  <1>3. Made \subseteq Made' /\ Awaited \subseteq Awaited' BY <1>1, <1>2, CausesStay
  <1> QED BY <1>1, <1>2, <1>3 DEF CausesOK

\* The case in which nothing panics and nothing is begun.
LEMMA CausesSame ==
  ASSUME IInv, UNCHANGED <<mode, begun, poisoned>>,
         \A e \in Endpoints : task'[e] = "panicked" => task[e] = "panicked",
         \A r \in Receivers : listener'[r] = "panicked" => listener[r] = "panicked"
  PROVE  CausesOK'
  <1>1. begun' \in [Endpoints -> Nat] /\ \A e \in Endpoints : begun[e] <= begun'[e]
    BY DEF IInv, TypeOK
  <1>2. poisoned' = poisoned /\ UNCHANGED mode OBVIOUS
  <1>3. (poisoned => poisoned') /\ (poisoned' => poisoned) BY <1>2
  <1> QED BY <1>1, <1>2, <1>3, CausesKept

-----------------------------------------------------------------------------
(* The invariant is inductive: one lemma per action.                       *)

\* A step that changes nothing the invariant is about but the endpoints'
\* finished messages and the owner's affairs.
Quiet == UNCHANGED <<mode, read, task, queue, begun, busy, poisoned>>

LEMMA QuietStep ==
  ASSUME IInv, TypeOK', Quiet, UNCHANGED hand,
         \A r \in Receivers : listener'[r] # listener[r] => hand[r] = None /\ listener'[r] = "ended"
  PROVE  IInv'
  <1>1. HandOK' BY DEF IInv, HandOK
  <1>2. QueueOK' BY DEF IInv, QueueOK, Quiet, mode
  <1>3. BusyOK' BY DEF IInv, BusyOK, Quiet, mode
  <1>4. CausesOK'
    <2>1. UNCHANGED <<mode, begun, poisoned>> /\ UNCHANGED task BY DEF Quiet
    <2>2. \A r \in Receivers : listener'[r] = "panicked" => listener[r] = "panicked" OBVIOUS
    <2> QED BY <2>1, <2>2, CausesSame
  <1> QED BY <1>1, <1>2, <1>3, <1>4 DEF IInv

LEMMA EndIdleStep == ASSUME IInv, NEW r \in Receivers, EndIdle(r) PROVE IInv'
  <1>1. TypeOK' BY DEF IInv, TypeOK, EndIdle, mode, tasks, owner
  <1> QED BY <1>1, QuietStep DEF IInv, TypeOK, EndIdle, Quiet, mode, tasks, owner

LEMMA StopAsyncStep == ASSUME IInv, StopAsync PROVE IInv'
  <1>1. TypeOK' BY ReceiversAssumption DEF IInv, TypeOK, StopAsync, mode, tasks
  <1> QED BY <1>1, QuietStep DEF StopAsync, Quiet, mode, tasks

LEMMA JoinNextStep == ASSUME IInv, JoinNext PROVE IInv'
  <1>1. stopping' \in 0 .. N BY ReceiversAssumption DEF IInv, TypeOK, JoinNext
  <1>2. joined' \subseteq Receivers BY ReceiversAssumption DEF IInv, TypeOK, JoinNext
  <1>3. TypeOK' BY <1>1, <1>2 DEF IInv, TypeOK, JoinNext, mode, tasks
  <1> QED BY <1>3, QuietStep DEF JoinNext, Quiet, mode, tasks

LEMMA ReadMessageStep == ASSUME IInv, NEW e \in Endpoints, ReadMessage(e) PROVE IInv'
  <1> DEFINE r == Serves[e]
  <1>0. r \in Receivers BY ReceiversAssumption
  <1>1. /\ listener[r] = "running" /\ hand[r] = None /\ read[e] < MaxRead[e]
        /\ read' = [read EXCEPT ![e] = @ + 1] /\ hand' = [hand EXCEPT ![r] = e]
        /\ UNCHANGED <<mode, listener, tasks, owner>>
    BY DEF ReadMessage
  <1>2. TypeOK'
    <2>1. read' \in [Endpoints -> Nat] /\ hand' \in [Receivers -> Endpoints \cup {None}]
      BY <1>0, <1>1 DEF IInv, TypeOK
    <2>2. ASSUME NEW d \in Endpoints PROVE read'[d] <= MaxRead[d] /\ Len(queue'[d]) <= Capacity
      <3>1. MaxRead[d] \in Nat /\ MaxRead[e] \in Nat /\ read[d] \in Nat /\ read[e] \in Nat
        BY BoundsAssumption DEF IInv, TypeOK
      <3>2. read[d] <= MaxRead[d] /\ Len(queue[d]) <= Capacity BY DEF IInv, TypeOK
      <3>3. read'[d] = IF d = e THEN read[e] + 1 ELSE read[d] BY <1>1 DEF IInv, TypeOK
      <3> QED BY <1>1, <3>1, <3>2, <3>3 DEF tasks
    <2> QED BY <1>1, <2>1, <2>2 DEF IInv, TypeOK, mode, tasks, owner
  <1>3. HandOK'
    BY <1>0, <1>1, NoneAssumption DEF IInv, HandOK, TypeOK
  <1>4. QueueOK'
    <2> SUFFICES ASSUME NEW d \in Endpoints
                 PROVE  /\ begun[d] <= read'[d]
                        /\ \A i \in 1 .. Len(queue[d]) : queue[d][i] = begun[d] + i
                        /\ concurrent => queue[d] = <<>> /\ task[d] = "none"
                        /\ task[d] # "panicked" =>
                              read'[d] = begun[d] + Len(queue[d]) + IF hand'[Serves[d]] = d THEN 1 ELSE 0
      BY <1>1 DEF QueueOK, mode, tasks
    <2>1. Serves[d] \in Receivers BY ReceiversAssumption
    <2>2. begun[d] \in Nat /\ read[d] \in Nat /\ begun[d] <= read[d] BY DEF IInv, TypeOK, QueueOK
    <2>3. Len(queue[d]) \in Nat BY DEF IInv, TypeOK
    <2>4. CASE d = e
      <3>1. read'[d] = read[d] + 1 /\ hand[Serves[d]] # d /\ hand'[Serves[d]] = d
        BY <1>0, <1>1, <2>4, NoneAssumption DEF IInv, TypeOK
      <3> QED BY <2>2, <2>3, <3>1 DEF IInv, QueueOK
    <2>5. CASE d # e
      <3>1. read'[d] = read[d] BY <1>1, <2>5 DEF IInv, TypeOK
      <3>2. (hand'[Serves[d]] = d) <=> (hand[Serves[d]] = d)
        BY <1>0, <1>1, <2>1, <2>5, NoneAssumption DEF IInv, TypeOK
      <3> QED BY <2>2, <2>3, <3>1, <3>2 DEF IInv, QueueOK
    <2> QED BY <2>4, <2>5
  <1>5. BusyOK' BY <1>1 DEF IInv, BusyOK, mode, tasks
  <1>6. CausesOK'
    BY <1>1, CausesSame DEF tasks
  <1> QED BY <1>2, <1>3, <1>4, <1>5, <1>6 DEF IInv

\* The turn of a listener is over: it has nothing in hand, and runs or ended.
LEMMA TurnOverTypes ==
  ASSUME TypeOK, NEW r \in Receivers, TurnOver(r) \/ Panic(r)
  PROVE  /\ hand' \in [Receivers -> Endpoints \cup {None}]
         /\ listener' \in [Receivers -> {"running", "ended", "panicked"}]
         /\ hand'[r] = None
         /\ \A q \in Receivers : q # r => hand'[q] = hand[q] /\ listener'[q] = listener[q]
         /\ \A q \in Receivers : TurnOver(r) /\ listener'[q] = "panicked" => listener[q] = "panicked"
  BY DEF TypeOK, TurnOver, Panic, AfterTurn

\* A listener whose hand is empty breaks nothing about hands.
LEMMA HandKept ==
  ASSUME TypeOK, HandOK, NEW r \in Receivers, TurnOver(r) \/ Panic(r)
  PROVE  HandOK'
  BY TurnOverTypes DEF HandOK

LEMMA EnqueueStep == ASSUME IInv, NEW r \in Receivers, Enqueue(r) PROVE IInv'
  <1> DEFINE e == hand[r]
  <1>0. TypeOK /\ HandOK /\ QueueOK /\ BusyOK BY DEF IInv
  <1>1. /\ ~concurrent /\ hand[r] # None /\ task[e] # "panicked" /\ Len(queue[e]) < Capacity
        /\ queue' = [queue EXCEPT ![e] = Append(@, read[e])]
        /\ task' = IF task[e] = "none" THEN [task EXCEPT ![e] = "waiting"] ELSE task
        /\ TurnOver(r)
        /\ UNCHANGED <<mode, read, begun, busy, finished, poisoned, owner>>
    BY DEF Enqueue
  <1>2. e \in Endpoints /\ Serves[e] = r
    <2>1. hand[r] \in Endpoints \cup {None} BY <1>0 DEF TypeOK
    <2>2. Serves[hand[r]] = r BY <1>0, <1>1 DEF HandOK
    <2> QED BY <1>1, <2>1, <2>2
  <1>3. queue[e] \in Seq(Nat) /\ read[e] \in Nat /\ begun[e] \in Nat /\ Len(queue[e]) \in Nat
    BY <1>0, <1>2 DEF TypeOK
  <1>4. /\ queue'[e] \in Seq(Nat) /\ Len(queue'[e]) = Len(queue[e]) + 1
        /\ \A i \in 1 .. Len(queue[e]) : queue'[e][i] = queue[e][i]
        /\ queue'[e][Len(queue[e]) + 1] = read[e]
        /\ \A d \in Endpoints : d # e => queue'[d] = queue[d]
    BY <1>0, <1>1, <1>2, <1>3 DEF TypeOK
  <1>5. /\ task' \in [Endpoints -> {"none", "waiting", "awaiting", "panicked", "ended"}]
        /\ \A d \in Endpoints : (task'[d] = "panicked") <=> (task[d] = "panicked")
        /\ \A d \in Endpoints : (task'[d] = "awaiting") <=> (task[d] = "awaiting")
    BY <1>0, <1>1, <1>2 DEF TypeOK
  <1>6. TypeOK'
    <2>1. queue' \in [Endpoints -> Seq(Nat)] BY <1>0, <1>1, <1>2, <1>4 DEF TypeOK
    <2>2. ASSUME NEW d \in Endpoints PROVE read'[d] <= MaxRead[d] /\ Len(queue'[d]) <= Capacity
      BY <1>0, <1>1, <1>3, <1>4, CapacityAssumption DEF TypeOK
    <2> QED BY <1>0, <1>1, <1>5, <2>1, <2>2, TurnOverTypes DEF TypeOK, mode, owner
  <1>7. HandOK' BY <1>0, <1>1, HandKept
  <1>8. QueueOK'
    <2> SUFFICES ASSUME NEW d \in Endpoints
                 PROVE  /\ begun[d] <= read[d]
                        /\ \A i \in 1 .. Len(queue'[d]) : queue'[d][i] = begun[d] + i
                        /\ task'[d] # "panicked" =>
                              read[d] = begun[d] + Len(queue'[d]) + IF hand'[Serves[d]] = d THEN 1 ELSE 0
      BY <1>1 DEF QueueOK, mode
    <2>1. Serves[d] \in Receivers /\ d # None BY ReceiversAssumption, NoneAssumption
    <2>2. begun[d] \in Nat /\ read[d] \in Nat /\ Len(queue[d]) \in Nat BY <1>0 DEF TypeOK
    <2>3. begun[d] <= read[d] BY <1>0 DEF QueueOK
    <2>4. \A i \in 1 .. Len(queue[d]) : queue[d][i] = begun[d] + i BY <1>0 DEF QueueOK
    <2>5. task[d] # "panicked" =>
             read[d] = begun[d] + Len(queue[d]) + IF hand[Serves[d]] = d THEN 1 ELSE 0
      BY <1>0 DEF QueueOK
    <2>6. CASE d = e
      <3>1. hand[Serves[d]] = d /\ hand'[Serves[d]] # d
        BY <1>0, <1>1, <1>2, <2>1, <2>6, TurnOverTypes
      <3>2. read[d] = begun[d] + Len(queue[d]) + 1 BY <1>1, <2>5, <2>6, <3>1
      <3>3. read[d] = begun[d] + Len(queue'[d])
        <4>1. Len(queue'[d]) = Len(queue[d]) + 1 BY <1>4, <2>6
        <4>2. \A b, n, l \in Nat : n = l + 1 => b + n = b + l + 1 OBVIOUS
        <4>3. Len(queue'[d]) \in Nat BY <2>2, <4>1
        <4> QED BY <2>2, <3>2, <4>1, <4>2, <4>3
      <3>4. ASSUME NEW i \in 1 .. Len(queue'[d]) PROVE queue'[d][i] = begun[d] + i
        <4>1. CASE i \in 1 .. Len(queue[d]) BY <1>4, <2>4, <2>6, <4>1
        <4>2. CASE i = Len(queue[d]) + 1
          <5>1. queue'[d][i] = read[d] BY <1>4, <2>6, <4>2
          <5>2. read[d] = begun[d] + i BY <2>2, <3>2, <4>2
          <5> QED BY <5>1, <5>2
        <4> QED BY <4>1, <4>2, <1>4, <2>2, <2>6
      <3> QED BY <2>3, <2>2, <1>1, <3>1, <3>3, <3>4
    <2>7. CASE d # e
      <3>1. queue'[d] = queue[d] BY <1>4, <2>7
      <3>2. (hand'[Serves[d]] = d) <=> (hand[Serves[d]] = d)
        BY <1>0, <1>1, <2>1, <2>7, TurnOverTypes
      <3> QED BY <1>5, <2>3, <2>4, <2>5, <3>1, <3>2
    <2> QED BY <2>6, <2>7
  <1>9. BusyOK' BY <1>0, <1>1, <1>5 DEF BusyOK, mode
  <1>10. CausesOK'
    <2>1. \A q \in Receivers : listener'[q] = "panicked" => listener[q] = "panicked"
      BY <1>0, <1>1, TurnOverTypes
    <2> QED BY <1>1, <1>5, <2>1, CausesSame
  <1> QED BY <1>6, <1>7, <1>8, <1>9, <1>10 DEF IInv

LEMMA EnqueueFailsStep == ASSUME IInv, NEW r \in Receivers, EnqueueFails(r) PROVE IInv'
  <1> DEFINE e == hand[r]
  <1>0. TypeOK /\ HandOK /\ QueueOK /\ BusyOK /\ CausesOK BY DEF IInv
  <1>1. /\ ~concurrent /\ hand[r] # None /\ task[e] = "panicked" /\ Panic(r)
        /\ UNCHANGED <<mode, read, tasks, owner>>
    BY DEF EnqueueFails
  <1>2. e \in Endpoints /\ Serves[e] = r
    <2>1. hand[r] \in Endpoints \cup {None} BY <1>0 DEF TypeOK
    <2>2. Serves[hand[r]] = r BY <1>0, <1>1 DEF HandOK
    <2> QED BY <1>1, <2>1, <2>2
  <1>3. TypeOK' BY <1>0, <1>1, TurnOverTypes DEF TypeOK, mode, tasks, owner
  <1>4. HandOK' BY <1>0, <1>1, HandKept
  <1>5. QueueOK'
    <2>1. ASSUME NEW d \in Endpoints, task[d] # "panicked"
          PROVE  (hand'[Serves[d]] = d) <=> (hand[Serves[d]] = d)
      <3>1. Serves[d] \in Receivers /\ d # None /\ d # e
        BY <1>1, <2>1, ReceiversAssumption, NoneAssumption
      <3> QED BY <1>0, <1>1, <3>1, TurnOverTypes
    <2> QED BY <1>0, <1>1, <2>1 DEF QueueOK, mode, tasks
  <1>6. BusyOK' BY <1>0, <1>1 DEF BusyOK, mode, tasks
  <1>7. CausesOK'
    <2>1. r \in Made \/ (pooled /\ Made # {}) \/ r \in Awaited
      BY <1>0, <1>1, <1>2 DEF CausesOK
    <2>2. outcome' = outcome /\ poisoned' = poisoned /\ task' = task /\ begun' = begun
      BY <1>1 DEF mode, tasks
    <2>3. (poisoned => poisoned') /\ (poisoned' => poisoned) BY <2>2
    <2>4. begun' \in [Endpoints -> Nat] /\ \A d \in Endpoints : begun[d] <= begun'[d]
      BY <1>0, <2>2 DEF TypeOK
    <2>5. Made \subseteq Made' /\ Awaited \subseteq Awaited' BY <1>0, <2>2, <2>4, CausesStay
    <2>6. \A q \in Receivers : listener'[q] = "panicked" =>
             \/ listener[q] = "panicked"
             \/ q \in Made' \/ (pooled /\ Made' # {}) \/ (~concurrent /\ q \in Awaited')
      BY <1>0, <1>1, <2>1, <2>5, TurnOverTypes
    <2>7. \A d \in Endpoints : task'[d] = "panicked" => task[d] = "panicked" BY <2>2
    <2> QED BY <1>1, <2>3, <2>4, <2>6, <2>7, CausesKept
  <1> QED BY <1>3, <1>4, <1>5, <1>6, <1>7 DEF IInv

\* The listener calls the closure, which takes the message in its hand.
LEMMA SpawnStep == ASSUME IInv, NEW r \in Receivers, Spawn(r) PROVE IInv'
  <1> DEFINE e == hand[r]
  <1>0. TypeOK /\ HandOK /\ QueueOK /\ BusyOK /\ CausesOK BY DEF IInv
  <1>1. /\ concurrent /\ hand[r] # None /\ Call(e, read[e])
        /\ IF Fails(<<e, read[e]>>) THEN Panic(r) ELSE TurnOver(r)
        /\ UNCHANGED <<mode, read, task, queue, finished, owner>>
    BY DEF Spawn
  <1>2. e \in Endpoints /\ Serves[e] = r
    <2>1. hand[r] \in Endpoints \cup {None} BY <1>0 DEF TypeOK
    <2>2. Serves[hand[r]] = r BY <1>0, <1>1 DEF HandOK
    <2> QED BY <1>1, <2>1, <2>2
  <1>3. queue[e] = <<>> /\ task[e] = "none" /\ begun[e] \in Nat /\ read[e] \in Nat
    BY <1>0, <1>1, <1>2 DEF TypeOK, QueueOK
  <1>4. read[e] = begun[e] + 1
    BY <1>0, <1>1, <1>2, <1>3 DEF QueueOK
  <1>5. Call(e, begun[e] + 1) /\ outcome' = outcome BY <1>1, <1>4 DEF mode
  <1>6. TurnOver(r) \/ Panic(r) BY <1>1
  <1>7. TypeOK'
    <2>1. busy' \in [Endpoints -> SUBSET Nat]
      BY <1>0, <1>2, <1>3, <1>5 DEF TypeOK, Call
    <2>2. poisoned' \in BOOLEAN BY <1>5 DEF Call
    <2> QED BY <1>0, <1>1, <1>2, <1>5, <1>6, <2>1, <2>2, TurnOverTypes, CallBegins
            DEF TypeOK, mode, owner
  <1>8. HandOK' BY <1>0, <1>6, HandKept
  <1>9. QueueOK'
    <2>1. ASSUME NEW d \in Endpoints
          PROVE  read[d] = begun'[d] + IF hand'[Serves[d]] = d THEN 1 ELSE 0
      <3>1. Serves[d] \in Receivers /\ d # None BY ReceiversAssumption, NoneAssumption
      <3>2. begun[d] \in Nat /\ read[d] \in Nat BY <1>0 DEF TypeOK
      <3>3. queue[d] = <<>> /\ task[d] = "none" BY <1>0, <1>1 DEF QueueOK
      <3>4. read[d] = begun[d] + IF hand[Serves[d]] = d THEN 1 ELSE 0
        BY <1>0, <3>2, <3>3 DEF QueueOK
      <3>5. CASE d = e
        <4>1. begun'[d] = begun[d] + 1 BY <1>0, <1>2, <1>5, <3>5, CallBegins
        <4>2. hand'[Serves[d]] # d BY <1>0, <1>2, <1>6, <3>1, <3>5, TurnOverTypes
        <4> QED BY <1>4, <3>2, <3>5, <4>1, <4>2
      <3>6. CASE d # e
        <4>1. begun'[d] = begun[d] BY <1>0, <1>2, <1>5, <3>6, CallBegins
        <4>2. (hand'[Serves[d]] = d) <=> (hand[Serves[d]] = d)
          BY <1>0, <1>6, <3>1, <3>6, TurnOverTypes
        <4> QED BY <3>4, <4>1, <4>2
      <3> QED BY <3>5, <3>6
    <2>2. \A d \in Endpoints : queue'[d] = <<>> /\ task'[d] = "none" /\ Len(queue'[d]) = 0
      BY <1>0, <1>1 DEF QueueOK
    <2>3. begun' \in [Endpoints -> Nat] /\ read \in [Endpoints -> Nat] /\ read' = read
      BY <1>0, <1>1, <1>2, <1>5, CallBegins DEF TypeOK
    <2>4. \A d \in Endpoints : begun'[d] <= read'[d]
      BY <2>1, <2>3
    <2> QED BY <2>1, <2>2, <2>3, <2>4 DEF QueueOK
  <1>10. BusyOK' BY <1>1 DEF BusyOK, mode
  <1>11. CausesOK'
    <2>1. /\ begun' \in [Endpoints -> Nat]
          /\ \A d \in Endpoints : begun[d] <= begun'[d]
          /\ outcome[<<e, read[e]>>] = "panicsMaking" => r \in Made'
      BY <1>0, <1>2, <1>4, <1>5, CallBegins
    <2>2. poisoned' = (poisoned \/ Poisons(<<e, read[e]>>)) BY <1>1 DEF Call
    <2>3. Poisons(<<e, read[e]>>) => pooled /\ outcome[<<e, read[e]>>] = "panicsMaking"
      BY DEF Poisons
    <2>4. poisoned => poisoned' BY <2>2
    <2>5. poisoned' => poisoned \/ (pooled /\ Made' # {}) BY <2>1, <2>2, <2>3
    <2>6. \A d \in Endpoints : task'[d] = "panicked" => task[d] = "panicked" BY <1>1
    <2>7. Made \subseteq Made' BY <1>0, <1>5, <2>1, CausesStay
    <2>8. Fails(<<e, read[e]>>) => r \in Made' \/ (pooled /\ Made' # {})
      BY <1>0, <2>1, <2>7 DEF Fails, CausesOK
    <2>9. \A q \in Receivers : listener'[q] = "panicked" =>
             \/ listener[q] = "panicked"
             \/ q \in Made' \/ (pooled /\ Made' # {}) \/ (~concurrent /\ q \in Awaited')
      BY <1>0, <1>1, <1>6, <2>8, TurnOverTypes
    <2> QED BY <1>1, <2>1, <2>4, <2>5, <2>6, <2>9, CausesKept
  <1> QED BY <1>7, <1>8, <1>9, <1>10, <1>11 DEF IInv

\* What a task takes from its channel is the message after the one begun last.
LEMMA TakeIsNext ==
  ASSUME TypeOK, QueueOK, NEW e \in Endpoints, queue[e] # <<>>, task[e] = "waiting"
  PROVE  /\ Head(queue[e]) = begun[e] + 1 /\ begun[e] + 1 <= read[e]
         /\ Tail(queue[e]) \in Seq(Nat) /\ Len(Tail(queue[e])) = Len(queue[e]) - 1
         /\ \A i \in 1 .. Len(Tail(queue[e])) : Tail(queue[e])[i] = begun[e] + 1 + i
         /\ ~concurrent
  <1>1. queue[e] \in Seq(Nat) /\ begun[e] \in Nat /\ read[e] \in Nat BY DEF TypeOK
  <1>2. Len(queue[e]) \in Nat \ {0} BY <1>1
  <1>3. \A i \in 1 .. Len(queue[e]) : queue[e][i] = begun[e] + i BY DEF QueueOK
  <1>4. Head(queue[e]) = queue[e][1] BY <1>1, <1>2
  <1>5. Tail(queue[e]) \in Seq(Nat) /\ Len(Tail(queue[e])) = Len(queue[e]) - 1 BY <1>1, <1>2
  <1>6. \A i \in 1 .. Len(Tail(queue[e])) : Tail(queue[e])[i] = queue[e][i + 1] BY <1>1, <1>2, <1>5
  <1>7. ASSUME NEW i \in 1 .. Len(Tail(queue[e])) PROVE Tail(queue[e])[i] = begun[e] + 1 + i
    <2>1. i + 1 \in 1 .. Len(queue[e]) BY <1>2, <1>5
    <2>2. queue[e][i + 1] = begun[e] + (i + 1) BY <1>3, <2>1
    <2> QED BY <1>1, <1>6, <2>2
  <1>8. begun[e] + 1 <= read[e]
    <2>1. read[e] = begun[e] + Len(queue[e]) + IF hand[Serves[e]] = e THEN 1 ELSE 0 BY DEF QueueOK
    <2> QED BY <1>1, <1>2, <2>1
  <1>9. Head(queue[e]) = begun[e] + 1 BY <1>1, <1>2, <1>3, <1>4
  <1>10. ~concurrent BY DEF QueueOK
  <1> QED BY <1>5, <1>7, <1>8, <1>9, <1>10

\* The task of an endpoint takes a message and calls the closure.
LEMMA TakeStep == ASSUME IInv, NEW e \in Endpoints, Take(e) PROVE IInv'
  <1> DEFINE m == <<e, begun[e] + 1>>
  <1>0. TypeOK /\ HandOK /\ QueueOK /\ BusyOK /\ CausesOK BY DEF IInv
  <1>1. /\ task[e] = "waiting" /\ queue[e] # <<>> /\ Call(e, Head(queue[e]))
        /\ IF Fails(<<e, Head(queue[e])>>) THEN Dies(e)
           ELSE /\ task' = [task EXCEPT ![e] = "awaiting"]
                /\ queue' = [queue EXCEPT ![e] = Tail(@)]
        /\ UNCHANGED <<mode, listener, hand, read, finished, owner>>
    BY DEF Take
  <1>2. /\ Head(queue[e]) = begun[e] + 1 /\ begun[e] + 1 <= read[e] /\ ~concurrent
        /\ Tail(queue[e]) \in Seq(Nat) /\ Len(Tail(queue[e])) = Len(queue[e]) - 1
        /\ \A i \in 1 .. Len(Tail(queue[e])) : Tail(queue[e])[i] = begun[e] + 1 + i
    BY <1>0, <1>1, TakeIsNext
  <1>3. Call(e, begun[e] + 1) /\ outcome' = outcome BY <1>1, <1>2 DEF mode
  <1>4. /\ begun' \in [Endpoints -> Nat] /\ \A d \in Endpoints : begun[d] <= begun'[d]
        /\ begun'[e] = begun[e] + 1 /\ \A d \in Endpoints : d # e => begun'[d] = begun[d]
        /\ outcome[m] = "panicsMaking" => Serves[e] \in Made'
    BY <1>0, <1>3, CallBegins
  <1>5. /\ \A d \in Endpoints : d # e => task'[d] = task[d] /\ queue'[d] = queue[d]
        /\ Fails(m) => task'[e] = "panicked" /\ queue'[e] = <<>>
        /\ ~Fails(m) => task'[e] = "awaiting" /\ queue'[e] = Tail(queue[e])
        /\ task' \in [Endpoints -> {"none", "waiting", "awaiting", "panicked", "ended"}]
        /\ queue' \in [Endpoints -> Seq(Nat)]
    <2>1. CASE Fails(m)
      <3>1. task' = [task EXCEPT ![e] = "panicked"] /\ queue' = [queue EXCEPT ![e] = <<>>]
        BY <1>1, <1>2, <2>1 DEF Dies
      <3>2. queue' \in [Endpoints -> Seq(Nat)] BY <1>0, <3>1 DEF TypeOK
      <3> QED BY <1>0, <2>1, <3>1, <3>2 DEF TypeOK
    <2>2. CASE ~Fails(m) BY <1>0, <1>1, <1>2, <2>2 DEF TypeOK
    <2> QED BY <2>1, <2>2
  <1>6. /\ busy' \in [Endpoints -> SUBSET Nat] /\ \A d \in Endpoints : d # e => busy'[d] = busy[d]
        /\ busy'[e] = IF Fails(m) THEN busy[e] ELSE busy[e] \cup {begun[e] + 1}
    BY <1>0, <1>3 DEF Call, TypeOK
  <1>7. poisoned' = (poisoned \/ Poisons(m)) /\ poisoned' \in BOOLEAN BY <1>3 DEF Call
  <1>8. TypeOK'
    <2>1. ASSUME NEW d \in Endpoints PROVE read'[d] <= MaxRead[d] /\ Len(queue'[d]) <= Capacity
      <3>1. read[d] <= MaxRead[d] /\ Len(queue[d]) <= Capacity /\ Len(queue[d]) \in Nat
        BY <1>0 DEF TypeOK
      <3>2. Len(queue'[d]) <= Capacity
        <4>1. CASE d # e BY <1>5, <3>1, <4>1
        <4>2. CASE d = e /\ Fails(m)
          <5>1. Len(queue'[d]) = 0 BY <1>5, <4>2
          <5> QED BY <5>1, CapacityAssumption
        <4>3. CASE d = e /\ ~Fails(m)
          BY <1>2, <1>5, <3>1, <4>3, CapacityAssumption
        <4> QED BY <4>1, <4>2, <4>3
      <3> QED BY <1>1, <3>1, <3>2
    <2> QED BY <1>0, <1>1, <1>4, <1>5, <1>6, <1>7, <2>1 DEF TypeOK, mode, owner
  <1>9. HandOK' BY <1>0, <1>1 DEF HandOK
  <1>10. QueueOK'
    <2> SUFFICES ASSUME NEW d \in Endpoints
                 PROVE  /\ begun'[d] <= read[d]
                        /\ \A i \in 1 .. Len(queue'[d]) : queue'[d][i] = begun'[d] + i
                        /\ task'[d] # "panicked" =>
                              read[d] = begun'[d] + Len(queue'[d]) + IF hand[Serves[d]] = d THEN 1 ELSE 0
      BY <1>1, <1>2 DEF QueueOK, mode
    <2>1. begun[d] \in Nat /\ read[d] \in Nat /\ Len(queue[d]) \in Nat BY <1>0 DEF TypeOK
    <2>2. CASE d # e
      <3>1. begun'[d] = begun[d] /\ queue'[d] = queue[d] /\ task'[d] = task[d] BY <1>4, <1>5, <2>2
      <3> QED BY <1>0, <3>1 DEF QueueOK
    <2>3. CASE d = e /\ Fails(m)
      <3>1. Len(queue'[d]) = 0 BY <1>5, <2>3
      <3> QED BY <1>2, <1>4, <1>5, <2>3, <3>1
    <2>4. CASE d = e /\ ~Fails(m)
      <3>1. read[d] = begun[d] + Len(queue[d]) + IF hand[Serves[d]] = d THEN 1 ELSE 0
        BY <1>0, <1>1, <2>4 DEF QueueOK
      <3>2. Len(queue'[d]) = Len(queue[d]) - 1 /\ begun'[d] = begun[d] + 1 BY <1>2, <1>4, <1>5, <2>4
      <3>3. read[d] = begun'[d] + Len(queue'[d]) + IF hand[Serves[d]] = d THEN 1 ELSE 0
        <4>1. CASE hand[Serves[d]] = d BY <2>1, <3>1, <3>2, <4>1
        <4>2. CASE hand[Serves[d]] # d
          <5>1. read[d] = begun[d] + Len(queue[d]) BY <2>1, <3>1, <4>2
          <5>2. read[d] = begun'[d] + Len(queue'[d]) BY <2>1, <3>2, <5>1
          <5>3. begun'[d] + Len(queue'[d]) \in Nat BY <2>1, <3>2
          <5> QED BY <4>2, <5>2, <5>3
        <4> QED BY <4>1, <4>2
      <3> QED BY <1>2, <1>4, <1>5, <2>4, <3>2, <3>3
    <2> QED BY <2>2, <2>3, <2>4
  <1>11. BusyOK'
    <2>1. ASSUME NEW d \in Endpoints
          PROVE  busy'[d] = IF task'[d] = "awaiting" THEN {begun'[d]} ELSE {}
      <3>1. busy[d] = IF task[d] = "awaiting" THEN {begun[d]} ELSE {} BY <1>0, <1>2 DEF BusyOK
      <3>2. CASE d # e BY <1>4, <1>5, <1>6, <3>1, <3>2
      <3>3. CASE d = e BY <1>1, <1>4, <1>5, <1>6, <3>1, <3>3
      <3> QED BY <3>2, <3>3
    <2> QED BY <2>1 DEF BusyOK
  <1>12. CausesOK'
    <2>1. Poisons(m) => pooled /\ outcome[m] = "panicsMaking" BY DEF Poisons
    <2>2. poisoned => poisoned' BY <1>7
    <2>3. poisoned' => poisoned \/ (pooled /\ Made' # {}) BY <1>4, <1>7, <2>1
    <2>4. Fails(m) => poisoned \/ Serves[e] \in Made' BY <1>4 DEF Fails
    <2>5. \A d \in Endpoints : task'[d] = "panicked" =>
             task[d] = "panicked" \/ (~concurrent /\ (poisoned' \/ Serves[d] \in Made' \cup Awaited'))
      BY <1>2, <1>5, <2>2, <2>4
    <2>6. \A r \in Receivers : listener'[r] = "panicked" => listener[r] = "panicked" BY <1>1
    <2> QED BY <1>1, <1>4, <2>2, <2>3, <2>5, <2>6, CausesKept
  <1> QED BY <1>8, <1>9, <1>10, <1>11, <1>12 DEF IInv

\* The channel is closed and empty.
LEMMA CloseStep == ASSUME IInv, NEW e \in Endpoints, Close(e) PROVE IInv'
  <1>0. TypeOK /\ HandOK /\ QueueOK /\ BusyOK BY DEF IInv
  <1>1. /\ task[e] = "waiting" /\ task' = [task EXCEPT ![e] = "ended"]
        /\ UNCHANGED <<mode, listener, hand, read, queue, begun, busy, finished, poisoned, owner>>
    BY DEF Close
  <1>2. /\ task' \in [Endpoints -> {"none", "waiting", "awaiting", "panicked", "ended"}]
        /\ \A d \in Endpoints : (task'[d] = "panicked") <=> (task[d] = "panicked")
        /\ \A d \in Endpoints : (task'[d] = "awaiting") <=> (task[d] = "awaiting")
        /\ \A d \in Endpoints : task[d] = "none" => task'[d] = "none"
    BY <1>0, <1>1 DEF TypeOK
  <1>3. TypeOK' BY <1>0, <1>1, <1>2 DEF TypeOK, mode, owner
  <1>4. HandOK' BY <1>0, <1>1 DEF HandOK
  <1>5. QueueOK' BY <1>0, <1>1, <1>2 DEF QueueOK, mode
  <1>6. BusyOK' BY <1>0, <1>1, <1>2 DEF BusyOK, mode
  <1>7. CausesOK'
    <2>1. \A d \in Endpoints : task'[d] = "panicked" => task[d] = "panicked" BY <1>2
    <2>2. \A r \in Receivers : listener'[r] = "panicked" => listener[r] = "panicked" BY <1>1
    <2> QED BY <1>1, <2>1, <2>2, CausesSame
  <1> QED BY <1>3, <1>4, <1>5, <1>6, <1>7 DEF IInv

\* A future that is awaited is, in the serial mode, that of the message begun
\* last, and the endpoint's task awaits it.
LEMMA BusyIsLast ==
  ASSUME TypeOK, BusyOK, NEW e \in Endpoints, NEW n \in busy[e], ~concurrent
  PROVE  task[e] = "awaiting" /\ n = begun[e] /\ busy[e] \ {n} = {}
  BY DEF BusyOK

\* A future is ready or panics: its endpoint's task goes on, or is gone.
LEMMA FinishStep ==
  ASSUME IInv, NEW e \in Endpoints, NEW n \in Numbers(e), Finish(e, n)
  PROVE  IInv'
  <1>0. TypeOK /\ HandOK /\ QueueOK /\ BusyOK BY DEF IInv
  <1>1. /\ n \in busy[e] /\ busy' = [busy EXCEPT ![e] = @ \ {n}]
        /\ finished' = [finished EXCEPT ![e] = @ \cup {n}]
        /\ task' = IF concurrent THEN task ELSE [task EXCEPT ![e] = "waiting"]
        /\ UNCHANGED <<mode, listener, hand, read, queue, begun, poisoned, owner>>
    BY DEF Finish
  <1>2. /\ task' \in [Endpoints -> {"none", "waiting", "awaiting", "panicked", "ended"}]
        /\ \A d \in Endpoints : (task'[d] = "panicked") <=> (task[d] = "panicked")
        /\ ~concurrent => \A d \in Endpoints : d # e => task'[d] = task[d]
        /\ ~concurrent => task'[e] = "waiting"
        /\ concurrent => task' = task
    <2>1. ~concurrent => task[e] = "awaiting" BY <1>0, <1>1, BusyIsLast
    <2> QED BY <1>0, <1>1, <2>1 DEF TypeOK
  <1>3. TypeOK'
    <2>1. busy' \in [Endpoints -> SUBSET Nat] BY <1>0, <1>1 DEF TypeOK
    <2>2. n \in Nat BY BoundsAssumption DEF Numbers
    <2>3. finished' \in [Endpoints -> SUBSET Nat] BY <1>0, <1>1, <2>2 DEF TypeOK
    <2> QED BY <1>0, <1>1, <1>2, <2>1, <2>3 DEF TypeOK, mode, owner
  <1>4. HandOK' BY <1>0, <1>1 DEF HandOK
  <1>5. QueueOK' BY <1>0, <1>1, <1>2 DEF QueueOK, mode
  <1>6. BusyOK'
    <2>1. ASSUME NEW d \in Endpoints, ~concurrent
          PROVE  busy'[d] = IF task'[d] = "awaiting" THEN {begun[d]} ELSE {}
      <3>1. CASE d # e BY <1>0, <1>1, <1>2, <2>1, <3>1 DEF BusyOK, TypeOK
      <3>2. CASE d = e
        <4>1. busy[e] \ {n} = {} BY <1>0, <1>1, <2>1, BusyIsLast
        <4> QED BY <1>0, <1>1, <1>2, <2>1, <3>2, <4>1 DEF TypeOK
      <3> QED BY <3>1, <3>2
    <2> QED BY <1>1, <2>1 DEF BusyOK, mode
  <1>7. CausesOK'
    <2>1. \A d \in Endpoints : task'[d] = "panicked" => task[d] = "panicked" BY <1>2
    <2>2. \A r \in Receivers : listener'[r] = "panicked" => listener[r] = "panicked" BY <1>1
    <2> QED BY <1>1, <2>1, <2>2, CausesSame
  <1> QED BY <1>3, <1>4, <1>5, <1>6, <1>7 DEF IInv

LEMMA AwaitPanicsStep ==
  ASSUME IInv, NEW e \in Endpoints, NEW n \in Numbers(e), AwaitPanics(e, n)
  PROVE  IInv'
  <1>0. TypeOK /\ HandOK /\ QueueOK /\ BusyOK /\ CausesOK BY DEF IInv
  <1>1. /\ n \in busy[e] /\ outcome[<<e, n>>] = "panicsAwaited"
        /\ busy' = [busy EXCEPT ![e] = @ \ {n}]
        /\ IF concurrent THEN UNCHANGED <<task, queue>> ELSE Dies(e)
        /\ UNCHANGED <<mode, listener, hand, read, begun, finished, poisoned, owner>>
    BY DEF AwaitPanics
  <1>2. /\ task' \in [Endpoints -> {"none", "waiting", "awaiting", "panicked", "ended"}]
        /\ queue' \in [Endpoints -> Seq(Nat)]
        /\ concurrent => task' = task /\ queue' = queue
        /\ ~concurrent => task'[e] = "panicked" /\ queue'[e] = <<>>
        /\ \A d \in Endpoints : d # e => task'[d] = task[d] /\ queue'[d] = queue[d]
    <2>1. CASE concurrent BY <1>0, <1>1, <2>1 DEF TypeOK
    <2>2. CASE ~concurrent
      <3>1. task' = [task EXCEPT ![e] = "panicked"] /\ queue' = [queue EXCEPT ![e] = <<>>]
        BY <1>1, <2>2 DEF Dies
      <3>2. queue' \in [Endpoints -> Seq(Nat)] BY <1>0, <3>1 DEF TypeOK
      <3> QED BY <1>0, <2>2, <3>1, <3>2 DEF TypeOK
    <2> QED BY <2>1, <2>2
  <1>3. TypeOK'
    <2>1. busy' \in [Endpoints -> SUBSET Nat] BY <1>0, <1>1 DEF TypeOK
    <2>2. ASSUME NEW d \in Endpoints PROVE Len(queue'[d]) <= Capacity
      <3>1. Len(<<>>) <= Capacity BY CapacityAssumption
      <3>2. queue'[d] = queue[d] \/ queue'[d] = <<>> BY <1>2
      <3> QED BY <1>0, <3>1, <3>2 DEF TypeOK
    <2> QED BY <1>0, <1>1, <1>2, <2>1, <2>2 DEF TypeOK, mode, owner
  <1>4. HandOK' BY <1>0, <1>1 DEF HandOK
  <1>5. QueueOK'
    <2>1. ASSUME NEW d \in Endpoints, ~concurrent
          PROVE  /\ \A i \in 1 .. Len(queue'[d]) : queue'[d][i] = begun[d] + i
                 /\ task'[d] # "panicked" =>
                       read[d] = begun[d] + Len(queue'[d]) + IF hand[Serves[d]] = d THEN 1 ELSE 0
      <3>1. CASE d # e
        <4>1. queue'[d] = queue[d] /\ task'[d] = task[d] BY <1>2, <3>1
        <4> QED BY <1>0, <4>1 DEF QueueOK
      <3>2. CASE d = e
        <4>1. Len(queue'[d]) = 0 BY <1>2, <2>1, <3>2
        <4> QED BY <1>2, <2>1, <3>2, <4>1
      <3> QED BY <3>1, <3>2
    <2>2. CASE concurrent BY <1>0, <1>1, <1>2, <2>2 DEF QueueOK, mode
    <2>3. CASE ~concurrent BY <1>0, <1>1, <2>1, <2>3 DEF QueueOK, mode
    <2> QED BY <2>2, <2>3
  <1>6. BusyOK'
    <2>1. ASSUME NEW d \in Endpoints, ~concurrent
          PROVE  busy'[d] = IF task'[d] = "awaiting" THEN {begun[d]} ELSE {}
      <3>1. CASE d # e BY <1>0, <1>1, <1>2, <2>1, <3>1 DEF BusyOK, TypeOK
      <3>2. CASE d = e
        <4>1. busy[e] \ {n} = {} BY <1>0, <1>1, <2>1, BusyIsLast
        <4> QED BY <1>0, <1>1, <1>2, <2>1, <3>2, <4>1 DEF TypeOK
      <3> QED BY <3>1, <3>2
    <2> QED BY <1>1, <2>1 DEF BusyOK, mode
  <1>7. CausesOK'
    <2>1. ~concurrent => Serves[e] \in Awaited'
      <3>1. SUFFICES ASSUME ~concurrent PROVE Serves[e] \in Awaited' OBVIOUS
      <3>2. n = begun[e] BY <1>0, <1>1, <3>1, BusyIsLast
      <3>3. n \in 1 .. begun[e] BY <3>2, BoundsAssumption DEF Numbers
      <3>4. Serves[e] \in Receivers /\ begun' = begun /\ outcome' = outcome
        BY <1>1, ReceiversAssumption DEF mode
      <3> QED BY <1>1, <3>3, <3>4 DEF Awaited, Begun
    <2>2. begun' \in [Endpoints -> Nat] /\ \A d \in Endpoints : begun[d] <= begun'[d]
      BY <1>0, <1>1 DEF TypeOK
    <2>3. poisoned' = poisoned BY <1>1
    <2>4. (poisoned => poisoned') /\ (poisoned' => poisoned) BY <2>3
    <2>5. \A d \in Endpoints : task'[d] = "panicked" =>
             task[d] = "panicked" \/ (~concurrent /\ (poisoned' \/ Serves[d] \in Made' \cup Awaited'))
      BY <1>2, <2>1
    <2>6. \A r \in Receivers : listener'[r] = "panicked" => listener[r] = "panicked" BY <1>1
    <2> QED BY <1>1, <2>2, <2>4, <2>5, <2>6, CausesKept
  <1> QED BY <1>3, <1>4, <1>5, <1>6, <1>7 DEF IInv

\* Every step of the system keeps the invariant.
LEMMA NextIInv == IInv /\ [Next]_vars => IInv'
  <1> SUFFICES ASSUME IInv, [Next]_vars PROVE IInv' OBVIOUS
  <1>1. ASSUME NEW e \in Endpoints, ReadMessage(e) \/ Take(e) \/ Close(e) PROVE IInv'
    BY <1>1, ReadMessageStep, TakeStep, CloseStep
  <1>2. ASSUME NEW e \in Endpoints, NEW n \in Numbers(e), Finish(e, n) \/ AwaitPanics(e, n) PROVE IInv'
    BY <1>2, FinishStep, AwaitPanicsStep
  <1>3. ASSUME NEW r \in Receivers, EndIdle(r) \/ Spawn(r) \/ Enqueue(r) \/ EnqueueFails(r) PROVE IInv'
    BY <1>3, EndIdleStep, SpawnStep, EnqueueStep, EnqueueFailsStep
  <1>4. CASE UNCHANGED vars
    <2>1. TypeOK' BY <1>4 DEF IInv, TypeOK, vars, mode, tasks, owner
    <2> QED BY <1>4, <2>1, QuietStep DEF vars, tasks, Quiet
  <1> QED BY <1>1, <1>2, <1>3, <1>4, StopAsyncStep, JoinNextStep DEF Next

THEOREM Invariance == Spec => []IInv
  BY InitIInv, NextIInv, PTL DEF Spec

-----------------------------------------------------------------------------
(* What follows from the invariant.                                        *)

\* The variables keep their types: no channel holds more than its capacity.
THEOREM TypeCorrect == Spec => []TypeOK
  BY Invariance, PTL DEF IInv

\* In the serial mode callbacks of one endpoint do not overlap, and no message
\* is lost on the way to the callback as long as the endpoint's task lives.
THEOREM NoOverlap == Spec => []OneAtATime
  <1>1. IInv => OneAtATime
    <2> SUFFICES ASSUME IInv, ~concurrent, NEW e \in Endpoints
                 PROVE  /\ \A m, n \in busy[e] : m = n
                        /\ task[e] # "panicked" =>
                              read[e] = begun[e] + Len(queue[e])
                                        + IF hand[Serves[e]] = e THEN 1 ELSE 0
      BY DEF OneAtATime
    <2>1. \A m, n \in busy[e] : m = n BY DEF IInv, BusyOK
    <2>2. task[e] # "panicked" =>
             read[e] = begun[e] + Len(queue[e]) + IF hand[Serves[e]] = e THEN 1 ELSE 0
      BY DEF IInv, QueueOK
    <2> QED BY <2>1, <2>2
  <1> QED BY <1>1, Invariance, PTL

\* A listener panics only for a callback it was given, or the mutex of its
\* pool's closure was poisoned by.
THEOREM PanicsAreCaused == Spec => []PanicHasCause
  <1>1. IInv => PanicHasCause
    BY DEF IInv, CausesOK, PanicHasCause, Made, Awaited
  <1> QED BY <1>1, Invariance, PTL

\* Callbacks of an endpoint begin in the order of its messages, without gaps.
THEOREM DeliveredInOrder == Spec => InOrder
  <1> DEFINE Step == \A e \in Endpoints : begun'[e] # begun[e] => begun'[e] = begun[e] + 1
  <1>1. IInv /\ [Next]_vars => [Step]_vars
    <2> SUFFICES ASSUME IInv, Next PROVE Step BY DEF vars
    <2>0. TypeOK /\ QueueOK /\ HandOK BY DEF IInv
    <2>1. ASSUME NEW e \in Endpoints, Take(e) PROVE Step
      <3>1. Call(e, begun[e] + 1) /\ outcome' = outcome
        BY <2>0, <2>1, TakeIsNext DEF Take, mode
      <3> QED BY <2>0, <3>1, CallBegins
    <2>2. ASSUME NEW r \in Receivers, Spawn(r) PROVE Step
      <3> DEFINE e == hand[r]
      <3>1. concurrent /\ hand[r] # None /\ Call(e, read[e]) /\ UNCHANGED mode BY <2>2 DEF Spawn
      <3>2. e \in Endpoints /\ Serves[e] = r
        <4>1. hand[r] \in Endpoints \cup {None} BY <2>0 DEF TypeOK
        <4>2. Serves[hand[r]] = r BY <2>0, <3>1 DEF HandOK
        <4> QED BY <3>1, <4>1, <4>2
      <3>3. queue[e] = <<>> /\ task[e] = "none" /\ begun[e] \in Nat /\ read[e] \in Nat
        BY <2>0, <3>1, <3>2 DEF TypeOK, QueueOK
      <3>4. read[e] = begun[e] + 1 BY <2>0, <3>1, <3>2, <3>3 DEF QueueOK
      <3>5. Call(e, begun[e] + 1) /\ outcome' = outcome BY <3>1, <3>4 DEF mode
      <3> QED BY <2>0, <3>2, <3>5, CallBegins
    <2>3. CASE UNCHANGED begun BY <2>3
    <2>4. ASSUME NEW e \in Endpoints, ReadMessage(e) \/ Close(e) PROVE UNCHANGED begun
      BY <2>4 DEF ReadMessage, Close, tasks
    <2>5. ASSUME NEW e \in Endpoints, NEW n \in Numbers(e), Finish(e, n) \/ AwaitPanics(e, n)
          PROVE  UNCHANGED begun
      BY <2>5 DEF Finish, AwaitPanics
    <2>6. ASSUME NEW r \in Receivers, EndIdle(r) \/ Enqueue(r) \/ EnqueueFails(r)
          PROVE  UNCHANGED begun
      BY <2>6 DEF EndIdle, Enqueue, EnqueueFails, tasks
    <2>7. StopAsync \/ JoinNext => UNCHANGED begun BY DEF StopAsync, JoinNext, tasks
    <2> QED BY <2>1, <2>2, <2>3, <2>4, <2>5, <2>6, <2>7 DEF Next
  <1> QED BY <1>1, Invariance, PTL DEF Spec, InOrder

-----------------------------------------------------------------------------
(* Nothing is left behind, and nobody waits for what cannot come.          *)

\* Why a message that was read may never have its callback end: the callback
\* itself; the endpoint's task, which a panic ended with all its channel held;
\* or, in the concurrent mode, the panic of the listener that began it.
Gone(e, n) ==
    \/ outcome[<<e, n>>] # "ends"
    \/ task[e] = "panicked"
    \/ concurrent /\ listener[Serves[e]] = "panicked" /\ n = begun[e]

\* What a channel holds has a task that takes it, and a task ends only after
\* its listener.
Alive ==
    \A e \in Endpoints :
        /\ queue[e] # <<>> => task[e] \in {"waiting", "awaiting"}
        /\ task[e] = "ended" => listener[Serves[e]] # "running"

\* A callback that was begun has ended, is awaited, or is gone.
Settled ==
    \A e \in Endpoints : \A n \in 1 .. begun[e] :
        n \in finished[e] \/ n \in busy[e] \/ Gone(e, n)

\* stop_async raises every flag before it awaits anyone.
Flagged == stopping # 0 => \A r \in Receivers : interrupted[r]

Going == Alive /\ Settled /\ Flagged

\* At the start nothing is read and nobody stops.
LEMMA InitGoing == Init => Going
  <1> SUFFICES ASSUME Init PROVE Going OBVIOUS
  <1>1. Alive BY DEF Init, Alive
  <1>2. Settled
    <2>1. \A e \in Endpoints : begun[e] = 0 BY DEF Init
    <2> QED BY <2>1 DEF Settled
  <1>3. Flagged BY DEF Init, Flagged
  <1> QED BY <1>1, <1>2, <1>3 DEF Going

\* A listener that has stopped stays as it is.
LEMMA StoppedStays ==
  ASSUME IInv, Next, NEW r \in Receivers, listener[r] # "running"
  PROVE  listener'[r] = listener[r]
  <1>0. TypeOK /\ HandOK BY DEF IInv
  <1>1. hand[r] = None BY <1>0 DEF HandOK
  <1>2. ASSUME NEW q \in Receivers, hand[q] # None, TurnOver(q) \/ Panic(q) PROVE listener'[r] = listener[r]
    BY <1>0, <1>1, <1>2, TurnOverTypes
  <1>3. ASSUME NEW q \in Receivers, EndIdle(q) PROVE listener'[r] = listener[r]
    BY <1>0, <1>3 DEF EndIdle, TypeOK
  <1>4. ASSUME NEW q \in Receivers, Spawn(q) PROVE listener'[r] = listener[r]
    <2>1. hand[q] # None /\ (TurnOver(q) \/ Panic(q)) BY <1>4 DEF Spawn
    <2> QED BY <1>2, <2>1
  <1>5. ASSUME NEW q \in Receivers, Enqueue(q) PROVE listener'[r] = listener[r]
    <2>1. hand[q] # None /\ TurnOver(q) BY <1>5 DEF Enqueue
    <2> QED BY <1>2, <2>1
  <1>6. ASSUME NEW q \in Receivers, EnqueueFails(q) PROVE listener'[r] = listener[r]
    <2>1. hand[q] # None /\ Panic(q) BY <1>6 DEF EnqueueFails
    <2> QED BY <1>2, <2>1
  <1>7. ASSUME NEW e \in Endpoints, ReadMessage(e) \/ Take(e) \/ Close(e) PROVE listener' = listener
    BY <1>7 DEF ReadMessage, Take, Close
  <1>8. ASSUME NEW e \in Endpoints, NEW n \in Numbers(e), Finish(e, n) \/ AwaitPanics(e, n)
        PROVE  listener' = listener
    BY <1>8 DEF Finish, AwaitPanics
  <1>9. StopAsync \/ JoinNext => listener' = listener BY DEF StopAsync, JoinNext
  <1> QED BY <1>3, <1>4, <1>5, <1>6, <1>7, <1>8, <1>9 DEF Next

\* A step that begins no callback and ends none settles nothing anew.
LEMMA SettledStays ==
  ASSUME IInv, Settled, Next, UNCHANGED <<mode, begun, busy, finished>>,
         \A e \in Endpoints : task[e] = "panicked" => task'[e] = "panicked"
  PROVE  Settled'
  <1> SUFFICES ASSUME NEW e \in Endpoints, NEW n \in 1 .. begun[e]
               PROVE  n \in finished[e] \/ n \in busy[e] \/ Gone(e, n)'
    BY DEF Settled
  <1>1. n \in finished[e] \/ n \in busy[e] \/ Gone(e, n) BY DEF Settled
  <1>2. Serves[e] \in Receivers BY ReceiversAssumption
  <1>3. listener[Serves[e]] = "panicked" => listener'[Serves[e]] = "panicked"
    BY <1>2, StoppedStays
  <1>4. outcome' = outcome /\ concurrent' = concurrent BY DEF mode
  <1> QED BY <1>1, <1>3, <1>4 DEF Gone

\* A callback that is begun is awaited or gone; those begun before stay what
\* they were.
LEMMA SettledCall ==
  ASSUME IInv, Settled, Next, NEW e \in Endpoints, Call(e, begun[e] + 1),
         UNCHANGED <<mode, finished>>,
         \A d \in Endpoints : task[d] = "panicked" => task'[d] = "panicked",
         Fails(<<e, begun[e] + 1>>) =>
            task'[e] = "panicked" \/ (concurrent /\ listener'[Serves[e]] = "panicked"),
         concurrent => listener[Serves[e]] # "panicked"
  PROVE  Settled'
  <1>0. TypeOK BY DEF IInv
  <1>1. /\ begun'[e] = begun[e] + 1 /\ begun[e] \in Nat
        /\ \A d \in Endpoints : d # e => begun'[d] = begun[d]
    BY <1>0 DEF Call, TypeOK
  <1>2. /\ \A d \in Endpoints : d # e => busy'[d] = busy[d]
        /\ busy'[e] = IF Fails(<<e, begun[e] + 1>>) THEN busy[e] ELSE busy[e] \cup {begun[e] + 1}
    BY <1>0 DEF Call, TypeOK
  <1>3. outcome' = outcome /\ concurrent' = concurrent /\ finished' = finished BY DEF mode
  <1>4. \A d \in Endpoints : listener[Serves[d]] = "panicked" => listener'[Serves[d]] = "panicked"
    BY ReceiversAssumption, StoppedStays
  <1>5. ASSUME NEW d \in Endpoints, NEW n \in 1 .. begun'[d]
        PROVE  n \in finished'[d] \/ n \in busy'[d] \/ Gone(d, n)'
    <2>1. CASE d = e /\ n = begun[e] + 1
      <3>1. CASE Fails(<<e, begun[e] + 1>>) BY <1>1, <1>3, <2>1, <3>1 DEF Gone
      <3>2. CASE ~Fails(<<e, begun[e] + 1>>) BY <1>2, <2>1, <3>2
      <3> QED BY <3>1, <3>2
    <2>2. CASE ~(d = e /\ n = begun[e] + 1)
      <3>1. n \in 1 .. begun[d]
        <4>1. CASE d = e BY <1>1, <2>2, <4>1
        <4>2. CASE d # e BY <1>1, <4>2
        <4> QED BY <4>1, <4>2
      <3>2. n \in finished[d] \/ n \in busy[d] \/ Gone(d, n) BY <3>1 DEF Settled
      <3>3. n \in busy[d] => n \in busy'[d] BY <1>2
      <3>4. Gone(d, n) => Gone(d, n)'
        <4>1. outcome[<<d, n>>] # "ends" => Gone(d, n)' BY <1>3 DEF Gone
        <4>2. task[d] = "panicked" => Gone(d, n)' BY DEF Gone
        <4>3. concurrent /\ listener[Serves[d]] = "panicked" /\ n = begun[d] => Gone(d, n)'
          <5>1. CASE d = e BY <5>1
          <5>2. CASE d # e BY <1>1, <1>3, <1>4, <5>2 DEF Gone
          <5> QED BY <5>1, <5>2
        <4> QED BY <4>1, <4>2, <4>3 DEF Gone
      <3> QED BY <1>3, <3>2, <3>3, <3>4
    <2> QED BY <2>1, <2>2
  <1> QED BY <1>5 DEF Settled

\* A callback that ends or panics is finished, or gone by itself.
LEMMA SettledEnds ==
  ASSUME IInv, Settled, Next, NEW e \in Endpoints, NEW n \in Numbers(e),
         Finish(e, n) \/ AwaitPanics(e, n)
  PROVE  Settled'
  <1>0. TypeOK /\ BusyOK BY DEF IInv
  <1>1. UNCHANGED <<mode, listener, begun>> /\ n \in busy[e] /\ busy' = [busy EXCEPT ![e] = @ \ {n}]
    BY DEF Finish, AwaitPanics
  <1>2. \A d \in Endpoints : task[d] = "panicked" => task'[d] = "panicked"
    <2>1. ~concurrent => task[e] = "awaiting" BY <1>0, <1>1, BusyIsLast
    <2>2. task' = task \/ (~concurrent /\ \A d \in Endpoints : d # e => task'[d] = task[d])
      BY <1>0 DEF Finish, AwaitPanics, Dies, TypeOK
    <2> QED BY <2>1, <2>2
  <1>3. \A d \in Endpoints : finished[d] \subseteq finished'[d]
    <2>1. finished' = [finished EXCEPT ![e] = @ \cup {n}] \/ finished' = finished
      BY DEF Finish, AwaitPanics
    <2>2. finished \in [Endpoints -> SUBSET Nat] BY <1>0 DEF TypeOK
    <2> QED BY <2>1, <2>2
  <1>4. n \in finished'[e] \/ outcome[<<e, n>>] # "ends"
    BY <1>0 DEF Finish, AwaitPanics, TypeOK
  <1>5. outcome' = outcome /\ concurrent' = concurrent BY <1>1 DEF mode
  <1>6. ASSUME NEW d \in Endpoints, NEW m \in 1 .. begun[d]
        PROVE  m \in finished'[d] \/ m \in busy'[d] \/ Gone(d, m)'
    <2>1. m \in finished[d] \/ m \in busy[d] \/ Gone(d, m) BY DEF Settled
    <2>2. m \in busy[d] => m \in busy'[d] \/ (d = e /\ m = n) BY <1>0, <1>1 DEF TypeOK
    <2>3. Gone(d, m) => Gone(d, m)' BY <1>1, <1>2, <1>5 DEF Gone
    <2>4. outcome[<<d, m>>] # "ends" => Gone(d, m)' BY <1>5 DEF Gone
    <2> QED BY <1>3, <1>4, <2>1, <2>2, <2>3, <2>4
  <1> QED BY <1>1, <1>6 DEF Settled

\* Every step keeps what was begun settled.
LEMMA SettledNext == ASSUME IInv, Settled, Next PROVE Settled'
  <1>0. TypeOK /\ HandOK /\ QueueOK BY DEF IInv
  <1>1. ASSUME NEW e \in Endpoints, Take(e) PROVE Settled'
    <2>1. /\ task[e] = "waiting" /\ queue[e] # <<>> /\ Call(e, Head(queue[e]))
          /\ IF Fails(<<e, Head(queue[e])>>) THEN Dies(e)
             ELSE /\ task' = [task EXCEPT ![e] = "awaiting"]
                  /\ queue' = [queue EXCEPT ![e] = Tail(@)]
          /\ UNCHANGED <<mode, finished>>
      BY <1>1 DEF Take
    <2>2. Head(queue[e]) = begun[e] + 1 /\ ~concurrent BY <1>0, <2>1, TakeIsNext
    <2>3. \A d \in Endpoints : task[d] = "panicked" => task'[d] = "panicked"
      BY <1>0, <2>1 DEF Dies, TypeOK
    <2>4. Fails(<<e, begun[e] + 1>>) => task'[e] = "panicked" BY <1>0, <2>1, <2>2 DEF Dies, TypeOK
    <2>5. Call(e, begun[e] + 1) BY <2>1, <2>2
    <2> QED BY <2>1, <2>2, <2>3, <2>4, <2>5, SettledCall
  <1>2. ASSUME NEW r \in Receivers, Spawn(r) PROVE Settled'
    <2>0. PICK e : e = hand[r] OBVIOUS
    <2>1. /\ concurrent /\ e # None /\ Call(e, read[e])
          /\ IF Fails(<<e, read[e]>>) THEN Panic(r) ELSE TurnOver(r)
          /\ UNCHANGED <<mode, task, finished>>
      BY <1>2, <2>0 DEF Spawn
    <2>2. e \in Endpoints /\ Serves[e] = r /\ listener[r] = "running"
      <3>1. hand[r] \in Endpoints \cup {None} BY <1>0 DEF TypeOK
      <3>2. hand[r] # None => Serves[hand[r]] = r /\ listener[r] = "running" BY <1>0 DEF HandOK
      <3> QED BY <2>0, <2>1, <3>1, <3>2
    <2>3. queue[e] = <<>> /\ task[e] = "none" /\ begun[e] \in Nat /\ read[e] \in Nat
      BY <1>0, <2>1, <2>2 DEF TypeOK, QueueOK
    <2>4. read[e] = begun[e] + 1 BY <1>0, <2>0, <2>1, <2>2, <2>3 DEF QueueOK
    <2>5. Fails(<<e, begun[e] + 1>>) => listener'[Serves[e]] = "panicked"
      BY <1>0, <2>1, <2>2, <2>4 DEF Panic, TypeOK
    <2>6. Call(e, begun[e] + 1) BY <2>1, <2>4
    <2>7. UNCHANGED <<mode, finished>> BY <2>1
    <2>8. \A d \in Endpoints : task[d] = "panicked" => task'[d] = "panicked" BY <2>1
    <2>9. concurrent => listener[Serves[e]] # "panicked" BY <2>2
    <2>10. Fails(<<e, begun[e] + 1>>) =>
              task'[e] = "panicked" \/ (concurrent /\ listener'[Serves[e]] = "panicked")
      BY <2>1, <2>5
    <2> QED BY <2>2, <2>6, <2>7, <2>8, <2>9, <2>10, SettledCall
  <1>3. ASSUME NEW e \in Endpoints, ReadMessage(e) \/ Close(e) PROVE Settled'
    <2>1. UNCHANGED <<mode, begun, busy, finished>> BY <1>3 DEF ReadMessage, Close, tasks
    <2>2. \A d \in Endpoints : task[d] = "panicked" => task'[d] = "panicked"
      BY <1>0, <1>3 DEF ReadMessage, Close, tasks, TypeOK
    <2> QED BY <2>1, <2>2, SettledStays
  <1>4. ASSUME NEW r \in Receivers, EndIdle(r) \/ Enqueue(r) \/ EnqueueFails(r) PROVE Settled'
    <2>1. UNCHANGED <<mode, begun, busy, finished>> BY <1>4 DEF EndIdle, Enqueue, EnqueueFails, tasks
    <2>2. \A d \in Endpoints : task[d] = "panicked" => task'[d] = "panicked"
      BY <1>0, <1>4 DEF EndIdle, Enqueue, EnqueueFails, tasks, TypeOK
    <2> QED BY <2>1, <2>2, SettledStays
  <1>5. ASSUME StopAsync \/ JoinNext PROVE Settled'
    <2>1. UNCHANGED <<mode, begun, busy, finished, task>> BY <1>5 DEF StopAsync, JoinNext, tasks
    <2> QED BY <2>1, SettledStays
  <1> QED BY <1>1, <1>2, <1>3, <1>4, <1>5, SettledEnds DEF Next

\* Every step leaves a channel that holds something with a task that takes it.
LEMMA AliveNext == ASSUME IInv, Alive, Next PROVE Alive'
  <1>0. TypeOK /\ HandOK /\ QueueOK /\ BusyOK BY DEF IInv
  <1>1. \A d \in Endpoints : listener[Serves[d]] # "running" => listener'[Serves[d]] # "running"
    BY ReceiversAssumption, StoppedStays
  <1>2. ASSUME UNCHANGED <<task, queue>> PROVE Alive'
    BY <1>1, <1>2 DEF Alive
  <1>3. ASSUME NEW e \in Endpoints,
               \A d \in Endpoints : d # e => task'[d] = task[d] /\ queue'[d] = queue[d],
               task'[e] \in {"waiting", "awaiting"} \/ (queue'[e] = <<>> /\ task'[e] = "panicked")
        PROVE  Alive'
    BY <1>1, <1>3 DEF Alive
  <1>4. ASSUME NEW e \in Endpoints, Take(e) PROVE Alive'
    <2>1. \/ Dies(e)
          \/ task' = [task EXCEPT ![e] = "awaiting"] /\ queue' = [queue EXCEPT ![e] = Tail(@)]
      BY <1>4 DEF Take
    <2>2. CASE Dies(e) BY <1>0, <1>3, <2>2 DEF Dies, TypeOK
    <2>3. CASE task' = [task EXCEPT ![e] = "awaiting"] /\ queue' = [queue EXCEPT ![e] = Tail(@)]
      BY <1>0, <1>3, <2>3 DEF TypeOK
    <2> QED BY <2>1, <2>2, <2>3
  <1>5. ASSUME NEW e \in Endpoints, Close(e) PROVE Alive'
    <2>1. /\ listener[Serves[e]] # "running" /\ queue[e] = <<>>
          /\ task' = [task EXCEPT ![e] = "ended"] /\ UNCHANGED <<queue, listener>>
      BY <1>5 DEF Close
    <2> QED BY <1>0, <2>1 DEF Alive, TypeOK
  <1>6. ASSUME NEW r \in Receivers, Enqueue(r) PROVE Alive'
    <2>0. PICK e : e = hand[r] OBVIOUS
    <2>1. /\ e # None /\ task[e] # "panicked"
          /\ queue' = [queue EXCEPT ![e] = Append(@, read[e])]
          /\ task' = IF task[e] = "none" THEN [task EXCEPT ![e] = "waiting"] ELSE task
      BY <1>6, <2>0 DEF Enqueue
    <2>2. e \in Endpoints /\ Serves[e] = r /\ listener[r] = "running"
      <3>1. hand[r] \in Endpoints \cup {None} BY <1>0 DEF TypeOK
      <3>2. hand[r] # None => Serves[hand[r]] = r /\ listener[r] = "running" BY <1>0 DEF HandOK
      <3> QED BY <2>0, <2>1, <3>1, <3>2
    <2>3. task[e] \in {"none", "waiting", "awaiting"}
      BY <1>0, <2>1, <2>2 DEF Alive, TypeOK
    <2>4. task'[e] \in {"waiting", "awaiting"} BY <1>0, <2>1, <2>2, <2>3 DEF TypeOK
    <2>5. \A d \in Endpoints : d # e => task'[d] = task[d] /\ queue'[d] = queue[d]
      BY <1>0, <2>1, <2>2 DEF TypeOK
    <2> QED BY <1>3, <2>2, <2>4, <2>5
  <1>7. ASSUME NEW e \in Endpoints, NEW n \in Numbers(e), Finish(e, n) \/ AwaitPanics(e, n) PROVE Alive'
    <2>1. CASE concurrent
      <3>1. UNCHANGED <<task, queue>> BY <1>7, <2>1 DEF Finish, AwaitPanics
      <3> QED BY <1>2, <3>1
    <2>2. CASE Finish(e, n) /\ ~concurrent
      <3>1. task' = [task EXCEPT ![e] = "waiting"] /\ queue' = queue BY <2>2 DEF Finish
      <3> QED BY <1>0, <1>3, <3>1 DEF TypeOK
    <2>3. CASE AwaitPanics(e, n) /\ ~concurrent
      <3>1. Dies(e) BY <2>3 DEF AwaitPanics
      <3> QED BY <1>0, <1>3, <3>1 DEF Dies, TypeOK
    <2> QED BY <1>7, <2>1, <2>2, <2>3
  <1>8. ASSUME NEW e \in Endpoints, ReadMessage(e) PROVE Alive'
    BY <1>2, <1>8 DEF ReadMessage, tasks
  <1>9. ASSUME NEW r \in Receivers, EndIdle(r) \/ Spawn(r) \/ EnqueueFails(r) PROVE Alive'
    BY <1>2, <1>9 DEF EndIdle, Spawn, EnqueueFails, tasks
  <1>10. ASSUME StopAsync \/ JoinNext PROVE Alive'
    BY <1>2, <1>10 DEF StopAsync, JoinNext, tasks
  <1> QED BY <1>4, <1>5, <1>6, <1>7, <1>8, <1>9, <1>10 DEF Next

\* Flags are raised before anyone is awaited and never taken back.
LEMMA FlaggedNext == ASSUME TypeOK, Flagged, Next PROVE Flagged'
  <1>1. ASSUME StopAsync PROVE Flagged' BY <1>1 DEF StopAsync, Flagged
  <1>2. ASSUME JoinNext PROVE Flagged' BY <1>2 DEF JoinNext, Flagged
  <1>3. ASSUME UNCHANGED owner PROVE Flagged' BY <1>3 DEF owner, Flagged
  <1>4. ASSUME NEW e \in Endpoints, ReadMessage(e) \/ Take(e) \/ Close(e) PROVE UNCHANGED owner
    BY <1>4 DEF ReadMessage, Take, Close
  <1>5. ASSUME NEW e \in Endpoints, NEW n \in Numbers(e), Finish(e, n) \/ AwaitPanics(e, n)
        PROVE  UNCHANGED owner
    BY <1>5 DEF Finish, AwaitPanics
  <1>6. ASSUME NEW r \in Receivers, EndIdle(r) \/ Spawn(r) \/ Enqueue(r) \/ EnqueueFails(r)
        PROVE  UNCHANGED owner
    BY <1>6 DEF EndIdle, Spawn, Enqueue, EnqueueFails
  <1> QED BY <1>1, <1>2, <1>3, <1>4, <1>5, <1>6 DEF Next

\* Whatever happens, the delivery goes on.
LEMMA GoingAlways == Spec => []Going
  <1>1. IInv /\ Going /\ [Next]_vars => Going'
    <2>1. ASSUME IInv, Going, Next PROVE Going'
      BY <2>1, AliveNext, SettledNext, FlaggedNext DEF Going, IInv
    <2>2. ASSUME Going, UNCHANGED vars PROVE Going'
      BY <2>2 DEF Going, Alive, Settled, Gone, Flagged, vars, mode, tasks, owner
    <2> QED BY <2>1, <2>2
  <1> QED BY <1>1, InitGoing, Invariance, PTL DEF Spec

\* Who has message n of e: its callback has ended or is awaited, a channel
\* with a task that lives holds it, or a listener that runs has it in hand.
InCare(e, n) ==
    \/ n \in finished[e] \cup busy[e]
    \/ task[e] \in {"waiting", "awaiting"} /\ \E k \in 1 .. Len(queue[e]) : queue[e][k] = n
    \/ hand[Serves[e]] = e /\ listener[Serves[e]] = "running" /\ n = read[e]

\* No message that was read is forgotten (the safety half of
\* EveryReadIsDelivered; receiver.rs:660-703): somebody has it, unless a panic
\* took it.
NothingLeftBehind ==
    \A e \in Endpoints : \A n \in 1 .. read[e] : InCare(e, n) \/ Gone(e, n)

\* The task of e empties its channel: it can take a message, or awaits a
\* callback first.
Drains(e) ==
    \/ task[e] = "waiting" /\ queue[e] # <<>>
    \/ task[e] = "awaiting" /\ busy[e] # {}

\* A listener is only ever held up by callbacks (the safety half of
\* StopReturns; receiver.rs:670-703, pool.rs:275-283): the channel it has to
\* wait for is one whose task empties it, and who is awaited by stop_async has
\* its flag raised, so that it ends once its hand is empty.
OnlyCallbacksHoldUp ==
    /\ stopping # 0 => \A r \in Receivers : interrupted[r]
    /\ \A r \in Receivers : ~concurrent /\ hand[r] # None =>
          \/ task[hand[r]] = "panicked"
          \/ Len(queue[hand[r]]) < Capacity
          \/ Drains(hand[r])

\* Whatever panics, hangs or stops, every message read was called back, is of a
\* callback that does not end, is lost to one that panicked, or is still in the
\* care of one of the threads and tasks of the delivery (receiver.rs:660-703).
THEOREM NothingIsForgotten == Spec => []NothingLeftBehind
  <1>1. IInv /\ Going => NothingLeftBehind
    <2> SUFFICES ASSUME IInv, Going, NEW e \in Endpoints, NEW n \in 1 .. read[e], ~Gone(e, n)
                 PROVE  InCare(e, n)
      BY DEF NothingLeftBehind
    <2>0. TypeOK /\ HandOK /\ QueueOK /\ Alive /\ Settled BY DEF IInv, Going
    <2>1. begun[e] \in Nat /\ read[e] \in Nat /\ Len(queue[e]) \in Nat /\ queue[e] \in Seq(Nat)
      BY <2>0 DEF TypeOK
    <2>2. read[e] = begun[e] + Len(queue[e]) + IF hand[Serves[e]] = e THEN 1 ELSE 0
      BY <2>0 DEF QueueOK, Gone
    <2>3. CASE n \in 1 .. begun[e] BY <2>0, <2>3 DEF Settled, InCare
    <2>4. CASE n \in begun[e] + 1 .. begun[e] + Len(queue[e])
      <3>1. n - begun[e] \in 1 .. Len(queue[e]) BY <2>1, <2>4
      <3>2. queue[e][n - begun[e]] = begun[e] + (n - begun[e]) BY <2>0, <3>1 DEF QueueOK
      <3>3. queue[e][n - begun[e]] = n BY <2>1, <3>2
      <3>4. queue[e] # <<>> BY <2>1, <3>1
      <3>5. task[e] \in {"waiting", "awaiting"} BY <2>0, <3>4 DEF Alive
      <3> QED BY <3>1, <3>3, <3>5 DEF InCare
    <2>5. CASE n > begun[e] + Len(queue[e])
      <3>1. hand[Serves[e]] = e /\ n = read[e]
        <4>1. CASE hand[Serves[e]] = e BY <2>1, <2>2, <2>5, <4>1
        <4>2. CASE hand[Serves[e]] # e BY <2>1, <2>2, <2>5, <4>2
        <4> QED BY <4>1, <4>2
      <3>2. listener[Serves[e]] = "running"
        BY <2>0, <3>1, ReceiversAssumption, NoneAssumption DEF HandOK
      <3> QED BY <3>1, <3>2 DEF InCare
    <2> QED BY <2>1, <2>3, <2>4, <2>5
  <1> QED BY <1>1, Invariance, GoingAlways, PTL

\* Nothing but a callback that does not end keeps a listener, and with it
\* stop_async, from going on (receiver.rs:670-703, pool.rs:275-283).
THEOREM StopWaitsForCallbacks == Spec => []OnlyCallbacksHoldUp
  <1>1. IInv /\ Going => OnlyCallbacksHoldUp
    <2> SUFFICES ASSUME IInv, Going PROVE OnlyCallbacksHoldUp OBVIOUS
    <2>0. TypeOK /\ BusyOK /\ Alive /\ Flagged BY DEF IInv, Going
    <2>1. ASSUME NEW r \in Receivers, ~concurrent, hand[r] # None,
                 ~(Len(queue[hand[r]]) < Capacity)
          PROVE  Drains(hand[r])
      <3>1. PICK e \in Endpoints : e = hand[r] BY <2>0, <2>1 DEF TypeOK
      <3>2. queue[e] # <<>>
        <4>1. Len(<<>>) < Capacity BY CapacityAssumption
        <4> QED BY <2>1, <3>1, <4>1
      <3>3. task[e] \in {"waiting", "awaiting"} BY <2>0, <3>2 DEF Alive
      <3>4. task[e] = "awaiting" => busy[e] # {}
        <4>1. busy[e] = IF task[e] = "awaiting" THEN {begun[e]} ELSE {} BY <2>0, <2>1 DEF BusyOK
        <4> QED BY <4>1
      <3> QED BY <3>1, <3>2, <3>3, <3>4 DEF Drains
    <2>2. stopping # 0 => \A r \in Receivers : interrupted[r] BY <2>0 DEF Flagged
    <2> QED BY <2>1, <2>2 DEF OnlyCallbacksHoldUp
  <1> QED BY <1>1, Invariance, GoingAlways, PTL
=============================================================================
