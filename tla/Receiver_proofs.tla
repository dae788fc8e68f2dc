---------------------------- MODULE Receiver_proofs ----------------------------
(***************************************************************************)
(* Proofs about Receiver, for any endpoints, threads, bounds and choice of *)
(* operations, shared or individual sockets: its types, that an interrupt  *)
(* is followed by one delivery at most, and, for a receiver used without   *)
(* fork and start_async, that it has one listener, connected to the        *)
(* endpoints listed.  Of the calls: that an answer is always the one to    *)
(* the last command, and what an application must not do for a listener    *)
(* to keep receiving and for every call to find somebody to answer it.     *)
(***************************************************************************)
EXTENDS Receiver, TLAPS

-----------------------------------------------------------------------------
(* Types.                                                                  *)

\* What a command on the channel may be.
LEMMA RequestType ==
    \A r \in Requests :
        /\ r.op \in {"connect", "disconnect", "add", "remove"}
        /\ r.op \in {"add", "remove"} => r.endpoint \in Endpoints
  BY DEF Requests

\* Connections are opened to endpoints, and leave what is pending alone.
LEMMA OpenType ==
  ASSUME TypeOK, NEW p \in Procs, NEW S \in SUBSET Endpoints, Open(p, S)
  PROVE  sockets' \in [Procs -> SUBSET Endpoints] /\ inbox' \in [Procs -> [Endpoints -> 0 .. InboxCap]]
  BY DEF TypeOK, Open

\* Closing connections, whatever is lost with them, keeps the types.
LEMMA CloseType ==
  ASSUME TypeOK, NEW p \in Procs, NEW S \in SUBSET Endpoints, Close(p, S)
  PROVE  sockets' \in [Procs -> SUBSET Endpoints] /\ inbox' \in [Procs -> [Endpoints -> 0 .. InboxCap]]
<1>1. sockets' \in [Procs -> SUBSET Endpoints]
  BY DEF TypeOK, Close
<1>2. PICK lost : inbox' = [inbox EXCEPT ![p] = [e \in Endpoints |-> IF e \in lost THEN 0 ELSE @[e]]]
  BY DEF Close
<1>3. \A e \in Endpoints : (IF e \in lost THEN 0 ELSE inbox[p][e]) \in 0 .. InboxCap
  BY BoundsAssumption DEF TypeOK
<1>4. [e \in Endpoints |-> IF e \in lost THEN 0 ELSE inbox[p][e]] \in [Endpoints -> 0 .. InboxCap]
  BY <1>3
<1>5. inbox' \in [Procs -> [Endpoints -> 0 .. InboxCap]]
  BY <1>2, <1>4 DEF TypeOK
<1> QED BY <1>1, <1>5

\* The part of TypeOK that a Receiver object has to itself.
ObjectType ==
    /\ connected \in [Procs -> BOOLEAN]
    /\ sockets \in [Procs -> SUBSET Endpoints]
    /\ ready \in [Procs -> SUBSET Endpoints]
    /\ inbox \in [Procs -> [Endpoints -> 0 .. InboxCap]]

\* connect, whether it succeeds or stops midway, keeps the object's types.
LEMMA ConnectType ==
  ASSUME TypeOK, NEW p \in Procs, NEW ok, Connect(p, ok), ready' = ready
  PROVE  ObjectType'
<1>1. CASE UNCHANGED <<connected, sockets, inbox>>
  BY <1>1 DEF TypeOK, ObjectType
<1>2. CASE connected' = [connected EXCEPT ![p] = TRUE] /\ Open(p, endpoints)
  BY <1>2, OpenType DEF TypeOK, ObjectType
<1>3. CASE UNCHANGED connected /\ \E before \in SUBSET (endpoints \ BadEndpoints) : Open(p, before)
  <2>1. PICK before \in SUBSET (endpoints \ BadEndpoints) : Open(p, before)
    BY <1>3
  <2>2. before \in SUBSET Endpoints
    BY DEF TypeOK
  <2> QED BY <1>3, <2>1, <2>2, OpenType DEF TypeOK, ObjectType
<1> QED BY <1>1, <1>2, <1>3 DEF Connect

\* So does each of the four calls, which may change the list as well.
LEMMA PerformType ==
  ASSUME TypeOK, NEW p \in Procs, NEW r \in Requests, NEW ok \in BOOLEAN, Perform(p, r, ok)
  PROVE  ObjectType' /\ endpoints' \subseteq Endpoints
<1>0. ready' \in [Procs -> SUBSET Endpoints]
  BY DEF TypeOK, Perform
<1>1. CASE Connect(p, ok) /\ UNCHANGED endpoints
  BY <1>1, ConnectType DEF TypeOK, Perform
<1>2. CASE Disconnect(p, ok) /\ UNCHANGED endpoints
  <2>1. (IF connected[p] THEN endpoints ELSE {}) \in SUBSET Endpoints
    BY DEF TypeOK
  <2> QED BY <1>0, <1>2, <2>1, CloseType DEF TypeOK, ObjectType, Disconnect
<1>3. CASE r.op = "add" /\ AddEndpoint(p, r.endpoint, ok)
  <2>1. (IF connected[p] THEN {r.endpoint} \ BadEndpoints ELSE {}) \in SUBSET Endpoints
    BY <1>3, RequestType
  <2> QED BY <1>0, <1>3, <2>1, OpenType, RequestType DEF TypeOK, ObjectType, AddEndpoint
<1>4. CASE r.op = "remove" /\ RemoveEndpoint(p, r.endpoint, ok)
  <2>1. (IF connected[p] THEN {r.endpoint} ELSE {}) \in SUBSET Endpoints
    BY <1>4, RequestType
  <2> QED BY <1>0, <1>4, <2>1, CloseType DEF TypeOK, ObjectType, RemoveEndpoint
<1> QED BY <1>1, <1>2, <1>3, <1>4 DEF Perform

\* So does the end of a listener thread, which drops its object.
LEMMA DropType ==
  ASSUME TypeOK, NEW p \in Procs, DropObject(p)
  PROVE  ObjectType'
<1>1. [e \in Endpoints |-> 0] \in [Endpoints -> 0 .. InboxCap]
  BY BoundsAssumption
<1> QED BY <1>1 DEF TypeOK, ObjectType, DropObject

\* listen ends in a known state and with a known result.
LEMMA EndType ==
  ASSUME TypeOK, NEW p \in Procs, NEW res \in {"ok", "err"}, End(p, res)
  PROVE  /\ pc' \in [Procs -> ListenStates \cup {"free", "done", "idle", "await", "join", "joinAsync"}]
         /\ result' \in [Threads -> {None, "ok", "err"}]
  BY DEF TypeOK, End, Goto

\* A receiver just made has the types.
LEMMA TypeInit == Init => TypeOK
<1> SUFFICES ASSUME Init PROVE TypeOK
  OBVIOUS
<1>1. inbox \in [Procs -> [Endpoints -> 0 .. InboxCap]]
  <2>1. [e \in Endpoints |-> 0] \in [Endpoints -> 0 .. InboxCap]
    BY BoundsAssumption
  <2> QED BY <2>1 DEF Init
<1>2. /\ messages \in 0 .. CountCap /\ requests \in 0 .. MaxRequests
      /\ late \in [Procs -> 0 .. 2]
      /\ limit \in [Procs -> 0 .. CountCap \cup {NoLimit}]
  BY BoundsAssumption DEF Init
<1>3. cmds \in Seq(Requests)
  BY DEF Init
<1>4. pc \in [Procs -> ListenStates \cup {"free", "done", "idle", "await", "join", "joinAsync"}]
  BY DEF Init
<1> QED BY <1>1, <1>2, <1>3, <1>4 DEF Init, TypeOK

\* Each step of a listening process keeps the types.
LEMMA TypeListen ==
  ASSUME TypeOK, NEW p \in Procs, Listen(p)
  PROVE  TypeOK'
<1>1. CASE Begin(p)
  <2>1. messages' \in 0 .. CountCap /\ late' \in [Procs -> 0 .. 2]
    BY <1>1, BoundsAssumption DEF TypeOK, Begin
  <2>2. CASE Connect(p, TRUE) /\ Goto(p, "recv") /\ UNCHANGED <<ready, result>>
    <3>1. ObjectType'
      BY <2>2, ConnectType
    <3>2. pc' \in [Procs -> ListenStates \cup {"free", "done", "idle", "await", "join", "joinAsync"}]
      BY <2>2 DEF TypeOK, Goto, ListenStates
    <3> QED BY <1>1, <2>1, <2>2, <3>1, <3>2 DEF TypeOK, ObjectType, Begin, owner
  <2>3. CASE End(p, "err") /\ IF Forked(p) THEN DropObject(p) ELSE Connect(p, FALSE) /\ UNCHANGED ready
    <3>1. ObjectType'
      BY <2>3, ConnectType, DropType
    <3>2. /\ pc' \in [Procs -> ListenStates \cup {"free", "done", "idle", "await", "join", "joinAsync"}]
          /\ result' \in [Threads -> {None, "ok", "err"}]
      BY <2>3, EndType
    <3> QED BY <1>1, <2>1, <3>1, <3>2 DEF TypeOK, ObjectType, Begin, owner
  <2> QED BY <1>1, <2>2, <2>3 DEF Begin
<1>2. CASE Receive(p)
  <2> DEFINE readable == {e \in sockets[p] : inbox[p][e] > 0}
  <2> DEFINE candidates == IF ready[p] = {} THEN readable ELSE ready[p]
  <2>1. candidates \subseteq Endpoints
    BY DEF TypeOK
  <2>2. pc' \in [Procs -> ListenStates \cup {"free", "done", "idle", "await", "join", "joinAsync"}]
    BY <1>2 DEF TypeOK, Receive, Goto, ListenStates
  <2>3. /\ ready' \in [Procs -> SUBSET Endpoints]
        /\ target' \in [Procs -> Endpoints \cup {None}]
    <3>1. CASE UNCHANGED <<ready, target>>
      BY <3>1 DEF TypeOK
    <3>2. \/ UNCHANGED <<ready, target>>
          \/ \E e \in candidates :
                 /\ ready' = [ready EXCEPT ![p] = candidates \ {e}]
                 /\ \/ e \in sockets[p] /\ target' = [target EXCEPT ![p] = e] /\ Goto(p, "read")
                    \/ e \notin sockets[p] /\ UNCHANGED target /\ Goto(p, "check")
      BY <1>2, Zenon DEF Receive
    <3> HIDE DEF candidates
    <3>3. CASE \E e \in candidates :
                 /\ ready' = [ready EXCEPT ![p] = candidates \ {e}]
                 /\ \/ e \in sockets[p] /\ target' = [target EXCEPT ![p] = e] /\ Goto(p, "read")
                    \/ e \notin sockets[p] /\ UNCHANGED target /\ Goto(p, "check")
      <4>1. PICK e \in candidates :
               /\ ready' = [ready EXCEPT ![p] = candidates \ {e}]
               /\ target' = [target EXCEPT ![p] = e] \/ target' = target
        BY <3>3
      <4>2. e \in Endpoints /\ candidates \ {e} \in SUBSET Endpoints
        BY <2>1, <4>1
      <4>3. ready' \in [Procs -> SUBSET Endpoints]
        BY <4>1, <4>2 DEF TypeOK
      <4>4. target' \in [Procs -> Endpoints \cup {None}]
        BY <4>1, <4>2 DEF TypeOK
      <4> QED BY <4>3, <4>4
    <3> QED BY <3>1, <3>2, <3>3
  <2> QED BY <1>2, <2>2, <2>3 DEF TypeOK, Receive, shared, owner
<1>3. CASE Read(p)
  <2>1. inbox' \in [Procs -> [Endpoints -> 0 .. InboxCap]]
    <3>1. PICK e : inbox[p][e] > 0 /\ inbox' = [inbox EXCEPT ![p][e] = @ - 1]
      BY <1>3 DEF Read
    <3>2. ASSUME NEW q \in Procs PROVE inbox'[q] \in [Endpoints -> 0 .. InboxCap]
      <4>1. CASE e \in Endpoints
        <5>1. inbox[p][e] - 1 \in 0 .. InboxCap
          BY <3>1, <4>1, BoundsAssumption DEF TypeOK
        <5> QED BY <3>1, <4>1, <5>1 DEF TypeOK
      <4>2. CASE e \notin Endpoints
        BY <3>1, <4>2 DEF TypeOK
      <4> QED BY <4>1, <4>2
    <3> QED BY <3>1, <3>2 DEF TypeOK
  <2>2. messages' \in 0 .. CountCap /\ late' \in [Procs -> 0 .. 2]
    BY <1>3, BoundsAssumption DEF TypeOK, Read
  <2>3. /\ pc' \in [Procs -> ListenStates \cup {"free", "done", "idle", "await", "join", "joinAsync"}]
        /\ target' \in [Procs -> Endpoints \cup {None}]
    BY <1>3 DEF TypeOK, Read, Goto, ListenStates
  <2> QED BY <1>3, <2>1, <2>2, <2>3 DEF TypeOK, Read, owner
<1>4. CASE Check(p)
  <2>1. CASE Goto(p, "cmds") /\ UNCHANGED <<result, object>>
    <3>1. pc' \in [Procs -> ListenStates \cup {"free", "done", "idle", "await", "join", "joinAsync"}]
      BY <2>1 DEF TypeOK, Goto, ListenStates
    <3> QED BY <1>4, <2>1, <3>1 DEF TypeOK, Check, shared, object, owner
  <2>2. CASE End(p, "ok") /\ IF Forked(p) THEN DropObject(p) ELSE UNCHANGED object
    <3>1. /\ pc' \in [Procs -> ListenStates \cup {"free", "done", "idle", "await", "join", "joinAsync"}]
          /\ result' \in [Threads -> {None, "ok", "err"}]
      BY <2>2, EndType
    <3>2. ObjectType'
      BY <2>2, DropType DEF TypeOK, ObjectType, object
    <3> QED BY <1>4, <3>1, <3>2 DEF TypeOK, ObjectType, Check, shared, owner
  <2> QED BY <1>4, <2>1, <2>2 DEF Check
<1>5. CASE Command(p)
  <2>1. Head(cmds) \in Requests /\ cmds' \in Seq(Requests)
    BY <1>5 DEF TypeOK, Command
  <2>2. PICK ok \in BOOLEAN : Perform(p, Head(cmds), ok) /\ resp' = IF ok THEN "ok" ELSE "err"
    BY <1>5 DEF Command
  <2>3. ObjectType' /\ endpoints' \subseteq Endpoints
    BY <2>1, <2>2, PerformType
  <2> QED BY <1>5, <2>1, <2>2, <2>3 DEF TypeOK, ObjectType, Command, listener, owner
<1>6. CASE Drained(p)
  BY <1>6 DEF TypeOK, Drained, Goto, ListenStates, shared, object, owner
<1> QED BY <1>1, <1>2, <1>3, <1>4, <1>5, <1>6 DEF Listen

\* So does each step of the application and of ZeroMQ.
LEMMA TypeOwner ==
  ASSUME TypeOK, Next, \A p \in Procs : ~Listen(p)
  PROVE  TypeOK'
<1>0. Owner \in Procs /\ Threads \subseteq Procs
  BY DEF Procs
<1>1. ASSUME NEW p \in Procs, NEW e \in Endpoints, Arrive(p, e) PROVE TypeOK'
  <2>1. inbox' \in [Procs -> [Endpoints -> 0 .. InboxCap]]
    <3>1. ASSUME NEW q \in Procs PROVE inbox'[q] \in [Endpoints -> 0 .. InboxCap]
      BY <1>1, BoundsAssumption DEF TypeOK, Arrive
    <3> QED BY <1>1, <3>1 DEF TypeOK, Arrive
  <2> QED BY <1>1, <2>1 DEF TypeOK, Arrive, shared, listener, owner
<1>2. ASSUME NEW r \in Requests, Request(r) PROVE TypeOK'
  <2>1. requests' \in 0 .. MaxRequests
    BY <1>2, BoundsAssumption DEF TypeOK, Request
  <2>2. CASE (\E ok \in BOOLEAN : Perform(Owner, r, ok)) /\ UNCHANGED <<cmds, pc>>
    <3>1. ObjectType' /\ endpoints' \subseteq Endpoints
      BY <1>0, <2>2, PerformType
    <3> QED BY <1>2, <2>1, <2>2, <3>1 DEF TypeOK, ObjectType, Request
  <2>3. CASE cmds' = Append(cmds, r) /\ Goto(Owner, "await") /\ UNCHANGED <<endpoints, object>>
    <3>1. cmds' \in Seq(Requests)
      BY <2>3 DEF TypeOK
    <3>2. pc' \in [Procs -> ListenStates \cup {"free", "done", "idle", "await", "join", "joinAsync"}]
      BY <2>3 DEF TypeOK, Goto
    <3> QED BY <1>2, <2>1, <2>3, <3>1, <3>2 DEF TypeOK, Request, object
  <2> QED BY <1>2, <2>2, <2>3 DEF Request
<1>3. ASSUME NEW t \in Threads, NEW n \in Limits \cup {NoLimit}, Spawn(t, n),
             messages' \in 0 .. CountCap, fifo' \in BOOLEAN,
             handle' \in Threads \cup {None}, async_handle' \in Threads \cup {None}
      PROVE  TypeOK'
  <2>1. limit' \in [Procs -> 0 .. CountCap \cup {NoLimit}]
    BY <1>0, <1>3, LimitsAssumption DEF TypeOK, Spawn
  <2>2. pc' \in [Procs -> ListenStates \cup {"free", "done", "idle", "await", "join", "joinAsync"}]
    BY <1>0, <1>3 DEF TypeOK, Spawn, Goto, ListenStates
  <2> QED BY <1>3, <2>1, <2>2 DEF TypeOK, Spawn, object
<1>4. ASSUME NEW n \in Limits \cup {NoLimit}, ListenInline(n) PROVE TypeOK'
  <2>1. limit' \in [Procs -> 0 .. CountCap \cup {NoLimit}]
    BY <1>0, <1>4, LimitsAssumption DEF TypeOK, ListenInline
  <2>2. pc' \in [Procs -> ListenStates \cup {"free", "done", "idle", "await", "join", "joinAsync"}]
    BY <1>0, <1>4 DEF TypeOK, ListenInline, Goto, ListenStates
  <2> QED BY <1>4, <2>1, <2>2 DEF TypeOK, ListenInline, shared, object
<1>5. CASE Answer
  BY <1>5 DEF TypeOK, Answer, Goto, object, owner
<1>6. CASE Interrupt
  BY <1>6 DEF TypeOK, Interrupt, object, listener, owner
<1>7. CASE ContextInterrupt
  BY <1>7 DEF TypeOK, ContextInterrupt, object, listener, owner
<1>8. CASE Stop
  BY <1>8 DEF TypeOK, Stop, Goto, object
<1>9. CASE Join
  BY <1>9 DEF TypeOK, Join, Goto, shared, object, owner
<1>10. CASE Joined
  BY <1>10 DEF TypeOK, Joined, Goto, shared, object
<1>11. ASSUME NEW t \in Threads, Start(t) PROVE TypeOK'
  <2>1. /\ messages' \in 0 .. CountCap /\ fifo' \in BOOLEAN
        /\ handle' \in Threads \cup {None} /\ async_handle' \in Threads \cup {None}
    BY <1>11, BoundsAssumption DEF TypeOK, Start
  <2> QED BY <1>3, <1>11, <2>1 DEF Start
<1>12. ASSUME NEW t \in Threads, NEW n \in Limits \cup {NoLimit}, Fork(t, n) PROVE TypeOK'
  BY <1>3, <1>12 DEF Fork, TypeOK
<1>13. ASSUME NEW t \in Threads, NEW n \in Limits \cup {NoLimit}, StartAsync(t, n) PROVE TypeOK'
  <2>1. /\ messages' \in 0 .. CountCap /\ fifo' \in BOOLEAN
        /\ handle' \in Threads \cup {None} /\ async_handle' \in Threads \cup {None}
    BY <1>13, BoundsAssumption DEF TypeOK, StartAsync
  <2> QED BY <1>3, <1>13, <2>1 DEF StartAsync
<1>14. CASE JoinAsync \/ JoinedAsync
  <2>1. CASE JoinAsync
    BY <2>1 DEF TypeOK, JoinAsync, Goto, shared, object, owner
  <2>2. CASE JoinedAsync
    BY <2>2 DEF TypeOK, JoinedAsync, Goto, shared, object
  <2> QED BY <1>14, <2>1, <2>2
<1> QED BY <1>1, <1>2, <1>4, <1>5, <1>6, <1>7, <1>8, <1>9, <1>10, <1>11, <1>12, <1>13, <1>14 DEF Next

\* Every variable of the receiver keeps its type: no inbox goes below zero or
\* beyond its bound, only known commands are in the channel.
THEOREM TypeCorrect == Spec => []TypeOK
<1>1. TypeOK /\ [Next]_vars => TypeOK'
  <2> SUFFICES ASSUME TypeOK, [Next]_vars PROVE TypeOK'
    OBVIOUS
  <2>1. CASE UNCHANGED vars
    BY <2>1 DEF TypeOK, vars, shared, object, listener, owner
  <2>2. CASE Next
    BY <2>2, TypeListen, TypeOwner
  <2> QED BY <2>1, <2>2
<1> QED BY <1>1, TypeInit, PTL DEF Spec

-----------------------------------------------------------------------------
(* What an interrupt is followed by.                                       *)

\* A listen that has delivered a message after an interrupt is past its read,
\* and the interrupt, which nothing clears, is what its next check finds.
LateInv ==
    \A p \in Procs :
        /\ late[p] \in 0 .. 1
        /\ late[p] = 1 => Interrupted /\ pc[p] \notin {"recv", "read", "cmds"}

\* No step of a listen breaks LateInv: only Read counts a delivery, from a
\* state in which none was late, and Check ends a listen that has one.
LEMMA LateListen ==
  ASSUME TypeOK, LateInv, NEW p \in Procs, Listen(p)
  PROVE  LateInv'
<1> SUFFICES ASSUME NEW q \in Procs
             PROVE  /\ late'[q] \in 0 .. 1
                    /\ late'[q] = 1 => Interrupted' /\ pc'[q] \notin {"recv", "read", "cmds"}
  BY DEF LateInv
<1>1. CASE Begin(p)
  <2>1. late' = [late EXCEPT ![p] = 0] /\ (Interrupted' <=> Interrupted)
    BY <1>1 DEF Begin, Interrupted
  <2>2. \E label : pc' = [pc EXCEPT ![p] = label]
    BY <1>1 DEF Begin, Goto, End
  <2> QED BY <2>1, <2>2 DEF TypeOK, LateInv
<1>2. CASE Receive(p)
  BY <1>2 DEF TypeOK, LateInv, Receive, Goto, Interrupted, shared
<1>3. CASE Read(p)
  BY <1>3 DEF TypeOK, LateInv, Read, Goto, Interrupted
<1>4. CASE Check(p)
  <2>1. late' = late /\ (Interrupted' <=> Interrupted)
    BY <1>4 DEF Check, Interrupted, shared
  <2>2. CASE Goto(p, "cmds") /\ ~Interrupted
    BY <1>4, <2>1, <2>2 DEF TypeOK, LateInv, Goto
  <2>3. CASE End(p, "ok")
    BY <1>4, <2>1, <2>3 DEF TypeOK, LateInv, Goto, End
  <2> QED BY <1>4, <2>2, <2>3 DEF Check
<1>5. CASE Command(p)
  BY <1>5 DEF LateInv, Command, Interrupted, listener
<1>6. CASE Drained(p)
  BY <1>6 DEF TypeOK, LateInv, Drained, Goto, Interrupted, shared
<1> QED BY <1>1, <1>2, <1>3, <1>4, <1>5, <1>6 DEF Listen

\* Nor does a step of the application or of ZeroMQ: nothing clears an interrupt,
\* and nobody but the listening process itself gets to a read.
LEMMA LateOwner ==
  ASSUME TypeOK, LateInv, Next, \A p \in Procs : ~Listen(p)
  PROVE  LateInv'
<1>0. Owner \in Procs /\ Threads \subseteq Procs
  BY DEF Procs
<1> SUFFICES ASSUME NEW q \in Procs
             PROVE  /\ late'[q] \in 0 .. 1
                    /\ late'[q] = 1 => Interrupted' /\ pc'[q] \notin {"recv", "read", "cmds"}
  BY DEF LateInv
<1>1. ASSUME NEW p \in Procs, NEW e \in Endpoints, Arrive(p, e)
      PROVE  UNCHANGED <<late, interrupted, ctxInterrupted, pc>>
  BY <1>1 DEF Arrive, shared, listener
<1>2. ASSUME NEW r \in Requests, Request(r)
      PROVE  UNCHANGED <<late, interrupted, ctxInterrupted>> /\ (UNCHANGED pc \/ Goto(Owner, "await"))
  BY <1>2 DEF Request
<1>3. ASSUME NEW t \in Threads, NEW n, Spawn(t, n)
      PROVE  UNCHANGED <<late, interrupted, ctxInterrupted>> /\ Goto(t, "start")
  BY <1>3 DEF Spawn
<1>4. ASSUME NEW n, ListenInline(n)
      PROVE  UNCHANGED <<late, interrupted, ctxInterrupted>> /\ Goto(Owner, "start")
  BY <1>4 DEF ListenInline, shared
<1>5. Answer => UNCHANGED <<late, interrupted, ctxInterrupted>> /\ Goto(Owner, "idle")
  BY DEF Answer
<1>6. Interrupt \/ ContextInterrupt \/ Stop
        => /\ UNCHANGED late
           /\ Interrupted'
           /\ UNCHANGED pc \/ Goto(Owner, "join")
  BY DEF Interrupt, ContextInterrupt, Stop, Interrupted, listener
<1>7. Join => UNCHANGED <<late, interrupted, ctxInterrupted>> /\ Goto(Owner, "join")
  BY DEF Join, shared
<1>8. Joined => UNCHANGED <<late, interrupted, ctxInterrupted>> /\ Goto(Owner, "idle")
  BY DEF Joined, shared
<1>9. JoinAsync \/ JoinedAsync
        => /\ UNCHANGED <<late, interrupted, ctxInterrupted>>
           /\ Goto(Owner, "joinAsync") \/ Goto(Owner, "idle")
  BY DEF JoinAsync, JoinedAsync, shared
<1>10. /\ late' = late
       /\ Interrupted => Interrupted'
       /\ \/ UNCHANGED pc
          \/ \E p \in Procs, label \in {"await", "start", "idle", "join", "joinAsync"} : Goto(p, label)
  BY <1>0, <1>1, <1>2, <1>3, <1>4, <1>5, <1>6, <1>7, <1>8, <1>9
     DEF Next, Start, Fork, StartAsync, Interrupted
<1> QED BY <1>10 DEF TypeOK, LateInv, Goto

\* An interrupt, of the receiver or of the context, is followed by at most one
\* delivery of each listen, whatever the application calls, with any number of
\* listeners, shared or individual sockets.
THEOREM InterruptIsPrompt == Spec => []AtMostOneLate
<1>1. Init => LateInv
  BY DEF Init, LateInv
<1>2. TypeOK /\ LateInv /\ [Next]_vars => LateInv'
  <2> SUFFICES ASSUME TypeOK, LateInv, [Next]_vars PROVE LateInv'
    OBVIOUS
  <2>1. CASE UNCHANGED vars
    BY <2>1 DEF LateInv, Interrupted, vars, shared, listener
  <2>2. CASE Next
    BY <2>2, LateListen, LateOwner
  <2> QED BY <2>1, <2>2
<1>3. LateInv => AtMostOneLate
  BY DEF LateInv, AtMostOneLate
<1> QED BY <1>1, <1>2, <1>3, TypeCorrect, PTL DEF Spec

-----------------------------------------------------------------------------
(* What the listener of a receiver used without fork is sure of.           *)

\* A listener of a receiver that is only started is the one its handle stands
\* for, and its FifoQueue is still there to stop a second start.
ListenerInv ==
    \A t \in Threads : Listening(t) => fifo /\ handle = t

\* A step of a listening process leaves the owner's fields alone; it was
\* listening, and no other process moves.
LEMMA ListenFrame ==
  ASSUME TypeOK, NEW p \in Procs, Listen(p)
  PROVE  /\ UNCHANGED owner
         /\ Listening(p)
         /\ \A q \in Procs \ {p} : pc'[q] = pc[q]
<1>1. UNCHANGED owner
  BY DEF Listen, Begin, Receive, Read, Check, Command, Drained
<1>2. Listening(p)
  BY DEF Listen, Begin, Receive, Read, Check, Command, Drained, Listening, ListenStates
<1>3. UNCHANGED pc \/ \E label : pc' = [pc EXCEPT ![p] = label]
  <2>1. CASE Begin(p) \/ Check(p)
    BY <2>1 DEF Begin, Check, Goto, End
  <2>2. CASE Receive(p)
    BY <2>2 DEF Receive, Goto
  <2>3. CASE Read(p) \/ Command(p) \/ Drained(p)
    BY <2>3 DEF Read, Command, Drained, Goto, listener
  <2> QED BY <2>1, <2>2, <2>3 DEF Listen
<1>4. \A q \in Procs \ {p} : pc'[q] = pc[q]
  BY <1>3 DEF TypeOK
<1> QED BY <1>1, <1>2, <1>4

\* ListenerInv is inductive: start needs the FifoQueue to be gone, which only a
\* stop that has joined the listener brings about.
LEMMA ListenerNext ==
  ASSUME Operations \cap {"fork", "async"} = {}, TypeOK, ListenerInv, [Next]_vars
  PROVE  ListenerInv'
<1>0. Owner \in Procs /\ Threads \subseteq Procs /\ Owner \notin Threads
  BY ThreadsAssumption DEF Procs
<1> SUFFICES ASSUME NEW u \in Threads, Listening(u)'
             PROVE  fifo' /\ handle' = u
  BY DEF ListenerInv
<1>1. ASSUME NEW p \in Procs, Listen(p) PROVE fifo' /\ handle' = u
  <2>1. Listening(u)
    BY <1>0, <1>1, ListenFrame DEF Listening
  <2> QED BY <1>1, <2>1, ListenFrame DEF ListenerInv, owner
<1>2. ASSUME UNCHANGED <<handle, fifo>>, UNCHANGED pc \/ \E label : Goto(Owner, label)
      PROVE  fifo' /\ handle' = u
  BY <1>0, <1>2 DEF TypeOK, ListenerInv, Listening, Goto
<1>3. ASSUME NEW p \in Procs, NEW e \in Endpoints, Arrive(p, e) PROVE fifo' /\ handle' = u
  BY <1>2, <1>3 DEF Arrive, listener, owner
<1>4. ASSUME NEW r \in Requests, Request(r) PROVE fifo' /\ handle' = u
  BY <1>2, <1>4 DEF Request
<1>5. ASSUME NEW t \in Threads, Start(t) PROVE fifo' /\ handle' = u
  <2>1. ~Listening(u)
    BY <1>5 DEF ListenerInv, Start
  <2>2. pc' = [pc EXCEPT ![t] = "start"] /\ fifo' /\ handle' = t
    BY <1>5 DEF Start, Spawn, Goto
  <2> QED BY <1>0, <2>1, <2>2 DEF TypeOK, Listening
<1>6. ASSUME NEW n, ListenInline(n) PROVE fifo' /\ handle' = u
  BY <1>2, <1>6 DEF ListenInline
<1>7. CASE Stop
  <2>1. CASE handle = None
    <3>1. UNCHANGED pc
      BY <1>7, <2>1 DEF Stop
    <3>2. handle = u
      BY <3>1 DEF ListenerInv, Listening
    <3> QED BY <2>1, <3>2, ThreadsAssumption
  <2>2. CASE handle # None
    BY <1>2, <1>7, <2>2 DEF Stop
  <2> QED BY <2>1, <2>2
<1>8. CASE Joined
  <2>1. pc' = [pc EXCEPT ![Owner] = "idle"] /\ pc[handle] = "done"
    BY <1>8 DEF Joined, Goto
  <2>2. Listening(u)
    BY <1>0, <2>1 DEF TypeOK, Listening
  <2> QED BY <2>1, <2>2 DEF ListenerInv, Listening, ListenStates
<1>9. CASE Answer \/ Interrupt \/ ContextInterrupt \/ Join
  BY <1>2, <1>9 DEF Answer, Interrupt, ContextInterrupt, Join, listener, owner
<1>10. CASE UNCHANGED vars
  BY <1>2, <1>10 DEF vars, listener, owner
<1>11. ASSUME NEW t \in Threads, NEW n, Fork(t, n) \/ StartAsync(t, n) PROVE FALSE
  BY <1>11 DEF Fork, StartAsync
<1>12. CASE JoinAsync \/ JoinedAsync
  BY <1>2, <1>12 DEF JoinAsync, JoinedAsync, listener, owner
<1> QED BY <1>1, <1>3, <1>4, <1>5, <1>6, <1>7, <1>8, <1>9, <1>10, <1>11, <1>12 DEF Next

\* A receiver whose application calls neither fork nor start_async, but start,
\* inline listen and the rest as it likes, never has two listeners,
\* whatever is started, stopped, joined or interrupted in whichever order.
THEOREM OneListener ==
  ASSUME Operations \cap {"fork", "async"} = {}
  PROVE  Spec => []SingleListener
<1>1. Init => ListenerInv
  BY ThreadsAssumption DEF Init, ListenerInv, Listening, ListenStates, Procs
<1>2. TypeOK /\ ListenerInv /\ [Next]_vars => ListenerInv'
  BY ListenerNext
<1>3. ListenerInv => SingleListener
  BY DEF ListenerInv, SingleListener
<1> QED BY <1>1, <1>2, <1>3, TypeCorrect, PTL DEF Spec

\* The connections of a listening thread are those of the list, as long as
\* nobody but this thread can change the list: the owner does so only in
\* inline mode, in which it is left out until a listener starts afresh, with
\* an object that has no connection.  Where endpoints are refused, this is so
\* only as long as nothing is disconnected: a connect that fails half way
\* leaves connections that the object does not know of.
Follows(t) ==
    /\ sockets[t] = IF connected[t] THEN endpoints \ BadEndpoints ELSE {}
    /\ "disconnect" \notin Operations => connected[t]

SocketsInv ==
    /\ Listening(Owner) => ~threaded
    /\ \A t \in Threads : pc[t] \in {"free", "start"} => ~connected[t] /\ sockets[t] = {}
    /\ \A t \in Threads : threaded /\ Listening(t) /\ pc[t] # "start" => Follows(t)

\* No endpoint is refused, or nothing is disconnected.
NothingHalfOpen == BadEndpoints = {} \/ "disconnect" \notin Operations

\* A call does not touch another object.
LEMMA PerformFrame ==
  ASSUME TypeOK, NEW p \in Procs, NEW r \in Requests, NEW ok \in BOOLEAN, Perform(p, r, ok)
  PROVE  \A q \in Procs \ {p} : connected'[q] = connected[q] /\ sockets'[q] = sockets[q]
<1>1. connected' = connected \/ \E b : connected' = [connected EXCEPT ![p] = b]
  BY DEF Perform, Connect, Disconnect, AddEndpoint, RemoveEndpoint
<1>2. sockets' = sockets \/ \E S : sockets' = [sockets EXCEPT ![p] = S]
  BY DEF Perform, Connect, Disconnect, AddEndpoint, RemoveEndpoint, Open, Close
<1> QED BY <1>1, <1>2 DEF TypeOK

\* A call on the object of a listening thread keeps its connections those of
\* the list.
LEMMA PerformSockets ==
  ASSUME NothingHalfOpen, TypeOK, NEW p \in Procs, NEW r \in Requests, NEW ok \in BOOLEAN,
         Perform(p, r, ok), Follows(p)
  PROVE  Follows(p)'
<1>0. r.op \in Operations
  BY DEF Requests
<1>1. CASE Connect(p, ok) /\ UNCHANGED endpoints
  <2>1. CASE connected[p]
    <3>1. UNCHANGED <<connected, sockets>>
      BY <1>1, <2>1 DEF Connect
    <3> QED BY <1>1, <3>1 DEF Follows
  <2>2. CASE ~connected[p]
    <3>1. BadEndpoints = {}
      BY <2>2 DEF NothingHalfOpen, Follows
    <3>2. connected' = [connected EXCEPT ![p] = TRUE] /\ Open(p, endpoints)
      BY <1>1, <2>2, <3>1 DEF Connect
    <3>3. connected'[p] /\ sockets'[p] = endpoints'
      BY <1>1, <2>2, <3>2 DEF TypeOK, Open, Follows
    <3> QED BY <3>1, <3>3 DEF Follows
  <2> QED BY <2>1, <2>2
<1>2. CASE r.op = "disconnect" /\ Disconnect(p, ok) /\ UNCHANGED endpoints
  <2>1. BadEndpoints = {} /\ "disconnect" \in Operations
    BY <1>0, <1>2 DEF NothingHalfOpen
  <2>2. ~connected'[p] /\ sockets'[p] = sockets[p] \ IF connected[p] THEN endpoints ELSE {}
    BY <1>2 DEF TypeOK, Disconnect, Close
  <2> QED BY <2>1, <2>2 DEF Follows
<1>3. CASE AddEndpoint(p, r.endpoint, ok)
  <2>1. /\ connected' = connected /\ endpoints' = endpoints \cup {r.endpoint}
        /\ sockets'[p] = sockets[p] \cup IF connected[p] THEN {r.endpoint} \ BadEndpoints ELSE {}
    BY <1>3 DEF TypeOK, AddEndpoint, Open
  <2> QED BY <2>1 DEF Follows
<1>4. CASE RemoveEndpoint(p, r.endpoint, ok)
  <2>1. /\ connected' = connected /\ endpoints' = endpoints \ {r.endpoint}
        /\ sockets'[p] = sockets[p] \ IF connected[p] THEN {r.endpoint} ELSE {}
    BY <1>4 DEF TypeOK, RemoveEndpoint, Close
  <2> QED BY <2>1 DEF Follows
<1> QED BY <1>1, <1>2, <1>3, <1>4 DEF Perform

\* A step of a listening process: of the listener itself, whose connections
\* follow the list, or of another, which cannot be while a listener is threaded.
LEMMA SocketsListen ==
  ASSUME NothingHalfOpen, TypeOK, ListenerInv, SocketsInv, NEW p \in Procs, Listen(p)
  PROVE  SocketsInv'
<1>0. Owner \in Procs /\ Threads \subseteq Procs /\ Owner \notin Threads
  BY ThreadsAssumption DEF Procs
<1>1. threaded' = threaded /\ (Listening(Owner) => ~threaded)
  BY ListenFrame DEF owner, SocketsInv
<1>2. Listening(Owner)' => ~threaded'
  BY <1>0, <1>1, ListenFrame DEF Listening
<1>3. SUFFICES ASSUME NEW u \in Threads
               PROVE  /\ pc'[u] \in {"free", "start"} => ~connected'[u] /\ sockets'[u] = {}
                      /\ threaded /\ Listening(u)' /\ pc'[u] # "start"
                         => Follows(u)'
  BY <1>1, <1>2 DEF SocketsInv
<1>4. CASE p # u
  <2>1. pc'[u] = pc[u]
    BY <1>0, <1>4, ListenFrame
  <2>2. connected'[u] = connected[u] /\ sockets'[u] = sockets[u]
    <3>1. CASE Begin(p)
      BY <1>0, <1>4, <3>1 DEF TypeOK, Begin, Connect, Open, DropObject
    <3>2. CASE Receive(p) \/ Read(p) \/ Drained(p)
      BY <3>2 DEF Receive, Read, Drained, object
    <3>3. CASE Check(p)
      BY <1>0, <1>4, <3>3 DEF TypeOK, Check, DropObject, object
    <3>4. CASE Command(p)
      BY <1>0, <1>4, <3>4, PerformFrame DEF TypeOK, Command
    <3> QED BY <3>1, <3>2, <3>3, <3>4 DEF Listen
  <2>3. ~(threaded /\ Listening(u)')
    BY <1>0, <1>1, <1>4, <2>1, ListenFrame DEF ListenerInv, Listening, Procs
  <2> QED BY <2>1, <2>2, <2>3 DEF SocketsInv
<1>5. CASE p = u
  <2>1. CASE Begin(u)
    <3>1. CASE Connect(u, TRUE) /\ Goto(u, "recv")
      <4>1. ~connected[u] /\ sockets[u] = {} /\ endpoints' = endpoints
        BY <2>1 DEF Begin, SocketsInv
      <4>2. /\ connected' = [connected EXCEPT ![u] = TRUE] /\ Open(u, endpoints)
            /\ endpoints \cap BadEndpoints = {}
        BY <3>1, <4>1 DEF Connect
      <4>3. connected'[u] /\ sockets'[u] = endpoints'
        BY <1>0, <4>1, <4>2 DEF TypeOK, Open
      <4>4. pc'[u] = "recv"
        BY <1>0, <3>1 DEF TypeOK, Goto
      <4> QED BY <4>1, <4>2, <4>3, <4>4 DEF Follows
    <3>2. CASE End(u, "err")
      <4>1. pc'[u] = "done"
        BY <1>0, <3>2 DEF TypeOK, End, Goto, Forked
      <4> QED BY <4>1 DEF Listening, ListenStates
    <3> QED BY <2>1, <3>1, <3>2 DEF Begin
  <2>2. CASE Receive(u) \/ Read(u) \/ Drained(u)
    <3>1. UNCHANGED <<connected, sockets, endpoints>>
      BY <2>2 DEF Receive, Read, Drained, shared, object
    <3>2. pc[u] \in {"recv", "read", "cmds"} /\ pc'[u] \in {"recv", "read", "check"}
      BY <1>0, <2>2 DEF TypeOK, Receive, Read, Drained, Goto
    <3> QED BY <1>1, <3>1, <3>2 DEF SocketsInv, Follows, Listening, ListenStates
  <2>3. CASE Check(u)
    <3>1. CASE Goto(u, "cmds") /\ UNCHANGED object
      <4>1. pc[u] = "check" /\ pc'[u] = "cmds" /\ UNCHANGED <<connected, sockets, endpoints>>
        BY <1>0, <2>3, <3>1 DEF TypeOK, Check, Goto, object, shared
      <4> QED BY <1>1, <4>1 DEF SocketsInv, Follows, Listening, ListenStates
    <3>2. CASE End(u, "ok")
      <4>1. pc'[u] = "done"
        BY <1>0, <3>2 DEF TypeOK, End, Goto, Forked
      <4> QED BY <4>1 DEF Listening, ListenStates
    <3> QED BY <2>3, <3>1, <3>2 DEF Check
  <2>4. CASE Command(u)
    <3>1. PICK ok \in BOOLEAN : Perform(u, Head(cmds), ok)
      BY <2>4 DEF Command
    <3>2. Head(cmds) \in Requests
      BY <2>4 DEF TypeOK, Command
    <3>3. pc[u] = "cmds" /\ pc'[u] = "cmds"
      BY <2>4 DEF Command, listener
    <3>4. threaded => Follows(u)
      BY <3>3 DEF SocketsInv, Listening, ListenStates
    <3>5. threaded => Follows(u)'
      BY <1>0, <3>1, <3>2, <3>4, PerformSockets
    <3> QED BY <3>3, <3>5
  <2> QED BY <1>5, <2>1, <2>2, <2>3, <2>4 DEF Listen
<1> QED BY <1>4, <1>5

\* A step of the application: inline calls change the list only while no
\* listener is threaded.
LEMMA SocketsOwner ==
  ASSUME Operations \cap {"fork", "async"} = {}, NothingHalfOpen, TypeOK, ListenerInv, SocketsInv,
         [Next]_vars, \A p \in Procs : ~Listen(p)
  PROVE  SocketsInv'
<1>0. Owner \in Procs /\ Threads \subseteq Procs /\ Owner \notin Threads
  BY ThreadsAssumption DEF Procs
<1>1. ASSUME UNCHANGED <<connected, sockets, endpoints, threaded>>,
             UNCHANGED pc \/ \E label \in {"await", "idle", "join", "joinAsync"} : Goto(Owner, label)
      PROVE  SocketsInv'
  <2>1. Listening(Owner)' => Listening(Owner)
    BY <1>0, <1>1 DEF TypeOK, Listening, Goto, ListenStates
  <2>2. \A t \in Threads : pc'[t] = pc[t]
    BY <1>0, <1>1 DEF TypeOK, Goto
  <2> QED BY <1>1, <2>1, <2>2 DEF SocketsInv, Follows, Listening
<1>2. ASSUME NEW p \in Procs, NEW e \in Endpoints, Arrive(p, e) PROVE SocketsInv'
  BY <1>1, <1>2 DEF Arrive, shared, listener, owner
<1>3. ASSUME NEW r \in Requests, Request(r) PROVE SocketsInv'
  <2>1. CASE ~threaded
    <3>1. PICK ok \in BOOLEAN : Perform(Owner, r, ok)
      BY <1>3, <2>1 DEF Request
    <3>2. \A t \in Threads : connected'[t] = connected[t] /\ sockets'[t] = sockets[t]
      BY <1>0, <3>1, PerformFrame
    <3>3. pc' = pc /\ ~threaded'
      BY <1>3, <2>1 DEF Request
    <3> QED BY <3>2, <3>3 DEF SocketsInv, Follows
  <2>2. CASE threaded
    BY <1>1, <1>3, <2>2 DEF Request, object
  <2> QED BY <2>1, <2>2
<1>4. ASSUME NEW t \in Threads, Start(t) PROVE SocketsInv'
  <2>1. UNCHANGED <<connected, sockets>>
    BY <1>4 DEF Start, Spawn, object
  <2>2. pc' = [pc EXCEPT ![t] = "start"] /\ pc[t] = "free" /\ pc[Owner] = "idle"
    BY <1>4 DEF Start, Spawn, Goto, Idle
  <2>3. ~Listening(Owner)'
    BY <1>0, <2>2 DEF TypeOK, Listening, ListenStates
  <2>4. \A u \in Threads : ~Listening(u)
    BY <1>4 DEF Start, ListenerInv
  <2>5. \A u \in Threads : Listening(u)' => u = t /\ pc'[u] = "start"
    BY <1>0, <2>2, <2>4 DEF TypeOK, Listening
  <2>6. \A u \in Threads : pc'[u] \in {"free", "start"} => pc[u] \in {"free", "start"}
    BY <1>0, <2>2 DEF TypeOK
  <2> QED BY <2>1, <2>3, <2>5, <2>6 DEF SocketsInv, Follows
<1>5. ASSUME NEW n, ListenInline(n) PROVE SocketsInv'
  <2>1. UNCHANGED <<connected, sockets>> /\ ~threaded'
    BY <1>5 DEF ListenInline, object
  <2>2. \A t \in Threads : pc'[t] = pc[t]
    BY <1>0, <1>5 DEF TypeOK, ListenInline, Goto
  <2> QED BY <2>1, <2>2 DEF SocketsInv, Follows
<1>6. CASE Answer
  BY <1>1, <1>6 DEF Answer, object, owner
<1>7. CASE Interrupt \/ ContextInterrupt
  BY <1>1, <1>7 DEF Interrupt, ContextInterrupt, object, listener, owner
<1>8. CASE Stop
  BY <1>1, <1>8 DEF Stop, object
<1>9. CASE Join \/ Joined
  BY <1>1, <1>9 DEF Join, Joined, shared, object, owner
<1>10. CASE UNCHANGED vars
  BY <1>1, <1>10 DEF vars, shared, object, listener, owner
<1>11. ASSUME NEW t \in Threads, NEW n, Fork(t, n) \/ StartAsync(t, n) PROVE FALSE
  BY <1>11 DEF Fork, StartAsync
<1>12. CASE JoinAsync \/ JoinedAsync
  BY <1>1, <1>12 DEF JoinAsync, JoinedAsync, shared, object, owner
<1> QED BY <1>2, <1>3, <1>4, <1>5, <1>6, <1>7, <1>8, <1>9, <1>10, <1>11, <1>12 DEF Next

\* The listener's part of the proof, for a receiver that nothing half opens.
LEMMA SocketsStay ==
  ASSUME Operations \cap {"fork", "async"} = {}, NothingHalfOpen
  PROVE  Spec => [](ListenerInv /\ SocketsInv)
<1> DEFINE Inv == ListenerInv /\ SocketsInv
<1>1. Init => Inv
  BY ThreadsAssumption DEF Init, ListenerInv, SocketsInv, Listening, ListenStates, Procs
<1>2. TypeOK /\ Inv /\ [Next]_vars => Inv'
  BY ListenerNext, SocketsListen, SocketsOwner
<1> QED BY <1>1, <1>2, TypeCorrect, PTL DEF Spec

\* Without fork and start_async, and if no endpoint is refused, a listener is connected to
\* exactly the endpoints listed, however they are added and removed meanwhile.
THEOREM ConnectionsFollow ==
  ASSUME Operations \cap {"fork", "async"} = {}, BadEndpoints = {}
  PROVE  Spec => []SocketsFollowEndpoints
<1>1. SocketsInv => SocketsFollowEndpoints
  BY DEF SocketsInv, SocketsFollowEndpoints, Follows
<1>2. NothingHalfOpen
  BY DEF NothingHalfOpen
<1>3. Spec => [](ListenerInv /\ SocketsInv)
  BY <1>2, SocketsStay
<1> QED BY <1>1, <1>3, PTL

\* A listener is connected to all that is listed and was not refused, and to
\* nothing else.
RefusedLeftOut ==
    \A t \in Threads :
        threaded /\ Listening(t) /\ pc[t] # "start"
            => connected[t] /\ sockets[t] = endpoints \ BadEndpoints

\* Endpoints that are refused do not keep the others from being listened to,
\* as long as the application does not disconnect: a listener that a refused
\* endpoint kept from connecting has ended (receiver.rs:204-217).
THEOREM RefusedDoNoHarm ==
  ASSUME Operations \cap {"fork", "async", "disconnect"} = {}
  PROVE  Spec => []RefusedLeftOut
<1>1. SocketsInv => RefusedLeftOut
  BY DEF SocketsInv, RefusedLeftOut, Follows
<1>2. Operations \cap {"fork", "async"} = {} /\ NothingHalfOpen
  BY DEF NothingHalfOpen
<1>3. Spec => [](ListenerInv /\ SocketsInv)
  BY <1>2, SocketsStay
<1> QED BY <1>1, <1>3, PTL

-----------------------------------------------------------------------------
(* Commands and their answers.                                             *)

\* The channel never holds more than the command the owner waits for, and the
\* response channel never more than the answer to it: send_command does not
\* queue behind an old command, and reads no answer to another one.
OneCommandAtATime ==
    IF pc[Owner] = "await"
    THEN \/ Len(cmds) = 1 /\ resp = None
         \/ cmds = <<>> /\ resp # None
    ELSE cmds = <<>> /\ resp = None

\* A step of a listen does not make its process wait for an answer.
LEMMA ListenGoes ==
  ASSUME TypeOK, NEW p \in Procs, Listen(p)
  PROVE  pc'[p] # "await" /\ pc[p] # "await" /\ \A q \in Procs : (pc'[q] = "await" <=> pc[q] = "await")
<1>1. pc[p] # "await"
  BY ListenFrame DEF Listening, ListenStates
<1>2. UNCHANGED pc \/ \E label \in ListenStates \cup {"done", "idle"} : pc' = [pc EXCEPT ![p] = label]
  <2>1. CASE Begin(p) \/ Check(p)
    BY <2>1 DEF Begin, Check, Goto, End, ListenStates
  <2>2. CASE Receive(p)
    BY <2>2 DEF Receive, Goto, ListenStates
  <2>3. CASE Read(p) \/ Command(p) \/ Drained(p)
    BY <2>3 DEF Read, Command, Drained, Goto, listener, ListenStates
  <2> QED BY <2>1, <2>2, <2>3 DEF Listen
<1>3. pc'[p] # "await"
  BY <1>1, <1>2 DEF TypeOK, ListenStates
<1>4. \A q \in Procs \ {p} : pc'[q] = pc[q]
  BY ListenFrame
<1> QED BY <1>1, <1>3, <1>4

\* OneCommandAtATime is inductive, whatever the operations: the owner sends
\* only when it waits for nothing, and one listener takes what it sent.
LEMMA CommandNext ==
  ASSUME TypeOK, OneCommandAtATime, [Next]_vars
  PROVE  OneCommandAtATime'
<1>0. Owner \in Procs /\ Threads \subseteq Procs /\ Owner \notin Threads
  BY ThreadsAssumption DEF Procs
<1>1. ASSUME UNCHANGED <<cmds, resp>>, pc'[Owner] = "await" <=> pc[Owner] = "await"
      PROVE  OneCommandAtATime'
  BY <1>1 DEF OneCommandAtATime
<1>2. ASSUME NEW p \in Procs, Listen(p) PROVE OneCommandAtATime'
  <2>1. pc'[Owner] = "await" <=> pc[Owner] = "await"
    BY <1>0, <1>2, ListenGoes
  <2>2. CASE Begin(p) \/ Receive(p) \/ Read(p) \/ Check(p) \/ Drained(p)
    BY <1>1, <2>1, <2>2 DEF Begin, Receive, Read, Check, Drained, shared
  <2>3. CASE Command(p)
    <3>1. cmds # <<>> /\ cmds' = Tail(cmds) /\ resp' \in {"ok", "err"}
      BY <2>3 DEF Command
    <3>2. pc[Owner] = "await" /\ Len(cmds) = 1
      BY <3>1 DEF OneCommandAtATime
    <3>3. cmds' = <<>>
      BY <3>1, <3>2 DEF TypeOK
    <3>4. resp' # None
      BY <3>1 DEF None
    <3> QED BY <2>1, <3>2, <3>3, <3>4 DEF OneCommandAtATime
  <2> QED BY <1>2, <2>2, <2>3 DEF Listen
<1>3. ASSUME NEW r \in Requests, Request(r) PROVE OneCommandAtATime'
  <2>1. CASE ~threaded
    BY <1>1, <1>3, <2>1 DEF Request
  <2>2. CASE threaded
    <3>1. cmds = <<>> /\ resp = None
      BY <1>3 DEF Request, Idle, OneCommandAtATime
    <3>2. cmds' = Append(cmds, r) /\ resp' = resp /\ pc' = [pc EXCEPT ![Owner] = "await"]
      BY <1>3, <2>2 DEF Request, Goto
    <3>3. Len(cmds') = 1
      BY <3>1, <3>2
    <3>4. pc'[Owner] = "await"
      BY <1>0, <3>2 DEF TypeOK
    <3> QED BY <3>1, <3>2, <3>3, <3>4 DEF OneCommandAtATime
  <2> QED BY <2>1, <2>2
<1>4. CASE Answer
  <2>1. cmds = <<>>
    BY <1>4 DEF Answer, OneCommandAtATime
  <2>2. cmds' = cmds /\ resp' = None /\ pc' = [pc EXCEPT ![Owner] = "idle"]
    BY <1>4 DEF Answer, Goto
  <2>3. pc'[Owner] = "idle"
    BY <1>0, <2>2 DEF TypeOK
  <2> QED BY <2>1, <2>2, <2>3 DEF OneCommandAtATime
<1>5. ASSUME NEW t \in Threads, NEW n, Spawn(t, n) PROVE OneCommandAtATime'
  <2>1. UNCHANGED <<cmds, resp>> /\ pc' = [pc EXCEPT ![t] = "start"]
    BY <1>5 DEF Spawn, Goto
  <2>2. pc'[Owner] = pc[Owner]
    BY <1>0, <2>1 DEF TypeOK
  <2> QED BY <1>1, <2>1, <2>2
<1>6. ASSUME NEW label \in {"start", "join", "joinAsync", "idle"}, Goto(Owner, label),
             pc[Owner] # "await", UNCHANGED <<cmds, resp>>
      PROVE  OneCommandAtATime'
  <2>1. pc'[Owner] = label
    BY <1>0, <1>6 DEF TypeOK, Goto
  <2> QED BY <1>1, <1>6, <2>1
<1>7. ASSUME NEW n, ListenInline(n) PROVE OneCommandAtATime'
  BY <1>6, <1>7 DEF ListenInline, Idle, shared
<1>8. CASE Stop
  BY <1>1, <1>6, <1>8 DEF Stop, Idle
<1>9. CASE Join \/ Joined
  BY <1>6, <1>9 DEF Join, Joined, Idle, shared
<1>10. CASE JoinAsync \/ JoinedAsync
  BY <1>6, <1>10 DEF JoinAsync, JoinedAsync, Idle, shared
<1>11. CASE Interrupt \/ ContextInterrupt
  BY <1>1, <1>11 DEF Interrupt, ContextInterrupt, listener
<1>12. ASSUME NEW p \in Procs, NEW e \in Endpoints, Arrive(p, e) PROVE OneCommandAtATime'
  BY <1>1, <1>12 DEF Arrive, shared, listener
<1>13. CASE UNCHANGED vars
  BY <1>1, <1>13 DEF vars, shared, listener
<1> QED BY <1>2, <1>3, <1>4, <1>5, <1>7, <1>8, <1>9, <1>10, <1>11, <1>12, <1>13
        DEF Next, Start, Fork, StartAsync

\* The answer the owner reads is always the one to its last call, with any
\* number of listeners on the one channel (receiver.rs:197-202, 556-577).
THEOREM CommandsMatchAnswers == Spec => []OneCommandAtATime
<1>1. Init => OneCommandAtATime
  BY ThreadsAssumption DEF Init, OneCommandAtATime, Procs
<1> QED BY <1>1, CommandNext, TypeCorrect, PTL DEF Spec

-----------------------------------------------------------------------------
(* What a listener hears.                                                  *)

\* An application that disconnects nothing, and either removes no endpoint or
\* adds none.
NothingComesBack ==
    \/ Operations \cap {"remove", "disconnect"} = {}
    \/ Operations \cap {"add", "disconnect"} = {}

\* What poll_ready_list holds has a message, or is an endpoint gone for good.
ReadyOK ==
    \A p \in Procs : \A e \in ready[p] :
        IF e \in sockets[p] THEN inbox[p][e] > 0 ELSE e \notin endpoints

\* Where nothing is removed, nothing in poll_ready_list is gone.
ReadyKept ==
    Operations \cap {"remove", "disconnect"} = {} => \A p \in Procs : ready[p] \subseteq sockets[p]

\* The connection being read has a message that no other entry stands for.
TargetOK ==
    \A p \in Procs :
        pc[p] = "read" => /\ target[p] \in Endpoints \ ready[p]
                          /\ inbox[p][target[p]] > 0

HeardInv == ReadyOK /\ ReadyKept /\ TargetOK

\* Nobody waits for a message on a connection that holds none.
NeverBlocked == \A p \in Procs : ~Blocked(p)

\* Steps that leave the connections as they are, or drop an object.
LEMMA ReadyStays ==
  ASSUME TypeOK, ReadyOK, ReadyKept, NEW p \in Procs, UNCHANGED endpoints,
         DropObject(p) \/ UNCHANGED object
  PROVE  /\ ReadyOK' /\ ReadyKept'
         /\ \A q \in Procs \ {p} : inbox'[q] = inbox[q] /\ ready'[q] = ready[q]
<1>1. CASE UNCHANGED object
  BY <1>1 DEF ReadyOK, ReadyKept, object
<1>2. CASE DropObject(p)
  <2>1. ready'[p] = {}
    BY <1>2 DEF TypeOK, DropObject
  <2>2. ASSUME NEW q \in Procs \ {p}
        PROVE  inbox'[q] = inbox[q] /\ ready'[q] = ready[q] /\ sockets'[q] = sockets[q]
    BY <1>2 DEF TypeOK, DropObject
  <2> QED BY <2>1, <2>2 DEF ReadyOK, ReadyKept
<1> QED BY <1>1, <1>2

\* connect brings no connection back that poll_ready_list knows as gone.
LEMMA ReadyConnect ==
  ASSUME TypeOK, ReadyOK, ReadyKept, NEW p \in Procs, NEW ok, Connect(p, ok),
         UNCHANGED <<endpoints, ready>>
  PROVE  ReadyOK' /\ ReadyKept' /\ UNCHANGED inbox
<1>1. UNCHANGED inbox /\ (UNCHANGED sockets \/ \E S \in SUBSET endpoints : Open(p, S))
  BY DEF Connect, Open
<1>2. CASE UNCHANGED sockets
  BY <1>1, <1>2 DEF ReadyOK, ReadyKept
<1>3. ASSUME NEW S \in SUBSET endpoints, Open(p, S) PROVE ReadyOK' /\ ReadyKept'
  <2>1. \A q \in Procs : sockets'[q] = IF q = p THEN sockets[q] \cup S ELSE sockets[q]
    BY <1>3 DEF TypeOK, Open
  <2>2. ReadyKept'
    BY <2>1 DEF ReadyKept
  <2>3. ASSUME NEW q \in Procs, NEW e \in ready[q]
        PROVE  IF e \in sockets'[q] THEN inbox[q][e] > 0 ELSE e \notin endpoints
    <3>1. IF e \in sockets[q] THEN inbox[q][e] > 0 ELSE e \notin endpoints
      BY DEF ReadyOK
    <3>2. e \in sockets'[q] <=> e \in sockets[q] \/ (q = p /\ e \in S)
      BY <2>1
    <3> QED BY <3>1, <3>2
  <2>4. ReadyOK'
    BY <1>1, <2>3 DEF ReadyOK
  <2> QED BY <2>2, <2>4
<1> QED BY <1>1, <1>2, <1>3

\* None of the calls does, and another object's messages stay where they are.
LEMMA ReadyPerform ==
  ASSUME ~Shared, NothingComesBack, TypeOK, ReadyOK, ReadyKept,
         NEW p \in Procs, NEW r \in Requests, NEW ok \in BOOLEAN, Perform(p, r, ok)
  PROVE  ReadyOK' /\ ReadyKept' /\ UNCHANGED ready /\ \A q \in Procs \ {p} : inbox'[q] = inbox[q]
<1>0. ready' = ready /\ r.op \in Operations
  BY DEF Perform, Requests
<1>1. CASE r.op = "connect" /\ Connect(p, ok) /\ UNCHANGED endpoints
  BY <1>0, <1>1, ReadyConnect
<1>2. CASE r.op = "disconnect"
  BY <1>0, <1>2 DEF NothingComesBack
<1>3. CASE r.op = "add" /\ AddEndpoint(p, r.endpoint, ok)
  <2>1. \A q \in Procs : ready[q] \subseteq sockets[q]
    BY <1>0, <1>3 DEF NothingComesBack, ReadyKept
  <2>2. inbox' = inbox /\ \A q \in Procs : sockets[q] \subseteq sockets'[q]
    BY <1>3 DEF TypeOK, AddEndpoint, Open
  <2>3. ReadyKept'
    BY <1>0, <2>1, <2>2 DEF ReadyKept
  <2>4. \A q \in Procs : \A e \in ready[q] : e \in sockets'[q] /\ inbox[q][e] > 0
    BY <2>1, <2>2 DEF ReadyOK
  <2>5. ReadyOK'
    BY <1>0, <2>2, <2>4 DEF ReadyOK
  <2> QED BY <1>0, <2>2, <2>3, <2>5
<1>4. CASE r.op = "remove" /\ RemoveEndpoint(p, r.endpoint, ok)
  <2> DEFINE S == IF connected[p] THEN {r.endpoint} ELSE {}
  <2>1. /\ sockets' = [sockets EXCEPT ![p] = @ \ S]
        /\ inbox' = [inbox EXCEPT ![p] = [e \in Endpoints |-> IF e \in S THEN 0 ELSE @[e]]]
        /\ endpoints' = endpoints \ {r.endpoint}
    BY <1>4 DEF RemoveEndpoint, Close
  <2>2. S \subseteq {r.endpoint}
    OBVIOUS
  <2> HIDE DEF S
  <2>3. \A q \in Procs \ {p} : inbox'[q] = inbox[q] /\ sockets'[q] = sockets[q]
    BY <2>1 DEF TypeOK
  <2>4. /\ sockets'[p] = sockets[p] \ S
        /\ \A e \in Endpoints : inbox'[p][e] = IF e \in S THEN 0 ELSE inbox[p][e]
    BY <2>1 DEF TypeOK
  <2>5. ReadyKept'
    BY <1>0, <1>4 DEF ReadyKept
  <2>6. ASSUME NEW q \in Procs, NEW e \in ready[q]
        PROVE  IF e \in sockets'[q] THEN inbox'[q][e] > 0 ELSE e \notin endpoints'
    <3>1. IF e \in sockets[q] THEN inbox[q][e] > 0 ELSE e \notin endpoints
      BY DEF ReadyOK
    <3>2. CASE q # p
      BY <2>1, <2>3, <3>1, <3>2
    <3>3. CASE q = p
      <4>1. e \in Endpoints
        BY DEF TypeOK
      <4>2. CASE e \in S
        <5>1. e = r.endpoint /\ e \notin sockets'[q]
          BY <2>2, <2>4, <3>3, <4>2
        <5> QED BY <2>1, <5>1
      <4>3. CASE e \notin S
        BY <2>1, <2>4, <3>1, <3>3, <4>1, <4>3
      <4> QED BY <4>2, <4>3
    <3> QED BY <3>2, <3>3
  <2>7. ReadyOK'
    BY <1>0, <2>6 DEF ReadyOK
  <2> QED BY <1>0, <2>3, <2>5, <2>7
<1> QED BY <1>1, <1>2, <1>3, <1>4 DEF Perform

\* A step that leaves what is read and what can be read as they are.
LEMMA TargetStays ==
  ASSUME TargetOK, NEW q \in Procs, pc'[q] = "read" => pc[q] = "read", target'[q] = target[q],
         ready'[q] = ready[q], \A e \in Endpoints : inbox'[q][e] >= inbox[q][e] /\ inbox[q][e] \in Nat
                                                    /\ inbox'[q][e] \in Nat
  PROVE  pc'[q] = "read" => /\ target'[q] \in Endpoints \ ready'[q]
                            /\ inbox'[q][target'[q]] > 0
<1> SUFFICES ASSUME pc'[q] = "read"
             PROVE  target'[q] \in Endpoints \ ready'[q] /\ inbox'[q][target'[q]] > 0
  OBVIOUS
<1>1. target[q] \in Endpoints \ ready[q] /\ inbox[q][target[q]] > 0
  BY DEF TargetOK
<1> QED BY <1>1

\* A step of a listening process keeps it so, whatever it is blocked on.
LEMMA HeardListen ==
  ASSUME ~Shared, NothingComesBack, TypeOK, HeardInv, NEW p \in Procs, Listen(p)
  PROVE  HeardInv'
<1>0. /\ ReadyOK /\ ReadyKept /\ TargetOK /\ p \in Procs
      /\ \A q \in Procs : \A e \in Endpoints : inbox[q][e] \in Nat
  BY DEF HeardInv, TypeOK
<1>1. ASSUME ReadyOK', ReadyKept', pc'[p] # "read", target' = target,
             \A q \in Procs \ {p} : inbox'[q] = inbox[q] /\ ready'[q] = ready[q]
      PROVE  HeardInv'
  <2>1. ASSUME NEW q \in Procs
        PROVE  pc'[q] = "read" => target'[q] \in Endpoints \ ready'[q] /\ inbox'[q][target'[q]] > 0
    <3>1. CASE q = p
      BY <1>1, <3>1
    <3>2. CASE q # p
      <4>1. pc'[q] = pc[q] /\ inbox'[q] = inbox[q] /\ ready'[q] = ready[q]
        BY <1>1, <3>2, ListenFrame
      <4>2. target'[q] = target[q]
        BY <1>1
      <4> QED BY <1>0, <4>1, <4>2 DEF TargetOK
    <3> QED BY <3>1, <3>2
  <2>2. TargetOK'
    BY <2>1 DEF TargetOK
  <2> QED BY <1>1, <2>2 DEF HeardInv
<1>2. CASE Begin(p)
  <2>1. target' = target /\ endpoints' = endpoints
    BY <1>2 DEF Begin
  <2>2. pc'[p] # "read"
    BY <1>2 DEF TypeOK, Begin, Goto, End
  <2>3. DropObject(p) \/ (UNCHANGED ready /\ \E ok \in BOOLEAN : Connect(p, ok))
    BY <1>2 DEF Begin
  <2>4. /\ ReadyOK' /\ ReadyKept'
        /\ \A q \in Procs \ {p} : inbox'[q] = inbox[q] /\ ready'[q] = ready[q]
    BY <1>0, <2>1, <2>3, ReadyStays, ReadyConnect
  <2> QED BY <1>1, <2>1, <2>2, <2>4
<1>3. CASE Receive(p)
  <2>1. /\ UNCHANGED <<endpoints, sockets, inbox>>
        /\ \A q \in Procs \ {p} : pc'[q] = pc[q]
    BY <1>3, ListenFrame DEF Receive, shared
  <2> DEFINE readable == {e \in sockets[p] : inbox[p][e] > 0}
             candidates == IF ready[p] = {} THEN readable ELSE ready[p]
  <2>2. \A e \in candidates :
           /\ IF e \in sockets[p] THEN inbox[p][e] > 0 ELSE e \notin endpoints
           /\ e \in Endpoints
    BY <1>0 DEF TypeOK, ReadyOK
  <2>3. Operations \cap {"remove", "disconnect"} = {} => candidates \subseteq sockets[p]
    BY <1>0 DEF ReadyKept
  <2>4. CASE UNCHANGED <<ready, target>> /\ Goto(p, "check")
    <3>1. pc'[p] # "read"
      BY <2>4 DEF TypeOK, Goto
    <3>2. ReadyOK' /\ ReadyKept'
      BY <1>0, <2>1, <2>4 DEF ReadyOK, ReadyKept
    <3> QED BY <1>1, <2>1, <2>4, <3>1, <3>2
  <2>5. ASSUME NEW e \in candidates, ready' = [ready EXCEPT ![p] = candidates \ {e}],
               \/ e \in sockets[p] /\ target' = [target EXCEPT ![p] = e] /\ Goto(p, "read")
               \/ UNCHANGED target /\ Goto(p, "check")
        PROVE  HeardInv'
    <3> HIDE DEF candidates
    <3>1. ready'[p] = candidates \ {e} /\ \A q \in Procs \ {p} : ready'[q] = ready[q]
      BY <2>5 DEF TypeOK
    <3>2. ReadyOK'
      BY <1>0, <2>1, <2>2, <3>1 DEF ReadyOK
    <3>3. ReadyKept'
      BY <1>0, <2>1, <2>3, <3>1 DEF ReadyKept
    <3>4. CASE UNCHANGED target /\ Goto(p, "check")
      <4>1. pc'[p] # "read"
        BY <3>4 DEF TypeOK, Goto
      <4> QED BY <1>1, <2>1, <3>1, <3>2, <3>3, <3>4, <4>1
    <3>5. CASE e \in sockets[p] /\ target' = [target EXCEPT ![p] = e]
      <4>1. target'[p] = e /\ \A q \in Procs \ {p} : target'[q] = target[q]
        BY <3>5 DEF TypeOK
      <4>2. inbox[p][e] > 0 /\ e \in Endpoints /\ e \notin ready'[p]
        BY <2>2, <2>5, <3>1, <3>5
      <4>3. ASSUME NEW q \in Procs
            PROVE  pc'[q] = "read" => target'[q] \in Endpoints \ ready'[q] /\ inbox'[q][target'[q]] > 0
        <5>1. CASE q = p
          BY <2>1, <4>1, <4>2, <5>1
        <5>2. CASE q # p
          <6>1. pc'[q] = pc[q] /\ ready'[q] = ready[q] /\ target'[q] = target[q] /\ inbox' = inbox
            BY <2>1, <3>1, <4>1, <5>2
          <6> QED BY <1>0, <6>1 DEF TargetOK
        <5> QED BY <5>1, <5>2
      <4>4. TargetOK'
        BY <4>3 DEF TargetOK
      <4> QED BY <3>2, <3>3, <4>4 DEF HeardInv
    <3> QED BY <2>5, <3>4, <3>5
  <2> QED BY <1>3, <2>4, <2>5 DEF Receive
<1>4. CASE Read(p)
  <2>1. PICK e : /\ e = target[p] /\ inbox[p][e] > 0
                 /\ inbox' = [inbox EXCEPT ![p][e] = @ - 1]
    BY <1>4 DEF Read
  <2>2. e \in Endpoints \ ready[p]
    BY <1>0, <1>4, <2>1 DEF Read, TargetOK
  <2>3. /\ UNCHANGED <<endpoints, sockets, ready>> /\ pc'[p] # "read"
        /\ target' = [target EXCEPT ![p] = None]
    BY <1>4 DEF TypeOK, Read, Goto
  <2>4. /\ \A q \in Procs \ {p} : inbox'[q] = inbox[q]
        /\ \A d \in Endpoints \ {e} : inbox'[p][d] = inbox[p][d]
    BY <2>1 DEF TypeOK
  <2>5. \A q \in Procs : \A d \in ready[q] : inbox'[q][d] = inbox[q][d]
    <3> TAKE q \in Procs
    <3> TAKE d \in ready[q]
    <3>1. d \in Endpoints
      BY DEF TypeOK
    <3> QED BY <2>2, <2>4, <3>1
  <2>6. ReadyOK' /\ ReadyKept'
    BY <1>0, <2>3, <2>5 DEF ReadyOK, ReadyKept
  <2>7. ASSUME NEW q \in Procs
        PROVE  pc'[q] = "read" => target'[q] \in Endpoints \ ready'[q] /\ inbox'[q][target'[q]] > 0
    <3>1. CASE q = p
      BY <2>3, <3>1
    <3>2. CASE q # p
      <4>1. pc'[q] = pc[q] /\ ready'[q] = ready[q] /\ target'[q] = target[q] /\ inbox'[q] = inbox[q]
        BY <2>3, <2>4, <3>2, ListenFrame
      <4> QED BY <1>0, <4>1 DEF TargetOK
    <3> QED BY <3>1, <3>2
  <2>8. TargetOK'
    BY <2>7 DEF TargetOK
  <2> QED BY <2>6, <2>8 DEF HeardInv
<1>5. CASE Check(p)
  <2>1. target' = target /\ endpoints' = endpoints /\ (DropObject(p) \/ UNCHANGED object)
    BY <1>5 DEF Check, shared
  <2>2. pc'[p] # "read"
    BY <1>5 DEF TypeOK, Check, Goto, End
  <2> QED BY <1>0, <1>1, <2>1, <2>2, ReadyStays
<1>6. CASE Command(p)
  <2>1. PICK ok \in BOOLEAN : Perform(p, Head(cmds), ok)
    BY <1>6 DEF Command
  <2>2. Head(cmds) \in Requests
    BY <1>6 DEF TypeOK, Command
  <2>3. target' = target /\ pc'[p] # "read"
    BY <1>6 DEF Command, listener
  <2> QED BY <1>0, <1>1, <2>1, <2>2, <2>3, ReadyPerform
<1>7. CASE Drained(p)
  <2>1. target' = target /\ endpoints' = endpoints /\ UNCHANGED object
    BY <1>7 DEF Drained, shared
  <2>2. pc'[p] # "read"
    BY <1>7 DEF TypeOK, Drained, Goto
  <2> QED BY <1>0, <1>1, <2>1, <2>2, ReadyStays
<1> QED BY <1>2, <1>3, <1>4, <1>5, <1>6, <1>7 DEF Listen

\* The application and ZeroMQ break nothing either: messages only arrive, and
\* what the owner closes inline it is not reading.
LEMMA HeardOwner ==
  ASSUME ~Shared, NothingComesBack, TypeOK, HeardInv, [Next]_vars, \A p \in Procs : ~Listen(p)
  PROVE  HeardInv'
<1>0. /\ ReadyOK /\ ReadyKept /\ TargetOK
      /\ Owner \in Procs /\ Threads \subseteq Procs
      /\ \A q \in Procs : \A e \in Endpoints : inbox[q][e] \in Nat
  BY DEF HeardInv, TypeOK, Procs
<1>1. ASSUME UNCHANGED <<endpoints, object, target>>,
             \A q \in Procs : pc'[q] = "read" => pc[q] = "read"
      PROVE  HeardInv'
  BY <1>0, <1>1 DEF HeardInv, ReadyOK, ReadyKept, TargetOK, object
<1>2. ASSUME NEW p \in Procs, NEW label, label # "read", Goto(p, label)
      PROVE  \A q \in Procs : pc'[q] = "read" => pc[q] = "read"
  BY <1>2 DEF TypeOK, Goto
<1>3. ASSUME NEW p \in Procs, NEW e \in Endpoints, Arrive(p, e) PROVE HeardInv'
  <2>1. /\ UNCHANGED <<endpoints, sockets, ready, pc, target>>
        /\ inbox' = [inbox EXCEPT ![p][e] = @ + 1]
    BY <1>3 DEF Arrive, shared, listener
  <2>2. \A q \in Procs : \A d \in Endpoints :
           inbox'[q][d] = inbox[q][d] + (IF q = p /\ d = e THEN 1 ELSE 0)
    BY <1>0, <2>1 DEF TypeOK
  <2>3. \A q \in Procs : \A d \in Endpoints : inbox[q][d] > 0 => inbox'[q][d] > 0
    BY <1>0, <2>2
  <2>4. \A q \in Procs : ready[q] \subseteq Endpoints
    BY DEF TypeOK
  <2>5. ReadyOK'
    BY <1>0, <2>1, <2>3, <2>4 DEF ReadyOK
  <2>6. ReadyKept' /\ TargetOK'
    BY <1>0, <2>1, <2>3 DEF ReadyKept, TargetOK
  <2> QED BY <2>5, <2>6 DEF HeardInv
<1>4. ASSUME NEW r \in Requests, Request(r) PROVE HeardInv'
  <2>1. CASE ~threaded
    <3>1. PICK ok \in BOOLEAN : Perform(Owner, r, ok)
      BY <1>4, <2>1 DEF Request
    <3>2. /\ ReadyOK' /\ ReadyKept' /\ ready' = ready
          /\ \A q \in Procs \ {Owner} : inbox'[q] = inbox[q]
      BY <1>0, <3>1, ReadyPerform
    <3>3. UNCHANGED <<pc, target>> /\ pc[Owner] # "read"
      BY <1>4, <2>1 DEF Request, Idle
    <3>4. TargetOK'
      BY <1>0, <3>2, <3>3 DEF TargetOK
    <3> QED BY <3>2, <3>4 DEF HeardInv
  <2>2. CASE threaded
    BY <1>0, <1>1, <1>2, <1>4, <2>2 DEF Request
  <2> QED BY <2>1, <2>2
<1>5. ASSUME NEW t \in Threads, NEW n, Spawn(t, n) PROVE HeardInv'
  BY <1>0, <1>1, <1>2, <1>5 DEF Spawn
<1>6. ASSUME NEW n, ListenInline(n) PROVE HeardInv'
  BY <1>0, <1>1, <1>2, <1>6 DEF ListenInline, shared
<1>7. CASE Answer
  BY <1>0, <1>1, <1>2, <1>7 DEF Answer
<1>8. CASE Interrupt \/ ContextInterrupt
  BY <1>1, <1>8 DEF Interrupt, ContextInterrupt, listener
<1>9. CASE Stop
  BY <1>0, <1>1, <1>2, <1>9 DEF Stop
<1>10. CASE Join \/ Joined
  BY <1>0, <1>1, <1>2, <1>10 DEF Join, Joined, shared
<1>11. CASE JoinAsync \/ JoinedAsync
  BY <1>0, <1>1, <1>2, <1>11 DEF JoinAsync, JoinedAsync, shared
<1>12. CASE UNCHANGED vars
  BY <1>1, <1>12 DEF vars, shared, listener
<1> QED BY <1>3, <1>4, <1>5, <1>6, <1>7, <1>8, <1>9, <1>10, <1>11, <1>12
        DEF Next, Start, Fork, StartAsync

\* With individual sockets, an application that never brings back an endpoint
\* it removed or disconnected has no listener waiting for a message on a silent
\* connection, with any number of listeners and whatever is refused: its
\* poll_ready_list (receiver.rs:440-464) is never stale where it matters.
THEOREM HearsWhatIsThere ==
  ASSUME ~Shared, NothingComesBack
  PROVE  Spec => []NeverBlocked
<1>1. Init => HeardInv
  BY ThreadsAssumption DEF Init, HeardInv, ReadyOK, ReadyKept, TargetOK, Procs
<1>2. TypeOK /\ HeardInv /\ [Next]_vars => HeardInv'
  BY HeardListen, HeardOwner
<1>3. HeardInv => NeverBlocked
  <2> SUFFICES ASSUME HeardInv, NEW p \in Procs, Blocked(p) PROVE FALSE
    BY DEF NeverBlocked
  <2>1. pc[p] = "read" /\ inbox[p][target[p]] = 0
    BY DEF Blocked
  <2>2. inbox[p][target[p]] > 0
    BY <2>1 DEF HeardInv, TargetOK
  <2> QED BY <2>1, <2>2
<1> QED BY <1>1, <1>2, <1>3, TypeCorrect, PTL DEF Spec

-----------------------------------------------------------------------------
(* Whether somebody answers.                                               *)

\* An application that neither interrupts nor limits its listeners, and has no
\* endpoint refused: it lets them run for ever.
NothingEnds ==
    /\ Operations \cap {"interrupt", "ctxInterrupt", "stop"} = {}
    /\ Limits = {} /\ BadEndpoints = {}

\* In a threaded mode there is a listener to serve the commands.
ServedInv ==
    /\ ~Interrupted
    /\ \A p \in Procs : limit[p] = NoLimit
    /\ threaded => \E t \in Threads : Listening(t)
    /\ pc[Owner] = "await" => threaded

\* No listener of such an application ends.
LEMMA GoesOnListening ==
  ASSUME NothingEnds, TypeOK, ServedInv, NEW p \in Procs, Listen(p)
  PROVE  /\ UNCHANGED <<interrupted, ctxInterrupted, limit>>
         /\ Listening(p)'
<1>1. CASE Begin(p)
  <2>1. Connect(p, TRUE) /\ Goto(p, "recv")
    BY <1>1 DEF Begin, NothingEnds
  <2>2. pc'[p] = "recv"
    BY <2>1 DEF TypeOK, Goto
  <2> QED BY <1>1, <2>2 DEF Begin, Listening, ListenStates
<1>2. CASE Receive(p)
  <2>1. pc'[p] \in {"check", "read"}
    BY <1>2 DEF TypeOK, Receive, Goto
  <2> QED BY <1>2, <2>1 DEF Receive, shared, Listening, ListenStates
<1>3. CASE Read(p) \/ Drained(p)
  <2>1. pc'[p] \in {"check", "recv"}
    BY <1>3 DEF TypeOK, Read, Drained, Goto
  <2> QED BY <1>3, <2>1 DEF Read, Drained, shared, Listening, ListenStates
<1>4. CASE Check(p)
  <2>1. limit[p] = NoLimit /\ ~Interrupted
    BY DEF ServedInv
  <2>2. Goto(p, "cmds")
    BY <1>4, <2>1 DEF Check
  <2>3. pc'[p] = "cmds"
    BY <2>2 DEF TypeOK, Goto
  <2> QED BY <1>4, <2>3 DEF Check, shared, Listening, ListenStates
<1>5. CASE Command(p)
  BY <1>5 DEF Command, listener, Listening, ListenStates
<1> QED BY <1>1, <1>2, <1>3, <1>4, <1>5 DEF Listen

\* Every step leaves somebody to take the command.
LEMMA ServedNext ==
  ASSUME NothingEnds, TypeOK, ServedInv, [Next]_vars
  PROVE  ServedInv'
<1>0. Owner \in Procs /\ Threads \subseteq Procs /\ Owner \notin Threads
  BY ThreadsAssumption DEF Procs
<1>1. ASSUME UNCHANGED <<interrupted, ctxInterrupted, limit, threaded>>,
             \A t \in Threads : pc'[t] = pc[t], pc'[Owner] = "await" => pc[Owner] = "await" \/ threaded
      PROVE  ServedInv'
  BY <1>1 DEF ServedInv, Interrupted, Listening
<1>2. ASSUME NEW label, Goto(Owner, label) PROVE pc'[Owner] = label /\ \A t \in Threads : pc'[t] = pc[t]
  BY <1>0, <1>2 DEF TypeOK, Goto
<1>3. ASSUME NEW p \in Procs, Listen(p) PROVE ServedInv'
  <2>1. /\ UNCHANGED <<interrupted, ctxInterrupted, limit, threaded>>
        /\ \A t \in Threads : Listening(t) => Listening(t)'
    BY <1>0, <1>3, GoesOnListening, ListenFrame DEF owner, Listening
  <2>2. pc'[Owner] = "await" <=> pc[Owner] = "await"
    BY <1>0, <1>3, ListenGoes
  <2> QED BY <2>1, <2>2 DEF ServedInv, Interrupted
<1>4. ASSUME NEW p \in Procs, NEW e \in Endpoints, Arrive(p, e) PROVE ServedInv'
  BY <1>1, <1>4 DEF Arrive, shared, listener, owner
<1>5. ASSUME NEW r \in Requests, Request(r) PROVE ServedInv'
  <2>1. UNCHANGED <<interrupted, ctxInterrupted, limit, threaded>>
    BY <1>5 DEF Request
  <2>2. UNCHANGED pc \/ (threaded /\ Goto(Owner, "await"))
    BY <1>5 DEF Request
  <2> QED BY <1>1, <1>2, <2>1, <2>2
<1>6. ASSUME NEW t \in Threads, NEW n \in Limits \cup {NoLimit}, Spawn(t, n) PROVE ServedInv'
  <2>1. n = NoLimit
    BY DEF NothingEnds
  <2>2. /\ UNCHANGED <<interrupted, ctxInterrupted>>
        /\ pc' = [pc EXCEPT ![t] = "start"] /\ limit' = [limit EXCEPT ![t] = n]
    BY <1>6 DEF Spawn, Goto
  <2>3. pc'[t] = "start"
    BY <1>0, <2>2 DEF TypeOK
  <2>4. \A p \in Procs : limit'[p] = NoLimit
    BY <2>1, <2>2 DEF TypeOK, ServedInv
  <2>5. Listening(t)'
    BY <2>3 DEF Listening, ListenStates
  <2>6. threaded'
    BY <1>6 DEF Spawn
  <2> QED BY <2>2, <2>4, <2>5, <2>6 DEF ServedInv, Interrupted
<1>7. ASSUME NEW n \in Limits \cup {NoLimit}, ListenInline(n) PROVE ServedInv'
  <2>1. n = NoLimit
    BY DEF NothingEnds
  <2>2. UNCHANGED <<interrupted, ctxInterrupted>> /\ ~threaded' /\ limit' = [limit EXCEPT ![Owner] = n]
    BY <1>7 DEF ListenInline, shared
  <2>3. \A p \in Procs : limit'[p] = NoLimit
    BY <2>1, <2>2 DEF TypeOK, ServedInv
  <2>4. pc'[Owner] = "start"
    BY <1>2, <1>7 DEF ListenInline
  <2> QED BY <2>2, <2>3, <2>4 DEF ServedInv, Interrupted
<1>8. CASE Answer \/ Join \/ Joined \/ JoinAsync \/ JoinedAsync
  <2>1. UNCHANGED <<interrupted, ctxInterrupted, limit, threaded>>
    BY <1>8 DEF Answer, Join, Joined, JoinAsync, JoinedAsync, shared, owner
  <2>2. \E label \in {"idle", "join", "joinAsync"} : Goto(Owner, label)
    BY <1>8 DEF Answer, Join, Joined, JoinAsync, JoinedAsync
  <2>3. pc'[Owner] # "await" /\ \A t \in Threads : pc'[t] = pc[t]
    BY <1>2, <2>2
  <2> QED BY <1>1, <2>1, <2>3
<1>9. ~(Interrupt \/ ContextInterrupt \/ Stop)
  BY DEF NothingEnds, Interrupt, ContextInterrupt, Stop
<1>10. CASE UNCHANGED vars
  BY <1>1, <1>10 DEF vars, shared, listener, owner
<1>11. NoLimit \in Limits \cup {NoLimit}
  OBVIOUS
<1> QED BY <1>3, <1>4, <1>5, <1>6, <1>7, <1>8, <1>9, <1>10, <1>11 DEF Next, Start, Fork, StartAsync

\* While the owner waits, either it has its answer, or its command is in the
\* channel and a listener that is not blocked in a read is there to take it.
CallIsServed ==
    pc[Owner] = "await" =>
        \/ resp # None
        \/ /\ Len(cmds) = 1
           /\ \E t \in Threads : Listening(t) /\ ~Blocked(t)

\* What must not be done for a call to be sure to be served: with individual
\* sockets, if no listener is interrupted, stopped, limited or refused an
\* endpoint, and nothing removed or disconnected comes back, no call is left
\* alone, whatever is forked, added, removed and connected.  The runs
\* ReceiverStale and ReceiverDead show what happens otherwise.
THEOREM CallsAreServed ==
  ASSUME ~Shared, NothingComesBack, NothingEnds
  PROVE  Spec => []CallIsServed
<1>1. Init => ServedInv
  <2> SUFFICES ASSUME Init PROVE ServedInv
    OBVIOUS
  <2>1. ~interrupted /\ ~ctxInterrupted /\ ~threaded /\ \A p \in Procs : limit[p] = NoLimit
    BY DEF Init
  <2>2. pc[Owner] = "idle"
    BY DEF Init, Procs
  <2> QED BY <2>1, <2>2 DEF ServedInv, Interrupted
<1>2. TypeOK /\ ServedInv /\ [Next]_vars => ServedInv'
  BY ServedNext
<1>3. OneCommandAtATime /\ ServedInv /\ NeverBlocked => CallIsServed
  <2>1. Threads \subseteq Procs
    BY DEF Procs
  <2> QED BY <2>1 DEF OneCommandAtATime, ServedInv, NeverBlocked, CallIsServed
<1> QED BY <1>1, <1>2, <1>3, TypeCorrect, CommandsMatchAnswers, HearsWhatIsThere, PTL DEF Spec
=============================================================================
