---------------------------- MODULE AsyncDelivery ----------------------------
(***************************************************************************)
(* Asynchronous delivery: Receiver::start_async, join_async (receiver.rs)   *)
(* and Pool::start_async, stop_async (pool.rs).                             *)
(*                                                                         *)
(* The listener of a receiver runs as a blocking task.  In the concurrent   *)
(* mode it makes a callback's future itself and spawns a task for each.     *)
(* In the serial mode it puts a message into a bounded channel of the       *)
(* message's endpoint, whose task makes and awaits one future after the     *)
(* other.  The receivers of a Pool call one closure, under a mutex that a   *)
(* panic poisons.                                                           *)
(*                                                                         *)
(* A callback may panic when its future is made, panic when that is         *)
(* awaited, or never end; which ones do is chosen at the start.  Connecting,*)
(* commands and a listener started again are in Receiver; the listener is   *)
(* one of individual sockets, which looks at its flags every 10 ms.         *)
(***************************************************************************)
EXTENDS Integers, Sequences, FiniteSets

CONSTANTS
    Endpoints,     \* endpoint addresses
    N,             \* number of receivers
    Serves,        \* per endpoint: the receiver that has it
    None,          \* stands for no endpoint
    Capacity,      \* of an endpoint's channel, 1000 in the code
    MaxRead,       \* bound: per endpoint, messages read from it
    MaxFaults      \* bound: callbacks that panic or never end

Receivers == 1 .. N

ASSUME ReceiversAssumption == N \in Nat \ {0} /\ Serves \in [Endpoints -> Receivers]
ASSUME NoneAssumption == None \notin Endpoints
ASSUME CapacityAssumption == Capacity \in Nat \ {0}
ASSUME BoundsAssumption == MaxRead \in [Endpoints -> Nat] /\ MaxFaults \in Nat

Numbers(e) == 1 .. MaxRead[e]
Messages == UNION {{e} \X Numbers(e) : e \in Endpoints}
Outcomes == {"ends", "panicsMaking", "panicsAwaited", "hangs"}

VARIABLES
    concurrent,   \* start_async's argument
    pooled,       \* the closure is the one shared by a Pool's receivers
    outcome,      \* what becomes of the callback of each message
    listener,     \* per receiver: "running", "ended" or "panicked"
    hand,         \* per receiver: the endpoint whose last message its listener
                  \* has read and not delivered yet, or None
    interrupted,  \* per receiver
    read,         \* per endpoint: number of messages read from it
    task,         \* per endpoint: state of its channel's task
    queue,        \* per endpoint: what its channel holds
    begun,        \* per endpoint: the message whose callback was begun last
    busy,         \* per endpoint: messages whose future is being awaited
    finished,     \* per endpoint: messages whose callback has ended
    poisoned,     \* the closure's mutex is poisoned
    stopping,     \* the receiver stop_async awaits, 0 when it is not running
    joined        \* the receivers whose handle was taken

mode == <<concurrent, pooled, outcome>>
owner == <<interrupted, stopping, joined>>
tasks == <<task, queue, begun, busy, finished, poisoned>>
vars == <<mode, listener, hand, read, tasks, owner>>

TypeOK ==
    /\ concurrent \in BOOLEAN /\ pooled \in BOOLEAN
    /\ outcome \in [Messages -> Outcomes]
    /\ listener \in [Receivers -> {"running", "ended", "panicked"}]
    /\ hand \in [Receivers -> Endpoints \cup {None}]
    /\ interrupted \in [Receivers -> BOOLEAN]
    /\ read \in [Endpoints -> Nat]
    /\ task \in [Endpoints -> {"none", "waiting", "awaiting", "panicked", "ended"}]
    /\ queue \in [Endpoints -> Seq(Nat)]
    /\ begun \in [Endpoints -> Nat]
    /\ \A e \in Endpoints : read[e] <= MaxRead[e] /\ Len(queue[e]) <= Capacity
    /\ busy \in [Endpoints -> SUBSET Nat]
    /\ finished \in [Endpoints -> SUBSET Nat]
    /\ poisoned \in BOOLEAN
    /\ stopping \in 0 .. N
    /\ joined \subseteq Receivers

Faulty(f) == {m \in Messages : f[m] # "ends"}

\* start_async of each receiver by itself, or of a pool that has them.
Init ==
    /\ concurrent \in BOOLEAN
    /\ pooled \in BOOLEAN
    /\ \E faulty \in SUBSET Messages :
          /\ Cardinality(faulty) <= MaxFaults
          /\ outcome \in {f \in [Messages -> Outcomes] : Faulty(f) = faulty}
    /\ listener = [r \in Receivers |-> "running"]
    /\ hand = [r \in Receivers |-> None]
    /\ interrupted = [r \in Receivers |-> FALSE]
    /\ read = [e \in Endpoints |-> 0]
    /\ task = [e \in Endpoints |-> "none"]
    /\ queue = [e \in Endpoints |-> <<>>]
    /\ begun = [e \in Endpoints |-> 0]
    /\ busy = [e \in Endpoints |-> {}]
    /\ finished = [e \in Endpoints |-> {}]
    /\ poisoned = FALSE
    /\ stopping = 0
    /\ joined = {}

-----------------------------------------------------------------------------
(* Calling the closure.                                                    *)

\* The closure cannot be called, or panics itself.
Fails(m) == (pooled /\ poisoned) \/ outcome[m] = "panicsMaking"

\* Mutation: the mutex is held until the future is ready.
PoisonsLater(m) == pooled /\ outcome[m] \in {"panicsMaking", "panicsAwaited"}

\* A panic while the mutex is held poisons it.
Poisons(m) == pooled /\ outcome[m] = "panicsMaking"

\* The callback of message n of e is begun: its future, if there is one, is
\* awaited.
Call(e, n) ==
    /\ begun' = [begun EXCEPT ![e] = n]
    /\ busy' = IF Fails(<<e, n>>) THEN busy ELSE [busy EXCEPT ![e] = @ \cup {n}]
    /\ poisoned' = (poisoned \/ Poisons(<<e, n>>))

-----------------------------------------------------------------------------
(* The listener.                                                           *)

\* Between two messages the listener looks at its flag.
AfterTurn(r) == IF interrupted[r] THEN "ended" ELSE "running"

\* The turn of listener r is over with the message delivered.
TurnOver(r) ==
    /\ hand' = [hand EXCEPT ![r] = None]
    /\ listener' = [listener EXCEPT ![r] = AfterTurn(r)]

Panic(r) ==
    /\ hand' = [hand EXCEPT ![r] = None]
    /\ listener' = [listener EXCEPT ![r] = "panicked"]

ReadMessage(e) ==
    LET r == Serves[e] IN
    /\ listener[r] = "running" /\ hand[r] = None
    /\ read[e] < MaxRead[e]
    /\ read' = [read EXCEPT ![e] = @ + 1]
    /\ hand' = [hand EXCEPT ![r] = e]
    /\ UNCHANGED <<mode, listener, tasks, owner>>

\* Nothing was readable for 10 ms.
EndIdle(r) ==
    /\ listener[r] = "running" /\ hand[r] = None
    /\ interrupted[r]
    /\ listener' = [listener EXCEPT ![r] = "ended"]
    /\ UNCHANGED <<mode, hand, read, tasks, owner>>

\* Concurrent: the listener calls the closure, whose panic is its own.
Spawn(r) ==
    /\ concurrent /\ hand[r] # None
    /\ LET e == hand[r]
       IN  /\ Call(e, read[e])
           /\ IF Fails(<<e, read[e]>>) THEN Panic(r) ELSE TurnOver(r)
    /\ UNCHANGED <<mode, read, task, queue, finished, owner>>

\* Mutation: a message that finds the channel full is dropped.
TrySend(r) ==
    /\ ~concurrent /\ hand[r] # None
    /\ LET e == hand[r]
       IN  /\ queue' = IF Len(queue[e]) < Capacity THEN [queue EXCEPT ![e] = Append(@, read[e])]
                       ELSE queue
           /\ task' = IF task[e] = "none" THEN [task EXCEPT ![e] = "waiting"] ELSE task
    /\ TurnOver(r)
    /\ UNCHANGED <<mode, read, begun, busy, finished, poisoned, owner>>

\* Serial: blocking_send waits for room in the endpoint's channel, which is
\* made with the first message.
Enqueue(r) ==
    /\ ~concurrent /\ hand[r] # None
    /\ LET e == hand[r]
       IN  /\ task[e] # "panicked" /\ Len(queue[e]) < Capacity
           /\ queue' = [queue EXCEPT ![e] = Append(@, read[e])]
           /\ task' = IF task[e] = "none" THEN [task EXCEPT ![e] = "waiting"] ELSE task
    /\ TurnOver(r)
    /\ UNCHANGED <<mode, read, begun, busy, finished, poisoned, owner>>

\* blocking_send(..).unwrap() when the endpoint's task is gone.
EnqueueFails(r) ==
    /\ ~concurrent /\ hand[r] # None
    /\ task[hand[r]] = "panicked"
    /\ Panic(r)
    /\ UNCHANGED <<mode, read, tasks, owner>>

-----------------------------------------------------------------------------
(* The tasks.                                                              *)

\* A task that panics drops its end of the channel with what it holds.
Dies(e) ==
    /\ task' = [task EXCEPT ![e] = "panicked"]
    /\ queue' = [queue EXCEPT ![e] = <<>>]

\* Mutation: the future is spawned, not awaited.
TakeAlways(e) ==
    /\ queue[e] # <<>>
    /\ Call(e, Head(queue[e]))
    /\ task' = [task EXCEPT ![e] = "waiting"]
    /\ queue' = [queue EXCEPT ![e] = Tail(@)]
    /\ UNCHANGED <<mode, listener, hand, read, finished, owner>>

\* The endpoint's task takes a message and calls the closure.
Take(e) ==
    /\ task[e] = "waiting" /\ queue[e] # <<>>
    /\ Call(e, Head(queue[e]))
    /\ IF Fails(<<e, Head(queue[e])>>) THEN Dies(e)
       ELSE /\ task' = [task EXCEPT ![e] = "awaiting"]
            /\ queue' = [queue EXCEPT ![e] = Tail(@)]
    /\ UNCHANGED <<mode, listener, hand, read, finished, owner>>

\* A future is ready; in the concurrent mode it has a task of its own.
Finish(e, n) ==
    /\ n \in busy[e] /\ outcome[<<e, n>>] = "ends"
    /\ busy' = [busy EXCEPT ![e] = @ \ {n}]
    /\ finished' = [finished EXCEPT ![e] = @ \cup {n}]
    /\ task' = IF concurrent THEN task ELSE [task EXCEPT ![e] = "waiting"]
    /\ UNCHANGED <<mode, listener, hand, read, queue, begun, poisoned, owner>>

AwaitPanics(e, n) ==
    /\ n \in busy[e] /\ outcome[<<e, n>>] = "panicsAwaited"
    /\ busy' = [busy EXCEPT ![e] = @ \ {n}]
    /\ IF concurrent THEN UNCHANGED <<task, queue>> ELSE Dies(e)
    /\ UNCHANGED <<mode, listener, hand, read, begun, finished, poisoned, owner>>

\* Mutation: a task ends with its listener, whatever its channel holds.
CloseEarly(e) ==
    /\ task[e] = "waiting" /\ listener[Serves[e]] # "running"
    /\ task' = [task EXCEPT ![e] = "ended"]
    /\ UNCHANGED <<mode, listener, hand, read, queue, begun, busy, finished, poisoned, owner>>

\* recv returns None: the listener's ends of the channels went with it, and
\* what this one held has been taken.
Close(e) ==
    /\ task[e] = "waiting" /\ listener[Serves[e]] # "running"
    /\ queue[e] = <<>>
    /\ task' = [task EXCEPT ![e] = "ended"]
    /\ UNCHANGED <<mode, listener, hand, read, queue, begun, busy, finished, poisoned, owner>>

-----------------------------------------------------------------------------
(* Stopping.                                                               *)

\* Mutation: each receiver is interrupted when it is its turn to be awaited.
StopFirst ==
    /\ stopping = 0
    /\ stopping' = 1
    /\ interrupted' = [interrupted EXCEPT ![1] = TRUE]
    /\ UNCHANGED <<mode, listener, hand, read, tasks, joined>>

\* stop_async interrupts all receivers, then awaits one after the other; the
\* owner of receivers without a pool does the same.
StopAsync ==
    /\ stopping = 0
    /\ stopping' = 1
    /\ interrupted' = [r \in Receivers |-> TRUE]
    /\ UNCHANGED <<mode, listener, hand, read, tasks, joined>>

\* join_async of the receiver has returned; without a handle it is Ok at once,
\* and the first error ends stop_async.
JoinNext ==
    /\ stopping # 0
    /\ stopping \in joined \/ listener[stopping] # "running"
    /\ joined' = joined \cup {stopping}
    /\ stopping' = IF stopping = N \/ (stopping \notin joined /\ listener[stopping] = "panicked")
                   THEN 0 ELSE stopping + 1
    /\ UNCHANGED <<mode, listener, hand, read, tasks, interrupted>>

Next ==
    \/ \E e \in Endpoints : ReadMessage(e) \/ Take(e) \/ Close(e)
    \/ \E e \in Endpoints : \E n \in Numbers(e) : Finish(e, n) \/ AwaitPanics(e, n)
    \/ \E r \in Receivers : EndIdle(r) \/ Spawn(r) \/ Enqueue(r) \/ EnqueueFails(r)
    \/ StopAsync \/ JoinNext

Spec == Init /\ [][Next]_vars

\* The runtime polls what is ready and the operating system runs the blocking
\* threads; nothing is assumed of the sources and the owner.
FairSpec ==
    /\ Spec
    /\ \A e \in Endpoints :
          /\ WF_vars(Take(e)) /\ WF_vars(Close(e))
          /\ \A n \in Numbers(e) : WF_vars(Finish(e, n)) /\ WF_vars(AwaitPanics(e, n))
    /\ \A r \in Receivers : WF_vars(EndIdle(r)) /\ WF_vars(Spawn(r)) /\ WF_vars(Enqueue(r))
                            /\ WF_vars(EnqueueFails(r))
    /\ WF_vars(JoinNext)

-----------------------------------------------------------------------------
(* Properties.                                                             *)

\* The callbacks of an endpoint are begun in the order of its messages, none
\* left out and none twice, whatever the mode and whatever panics.
InOrder ==
    [][\A e \in Endpoints : begun'[e] # begun[e] => begun'[e] = begun[e] + 1]_vars

\* In the serial mode an endpoint's callbacks never overlap, and no message is
\* lost between the socket and its callback as long as the task lives.
OneAtATime ==
    ~concurrent => \A e \in Endpoints :
        /\ \A m, n \in busy[e] : m = n
        /\ task[e] # "panicked" =>
              read[e] = begun[e] + Len(queue[e])
                        + IF hand[Serves[e]] = e THEN 1 ELSE 0

\* The callbacks that were begun and panic in a given way.
Begun(r, way) ==
    \E e \in Endpoints : Serves[e] = r /\
        \E n \in 1 .. begun[e] : outcome[<<e, n>>] = way

\* A listener panics only after a callback that it, or a receiver of its pool,
\* was given: one that panicked when made, or, in the serial mode only, one of
\* its own that panicked when awaited.
PanicHasCause ==
    \A r \in Receivers : listener[r] = "panicked" =>
        \/ \E q \in Receivers : (q = r \/ pooled) /\ Begun(q, "panicsMaking")
        \/ ~concurrent /\ Begun(r, "panicsAwaited")

\* The listener is kept by a full channel, whose callback never ends.
Stuck(r) ==
    /\ ~concurrent /\ hand[r] # None
    /\ LET e == hand[r] IN \E n \in busy[e] : outcome[<<e, n>>] = "hangs"

\* What may keep or lose message n of e: its own callback; in the serial mode
\* the endpoint's task, that an earlier one ended or occupies for ever; in the
\* concurrent one the listener, which panicked with it.
Excused(e, n) ==
    \/ outcome[<<e, n>>] # "ends"
    \/ task[e] = "panicked"
    \/ ~concurrent /\ \E k \in busy[e] : outcome[<<e, k>>] = "hangs"
    \/ concurrent /\ listener[Serves[e]] = "panicked" /\ n = begun[e]

\* Every message read is delivered and its callback ends, also when the
\* listener has been stopped or has panicked meanwhile.
EveryReadIsDelivered ==
    \A e \in Endpoints : \A n \in Numbers(e) :
        read[e] >= n ~> n \in finished[e] \/ Excused(e, n)

\* stop_async returns, unless a callback that never ends keeps a listener.
StopReturns == stopping # 0 ~> stopping = 0 \/ \E r \in Receivers : Stuck(r)

=============================================================================
