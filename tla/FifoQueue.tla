------------------------------ MODULE FifoQueue ------------------------------
(***************************************************************************)
(* FifoQueue<K> of utils.rs: the bounded, lossy queue between a listener   *)
(* thread, which adds, and the threads that poll (get) or block (wait).    *)
(*                                                                         *)
(* add, get and the two halves of wait each run under the queue mutex, so  *)
(* each is one action.  The half of wait between wait_timeout's release of *)
(* the mutex and its reacquisition is explicit: a consumer is parked on    *)
(* the condvar, then woken (by notify_one or spuriously) or expired (its   *)
(* timeout elapsed), and runs the second half when it gets the mutex.      *)
(*                                                                         *)
(* Messages are numbered 1, 2, 3, ... in the order they are added.         *)
(***************************************************************************)
EXTENDS Integers, Sequences, FiniteSets

CONSTANTS
    Consumers,       \* threads that call get and wait
    MaxSize,         \* max_size, the queue's capacity
    MaxAdds,         \* bound: number of messages ever added
    SpuriousWakeups  \* whether the condvar may wake a thread nobody notified

ASSUME ConsumersAssumption == IsFiniteSet(Consumers)
ASSUME MaxSizeAssumption == MaxSize \in Nat
ASSUME MaxAddsAssumption == MaxAdds \in Nat
ASSUME SpuriousAssumption == SpuriousWakeups \in BOOLEAN

VARIABLES
    queue,           \* the messages held, oldest first
    dropped_count,   \* what dropped_count() reports
    waiter,          \* per consumer: where it is in wait
    added,           \* history: number of messages added
    taken,           \* history: number of messages handed to a consumer
    last             \* history: the message most recently handed over, 0 if none

vars == <<queue, dropped_count, waiter, added, taken, last>>

WaiterStates == {"idle", "parked", "woken", "expired"}

Parked == {c \in Consumers : waiter[c] = "parked"}
Awake == {c \in Consumers : waiter[c] \in {"woken", "expired"}}

TypeOK ==
    /\ queue \in Seq(1 .. MaxAdds)
    /\ dropped_count \in 0 .. MaxAdds
    /\ waiter \in [Consumers -> WaiterStates]
    /\ added \in 0 .. MaxAdds
    /\ taken \in 0 .. MaxAdds
    /\ last \in 0 .. MaxAdds

Init ==
    /\ queue = <<>>
    /\ dropped_count = 0
    /\ waiter = [c \in Consumers |-> "idle"]
    /\ added = 0
    /\ taken = 0
    /\ last = 0

-----------------------------------------------------------------------------
(* The effects the operations share.                                       *)

\* Mutation: the message is handed over but not removed.
PeekFront ==
    /\ queue # <<>>
    /\ last' = Head(queue)
    /\ taken' = taken + 1
    /\ UNCHANGED queue

\* VecDeque::pop_front on a non-empty queue, the message going to a caller.
PopFront ==
    /\ queue # <<>>
    /\ queue' = Tail(queue)
    /\ last' = Head(queue)
    /\ taken' = taken + 1

\* pop_front on an empty queue: the caller gets None.
PopNothing ==
    /\ queue = <<>>
    /\ UNCHANGED <<queue, last, taken>>

\* A full queue loses its oldest message, and the loss is counted.
Overflow == Len(queue) >= MaxSize

\* Mutation: the newest message held is sacrificed instead of the oldest.
KeptOldest ==
    IF Overflow /\ queue # <<>> THEN SubSeq(queue, 1, Len(queue) - 1) ELSE queue

Kept == IF Overflow /\ queue # <<>> THEN Tail(queue) ELSE queue

\* Mutation: a consumer is notified only if the queue was empty.
NotifyOneIfEmpty ==
    \/ /\ Parked = {} \/ queue # <<>>
       /\ UNCHANGED waiter
    \/ \E c \in Parked :
          /\ queue = <<>>
          /\ waiter' = [waiter EXCEPT ![c] = "woken"]

\* Condvar::notify_one wakes one parked thread; it does nothing if none is.
NotifyOne ==
    \/ /\ Parked = {}
       /\ UNCHANGED waiter
    \/ \E c \in Parked : waiter' = [waiter EXCEPT ![c] = "woken"]

-----------------------------------------------------------------------------
(* Operations.                                                             *)

\* Mutation: an overflow is counted as the loss of the whole queue.
AddCountingAll ==
    /\ added < MaxAdds
    /\ added' = added + 1
    /\ dropped_count' = IF Overflow THEN dropped_count + Len(queue) ELSE dropped_count
    /\ queue' = Append(Kept, added + 1)
    /\ NotifyOne
    /\ UNCHANGED <<taken, last>>

Add ==
    /\ added < MaxAdds
    /\ added' = added + 1
    /\ dropped_count' = IF Overflow THEN dropped_count + 1 ELSE dropped_count
    /\ queue' = Append(Kept, added + 1)
    /\ NotifyOne
    /\ UNCHANGED <<taken, last>>

Get(c) ==
    /\ waiter[c] = "idle"
    /\ PopFront \/ PopNothing
    /\ UNCHANGED <<dropped_count, waiter, added>>

\* wait, up to the point where it returns or releases the mutex.
Wait(c) ==
    /\ waiter[c] = "idle"
    /\ \/ /\ PopFront
          /\ UNCHANGED waiter
       \/ /\ queue = <<>>
          /\ waiter' = [waiter EXCEPT ![c] = "parked"]
          /\ UNCHANGED <<queue, last, taken>>
    /\ UNCHANGED <<dropped_count, added>>

Timeout(c) ==
    /\ waiter[c] = "parked"
    /\ waiter' = [waiter EXCEPT ![c] = "expired"]
    /\ UNCHANGED <<queue, dropped_count, added, taken, last>>

Spurious(c) ==
    /\ SpuriousWakeups
    /\ waiter[c] = "parked"
    /\ waiter' = [waiter EXCEPT ![c] = "woken"]
    /\ UNCHANGED <<queue, dropped_count, added, taken, last>>

\* wait, once the mutex is held again.  There is no loop: a consumer woken
\* before its timeout returns whatever pop_front gives, None included.
Resume(c) ==
    /\ waiter[c] \in {"woken", "expired"}
    /\ waiter' = [waiter EXCEPT ![c] = "idle"]
    /\ PopFront \/ PopNothing
    /\ UNCHANGED <<dropped_count, added>>

Next ==
    \/ Add
    \/ \E c \in Consumers :
          Get(c) \/ Wait(c) \/ Timeout(c) \/ Spurious(c) \/ Resume(c)

Spec == Init /\ [][Next]_vars

\* The operating system lets a woken thread have the mutex sooner or later.
\* Nothing is assumed of producers, of get, of timeouts or of new waits.
FairSpec == Spec /\ \A c \in Consumers : WF_vars(Resume(c))

-----------------------------------------------------------------------------
(* Safety.                                                                 *)

\* The newest k of the messages 1 .. n, oldest first.
Newest(n, k) == [i \in 1 .. k |-> n - k + i]

\* "Drops the oldest if the FIFO is full" (add): whatever producers and
\* consumers did, the queue holds exactly the newest Len(queue) messages, in
\* the order they were added, without a gap.
QueueIsNewest == queue = Newest(added, Len(queue))

\* What dropped_count() reports is exactly the messages no consumer will see:
\* every message added was handed over, is held, or was counted as dropped.
\* (With max_size 0 the first add counts a drop although nothing is lost.)
Accounting ==
    MaxSize > 0 => added = taken + dropped_count + Len(queue)

\* The queue never outgrows its capacity; a queue created with max_size 0
\* behaves as one of capacity 1.
Bounded ==
    Len(queue) <= IF MaxSize = 0 THEN 1 ELSE MaxSize

\* No lost wakeup: although add notifies one consumer only, and get and a
\* fresh wait may overtake the notified one, a consumer stays parked only
\* while every message held has a consumer already on its way to it.
NoLostWakeup ==
    Parked # {} => Len(queue) <= Cardinality(Awake)

\* Each message reaches at most one consumer and never after a newer one:
\* no interleaving of get, wait and drops reorders or repeats a message.
DeliveryInOrder ==
    [][taken' # taken => last < last']_vars

(* Refinement.                                                             *)

\* The window retained is the queue; what left it unread was counted.
Window == INSTANCE DropOldest WITH
    Capacity <- MaxSize,
    oldest <- added - Len(queue),
    newest <- added,
    lost <- dropped_count,
    read <- last

\* A queue of capacity at least 1 implements the lossy channel of DropOldest:
\* parking, notification, timeouts and spurious wakeups are invisible in what
\* the consumers receive.
DropsOldest == Window!Channel

(* Liveness.                                                               *)

\* Consumers do not sleep on data: once messages are held while consumers
\* are parked, either the messages are consumed or every consumer gets up.
NoSleepingOnData ==
    (Parked # {} /\ queue # <<>>) ~> (Parked = {} \/ queue = <<>>)

=============================================================================
