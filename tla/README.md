# Verification of bsread_rust

TLA+ models of the receiving and sending sides of the Rust crate `bsread`, with
TLC runs that check them on small instances and TLAPS proofs of what matters
most for every size. Every definition is translated from the code under `src/`
(paths below are relative to `src/src/`); `PROJECT.json` maps each one to the
lines it stands for. Code the crate only calls, that is ZeroMQ, is modelled from
how it is called and marked external (`Arrive`, `Change`).

## 1. The system

A bsread source sends multipart ZeroMQ messages: a main header (pulse ID, time,
hash of the data header), a data header (the channels), and two parts per channel.
The crate receives, checks, buffers, forwards and sends such messages.

| Component | State | Operations | Modules |
|---|---|---|---|
| `FifoQueue` (utils.rs:99-160) | bounded queue, condvar, drop count | add, get, wait | `DropOldest`, `FifoQueue`, `Utils_proofs` |
| `LimitedHashMap` (utils.rs:12-97) | map, order, maximum size | insert, get, remove, set_max_size | `LimitedHashMap`, `LimitedHashMapOps`, `Utils_proofs` |
| Receiver: control (receiver.rs) | endpoints, sockets, poll_ready_list, command channel, interrupt flags, handles, delivery mode | connect, disconnect, add/remove_endpoint, listen, fork, start, stop, join, start_async, join_async, interrupt | `Receiver`, `Receiver_proofs` |
| Receiver: data (receiver.rs, message.rs) | header cache, last IDs, check mask, statistics | receive, process, check_message, parse_message, enable/disable_check, reset_counters | `MessagePipeline`, `MCMessagePipeline`, `MessagePipeline_proofs` |
| `Pool` (pool.rs) | several Receivers | the same calls, repeated over them; placing of endpoints | `Pool`, `Pool_proofs` |
| `Sender` (sender.rs) | headers, pulse ID, the socket's unfinished message | create_data_header, send, send_message, forward | `Sender`, `MCSender`, `Sender_proofs` |
| `SocketMonitor` (sockets.rs) | monitor entries, endpoint states, command channel | add, remove, shutdown, the thread's loop | `SocketMonitor`, `SocketMonitor_proofs` |
| `Bsread` (bsread.rs) | context interrupt flag | interrupt | in `Receiver` |
| Asynchronous delivery (receiver.rs, pool.rs, feature `async`) | tasks and channels per endpoint, the shared callback's mutex, handles | start_async, the tasks' steps, join_async, stop_async | `AsyncDelivery`, `MCAsyncDelivery`, `AsyncDelivery_proofs` |
| Channels, values, compression (channel.rs, message.rs, reader.rs, writer.rs, compression.rs) | none | new, serialize, parse, read, write, compress, decompress | `ChannelCodec`, `MCChannelCodec`, `ChannelCodec_proofs` |
| Value conversions, dispatcher, debug output, vendored C | - | - | not modelled, section 7 |

How they interact. A Receiver in a threaded mode forks a *listener*: `listen_task`
makes a second Receiver object with its own sockets and header cache, which shares
the list of endpoints, the statistics, the interrupt flags and the command
channel with the owner's object. From then on the owner's connection calls are
commands, answered by the listener between two receives. Messages go from the
listener's socket through `process` (MessagePipeline, which uses a LimitedHashMap)
to a callback or to the FifoQueue that the owner reads. A Pool owns several
Receivers. With the feature `async` a listener hands each message to a task of the
endpoint it came from, over a bounded channel. A SocketMonitor thread takes registrations of sockets from a Receiver or
a Pool and writes the states the application reads. A Receiver may forward
what it receives through a Sender.

What is hard, and therefore what the properties are about:

* lost or stolen wakeups, losses and order in a queue with several consumers;
* a map and its order that must change together, or the wrong header is evicted;
* commands to a listener that ends, is interrupted or is blocked in a read
  meanwhile; two listeners at once; a poll result used after the endpoints changed;
* interrupts that take effect promptly and listeners that really end;
* checks of the pulse ID with switched masks, endpoints that come and go, messages
  rejected after their header was cached;
* one endpoint on two receivers of a pool, order when an endpoint moves, a stop
  that fails halfway;
* a message left unfinished on the socket by a failed send;
* states of endpoints removed and added again while the monitor thread is behind;
* callbacks that hang or panic in one of several tasks, behind bounded channels and one mutex;
* byte orders, shapes, padding and compression headers that two programs must agree on, over
  several hops, raw ones included.

`PROJECT.json` lists each hazard at its line with the properties that cover it.

## 2. The modules and the code

**FifoQueue.** One producer (`Add`, the mutex makes it atomic) and consumers that
call `get` or `wait`. `wait` is split where the code releases the mutex: `Wait`
takes a message or parks, `Resume` runs after `notify_one`, `Timeout` and
`Spurious` are the other ways out of `wait_timeout`. Messages are numbered in the
order they are added. `DropOldest` is what the queue promises, a channel that may lose
its oldest messages; `FifoQueue` implements it with `Window == INSTANCE DropOldest` (the property
`DropsOldest`).

**LimitedHashMap** has the operations as operators on a record, without recursion: the
`while` of `set_max_size` is the drop of a prefix of the order. `LimitedHashMapOps` applies
them in any sequence, with histories of what was updated when.

**Receiver.** A process is the owner or a listener thread; `pc` is where its
`listen` stands: `Begin` (reset, connect), `Receive` (poll, pick from
`poll_ready_list`), `Read` (the blocking `recv_multipart`), `Check` (limit and
interrupt), `Command`/`Drained` (the `try_recv` loop). Owner calls are `Request`
(on its own object inline; by command and `Answer` otherwise), `Start`, `Fork`,
`StartAsync`, `ListenInline`, `Interrupt`, `Stop`, `Join`/`Joined`,
`JoinAsync`/`JoinedAsync`. Dropping the future of `join_async` loses the handle. What
is abstracted: the order of the list of endpoints is a set, so that the
endpoints connected before a refused one are any; a shared socket has one inbox per
endpoint, any of which a read may take from; EINTR and poll errors are left out; a
message is a count; callbacks return.

**MessagePipeline** follows one Receiver object. One step reads a message (`Receive`); its counts follow lock by lock, because
the code takes a write lock anew for the diagnostics, for the total and for the sum (`Increase`, `CountNext`; `counting` says what is
left to count), and between any two the owner of a forked listener may call `reset_counters`. Two listeners that count at the same time are left out. A message is a
pulse ID, the hash of its data header and the first thing wrong with it
(`Outcome` tells what parse_message makes of each fault, a panic included).
`ParseOutcome`, `CheckOutcome`, `Remember` and `Count` are the helpers of the
code, `Receive` composes them in its order; `Fork` continues with the fresh object of `listen_task`.
The check masks are bit sets with the values of the code, in which `CHECK_ID_RANGE` = 3 is
`CHECK_ID_POSITIVE | CHECK_ID_MONOTONIC`.

**Pool.** Each receiver is reduced to what the pool can see of it: endpoints,
the sockets of its own and its listener's object, the thread's state, its
queue. A call is atomic: it waits until the listeners it talks to have started, and
never returns (`hung`) if one has ended, as Receiver shows. `Stop` interrupts all, then
`JoinNext` joins one after the other. `get` and `wait` are `Get`. `handed` lists what the application was given of each source.
Init starts from endpoints that were each given to `new` once; `Pool::new` accepts duplicates too (section 4).

**Sender.** `SendWith` is `send`: the frames it hands to the socket one by one with
their SNDMORE flag, stopping where a channel cannot be serialized or (non-blocking mode)
the first frame is refused; `Arrive` is the fate of a complete message. A layout
is a list of channels; `Accepts` is the receiver's comparison of the number of
parts.

**SocketMonitor.** The registering object (`Connect`, `Disconnect`, `Enable`,
`DisconnectAll`, `Drop`) and the thread (`AddEntry`, `RemoveEntry`, `Shutdown`, `Poll`,
`Read`) communicate over the command channel and the pipes into which ZeroMQ
(`Change`) puts events.

**AsyncDelivery.** Per receiver a listener (`ReadMessage`, `EndIdle`), which calls the closure itself in the concurrent
mode (`Spawn`) and puts the message into its endpoint's channel in the serial one (`Enqueue`, `EnqueueFails`); per endpoint a task
(`Take`, `Finish`, `AwaitPanics`, `Close`). The receivers of a Pool call one closure behind a mutex, which a panic poisons (`Poisons`).
A callback may end, panic when its future is made or awaited, or hang: `outcome` is chosen at the start. `StopAsync` interrupts
all receivers and `JoinNext` awaits one after the other. What listeners do with commands is Receiver's subject.

**ChannelCodec** is the way of one channel's value: `Send` is serialize_channel with what the
data header says of the channel (`Metadata`), `Receive` is parse_channel and parse_channel_data of a
raw or decoding receiver, and a value received can be sent on. `Write`, `Read`, `Buffer`, `Codec`
and the frames of compression.rs are pure operators; an element is the sequence of its bytes. The
states are the inputs: every combination of type, shape, order, compression, rawness and value of the instance is an initial state.
What is to arrive (`Fitted`) is stated from the shape, as many elements as it has, and not from `is_array`; where the code does otherwise the property
names it (`Cropped`, an image of one row; `TurnedTwice`, big-endian data relayed raw).
Channels and values are smaller than the 0x7E000000 bytes from which lz4 refuses to work (`SizesAssumption`); dimensions are not 0
(`ShapesAssumption`), and the types are those of the crate (`KindsAssumption`).

## 3. The runs

| Run | Bounds | Distinct states | Shows |
|---|---|---|---|
| `FifoQueue` | 3 consumers, capacity 2, 5 messages | 1.6 k | gapless window of the newest, exact accounting, no lost wakeup, order, refinement of DropOldest, nobody sleeps on data |
| `LimitedHashMapOps` | 3 keys, sizes 0-3, 4 updates | 8 k | map and order agree, what is dropped is what was updated longest ago |
| `Receiver` | 2 endpoints, individual sockets, 2 successive listeners, 3 requests | 131 k | connections follow the list, one listener, commands answered, interrupts obeyed |
| `ReceiverShared` | shared socket, a refused endpoint, fork, start_async and inline listen together, limit 1 | 6 M | one late delivery at most, with two listeners; the context's interrupt flag |
| `ReceiverStale`, `ReceiverDead` | 2 endpoints, 1 listener thread, 3 requests and 1 request (limit 1) | | findings 1 and 2 |
| `MessagePipeline` | 2 sources with 2 headers, 4 IDs, 4 faults, 3 messages, 2 calls | 1.6 M | IDs increase while checked, refusals are only against delivered IDs, header changes exact, statistics add up whenever they are read or reset |
| `Pool` | 2 receivers, 3 endpoints (1 refused), 3 messages, 5 calls | 840 k | each endpoint on one receiver and connected once, balanced, messages in order and once each unless a connection was refused or the source moved to a receiver looked at earlier, every listener ends after stop |
| `Sender` | three lists of one or two channels, 3 sends | 532 k | nothing unfinished after a send that succeeds, what is accepted is as it was sent unless it was torn or made for another data header, whole ones are accepted, IDs increase |
| `SocketMonitor` | 3 sockets, 3 changes | 823 k | states are those of registered sockets, removed endpoints are forgotten, states converge |
| `AsyncDelivery` | 2 receivers, 3 endpoints, 3 messages, channels of 1 | 141 k | one callback at a time per endpoint and in order, panics have a cause, every message read is delivered, stop returns unless a callback hangs |
| `ChannelCodec` | 5 types, 7 shapes, values of 1, 2, 3 and 64 elements, 3 hops | 67 k | what arrives is what was sent but for the two losses named, nothing sent is unreadable, what is received can be sent on |

Why the bounds are enough to be interesting: the queue slides past its first
position and three consumers can wait for two messages; the map has more keys than
places and reaches size 0; two endpoints are what a stale ready list and a
partial connect need, two threads what a replaced handle needs; three messages are the least
with which an ID is repeated after a rejection and a header changes and changes back;
a pool of two receivers with three endpoints cannot be even; three sends allow a
failure, its continuation and a recovery; three sockets let an endpoint be removed
and added again beside another. Bounds are constants whose names begin with `Max`, or `InboxCap`
and `CountCap` (saturating), all guards of single actions.

`MessagePipeline.cfg` uses a VIEW, `Outlook`, that leaves out what neither guards nor
its invariants and action properties depend on.

`CHECK_DEADLOCK FALSE` is given where an application may stop calling, where a
bound ends every behaviour, or where the owner may wait for ever for a listener that ended (finding 2).

### Fairness

`FifoQueue!FairSpec`: a consumer that was woken runs. `Receiver!SchedSpec`: a
listening process that can step does, and a join or answer that can return does; nothing is
assumed of messages or calls, so "listener blocked in a read" is a case of its own
(`Blocked`). `Receiver!TrafficSpec` adds that every connected source goes on sending.
`Pool!FairSpec`: listeners start, interrupted ones end, joins return.
`SocketMonitor!FairSpec`: the thread runs. `AsyncDelivery!FairSpec`: the async runtime polls every task that is ready and the operating
system runs the listeners, which are blocking threads; nothing is assumed of sources, of the owner's calls or of a callback's future. These are the guarantees of an operating
system's scheduler; no fairness is assumed of the choice between actions of one process.
In `Pool` a listener that is interrupted ends: that it may be blocked in a read is Receiver's subject.

## 4. Where code and documents disagree

1. `ReceiverStale`: an endpoint removed and added again is still in
   `poll_ready_list` (receiver.rs:464-466): a forked listener reads the new socket without polling and is
   deaf to commands and interrupts until a message comes.
2. `ReceiverDead`: a command to a listener that has ended is never answered and the
   call never returns, because the owner itself keeps the channel open; the errors of receiver.rs:200-201 cannot occur.

Also seen while modelling, without a run:

* queue: `wait` (utils.rs:147) has no loop around `wait_timeout`, so with two consumers one may return None before its
  timeout, reported as a timeout by receiver.rs:776; wait_messages drops the messages it took when a later wait fails (receiver.rs:789);
* headers: a removed endpoint keeps its place in the header cache, and one added later may evict a live
  one, which then reports a header change that did not happen (receiver.rs:268);
* raw: big-endian data received raw are not turned to the host's order, as the raw readers of channel.rs:310-314
  would do, because message.rs:135 does not use them, and are turned around when they are sent on; a string received raw cannot be sent on;
  `ChannelRaw::read` multiplies the number of elements with itself (channel.rs:191);
* shapes: an image of one row is read as its first element, since is_array looks at the first dimension
  (channel.rs:301, whose comment at 297 justifies that of arrays of size 1): the exception `Cropped` of Delivered. A dimension of 0, which `channel::new` accepts,
  makes the receiver of a raw channel panic, so that `ShapesAssumption` excludes it and nothing is claimed of such channels;
* duplicates: `Pool::new` and `new_grouped` (pool.rs:34, 54) do not look whether an endpoint is given twice; one placed on two receivers is
  delivered twice;
* statistics: a reset that falls between two locks of one message leaves an error without a reason, or a sum above the total by one, until the next reset
  (receiver.rs:379-412, 494-501); StatsAddUp allows exactly that much;
* refused connections: remove_endpoint leaves the connections of a receiver whose connect failed (receiver.rs:210), so that an
  endpoint of a pool placed elsewhere is then connected to twice, and its messages are delivered twice and out of order;
* two channels of one name make send_message fail; `Value::to_abool` and `to_bool` disagree on negative numbers;
* stopping: on a shared socket `stop` returns only after another message (receiver.rs:438; README.md:33-34 stops after 1 s);
  `Pool::start` after `Pool::stop` starts nothing and says nothing (pool.rs:199);
* sending: `last_pulse_id` is the next simulated ID after a simulated send (sender.rs:82, printed as the ID sent in
  tests.rs:889); a message in which a channel is None has fewer parts than its data header announces, and a receiver
  refuses it (sender.rs:136, message.rs:418);
* socket options set on a Receiver are not handed to the object its listener makes.

## 5. What is proved

All proofs hold for every value of the constants under the named assumptions of
the modules (finite sets, natural bounds).

`Utils_proofs`, on FifoQueue. `IInv` is the inductive invariant: TypeOK, QueueIsNewest, the relation
of the counters to the window, and the accounting of wakeups. QueueIsNewest (the queue
is the last Len(queue) messages added) is inductive by itself; type
correctness of the counters and the order of deliveries need `Counters`. From it: TypeCorrect,
HoldsNewest, DropsAccounted (capacity at least 1), StaysBounded, WakeupsNotLost, InOrder, and Refinement
of DropOldest.

`Utils_proofs`, on LimitedHashMap. Lemmas about sequences without duplicates, then for each
operation that map and order list the same keys. The invariant, `MapIInv`, adds to MapTypeOK that
every update happened by now, that the order is by update, and that what is absent was
updated before what is present. From it: MapTypeCorrect, StaysWellFormed (hence `set_max_size` ends),
DropsOldestUpdated, KeysSortedByUpdate.

`Receiver_proofs`. TypeCorrect by one lemma for listening processes and one for the
owner. InterruptIsPrompt from `LateInv`: a listen with a late delivery is past its read and before its
check, and the interrupt is still set; so it holds for any number of listeners, shared sockets and refused
endpoints. OneListener, for an application that calls neither fork nor start_async, from `ListenerInv`: a thread
that listens is the one the handle stands for, and its FifoQueue is present, which keeps start from spawning another.
ConnectionsFollow, if moreover no endpoint is refused, from `SocketsInv`: an object has no connection before its listen
begins, and while a listener is threaded nobody else changes the list. RefusedDoNoHarm, from the same invariant: with endpoints that are refused
a listener is connected to all the others, as long as the application does not disconnect (a listener it disconnects may be reconnected in part).
CommandsMatchAnswers needs no assumption: while the owner waits there is its command in the channel or one answer to it, never both and never more, so no
answer belongs to an earlier call, whichever of several listeners gave it.

The last two theorems say what the applications of the runs ReceiverStale and ReceiverDead do wrong, by proving that others are safe. HearsWhatIsThere:
with individual sockets, if nothing is disconnected and endpoints are only added or only removed (`NothingComesBack`), a listener never waits
for a message on a connection that has none, because what its poll_ready_list names has a message or is gone for good (`HeardInv`); ReceiverStale brings an
endpoint back. CallsAreServed: if moreover no listener is interrupted, limited or refused (`NothingEnds`),
whenever the owner waits there is an answer, or a listener that can take the command; in ReceiverDead the listener had ended. It is the safety half of
"a call returns".

`AsyncDelivery_proofs`. `IInv` adds to TypeOK where a message is between its socket and its callback: what a listener holds (HandOK),
what a channel holds, consecutive numbers after the last begun (QueueOK), what is being awaited (BusyOK); and, for everything that has panicked or is poisoned,
a callback that was begun and panics that way (CausesOK). From it: TypeCorrect, NoOverlap (OneAtATime), DeliveredInOrder (InOrder) and
PanicsAreCaused (PanicHasCause), for any number of receivers, endpoints and faults and any capacity.
`Going` adds why the delivery goes on: a channel that holds something has a task that takes it while its listener runs and after (Alive), a callback begun is
finished, awaited or lost to its own panic (Settled), and stop_async has interrupted all (Flagged). From it the safety halves of the two liveness properties:
NothingIsForgotten (every message read is called back, in somebody's care, of a callback that does not end, or gone with a panic; EveryReadIsDelivered) and StopWaitsForCallbacks (a listener
is only held up by a full channel whose task is taking messages or awaits a callback; StopReturns).

`Pool_proofs`. OneReceiver is inductive with the types alone. OneConnection needs `IInv`: receivers are threaded all together (Together), one that
is not threaded has no listener (ModeOK), the object that calls act on is connected to listed endpoints only, and to none while its flag is not set (SocketsOK),
and the owner's objects keep the connections they had when they were last acted on, which were apart then (OwnOK). PoolIsBalanced: the endpoints given to `new`
are placed by position modulo N, so that the positions of two receivers map into each other by adding or subtracting one, one of them lost; after that every endpoint goes to a receiver with the least.
PoolKeepsOrder, that what is handed over of a source strictly ascends (in order and once each), needs where the messages of a source are (QueuesOK): unless the source was overtaken, each queue holds them in
ascending order and newer than the one read last (Within, Ahead), of two queues the one that get looks at first holds the older (Across), and the receiver
that lists the source is looked at after all that still hold messages of it (Behind). That one receiver only delivers them is OneConnection's
argument, which is where `~refused` comes from. StopLeavesNothing, a step property and the safety half of StopEndsAll, from
StopOnItsWay (all are interrupted, and the ones joined have no handle): while stop runs no thread starts, and when it returns Ok no receiver has one.

`SocketMonitor_proofs`. `IInv`: sockets are numbered in the order they are opened and silent before (Numbered); none is registered twice, neither in the queue of
commands nor by an entry of the thread (Registered); what is in a socket's pipe it reported, and what was found readable still is (Reported).
StatesAreCurrent follows because a state is noted only while its entry exists, and dropping the entry drops the state.
`JInv` turns this around: a registered socket has its Add on the way or an entry (OnTheWay), of an endpoint's sockets the commands stand in the order Add,
Remove, Add (InTurn), so that it has one entry at most (OneEntryEach), and for an entry the last in its pipe, or else the state noted, is
what its socket reported last (UpToDate). From it NoTwoEntries and CaughtUpIsExact, the safety half of Converges and RemovedIsForgotten:
whenever no command and no report is waiting, the states are those the registered sockets reported last, and no others.

`MessagePipeline_proofs`. `IdsOK`: on sockets of their own, the ID to be exceeded is the one last delivered with the check enabled; from it IdsIncrease and
RefusalsAreJustified. `CacheOK`: the cache holds headers as they were last parsed, all of them as long as there never were more than the
endpoints listed, for which a connected object's cache is large enough; from it ChangesAreSeen, for any endpoints and headers.
StatisticsAddUp, from `StatsOK`: of each endpoint the sums and the totals differ by what the message being counted still owes them and by what a reset among its
locks took away, which is one at most (`split`); one count pays one debt (CountedAddUp). That a sum over a set grows by what one of its members grows is proved first, from
the definition of SumFunctionOnSet.

`Sender_proofs`. The frames of a send: the k-th channel sent exists and is channel k when all are sent (by a least number, since induction
is not at hand), every frame but the last is marked SNDMORE, and the last one is not exactly if nothing failed. `IInv` adds to TypeOK and
the three properties that what is left on the socket is of earlier sends (Earlier), so that a message begun before is torn, and that the ID that waits there
and the one that arrived last are behind the counter (Ahead). From it: TypeCorrect, SendsAreClosed, AcceptedAsGiven, WholeGetsThrough, IdsGoOn, for any lists of channels.

`ChannelCodec_proofs`. What FlattenSeq and Elements compute is put in a closed form first (`Flattened`, `ElementsOfShape`). `Carries` says of
the bytes on the way that they begin with the first so many elements of what is to arrive, in the channel's byte order, and for a string that its text is
the one offered: all elements of the shape while only raw receivers have had the value, what read returns after that, which is all but for an image of one row
(`ReadCountIs`). It holds of what write and the padding make (`Sent`), is kept by compression, which at most loses the bytes of an incomplete element
(`Arrived`), and by a raw relay unless that turns the elements around (`SentRaw`), and lets read return exactly that
(`ReadIs`). `IInv` says that of what is held or sent after the first hop; without the exception of elements turned twice it still bounds the
number of bytes, so that nothing is unreadable. From it: ValuesArrive and ValuesCanBeSentOn, for any types, values, number of hops and shapes without a dimension of 0.

Induction over data cannot be used as such, because the provers do not instantiate an operator; wherever a sum, a product or a sequence calls for it the proofs take a
smallest counterexample instead, which exists because < on the natural numbers is well founded.

Only model-checked: all liveness (NoSleepingOnData, CommandAnswered, InterruptStops, StopEndsAll, Converges,
RemovedIsForgotten, EveryReadIsDelivered, StopReturns), which is out of the prover's reach; where named above its safety half is
proved, so that what is left to TLC is that enabled steps are taken. Every invariant and
every action property of the runs is proved, and so is the refinement of DropOldest.

## 6. Plan

In this order; runs and properties stay few, extensions go into the existing modules.

1. Pool: inline listen, start_async and stop_async, monitoring.
2. The forwarder's lifecycle, with start and stop of Sender.
3. An abstract receiver (listed endpoints, delivered messages) that Receiver implements, to be used by Pool in place of
   its own reduction.
4. SocketMonitor: ConnectionMode::Shared and fork's taking the monitor along.

## 7. Not modelled

Conversions of values (`to_u8` and the like) are casts without state, and printing is not behaviour; what a malformed frame does is a fault
of MessagePipeline. What the vendored lz4 and bitshuffle make of the bytes is opaque in ChannelCodec.
The dispatcher client makes blocking HTTP requests and keeps no state. Debug output,
the crate root, socket options, topics and transports are configuration or printing. Timestamps are not compared
by any code. u32 counters that wrap after 2^32 events are bounded in the models.
Parts left out of modelled components are named in `PROJECT.json` and at the top of each module.
