------------------------------- MODULE Receiver -------------------------------
(***************************************************************************)
(* The control of a Receiver (receiver.rs): the thread that owns the       *)
(* Receiver, the listener threads it forks, and what they share.           *)
(*                                                                         *)
(* A listener thread runs `listen` on a Receiver object of its own, made   *)
(* by listen_task, with its own sockets and its own `connected` flag.  It  *)
(* shares with the owner's object the list of endpoints, the statistics,   *)
(* the interrupt flags and the command channel.  Once the owner's object   *)
(* is in a threaded delivery mode, connect, disconnect, add_endpoint and   *)
(* remove_endpoint are sent over that channel and the owner blocks until   *)
(* the listener answers; the listener looks at the channel after each      *)
(* receive.  In inline mode the owner acts on its own object, and may run  *)
(* `listen` itself.  start_async is fork on a blocking thread of tokio,    *)
(* with a handle that join_async awaits instead of join.                   *)
(*                                                                         *)
(* Left out: what a message holds (MessagePipeline), where it is put       *)
(* or how its callback is called (FifoQueue, the tasks of start_async),    *)
(* the forwarder, socket options and monitoring.                           *)
(***************************************************************************)
EXTENDS Integers, Sequences, FiniteSets

CONSTANTS
    Endpoints,     \* endpoint addresses
    BadEndpoints,  \* the ones TrackedSocket::connect refuses
    Owner,         \* the thread owning the Receiver
    Threads,       \* listener threads that may be spawned, each once
    Shared,        \* ConnectionMode::Shared rather than Individual
    Operations,    \* the operations the application uses
    Limits,        \* the num_messages the application asks for
    InboxCap,      \* bound: messages pending per connection
    CountCap,      \* bound: the message counter saturates here
    MaxRequests    \* bound: connection requests the owner makes

NoLimit == -1      \* num_messages: None
None == "none"     \* an absent handle, response or endpoint

Procs == Threads \cup {Owner}

Requests ==
    [op : {"connect", "disconnect"} \cap Operations, endpoint : {None}]
    \cup [op : {"add", "remove"} \cap Operations, endpoint : Endpoints]

ASSUME EndpointsAssumption ==
    IsFiniteSet(Endpoints) /\ BadEndpoints \subseteq Endpoints /\ None \notin Endpoints
ASSUME ThreadsAssumption ==
    IsFiniteSet(Threads) /\ Owner \notin Threads /\ None \notin Threads
ASSUME LimitsAssumption == Limits \subseteq 0 .. CountCap
ASSUME BoundsAssumption ==
    Shared \in BOOLEAN /\ InboxCap \in Nat /\ CountCap \in Nat /\ MaxRequests \in Nat

VARIABLES
    endpoints,    \* shared: the endpoints listed
    messages,     \* shared: Stats.counter_messages
    interrupted,  \* shared: the receiver's interrupt flag
    ctxInterrupted, \* shared: the Bsread context's interrupt flag
    cmds,         \* shared: the command channel
    resp,         \* the response channel of the outstanding command
    connected,    \* per object
    sockets,      \* per object: endpoints it holds a connection to
    ready,        \* per object: poll_ready_list
    inbox,        \* per object and connection: messages waiting in it
    pc,           \* per process: where it is
    target,       \* per process: the connection it is blocked reading
    limit,        \* per process: num_messages of its listen
    result,       \* per thread: what its closure returned
    handle,       \* owner's object: the JoinHandle held
    async_handle, \* owner's object: the JoinHandle of tokio held
    threaded,     \* owner's object: delivery_mode is not Inline
    fifo,         \* owner's object: a FifoQueue is present
    stopping,     \* owner: the join in progress was called by stop
    requests,     \* bound counter
    late          \* history: deliveries by this listen after an interrupt

shared == <<endpoints, messages, interrupted, ctxInterrupted, cmds, resp>>
object == <<connected, sockets, ready, inbox>>
listener == <<pc, target, limit, result, late>>
owner == <<handle, async_handle, threaded, fifo, stopping, requests>>
vars == <<shared, object, listener, owner>>

Interrupted == interrupted \/ ctxInterrupted

ListenStates == {"start", "recv", "read", "check", "cmds"}
Listening(p) == pc[p] \in ListenStates

TypeOK ==
    /\ endpoints \subseteq Endpoints
    /\ messages \in 0 .. CountCap
    /\ interrupted \in BOOLEAN /\ ctxInterrupted \in BOOLEAN
    /\ cmds \in Seq(Requests)
    /\ resp \in {None, "ok", "err"}
    /\ connected \in [Procs -> BOOLEAN]
    /\ sockets \in [Procs -> SUBSET Endpoints]
    /\ ready \in [Procs -> SUBSET Endpoints]
    /\ inbox \in [Procs -> [Endpoints -> 0 .. InboxCap]]
    /\ pc \in [Procs -> ListenStates \cup {"free", "done", "idle", "await", "join", "joinAsync"}]
    /\ target \in [Procs -> Endpoints \cup {None}]
    /\ limit \in [Procs -> 0 .. CountCap \cup {NoLimit}]
    /\ result \in [Threads -> {None, "ok", "err"}]
    /\ handle \in Threads \cup {None} /\ async_handle \in Threads \cup {None}
    /\ threaded \in BOOLEAN /\ fifo \in BOOLEAN /\ stopping \in BOOLEAN
    /\ requests \in 0 .. MaxRequests
    /\ late \in [Procs -> 0 .. 2]

Init ==
    /\ endpoints \in SUBSET Endpoints
    /\ messages = 0
    /\ interrupted = FALSE /\ ctxInterrupted = FALSE
    /\ cmds = <<>>
    /\ resp = None
    /\ connected = [p \in Procs |-> FALSE]
    /\ sockets = [p \in Procs |-> {}]
    /\ ready = [p \in Procs |-> {}]
    /\ inbox = [p \in Procs |-> [e \in Endpoints |-> 0]]
    /\ pc = [p \in Procs |-> IF p = Owner THEN "idle" ELSE "free"]
    /\ target = [p \in Procs |-> None]
    /\ limit = [p \in Procs |-> NoLimit]
    /\ result = [t \in Threads |-> None]
    /\ handle = None /\ async_handle = None
    /\ threaded = FALSE /\ fifo = FALSE /\ stopping = FALSE
    /\ requests = 0
    /\ late = [p \in Procs |-> 0]

-----------------------------------------------------------------------------
(* What connect, disconnect, add_endpoint and remove_endpoint do to the    *)
(* object of p; ok tells whether the call returned Ok.                     *)

\* Opening connections of p; those it has already are left alone.
Open(p, S) ==
    /\ sockets' = [sockets EXCEPT ![p] = @ \cup S]
    /\ UNCHANGED inbox

\* Closing connections of p.  An individual socket is dropped with what it
\* holds; a shared one may or may not still deliver what it had received.
Close(p, S) ==
    /\ sockets' = [sockets EXCEPT ![p] = @ \ S]
    /\ \E lost \in IF Shared THEN SUBSET S ELSE {S} :
          inbox' = [inbox EXCEPT ![p] = [e \in Endpoints |-> IF e \in lost THEN 0 ELSE @[e]]]

\* connect: the endpoints are connected in the order of the list, up to the
\* first that is refused.  The list's order is not modelled, so the ones
\* before it are any set of good endpoints.
Connect(p, ok) ==
    \/ /\ connected[p]
       /\ ok
       /\ UNCHANGED <<connected, sockets, inbox>>
    \/ /\ ~connected[p]
       /\ endpoints \cap BadEndpoints = {}
       /\ ok
       /\ connected' = [connected EXCEPT ![p] = TRUE]
       /\ Open(p, endpoints)
    \/ /\ ~connected[p]
       /\ endpoints \cap BadEndpoints # {}
       /\ ~ok
       /\ \E before \in SUBSET (endpoints \ BadEndpoints) : Open(p, before)
       /\ UNCHANGED connected

Disconnect(p, ok) ==
    /\ ok
    /\ connected' = [connected EXCEPT ![p] = FALSE]
    /\ Close(p, IF connected[p] THEN endpoints ELSE {})

AddEndpoint(p, e, ok) ==
    /\ endpoints' = endpoints \cup {e}
    /\ ok <=> (connected[p] => e \notin BadEndpoints)
    /\ Open(p, IF connected[p] THEN {e} \ BadEndpoints ELSE {})
    /\ UNCHANGED connected

\* Mutation: the endpoint is taken off the list but stays connected.
UnlistEndpoint(p, e, ok) ==
    /\ ok
    /\ endpoints' = endpoints \ {e}
    /\ UNCHANGED <<connected, sockets, inbox>>

RemoveEndpoint(p, e, ok) ==
    /\ ok
    /\ Close(p, IF connected[p] THEN {e} ELSE {})
    /\ endpoints' = endpoints \ {e}
    /\ UNCHANGED connected

Perform(p, r, ok) ==
    /\ \/ r.op = "connect" /\ Connect(p, ok) /\ UNCHANGED endpoints
       \/ r.op = "disconnect" /\ Disconnect(p, ok) /\ UNCHANGED endpoints
       \/ r.op = "add" /\ AddEndpoint(p, r.endpoint, ok)
       \/ r.op = "remove" /\ RemoveEndpoint(p, r.endpoint, ok)
    /\ UNCHANGED ready

-----------------------------------------------------------------------------
(* listen, run by a listener thread or by the owner.                       *)

Forked(p) == p # Owner

Goto(p, label) == pc' = [pc EXCEPT ![p] = label]

\* The end of listen.  A thread's object is dropped, and its result is what
\* join will find; the owner keeps its object and its caller has the result.
End(p, res) ==
    /\ Goto(p, IF Forked(p) THEN "done" ELSE "idle")
    /\ result' = [t \in Threads |-> IF t = p THEN res ELSE result[t]]

DropObject(p) ==
    /\ connected' = [connected EXCEPT ![p] = FALSE]
    /\ sockets' = [sockets EXCEPT ![p] = {}]
    /\ ready' = [ready EXCEPT ![p] = {}]
    /\ inbox' = [inbox EXCEPT ![p] = [e \in Endpoints |-> 0]]

Begin(p) ==
    /\ pc[p] = "start"
    /\ messages' = 0
    /\ late' = [late EXCEPT ![p] = 0]
    /\ \/ /\ Connect(p, TRUE)
          /\ Goto(p, "recv")
          /\ UNCHANGED <<ready, result>>
       \/ /\ endpoints \cap BadEndpoints # {}
          /\ ~connected[p]
          /\ End(p, "err")
          /\ IF Forked(p) THEN DropObject(p) ELSE Connect(p, FALSE) /\ UNCHANGED ready
    /\ UNCHANGED <<endpoints, interrupted, ctxInterrupted, cmds, resp, target, limit, owner>>

\* Mutation: a forked listener polls for ever, as the owner does.
ReceiveBlocking(p) ==
    LET readable == {e \in sockets[p] : inbox[p][e] > 0}
        candidates == IF ready[p] = {} THEN readable ELSE ready[p]
    IN  /\ pc[p] = "recv"
        /\ \/ /\ endpoints = {}
              /\ Goto(p, "check")
              /\ UNCHANGED <<ready, target>>
           \/ /\ endpoints # {}
              /\ \E e \in candidates :
                    /\ ready' = [ready EXCEPT ![p] = candidates \ {e}]
                    /\ target' = [target EXCEPT ![p] = e]
                    /\ Goto(p, IF e \in sockets[p] THEN "read" ELSE "check")
        /\ UNCHANGED <<shared, connected, sockets, inbox, limit, result, late, owner>>

\* _receive up to the blocking read: the shared socket is read whatever is
\* pending; individual ones are polled when the list of readable ones from
\* the poll before is used up, for 10 ms by a forked listener and for ever by
\* the owner.  The endpoint taken from the list may be gone by then.
Receive(p) ==
    LET readable == {e \in sockets[p] : inbox[p][e] > 0}
        candidates == IF ready[p] = {} THEN readable ELSE ready[p]
    IN  /\ pc[p] = "recv"
        /\ \/ /\ endpoints = {}
              /\ Goto(p, "check")
              /\ UNCHANGED <<ready, target>>
           \/ /\ endpoints # {} /\ Shared
              /\ Goto(p, "read")
              /\ UNCHANGED <<ready, target>>
           \/ /\ endpoints # {} /\ ~Shared
              /\ \E e \in candidates :
                    /\ ready' = [ready EXCEPT ![p] = candidates \ {e}]
                    /\ \/ /\ e \in sockets[p]
                          /\ target' = [target EXCEPT ![p] = e]
                          /\ Goto(p, "read")
                       \/ /\ e \notin sockets[p]
                          /\ UNCHANGED target
                          /\ Goto(p, "check")
           \/ /\ endpoints # {} /\ ~Shared
              /\ candidates = {} /\ Forked(p)
              /\ Goto(p, "check")
              /\ UNCHANGED <<ready, target>>
        /\ UNCHANGED <<shared, connected, sockets, inbox, limit, result, late, owner>>

\* Mutation: the read does not wait for a message.
ReadAhead(p) ==
    /\ pc[p] = "read"
    /\ \E e \in IF Shared THEN Endpoints ELSE {target[p]} :
          inbox' = [inbox EXCEPT ![p][e] = @ - 1]
    /\ target' = [target EXCEPT ![p] = None]
    /\ Goto(p, "check")
    /\ UNCHANGED <<shared, connected, sockets, ready, limit, result, late, owner>>

\* The read blocks until a message is there.  A message that process rejects
\* is counted as an error and not delivered.
Read(p) ==
    /\ pc[p] = "read"
    /\ \E e \in IF Shared THEN Endpoints ELSE {target[p]} :
          /\ inbox[p][e] > 0
          /\ inbox' = [inbox EXCEPT ![p][e] = @ - 1]
    /\ target' = [target EXCEPT ![p] = None]
    /\ Goto(p, "check")
    /\ \E delivered \in BOOLEAN :
          /\ messages' = IF delivered /\ messages < CountCap THEN messages + 1 ELSE messages
          /\ late' = IF delivered /\ Interrupted
                     THEN [late EXCEPT ![p] = IF @ < 2 THEN @ + 1 ELSE @] ELSE late
    /\ UNCHANGED <<endpoints, interrupted, ctxInterrupted, cmds, resp, connected,
                   sockets, ready, limit, result, owner>>

\* Mutation: the interrupt is looked at only by a listen that counts messages.
CheckLimited(p) ==
    /\ pc[p] = "check"
    /\ LET stop == limit[p] # NoLimit /\ (messages >= limit[p] \/ Interrupted)
       IN  \/ /\ ~stop
              /\ Goto(p, "cmds")
              /\ UNCHANGED <<result, object>>
           \/ /\ stop
              /\ End(p, "ok")
              /\ IF Forked(p) THEN DropObject(p) ELSE UNCHANGED object
    /\ UNCHANGED <<shared, target, limit, late, owner>>

\* The two break conditions of the loop.
Check(p) ==
    /\ pc[p] = "check"
    /\ LET stop == \/ limit[p] # NoLimit /\ messages >= limit[p]
                   \/ Interrupted
       IN  \/ /\ ~stop
              /\ Goto(p, "cmds")
              /\ UNCHANGED <<result, object>>
           \/ /\ stop
              /\ End(p, "ok")
              /\ IF Forked(p) THEN DropObject(p) ELSE UNCHANGED object
    /\ UNCHANGED <<shared, target, limit, late, owner>>

\* The drain of the command channel.
Command(p) ==
    /\ pc[p] = "cmds"
    /\ cmds # <<>>
    /\ cmds' = Tail(cmds)
    /\ \E ok \in BOOLEAN :
          /\ Perform(p, Head(cmds), ok)
          /\ resp' = IF ok THEN "ok" ELSE "err"
    /\ UNCHANGED <<messages, interrupted, ctxInterrupted, listener, owner>>

Drained(p) ==
    /\ pc[p] = "cmds"
    /\ cmds = <<>>
    /\ Goto(p, "recv")
    /\ UNCHANGED <<shared, object, target, limit, result, late, owner>>

Listen(p) ==
    Begin(p) \/ Receive(p) \/ Read(p) \/ Check(p) \/ Command(p) \/ Drained(p)

-----------------------------------------------------------------------------
(* The owner.                                                              *)

Idle == pc[Owner] = "idle"

\* connect, disconnect, add_endpoint and remove_endpoint: on the owner's own
\* object in inline mode, by a command to the listener in a threaded mode.
Request(r) ==
    /\ Idle
    /\ requests < MaxRequests
    /\ requests' = requests + 1
    /\ \/ /\ ~threaded
          /\ \E ok \in BOOLEAN : Perform(Owner, r, ok)
          /\ UNCHANGED <<cmds, pc>>
       \/ /\ threaded
          /\ cmds' = Append(cmds, r)
          /\ Goto(Owner, "await")
          /\ UNCHANGED <<endpoints, object>>
    /\ UNCHANGED <<messages, interrupted, ctxInterrupted, resp, target, limit, result,
                   late, handle, async_handle, threaded, fifo, stopping>>

\* The owner's recv on the response channel returns.
Answer ==
    /\ pc[Owner] = "await"
    /\ resp # None
    /\ resp' = None
    /\ Goto(Owner, "idle")
    /\ UNCHANGED <<endpoints, messages, interrupted, ctxInterrupted, cmds, object,
                   target, limit, result, late, owner>>

Spawn(t, n) ==
    /\ pc[t] = "free"
    /\ Goto(t, "start")
    /\ limit' = [limit EXCEPT ![t] = n]
    /\ threaded' = TRUE
    /\ UNCHANGED <<endpoints, interrupted, ctxInterrupted, cmds, resp, object, target,
                   result, late, stopping, requests>>

\* fork replaces the handle of a listener forked before, running or not.
Fork(t, n) ==
    /\ "fork" \in Operations
    /\ Idle
    /\ Spawn(t, n)
    /\ handle' = t
    /\ UNCHANGED <<messages, fifo, async_handle>>

\* start_async; a handle held before is dropped, and with it the way to join
\* that listener.
StartAsync(t, n) ==
    /\ "async" \in Operations
    /\ Idle
    /\ Spawn(t, n)
    /\ messages' = 0
    /\ async_handle' = t
    /\ UNCHANGED <<fifo, handle>>

\* Mutation: start does not mind a FifoQueue being present.
StartAgain(t) ==
    /\ "start" \in Operations
    /\ Idle
    /\ fifo' = TRUE
    /\ messages' = 0
    /\ Spawn(t, NoLimit)
    /\ handle' = t
    /\ UNCHANGED async_handle

\* start; with a FifoQueue present it fails and changes nothing.
Start(t) ==
    /\ "start" \in Operations
    /\ Idle
    /\ ~fifo
    /\ fifo' = TRUE
    /\ messages' = 0
    /\ Spawn(t, NoLimit)
    /\ handle' = t
    /\ UNCHANGED async_handle

ListenInline(n) ==
    /\ "listen" \in Operations
    /\ Idle
    /\ threaded' = FALSE
    /\ limit' = [limit EXCEPT ![Owner] = n]
    /\ Goto(Owner, "start")
    /\ UNCHANGED <<shared, object, target, result, late, handle, async_handle, fifo, stopping, requests>>

Interrupt ==
    /\ "interrupt" \in Operations
    /\ Idle
    /\ interrupted' = TRUE
    /\ UNCHANGED <<endpoints, messages, ctxInterrupted, cmds, resp, object, listener, owner>>

\* Bsread::interrupt, from any thread, a callback included.
ContextInterrupt ==
    /\ "ctxInterrupt" \in Operations
    /\ ctxInterrupted' = TRUE
    /\ UNCHANGED <<endpoints, messages, interrupted, cmds, resp, object, listener, owner>>

Stop ==
    /\ "stop" \in Operations
    /\ Idle
    /\ interrupted' = TRUE
    /\ \/ /\ handle = None
          /\ fifo' = FALSE
          /\ UNCHANGED <<pc, stopping>>
       \/ /\ handle # None
          /\ stopping' = TRUE
          /\ Goto(Owner, "join")
          /\ UNCHANGED fifo
    /\ UNCHANGED <<endpoints, messages, ctxInterrupted, cmds, resp, object, target, limit,
                   result, late, handle, async_handle, threaded, requests>>

Join ==
    /\ "join" \in Operations
    /\ Idle
    /\ handle # None
    /\ Goto(Owner, "join")
    /\ UNCHANGED <<shared, object, target, limit, result, late, owner>>

\* JoinHandle::join returns.  stop drops the FifoQueue only if the listener
\* ended without an error.
Joined ==
    /\ pc[Owner] = "join"
    /\ pc[handle] = "done"
    /\ fifo' = IF stopping /\ result[handle] = "ok" THEN FALSE ELSE fifo
    /\ handle' = None
    /\ stopping' = FALSE
    /\ Goto(Owner, "idle")
    /\ UNCHANGED <<shared, object, target, limit, result, late, async_handle, threaded, requests>>

\* join_async takes the handle and awaits it; without one it returns at once.
JoinAsync ==
    /\ "async" \in Operations
    /\ Idle
    /\ async_handle # None
    /\ Goto(Owner, "joinAsync")
    /\ UNCHANGED <<shared, object, target, limit, result, late, owner>>

\* The await is over, because the listener has ended or because the future was
\* dropped before; the handle is gone either way.
JoinedAsync ==
    /\ pc[Owner] = "joinAsync"
    /\ async_handle' = None
    /\ Goto(Owner, "idle")
    /\ UNCHANGED <<shared, object, target, limit, result, late, handle, threaded, fifo,
                   stopping, requests>>

\* ZeroMQ: a message is received on a connection.
Arrive(p, e) ==
    /\ e \in sockets[p]
    /\ inbox[p][e] < InboxCap
    /\ inbox' = [inbox EXCEPT ![p][e] = @ + 1]
    /\ UNCHANGED <<shared, connected, sockets, ready, listener, owner>>

Next ==
    \/ \E p \in Procs : Listen(p)
    \/ \E p \in Procs, e \in Endpoints : Arrive(p, e)
    \/ \E r \in Requests : Request(r)
    \/ \E t \in Threads : Start(t)
    \/ \E t \in Threads, n \in Limits \cup {NoLimit} : Fork(t, n)
    \/ \E t \in Threads, n \in Limits \cup {NoLimit} : StartAsync(t, n)
    \/ \E n \in Limits \cup {NoLimit} : ListenInline(n)
    \/ JoinAsync \/ JoinedAsync
    \/ Answer \/ Interrupt \/ ContextInterrupt \/ Stop \/ Join \/ Joined

Spec == Init /\ [][Next]_vars

\* The operating system runs a thread that can run.  Nothing is assumed of
\* what the application calls or of the messages that arrive.
SchedSpec ==
    /\ Spec
    /\ \A p \in Procs : WF_vars(Listen(p))
    /\ WF_vars(Answer) /\ WF_vars(Joined)

\* Every endpoint connected to goes on sending.
TrafficSpec ==
    /\ SchedSpec
    /\ \A p \in Procs, e \in Endpoints : WF_vars(Arrive(p, e))

-----------------------------------------------------------------------------
(* Safety.                                                                 *)

\* An interrupt, of the receiver or of its context, takes effect at once:
\* each listen delivers at most one message after it, the one it was already
\* receiving (or, started when interrupted, the first).
AtMostOneLate == \A p \in Procs : late[p] <= 1

\* With one listener at a time and no refused endpoint, the connections of a
\* listener are exactly the endpoints listed while it is connected, none else.
SocketsFollowEndpoints ==
    \A t \in Threads :
        threaded /\ Listening(t) /\ pc[t] # "start"
            => sockets[t] = IF connected[t] THEN endpoints ELSE {}

\* A receiver used only through start, stop and join never has two listeners.
SingleListener ==
    \A t, u \in Threads : Listening(t) /\ Listening(u) => t = u

(* Liveness.                                                               *)

\* A listener is blocked reading a connection that holds no message: always
\* possible on a shared socket; on individual ones only if poll_ready_list was
\* stale.
Blocked(p) ==
    /\ pc[p] = "read"
    /\ \A e \in IF Shared THEN Endpoints ELSE {target[p]} : inbox[p][e] = 0

\* "When forked, must check command" (receiver.rs:452): whether or not messages
\* arrive, a command is answered, unless the listeners end first or one of
\* them is blocked in a read.
CommandAnswered ==
    pc[Owner] = "await" ~>
        \/ pc[Owner] # "await"
        \/ \A t \in Threads : ~Listening(t)
        \/ \E t \in Threads : Blocked(t)

\* An interrupted listener ends, unless it is blocked in a read.
InterruptStops ==
    \A t \in Threads : Interrupted /\ Listening(t) ~> ~Listening(t) \/ Blocked(t)

\* The same with no exception: a forked listener is never blocked for good.
NeverDeaf ==
    pc[Owner] = "await" ~> pc[Owner] # "await" \/ \A t \in Threads : ~Listening(t)

\* A call on the receiver returns, with "Receiver thread is not running" or
\* "Receiver thread terminated" (receiver.rs:200-201) if nobody serves it.
CallReturns == pc[Owner] = "await" ~> Idle

=============================================================================
