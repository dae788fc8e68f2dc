--------------------------------- MODULE Pool ---------------------------------
(***************************************************************************)
(* A Pool (pool.rs): several Receivers, among which endpoints are shared   *)
(* out, started and stopped together, and read through one get.            *)
(*                                                                         *)
(* A receiver is reduced to what the pool can see of it: the endpoints     *)
(* listed, the sockets of its own object and of its listener's object      *)
(* (which one a call acts on is told by the delivery mode), the state of   *)
(* its listener thread and its FifoQueue.  How a listener receives is the  *)
(* subject of Receiver.  A call on a receiver whose listener has ended     *)
(* never returns, as there.                                                *)
(*                                                                         *)
(* Left out: inline listen, monitoring, start_async, a fork while          *)
(* listeners run, and endpoints given to a constructor more than once,     *)
(* which it accepts.                                                       *)
(***************************************************************************)
EXTENDS Integers, Sequences, FiniteSets

CONSTANTS
    Endpoints,     \* endpoint addresses
    BadEndpoints,  \* the ones that refuse a connection
    Sources,       \* the ones that send
    N,             \* number of receivers
    BufferSize,    \* buffer_size of start
    MaxSent,       \* bound: messages each source sends
    MaxCalls       \* bound: calls that are counted

Receivers == 1 .. N
Sides == {"own", "listener"}

ASSUME ReceiversAssumption == N \in Nat \ {0}
ASSUME EndpointsAssumption == IsFiniteSet(Endpoints) /\ BadEndpoints \subseteq Endpoints
                               /\ Sources \subseteq Endpoints \ BadEndpoints
ASSUME BoundsAssumption == BufferSize \in Nat \ {0} /\ MaxSent \in Nat /\ MaxCalls \in Nat

VARIABLES
    listed,        \* per receiver: its endpoints
    poolConnected, \* the pool's own flag
    connected,     \* per receiver and side: the object's flag
    sockets,       \* per receiver and side: the endpoints connected to
    threaded,      \* per receiver: the delivery mode is not Inline
    thread,        \* per receiver: state of the thread its handle stands for
    interrupted,   \* per receiver
    started,       \* the receivers whose fifo is Some
    fifo,          \* per receiver: what its queue holds, messages [endpoint, n]
    stopping,      \* the receiver stop is joining, 0 when stop is not running
    hung,          \* a call of the owner will never return
    sent,          \* per endpoint: number of messages its source sent
    handed,        \* history: the numbers of the messages of each endpoint handed
                   \* over, by get or to the callback
    refused,       \* history: an endpoint of a connected object refused
    skewed,        \* history: endpoints were removed or placed by hand
    overtaken,     \* history: endpoints that came to be listed by a receiver
                   \* before one that still holds messages of theirs
    calls          \* bound counter

lists == <<listed, poolConnected, connected, sockets, refused, skewed, overtaken>>
threads == <<threaded, thread, interrupted, stopping>>
traffic == <<started, fifo, sent, handed>>
vars == <<lists, threads, traffic, hung, calls>>

Alive == {"starting", "running"}
Messages == [endpoint : Sources, n : 1 .. MaxSent]

TypeOK ==
    /\ listed \in [Receivers -> SUBSET Endpoints]
    /\ poolConnected \in BOOLEAN
    /\ connected \in [Receivers -> [Sides -> BOOLEAN]]
    /\ sockets \in [Receivers -> [Sides -> SUBSET (Endpoints \ BadEndpoints)]]
    /\ threaded \in [Receivers -> BOOLEAN]
    /\ thread \in [Receivers -> Alive \cup {"none", "ok", "err"}]
    /\ interrupted \in [Receivers -> BOOLEAN]
    /\ started \subseteq Receivers
    /\ fifo \in [Receivers -> Seq(Messages)]
    /\ \A r \in Receivers : Len(fifo[r]) <= IF r \in started THEN BufferSize ELSE 0
    /\ stopping \in 0 .. N
    /\ sent \in [Sources -> 0 .. MaxSent] /\ handed \in [Sources -> Seq(1 .. MaxSent)]
    /\ hung \in BOOLEAN /\ refused \in BOOLEAN /\ skewed \in BOOLEAN
    /\ overtaken \subseteq Endpoints
    /\ calls \in 0 .. MaxCalls

-----------------------------------------------------------------------------
(* The constructors.                                                       *)

\* new: one endpoint after the other to one receiver after the other.
ShareOut(s) ==
    [r \in Receivers |-> {s[k] : k \in {j \in 1 .. Len(s) : j % N = r % N}}]

DistinctEndpoints ==
    {s \in UNION {[1 .. n -> Endpoints] : n \in 0 .. Cardinality(Endpoints)} :
        \A i, j \in 1 .. Len(s) : s[i] = s[j] => i = j}

Disjoint(f) == \A q, r \in Receivers : q # r => f[q] \cap f[r] = {}

\* new or new_grouped, of endpoints given once each.
Init ==
    /\ \/ skewed = FALSE /\ \E s \in DistinctEndpoints : listed = ShareOut(s)
       \/ skewed = TRUE /\ listed \in {g \in [Receivers -> SUBSET Endpoints] : Disjoint(g)}
    /\ poolConnected = FALSE
    /\ connected = [r \in Receivers |-> [side \in Sides |-> FALSE]]
    /\ sockets = [r \in Receivers |-> [side \in Sides |-> {}]]
    /\ threaded = [r \in Receivers |-> FALSE]
    /\ thread = [r \in Receivers |-> "none"]
    /\ interrupted = [r \in Receivers |-> FALSE]
    /\ started = {}
    /\ fifo = [r \in Receivers |-> <<>>]
    /\ stopping = 0
    /\ hung = FALSE
    /\ sent = [e \in Sources |-> 0] /\ handed = [e \in Sources |-> <<>>]
    /\ refused = FALSE /\ overtaken = {}
    /\ calls = 0

-----------------------------------------------------------------------------
(* What the calls of the pool have in common.                              *)

\* The object a call on the receiver acts on.
Side(r) == IF threaded[r] THEN "listener" ELSE "own"

IsConnected(r) == connected[r][Side(r)]

\* The listener takes commands once it is connected; when it has ended, the
\* caller waits for ever.
Ready(r) == threaded[r] => thread[r] # "starting"
Deaf(r) == threaded[r] /\ thread[r] # "running"

\* The owner starts a call.
Owner ==
    /\ ~hung /\ stopping = 0
    /\ calls < MaxCalls
    /\ calls' = calls + 1

LeastOf(S) == CHOOSE r \in S : \A q \in S : r <= q

Load(r) == Cardinality(listed[r])

\* Mutation: the receiver with most endpoints.
MostLoaded == LeastOf({r \in Receivers : \A q \in Receivers : Load(r) >= Load(q)})

\* min_by_key: the first of those with fewest endpoints.
LeastLoaded == LeastOf({r \in Receivers : \A q \in Receivers : Load(r) <= Load(q)})

IsListed(e) == \E r \in Receivers : e \in listed[r]

\* endpoint_receiver.
ReceiverOf(e) == LeastOf({r \in Receivers : e \in listed[r]})

-----------------------------------------------------------------------------
(* connect and disconnect, receiver by receiver.                           *)

\* The receivers before the first that hangs or fails are connected; of the
\* endpoints of one that fails, some may be.
Connect ==
    /\ Owner
    /\ ~poolConnected
    /\ \A r \in Receivers : Ready(r)
    /\ LET failing == {r \in Receivers : ~IsConnected(r) /\ listed[r] \cap BadEndpoints # {}}
           stops == failing \cup {r \in Receivers : Deaf(r)}
           first == IF stops = {} THEN N + 1 ELSE LeastOf(stops)
           fails == first \in failing /\ ~Deaf(first)
       IN  /\ \E some \in SUBSET IF fails THEN listed[first] \ BadEndpoints ELSE {} :
                 sockets' = [r \in Receivers |->
                    [sockets[r] EXCEPT ![Side(r)] =
                        IF IsConnected(r) \/ r > first THEN @
                        ELSE IF r < first THEN @ \cup listed[r] ELSE @ \cup some]]
           /\ connected' = [r \in Receivers |->
                 IF r < first THEN [connected[r] EXCEPT ![Side(r)] = TRUE] ELSE connected[r]]
           /\ poolConnected' = (stops = {})
           /\ hung' = (stops # {} /\ Deaf(first))
           /\ refused' = (refused \/ fails)
    /\ UNCHANGED <<listed, skewed, overtaken, threads, traffic>>

Disconnect ==
    /\ Owner
    /\ poolConnected
    /\ \A r \in Receivers : Ready(r)
    /\ LET deaf == {r \in Receivers : Deaf(r)}
           first == IF deaf = {} THEN N + 1 ELSE LeastOf(deaf)
       IN  /\ sockets' = [r \in Receivers |->
                 IF r < first /\ IsConnected(r)
                 THEN [sockets[r] EXCEPT ![Side(r)] = @ \ listed[r]] ELSE sockets[r]]
           /\ connected' = [r \in Receivers |->
                 IF r < first THEN [connected[r] EXCEPT ![Side(r)] = FALSE] ELSE connected[r]]
           /\ hung' = (deaf # {})
    /\ poolConnected' = FALSE
    /\ UNCHANGED <<listed, refused, skewed, overtaken, threads, traffic>>

-----------------------------------------------------------------------------
(* add_endpoint and remove_endpoint.                                       *)

HeldBehind(e, r) ==
    \E q \in Receivers : q > r /\ \E i \in 1 .. Len(fifo[q]) : fifo[q][i].endpoint = e

\* Receiver::add_endpoint on r.
AddTo(e, r) ==
    /\ Ready(r)
    /\ hung' = Deaf(r)
    /\ LET connects == ~Deaf(r) /\ IsConnected(r)
       IN  /\ listed' = IF Deaf(r) THEN listed ELSE [listed EXCEPT ![r] = @ \cup {e}]
           /\ sockets' = [sockets EXCEPT ![r][Side(r)] =
                             IF connects THEN @ \cup ({e} \ BadEndpoints) ELSE @]
           /\ refused' = (refused \/ (connects /\ e \in BadEndpoints))
    /\ overtaken' = IF HeldBehind(e, r) THEN overtaken \cup {e} ELSE overtaken
    /\ UNCHANGED <<poolConnected, connected, threads, traffic>>

\* Mutation: an endpoint is added whether or not the pool has it.
AddAgain(e) ==
    /\ Owner
    /\ \/ AddTo(e, LeastLoaded) /\ UNCHANGED skewed
       \/ \E r \in Receivers : AddTo(e, r) /\ skewed' = TRUE

\* An endpoint listed already is not added again, whatever is returned.
AddEndpoint(e) ==
    /\ Owner
    /\ ~IsListed(e)
    /\ \/ AddTo(e, LeastLoaded) /\ UNCHANGED skewed
       \/ \E r \in Receivers : AddTo(e, r) /\ skewed' = TRUE

\* Mutation: the endpoint goes from the list but stays connected.
Unlist(e) ==
    /\ Owner
    /\ IsListed(e) /\ Ready(ReceiverOf(e))
    /\ LET r == ReceiverOf(e)
       IN  /\ hung' = Deaf(r)
           /\ listed' = IF Deaf(r) THEN listed ELSE [listed EXCEPT ![r] = @ \ {e}]
    /\ skewed' = TRUE
    /\ UNCHANGED <<poolConnected, connected, sockets, refused, overtaken, threads, traffic>>

\* An endpoint that no receiver lists is not looked for.
RemoveEndpoint(e) ==
    /\ Owner
    /\ IsListed(e) /\ Ready(ReceiverOf(e))
    /\ LET r == ReceiverOf(e)
       IN  /\ hung' = Deaf(r)
           /\ listed' = IF Deaf(r) THEN listed ELSE [listed EXCEPT ![r] = @ \ {e}]
           /\ sockets' = [sockets EXCEPT ![r][Side(r)] =
                             IF ~Deaf(r) /\ IsConnected(r) THEN @ \ {e} ELSE @]
    /\ skewed' = TRUE
    /\ UNCHANGED <<poolConnected, connected, refused, overtaken, threads, traffic>>

-----------------------------------------------------------------------------
(* Listeners.                                                              *)

Spawn(S) ==
    /\ \A r \in S : thread[r] \notin Alive
    /\ thread' = [r \in Receivers |-> IF r \in S THEN "starting" ELSE thread[r]]
    /\ threaded' = [r \in Receivers |-> r \in S \/ threaded[r]]
    /\ UNCHANGED <<lists, interrupted, stopping, sent, handed, hung>>

\* start, on the receivers that were not started before; the error of the
\* others is ignored.
Start ==
    /\ Owner
    /\ started' = Receivers
    /\ UNCHANGED fifo
    /\ Spawn(Receivers \ started)

\* fork.  A receiver that still has a queue goes on filling it.
Fork ==
    /\ Owner
    /\ UNCHANGED <<started, fifo>>
    /\ Spawn(Receivers)

SetListener(r, state, isConnected, S) ==
    /\ thread' = [thread EXCEPT ![r] = state]
    /\ connected' = [connected EXCEPT ![r]["listener"] = isConnected]
    /\ sockets' = [sockets EXCEPT ![r]["listener"] = S]
    /\ UNCHANGED <<listed, poolConnected, refused, skewed, overtaken, threaded,
                   interrupted, stopping, traffic, hung, calls>>

Begin(r) ==
    /\ thread[r] = "starting"
    /\ \/ listed[r] \cap BadEndpoints = {} /\ SetListener(r, "running", TRUE, listed[r])
       \/ listed[r] \cap BadEndpoints # {} /\ SetListener(r, "err", FALSE, {})

\* An interrupted listener ends between two messages.
End(r) ==
    /\ thread[r] = "running"
    /\ interrupted[r]
    /\ SetListener(r, "ok", FALSE, {})

-----------------------------------------------------------------------------
(* stop.                                                                   *)

StopInterrupting(S, first) ==
    /\ interrupted' = [r \in Receivers |-> r \in S \/ interrupted[r]]
    /\ stopping' = first
    /\ UNCHANGED <<lists, threaded, thread, traffic, hung>>

\* Mutation: each receiver is interrupted when it is its turn to be joined.
StopOne == Owner /\ StopInterrupting({1}, 1)

\* stop interrupts all the receivers, then joins them one after the other.
Stop == Owner /\ StopInterrupting(Receivers, 1)

\* One join has returned.  An error ends stop there and then.
JoinNext ==
    /\ stopping # 0
    /\ thread[stopping] \notin Alive
    /\ stopping' = IF thread[stopping] = "err" \/ stopping = N THEN 0 ELSE stopping + 1
    /\ thread' = [thread EXCEPT ![stopping] = "none"]
    /\ UNCHANGED <<lists, threaded, interrupted, traffic, hung, calls>>

-----------------------------------------------------------------------------
(* Messages.                                                               *)

Receiving(e) == {r \in Receivers : thread[r] = "running" /\ e \in sockets[r]["listener"]}

\* FifoQueue::add.
Pushed(q, msg) == Append(IF Len(q) >= BufferSize THEN Tail(q) ELSE q, msg)

\* A source sends a message to every listener connected to it, which puts it
\* in the receiver's queue or, without one, hands it to the callback: once for
\* each of them.
Publish(e) ==
    /\ sent[e] < MaxSent
    /\ sent' = [sent EXCEPT ![e] = @ + 1]
    /\ fifo' = [r \in Receivers |->
                  IF r \in Receiving(e) \cap started
                  THEN Pushed(fifo[r], [endpoint |-> e, n |-> sent[e] + 1]) ELSE fifo[r]]
    /\ handed' = [handed EXCEPT ![e] =
          @ \o [i \in 1 .. Cardinality(Receiving(e) \ started) |-> sent[e] + 1]]
    /\ UNCHANGED <<lists, threads, started, hung, calls>>

Holding == {r \in Receivers : fifo[r] # <<>>}

Take(r) ==
    /\ fifo' = [fifo EXCEPT ![r] = Tail(@)]
    /\ handed' = [handed EXCEPT ![Head(fifo[r]).endpoint] = Append(@, Head(fifo[r]).n)]
    /\ UNCHANGED <<lists, threads, started, sent, hung, calls>>

\* Mutation: the last receiver that has a message is read.
GetBackwards ==
    /\ ~hung /\ stopping = 0
    /\ \E r \in Holding : (\A q \in Holding : q <= r) /\ Take(r)

\* get, and wait, which polls it: the first receiver that has a message.
Get ==
    /\ ~hung /\ stopping = 0
    /\ Holding # {}
    /\ Take(LeastOf(Holding))

Next ==
    \/ Connect \/ Disconnect
    \/ \E e \in Endpoints : AddEndpoint(e) \/ RemoveEndpoint(e)
    \/ \E e \in Sources : Publish(e)
    \/ Start \/ Fork \/ Stop \/ JoinNext \/ Get
    \/ \E r \in Receivers : Begin(r) \/ End(r)

Spec == Init /\ [][Next]_vars

\* The operating system runs the threads, and a join that can return does.
FairSpec ==
    /\ Spec
    /\ \A r \in Receivers : WF_vars(Begin(r)) /\ WF_vars(End(r))
    /\ WF_vars(JoinNext)

-----------------------------------------------------------------------------
(* Properties.                                                             *)

\* "endpoint already exists" (pool.rs:109): of endpoints given to new once each,
\* whatever was added, removed or refused, in whichever mode, no two receivers
\* list the same one.  (new does not look whether one is given twice.)
OneReceiver == Disjoint(listed)

\* Nor is a source, given to new once, connected to by two receivers, which would
\* deliver each of its messages twice, as long as no connection was refused: of a
\* receiver whose connect failed, remove_endpoint does not close the connections.
OneConnection ==
    ~refused => \A side \in Sides : Disjoint([r \in Receivers |-> sockets[r][side]])

\* "Endpoints are automatically distributed to the threads" (pool.rs:26): left
\* to itself the pool keeps the receivers' loads within one of each other.
Balanced ==
    ~skewed => \A q, r \in Receivers : Load(q) <= Load(r) + 1

\* The messages of a source are handed over in order and none of them twice,
\* although they pass through several queues when the endpoint is moved; except
\* when it moved to a receiver that get looks at before its former one, and as
\* long as no connection was refused: a source that two receivers are connected
\* to has its messages handed over twice and out of order.
OrderKept ==
    ~refused => \A e \in Sources : e \in overtaken \/
        \A i, j \in 1 .. Len(handed[e]) : i < j => handed[e][i] < handed[e][j]

\* Once stop is called every listener ends, also when one of them had failed
\* and stop returned early with its error.
StopEndsAll == stopping # 0 ~> \A r \in Receivers : thread[r] \notin Alive

=============================================================================
