----------------------------- MODULE SocketMonitor -----------------------------
(***************************************************************************)
(* The SocketMonitor (sockets.rs): a thread that reads the monitor pipes   *)
(* of the sockets registered with it, keeps the state of each endpoint and *)
(* reports changes as events; and the object that opens and closes these   *)
(* sockets, one per endpoint (ConnectionMode::Individual), and registers   *)
(* them: a Receiver, or a Pool on behalf of its receivers.                 *)
(*                                                                         *)
(* ZeroMQ puts an event in the pipe of a socket whenever its connection    *)
(* changes; what it does before the pipe is made is not seen.              *)
(*                                                                         *)
(* Left out: ConnectionMode::Shared, and that fork takes the monitor along.*)
(***************************************************************************)
EXTENDS Integers, SequencesExt

CONSTANTS
    Endpoints,
    MaxSockets,    \* bound: sockets opened
    MaxChanges     \* bound: changes of connections

None == "none"

EndpointState == {"Connecting", "Connected", "Disconnected"}
Stopped == "MONITOR_STOPPED"      \* an event without an EndpointState

Indices == 1 .. MaxSockets

ASSUME EndpointsAssumption == IsFiniteSet(Endpoints) /\ None \notin Endpoints
ASSUME BoundsAssumption == MaxSockets \in Nat /\ MaxChanges \in Nat

VARIABLES
    opened,       \* number of sockets made: index() numbers them
    endpoint,     \* per socket: its endpoint
    sockets,      \* the object's sockets, by index
    monitoring,   \* the sockets whose monitoring flag is set
    enabled,      \* the object's socket_monitor: None, "some", or "down"
    pipe,         \* per socket: events not read yet
    emitted,      \* history: the last state put in the pipe of each entry
    cmds,         \* the channel of MonitorCommands
    monitors,     \* thread: entries, in order
    polled,       \* thread: entries found readable and not looked at yet
    running,      \* thread: it has not returned
    states,       \* endpoint_states
    changes       \* bound counter

object == <<opened, endpoint, sockets, monitoring, enabled>>
network == <<emitted, changes>>
thread == <<monitors, polled, running, states>>
vars == <<object, network, pipe, cmds, thread>>

Command == [op : {"Add", "Remove"}, index : Indices] \cup [op : {"Shutdown"}]

TypeOK ==
    /\ opened \in 0 .. MaxSockets
    /\ endpoint \in [Indices -> Endpoints \cup {None}]
    /\ sockets \subseteq Indices /\ monitoring \subseteq sockets
    /\ \A i, j \in sockets : endpoint[i] = endpoint[j] => i = j
    /\ enabled \in {None, "some", "down"}
    /\ emitted \in [Indices -> EndpointState \cup {None}]
    /\ pipe \in [Indices -> Seq(EndpointState \cup {Stopped})]
    /\ cmds \in Seq(Command)
    /\ monitors \in Seq(Indices) /\ IsInjective(monitors)
    /\ polled \subseteq ToSet(monitors)
    /\ running \in BOOLEAN
    /\ states \in UNION {[S -> EndpointState] : S \in SUBSET Endpoints}
    /\ changes \in 0 .. MaxChanges

Init ==
    /\ opened = 0
    /\ endpoint = [i \in Indices |-> None]
    /\ sockets = {} /\ monitoring = {}
    /\ enabled = None
    /\ emitted = [i \in Indices |-> None]
    /\ pipe = [i \in Indices |-> <<>>]
    /\ cmds = <<>>
    /\ monitors = <<>> /\ polled = {} /\ running = TRUE
    /\ states = <<>>
    /\ changes = 0

-----------------------------------------------------------------------------
(* The object.                                                             *)

\* enable_monitoring of the sockets in S, which come first in no given order.
Register(S) ==
    /\ monitoring' = monitoring \cup S
    /\ \E order \in SetToSeqs(S \ monitoring) :
          cmds' = cmds \o [k \in DOMAIN order |-> [op |-> "Add", index |-> order[k]]]

\* disable_monitoring of the sockets in S, then what closes those in T.
Unregister(S, T) ==
    /\ sockets' = sockets \ T
    /\ monitoring' = monitoring \ S
    /\ \E order \in SetToSeqs(S \cap monitoring) :
          cmds' = cmds \o [k \in DOMAIN order |-> [op |-> "Remove", index |-> order[k]]]
    /\ pipe' = [i \in Indices |-> IF i \in S \cap monitoring THEN Append(pipe[i], Stopped)
                                  ELSE pipe[i]]

\* connect_endpoint: a socket is made, connected and then registered, if the
\* object has a monitor.
Connect(e) ==
    /\ enabled # "down" /\ opened < MaxSockets
    /\ \A i \in sockets : endpoint[i] # e
    /\ opened' = opened + 1
    /\ endpoint' = [endpoint EXCEPT ![opened + 1] = e]
    /\ sockets' = sockets \cup {opened + 1}
    /\ IF enabled = "some" THEN Register({opened + 1}) ELSE UNCHANGED <<monitoring, cmds>>
    /\ UNCHANGED <<enabled, emitted, changes, pipe, thread>>

\* disconnect_endpoint.
Disconnect(e) ==
    /\ enabled # "down"
    /\ \E i \in sockets :
          /\ endpoint[i] = e
          /\ Unregister({i}, {i})
    /\ UNCHANGED <<opened, endpoint, enabled, network, thread>>

\* enable_monitoring, or Pool::connect, which registers what is not yet.
Enable ==
    /\ enabled # "down"
    /\ enabled' = "some"
    /\ Register(sockets)
    /\ UNCHANGED <<opened, endpoint, sockets, network, pipe, thread>>

\* Pool::disconnect: no socket is registered any more, then all are closed.
DisconnectAll ==
    /\ enabled = "some"
    /\ Unregister(sockets, sockets)
    /\ UNCHANGED <<opened, endpoint, enabled, network, thread>>

\* drop.
Drop ==
    /\ enabled # "down"
    /\ enabled' = "down"
    /\ sockets' = {} /\ monitoring' = {}
    /\ cmds' = IF enabled = "some" THEN Append(cmds, [op |-> "Shutdown"]) ELSE cmds
    /\ UNCHANGED <<opened, endpoint, network, pipe, thread>>

\* ZeroMQ connects, loses and retries the connection of a registered socket;
\* several of its events stand for the same state.
Change(i) ==
    /\ i \in monitoring
    /\ changes < MaxChanges
    /\ changes' = changes + 1
    /\ \E state \in EndpointState :
          /\ pipe' = [pipe EXCEPT ![i] = Append(@, state)]
          /\ emitted' = [emitted EXCEPT ![i] = state]
    /\ UNCHANGED <<object, cmds, thread>>

-----------------------------------------------------------------------------
(* The thread.                                                             *)

Holds(cmd) == polled = {} /\ cmds # <<>> /\ Head(cmds).op = cmd /\ running

AddEntry ==
    /\ Holds("Add")
    /\ monitors' = Append(monitors, Head(cmds).index)
    /\ cmds' = Tail(cmds)
    /\ UNCHANGED <<object, network, pipe, polled, running, states>>

\* Mutation: what was known of the endpoint is kept.
ForgetNothing(e) == states

\* The endpoint's state goes with the entry.
Forget(e) == [x \in DOMAIN states \ {e} |-> states[x]]

\* The first entry of the socket is dropped and its pipe closed, whatever is
\* still in it.
RemoveEntry ==
    /\ Holds("Remove")
    /\ LET i == Head(cmds).index
           positions == {k \in DOMAIN monitors : monitors[k] = i}
       IN  IF positions # {}
           THEN /\ monitors' = RemoveAt(monitors, Min(positions))
                /\ states' = Forget(endpoint[i])
                /\ pipe' = [pipe EXCEPT ![i] = <<>>]
                /\ emitted' = [emitted EXCEPT ![i] = None]
           ELSE UNCHANGED <<monitors, states, pipe, emitted>>
    /\ cmds' = Tail(cmds)
    /\ UNCHANGED <<object, changes, polled, running>>

Shutdown ==
    /\ Holds("Shutdown")
    /\ running' = FALSE
    /\ cmds' = Tail(cmds)
    /\ UNCHANGED <<object, network, pipe, monitors, polled, states>>

\* poll, when there are no commands; it returns after 100 ms at the latest.
Poll ==
    /\ running /\ polled = {} /\ cmds = <<>>
    /\ polled' = {i \in ToSet(monitors) : pipe[i] # <<>>}
    /\ UNCHANGED <<object, network, pipe, cmds, monitors, running, states>>

\* Mutation: the first state read of an endpoint is kept for good.
NoteOnce(e, state) == states @@ (e :> state)

\* The state read is kept; if it is news, it is sent to rx_diag as well.
Note(e, state) ==
    [x \in DOMAIN states \cup {e} |-> IF x = e THEN state ELSE states[x]]

\* One event of each readable entry, in the order of the entries; the lock on
\* endpoint_states is held meanwhile.
Read ==
    /\ polled # {}
    /\ LET i == monitors[Min({k \in DOMAIN monitors : monitors[k] \in polled})]
       IN  /\ polled' = polled \ {i}
           /\ pipe' = [pipe EXCEPT ![i] = Tail(@)]
           /\ states' = IF Head(pipe[i]) = Stopped THEN states ELSE Note(endpoint[i], Head(pipe[i]))
    /\ UNCHANGED <<object, network, cmds, monitors, running>>

Next ==
    \/ \E e \in Endpoints : Connect(e) \/ Disconnect(e)
    \/ Enable \/ DisconnectAll \/ Drop
    \/ \E i \in Indices : Change(i)
    \/ AddEntry \/ RemoveEntry \/ Shutdown \/ Poll \/ Read

Spec == Init /\ [][Next]_vars

\* The operating system runs the thread, and no call in it waits for ever.
FairSpec == Spec /\ WF_vars(AddEntry \/ RemoveEntry \/ Shutdown \/ Poll \/ Read)

-----------------------------------------------------------------------------
(* Properties.                                                             *)

\* A state is kept only of endpoints that have an entry, and only once the
\* socket of this entry reported one: what a socket reported that the endpoint
\* had before it was removed and added again is not taken for the new one's
\* (sockets.rs:357-363).
StatesAreCurrent ==
    \A e \in DOMAIN states :
        \E i \in ToSet(monitors) : endpoint[i] = e /\ emitted[i] # None

\* When connections settle, endpoint_states comes to tell the last state each
\* registered socket reported, whatever was removed and added meanwhile.
Converges ==
    running /\ enabled = "some" ~>
        \/ enabled = "down"
        \/ \A i \in monitoring : emitted[i] # None =>
              endpoint[i] \in DOMAIN states /\ states[endpoint[i]] = emitted[i]

\* "assert_eq!(ess.get(&TXP_CMP.endpoint()), None)" (tests.rs:246): an endpoint
\* removed comes to have no state, unless it is added again.
RemovedIsForgotten ==
    \A e \in Endpoints :
        (\A i \in sockets : endpoint[i] # e) /\ running
        ~> \/ e \notin DOMAIN states
           \/ \E i \in sockets : endpoint[i] = e
           \/ enabled = "down"

=============================================================================
