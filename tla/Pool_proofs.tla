------------------------------ MODULE Pool_proofs ------------------------------
(***************************************************************************)
(* Proofs about Pool, for any number of receivers, endpoints, of which any *)
(* may refuse connections, buffer sizes and bounds: its types, that no two *)
(* receivers list one endpoint or are connected to it, that the pool       *)
(* shares the endpoints out evenly, and the order of the messages read.    *)
(***************************************************************************)
EXTENDS Pool, FiniteSetTheorems, SequenceTheorems, WellFoundedInduction, TLAPS

USE DEF Receivers, Sides, Alive

-----------------------------------------------------------------------------
(* Picking a receiver.                                                     *)

\* A set of numbers that is not empty has a least one.
LEMMA NatHasLeast ==
  ASSUME NEW S \in SUBSET Nat, S # {}
  PROVE  \E x \in S : \A y \in S : x <= y
<1> DEFINE Less == OpToRel(<, Nat)
<1>1. IsWellFoundedOn(Less, Nat)
  BY NatLessThanWellFounded
<1>2. \A x, y \in Nat : <<x, y>> \in Less <=> x < y
  BY DEF OpToRel
<1> HIDE DEF Less
<1>3. PICK x \in S : \A y \in S : ~(<<y, x>> \in Less)
  BY <1>1, WFMin
<1>4. ASSUME NEW y \in S PROVE x <= y
  <2>1. ~(y < x)
    BY <1>2, <1>3
  <2> QED BY <2>1
<1> QED BY <1>3, <1>4

LEMMA LeastIsFirst ==
  ASSUME NEW S \in SUBSET Receivers, S # {}
  PROVE  LeastOf(S) \in S /\ \A q \in S : LeastOf(S) <= q
<1>1. S \in SUBSET Nat
  BY ReceiversAssumption
<1>2. \E x \in S : \A y \in S : x <= y
  BY <1>1, NatHasLeast
<1> QED BY <1>2 DEF LeastOf

\* Where a call that goes from one receiver to the next stops.
LEMMA FirstStops ==
  ASSUME NEW S \in SUBSET Receivers, NEW f, f = IF S = {} THEN N + 1 ELSE LeastOf(S)
  PROVE  /\ f \in Nat
         /\ f \in S <=> S # {}
         /\ \A r \in Receivers : r < f => r \notin S
<1>1. CASE S = {}
  BY <1>1, ReceiversAssumption
<1>2. CASE S # {}
  <2>1. f \in S /\ \A q \in S : f <= q
    BY <1>2, LeastIsFirst
  <2> QED BY <2>1, ReceiversAssumption
<1> QED BY <1>1, <1>2

\* A receiver's endpoints are finitely many, and can be counted.
LEMMA LoadType ==
  ASSUME listed \in [Receivers -> SUBSET Endpoints]
  PROVE  \A r \in Receivers : IsFiniteSet(listed[r]) /\ Load(r) \in Nat
<1>1. \A r \in Receivers : IsFiniteSet(listed[r])
  BY EndpointsAssumption, FS_Subset
<1> QED BY <1>1, FS_CardinalityType DEF Load

\* The receiver an endpoint is placed on has no more endpoints than another.
LEMMA LeastLoadedIsLeast ==
  ASSUME listed \in [Receivers -> SUBSET Endpoints]
  PROVE  LeastLoaded \in Receivers /\ \A q \in Receivers : Load(LeastLoaded) <= Load(q)
<1> DEFINE loads == {Load(r) : r \in Receivers}
           lightest == {r \in Receivers : \A q \in Receivers : Load(r) <= Load(q)}
<1>1. loads \in SUBSET Nat
  BY LoadType
<1>2. 1 \in Receivers
  BY ReceiversAssumption
<1>3. loads # {}
  BY <1>2
<1> HIDE DEF loads
<1>4. PICK x \in loads : \A y \in loads : x <= y
  BY <1>1, <1>3, NatHasLeast
<1> USE DEF loads
<1>5. PICK r \in Receivers : x = Load(r)
  BY <1>4
<1>6. r \in lightest
  BY <1>4, <1>5
<1>7. LeastOf(lightest) \in lightest
  BY <1>6, LeastIsFirst
<1> QED BY <1>7 DEF LeastLoaded

\* The receiver an endpoint is found on lists it.
LEMMA ReceiverOfLists ==
  ASSUME NEW e, IsListed(e)
  PROVE  ReceiverOf(e) \in Receivers /\ e \in listed[ReceiverOf(e)]
<1>1. {r \in Receivers : e \in listed[r]} # {}
  BY DEF IsListed
<1> QED BY <1>1, LeastIsFirst DEF ReceiverOf

-----------------------------------------------------------------------------
(* Types.                                                                  *)

\* The part of TypeOK that is about endpoints and connections.
ConnectionsType ==
    /\ listed \in [Receivers -> SUBSET Endpoints]
    /\ poolConnected \in BOOLEAN
    /\ connected \in [Receivers -> [Sides -> BOOLEAN]]
    /\ sockets \in [Receivers -> [Sides -> SUBSET (Endpoints \ BadEndpoints)]]

\* The part that is about the threads.
ThreadsType ==
    /\ threaded \in [Receivers -> BOOLEAN]
    /\ thread \in [Receivers -> Alive \cup {"none", "ok", "err"}]
    /\ interrupted \in [Receivers -> BOOLEAN]
    /\ stopping \in 0 .. N

\* The part that is about messages.
TrafficType ==
    /\ started \subseteq Receivers
    /\ fifo \in [Receivers -> Seq(Messages)]
    /\ \A r \in Receivers : Len(fifo[r]) <= IF r \in started THEN BufferSize ELSE 0
    /\ sent \in [Sources -> 0 .. MaxSent] /\ handed \in [Sources -> Seq(1 .. MaxSent)]

\* The rest.
HistoryType ==
    /\ hung \in BOOLEAN /\ refused \in BOOLEAN /\ skewed \in BOOLEAN
    /\ overtaken \subseteq Endpoints
    /\ calls \in 0 .. MaxCalls

LEMMA TypeParts ==
  /\ TypeOK <=> ConnectionsType /\ ThreadsType /\ TrafficType /\ HistoryType
  /\ TypeOK' <=> ConnectionsType' /\ ThreadsType' /\ TrafficType' /\ HistoryType'
BY DEF TypeOK, ConnectionsType, ThreadsType, TrafficType, HistoryType

\* The four parts of TypeOK, where they are left alone.
LEMMA Untouched ==
  /\ ConnectionsType /\ UNCHANGED <<listed, poolConnected, connected, sockets>> => ConnectionsType'
  /\ ThreadsType /\ UNCHANGED threads => ThreadsType'
  /\ TrafficType /\ UNCHANGED traffic => TrafficType'
  /\ HistoryType /\ UNCHANGED <<hung, refused, skewed, overtaken, calls>> => HistoryType'
BY DEF ConnectionsType, ThreadsType, TrafficType, HistoryType, threads, traffic

LEMMA SideType ==
  ASSUME TypeOK, NEW r \in Receivers
  PROVE  /\ Side(r) \in Sides
         /\ IsConnected(r) \in BOOLEAN /\ Deaf(r) \in BOOLEAN
         /\ ~threaded[r] => Side(r) = "own" /\ ~Deaf(r)
         /\ threaded[r] => Side(r) = "listener"
<1>1. Side(r) \in Sides /\ (~threaded[r] => Side(r) = "own") /\ (threaded[r] => Side(r) = "listener")
  BY DEF Side
<1>2. IsConnected(r) \in BOOLEAN
  <2>1. connected[r] \in [Sides -> BOOLEAN]
    BY DEF TypeOK
  <2>2. connected[r][Side(r)] \in BOOLEAN
    BY <1>1, <2>1
  <2> QED BY <2>2 DEF IsConnected
<1>3. Deaf(r) \in BOOLEAN /\ (~threaded[r] => ~Deaf(r))
  BY DEF Deaf
<1> QED BY <1>1, <1>2, <1>3

\* The owner's calls are counted up to the bound.
LEMMA OwnerType ==
  ASSUME TypeOK, Owner
  PROVE  calls' \in 0 .. MaxCalls
BY BoundsAssumption DEF TypeOK, Owner

LEMMA InitType == Init => TypeOK
<1> SUFFICES ASSUME Init PROVE TypeOK
  OBVIOUS
<1> USE ReceiversAssumption, BoundsAssumption, EndpointsAssumption
<1>1. listed \in [Receivers -> SUBSET Endpoints]
  <2>1. ASSUME NEW s \in DistinctEndpoints PROVE ShareOut(s) \in [Receivers -> SUBSET Endpoints]
    <3>1. PICK n : s \in [1 .. n -> Endpoints] /\ n \in Nat
      BY FS_CardinalityType DEF DistinctEndpoints
    <3>2. Len(s) = n
      BY <3>1
    <3> QED BY <3>1, <3>2 DEF ShareOut
  <2> QED BY <2>1 DEF Init
<1>2. ConnectionsType
  BY <1>1 DEF Init, ConnectionsType
<1>3. ThreadsType
  BY DEF Init, ThreadsType
<1>4. TrafficType
  BY DEF Init, TrafficType
<1>5. HistoryType
  <2>1. skewed \in BOOLEAN
    BY DEF Init
  <2>2. calls \in 0 .. MaxCalls
    BY DEF Init
  <2> QED BY <2>1, <2>2 DEF Init, HistoryType
<1> QED BY <1>2, <1>3, <1>4, <1>5, TypeParts

\* The receivers before the first that fails have only endpoints that accept.
LEMMA ConnectType ==
  ASSUME TypeOK, Connect
  PROVE  TypeOK'
<1> DEFINE failing == {r \in Receivers : ~IsConnected(r) /\ listed[r] \cap BadEndpoints # {}}
           stops == failing \cup {r \in Receivers : Deaf(r)}
           first == IF stops = {} THEN N + 1 ELSE LeastOf(stops)
           fails == first \in failing /\ ~Deaf(first)
<1>1. /\ first \in Nat
      /\ first \in stops <=> stops # {}
      /\ \A r \in Receivers : r < first => r \notin stops
  <2>1. stops \in SUBSET Receivers
    OBVIOUS
  <2> HIDE DEF stops
  <2> QED BY <2>1, FirstStops
<1>2. PICK some \in SUBSET IF fails THEN listed[first] \ BadEndpoints ELSE {} :
         sockets' = [r \in Receivers |->
            [sockets[r] EXCEPT ![Side(r)] =
                IF IsConnected(r) \/ r > first THEN @
                ELSE IF r < first THEN @ \cup listed[r] ELSE @ \cup some]]
  BY DEF Connect
<1>3. /\ connected' = [r \in Receivers |->
            IF r < first THEN [connected[r] EXCEPT ![Side(r)] = TRUE] ELSE connected[r]]
      /\ poolConnected' = (stops = {})
      /\ hung' = (stops # {} /\ Deaf(first))
      /\ refused' = (refused \/ fails)
      /\ UNCHANGED <<listed, skewed, overtaken, threads, traffic>>
      /\ Owner
  BY DEF Connect
<1>4. some \subseteq Endpoints \ BadEndpoints
  BY <1>2 DEF TypeOK
<1>5. \A r \in Receivers : r < first /\ ~IsConnected(r) => listed[r] \subseteq Endpoints \ BadEndpoints
  BY <1>1 DEF TypeOK
<1> HIDE DEF failing, stops, first, fails
<1>6. ASSUME NEW r \in Receivers
      PROVE  [sockets[r] EXCEPT ![Side(r)] =
                 IF IsConnected(r) \/ r > first THEN @
                 ELSE IF r < first THEN @ \cup listed[r] ELSE @ \cup some]
             \in [Sides -> SUBSET (Endpoints \ BadEndpoints)]
  <2>1. sockets[r] \in [Sides -> SUBSET (Endpoints \ BadEndpoints)]
    BY DEF TypeOK
  <2> QED BY <2>1, <1>4, <1>5, SideType
<1>7. ConnectionsType'
  <2>1. sockets' \in [Receivers -> [Sides -> SUBSET (Endpoints \ BadEndpoints)]]
    BY <1>2, <1>6
  <2>2. connected' \in [Receivers -> [Sides -> BOOLEAN]]
    BY <1>3, SideType DEF TypeOK
  <2> QED BY <1>3, <2>1, <2>2 DEF TypeOK, ConnectionsType
<1>8. HistoryType'
  <2>1. Deaf(first) \in BOOLEAN
    BY DEF Deaf
  <2> QED BY <1>3, <2>1, OwnerType DEF TypeOK, HistoryType, fails
<1>9. ThreadsType' /\ TrafficType'
  BY <1>3, TypeParts, Untouched
<1> QED BY <1>7, <1>8, <1>9, TypeParts

LEMMA DisconnectType ==
  ASSUME TypeOK, Disconnect
  PROVE  TypeOK'
<1> DEFINE deaf == {r \in Receivers : Deaf(r)}
           first == IF deaf = {} THEN N + 1 ELSE LeastOf(deaf)
<1>1. /\ sockets' = [r \in Receivers |->
            IF r < first /\ IsConnected(r)
            THEN [sockets[r] EXCEPT ![Side(r)] = @ \ listed[r]] ELSE sockets[r]]
      /\ connected' = [r \in Receivers |->
            IF r < first THEN [connected[r] EXCEPT ![Side(r)] = FALSE] ELSE connected[r]]
      /\ hung' = (deaf # {})
      /\ poolConnected' = FALSE
      /\ UNCHANGED <<listed, refused, skewed, overtaken, threads, traffic>>
      /\ Owner
  BY DEF Disconnect
<1> HIDE DEF deaf, first
<1>2. ConnectionsType'
  <2>1. \A r \in Receivers : sockets[r] \in [Sides -> SUBSET (Endpoints \ BadEndpoints)]
                             /\ connected[r] \in [Sides -> BOOLEAN]
    BY DEF TypeOK
  <2>2. sockets' \in [Receivers -> [Sides -> SUBSET (Endpoints \ BadEndpoints)]]
    BY <1>1, <2>1, SideType
  <2>3. connected' \in [Receivers -> [Sides -> BOOLEAN]]
    BY <1>1, <2>1, SideType
  <2> QED BY <1>1, <2>2, <2>3 DEF TypeOK, ConnectionsType
<1>3. HistoryType'
  BY <1>1, OwnerType DEF TypeOK, HistoryType
<1>4. ThreadsType' /\ TrafficType'
  BY <1>1, TypeParts, Untouched
<1> QED BY <1>2, <1>3, <1>4, TypeParts

LEMMA AddToType ==
  ASSUME TypeOK, Owner, NEW e \in Endpoints, NEW r \in Receivers, AddTo(e, r), skewed' \in BOOLEAN
  PROVE  TypeOK'
<1> DEFINE connects == ~Deaf(r) /\ IsConnected(r)
<1>1. /\ hung' = Deaf(r)
      /\ listed' = IF Deaf(r) THEN listed ELSE [listed EXCEPT ![r] = @ \cup {e}]
      /\ sockets' = [sockets EXCEPT ![r][Side(r)] =
                        IF connects THEN @ \cup ({e} \ BadEndpoints) ELSE @]
      /\ refused' = (refused \/ (connects /\ e \in BadEndpoints))
      /\ overtaken' = IF HeldBehind(e, r) THEN overtaken \cup {e} ELSE overtaken
      /\ UNCHANGED <<poolConnected, connected, threads, traffic>>
  BY DEF AddTo
<1>2. connects \in BOOLEAN
  BY SideType
<1> HIDE DEF connects
<1>3. ConnectionsType'
  <2>1. sockets[r] \in [Sides -> SUBSET (Endpoints \ BadEndpoints)]
    BY DEF TypeOK
  <2>2. [sockets[r] EXCEPT ![Side(r)] = IF connects THEN @ \cup ({e} \ BadEndpoints) ELSE @]
            \in [Sides -> SUBSET (Endpoints \ BadEndpoints)]
    BY <2>1
  <2>3. sockets' \in [Receivers -> [Sides -> SUBSET (Endpoints \ BadEndpoints)]]
    BY <1>1, <2>2 DEF TypeOK
  <2>4. listed' \in [Receivers -> SUBSET Endpoints]
    BY <1>1 DEF TypeOK
  <2> QED BY <1>1, <2>3, <2>4 DEF TypeOK, ConnectionsType
<1>4. HistoryType'
  <2>1. hung' \in BOOLEAN /\ refused' \in BOOLEAN
    BY <1>1, <1>2, SideType DEF TypeOK
  <2>2. overtaken' \subseteq Endpoints
    BY <1>1 DEF TypeOK
  <2> QED BY <2>1, <2>2, OwnerType DEF HistoryType
<1>5. ThreadsType' /\ TrafficType'
  BY <1>1, TypeParts, Untouched
<1> QED BY <1>3, <1>4, <1>5, TypeParts

LEMMA AddEndpointType ==
  ASSUME TypeOK, NEW e \in Endpoints, AddEndpoint(e)
  PROVE  TypeOK'
<1>1. Owner
  BY DEF AddEndpoint
<1>2. CASE AddTo(e, LeastLoaded) /\ UNCHANGED skewed
  <2>1. LeastLoaded \in Receivers
    BY LeastLoadedIsLeast DEF TypeOK
  <2>2. skewed' \in BOOLEAN
    BY <1>2 DEF TypeOK
  <2> QED BY <1>1, <1>2, <2>1, <2>2, AddToType
<1>3. CASE \E r \in Receivers : AddTo(e, r) /\ skewed' = TRUE
  <2>1. PICK r \in Receivers : AddTo(e, r) /\ skewed' = TRUE
    BY <1>3
  <2>2. skewed' \in BOOLEAN
    BY <2>1
  <2> QED BY <1>1, <2>1, <2>2, AddToType
<1> QED BY <1>2, <1>3 DEF AddEndpoint

LEMMA RemoveEndpointType ==
  ASSUME TypeOK, NEW e \in Endpoints, RemoveEndpoint(e)
  PROVE  TypeOK'
<1> DEFINE r == ReceiverOf(e)
<1>1. /\ IsListed(e) /\ Owner
      /\ hung' = Deaf(r)
      /\ listed' = IF Deaf(r) THEN listed ELSE [listed EXCEPT ![r] = @ \ {e}]
      /\ sockets' = [sockets EXCEPT ![r][Side(r)] =
                        IF ~Deaf(r) /\ IsConnected(r) THEN @ \ {e} ELSE @]
      /\ skewed' = TRUE
      /\ UNCHANGED <<poolConnected, connected, refused, overtaken, threads, traffic>>
  BY DEF RemoveEndpoint
<1>2. r \in Receivers
  BY <1>1, ReceiverOfLists
<1> HIDE DEF r
<1>3. ConnectionsType'
  <2>1. sockets[r] \in [Sides -> SUBSET (Endpoints \ BadEndpoints)]
    BY <1>2 DEF TypeOK
  <2>2. [sockets[r] EXCEPT ![Side(r)] = IF ~Deaf(r) /\ IsConnected(r) THEN @ \ {e} ELSE @]
            \in [Sides -> SUBSET (Endpoints \ BadEndpoints)]
    BY <2>1
  <2>3. sockets' \in [Receivers -> [Sides -> SUBSET (Endpoints \ BadEndpoints)]]
    BY <1>1, <2>2 DEF TypeOK
  <2>4. listed' \in [Receivers -> SUBSET Endpoints]
    BY <1>1 DEF TypeOK
  <2> QED BY <1>1, <2>3, <2>4 DEF TypeOK, ConnectionsType
<1>4. HistoryType'
  <2>1. hung' \in BOOLEAN
    BY <1>1, <1>2, SideType
  <2> QED BY <1>1, <2>1, OwnerType DEF TypeOK, HistoryType
<1>5. ThreadsType' /\ TrafficType'
  BY <1>1, TypeParts, Untouched
<1> QED BY <1>3, <1>4, <1>5, TypeParts

LEMMA SpawnType ==
  ASSUME TypeOK, Owner, NEW S \in SUBSET Receivers, Spawn(S)
  PROVE  ConnectionsType' /\ ThreadsType' /\ HistoryType'
<1>1. ConnectionsType'
  BY TypeParts, Untouched DEF Spawn, lists
<1>2. ThreadsType'
  <2>1. \A r \in Receivers : (r \in S \/ threaded[r]) \in BOOLEAN
    OBVIOUS
  <2>2. threaded' \in [Receivers -> BOOLEAN]
    BY <2>1 DEF Spawn
  <2>3. thread' \in [Receivers -> Alive \cup {"none", "ok", "err"}]
    BY DEF Spawn, TypeOK
  <2> QED BY <2>2, <2>3 DEF Spawn, TypeOK, ThreadsType
<1>3. HistoryType'
  BY OwnerType DEF Spawn, lists, TypeOK, HistoryType
<1> QED BY <1>1, <1>2, <1>3

LEMMA StartType ==
  ASSUME TypeOK, Start
  PROVE  TypeOK'
<1>1. ConnectionsType' /\ ThreadsType' /\ HistoryType'
  BY SpawnType DEF Start
<1>2. TrafficType'
  <2>1. \A r \in Receivers : Len(fifo[r]) <= BufferSize
    BY BoundsAssumption DEF TypeOK
  <2> QED BY <2>1 DEF Start, Spawn, TypeOK, TrafficType
<1> QED BY <1>1, <1>2, TypeParts

LEMMA ForkType ==
  ASSUME TypeOK, Fork
  PROVE  TypeOK'
<1>1. ConnectionsType' /\ ThreadsType' /\ HistoryType'
  BY SpawnType DEF Fork
<1>2. TrafficType'
  BY TypeParts, Untouched DEF Fork, Spawn, traffic
<1> QED BY <1>1, <1>2, TypeParts

LEMMA SetListenerType ==
  ASSUME TypeOK, NEW r \in Receivers, NEW state \in {"running", "ok", "err"}, NEW c \in BOOLEAN,
         NEW S \in SUBSET (Endpoints \ BadEndpoints), SetListener(r, state, c, S)
  PROVE  TypeOK'
<1>1. ConnectionsType'
  <2>1. [connected[r] EXCEPT !["listener"] = c] \in [Sides -> BOOLEAN]
    BY DEF TypeOK
  <2>2. [sockets[r] EXCEPT !["listener"] = S] \in [Sides -> SUBSET (Endpoints \ BadEndpoints)]
    BY DEF TypeOK
  <2>3. connected' \in [Receivers -> [Sides -> BOOLEAN]]
    BY <2>1 DEF TypeOK, SetListener
  <2>4. sockets' \in [Receivers -> [Sides -> SUBSET (Endpoints \ BadEndpoints)]]
    BY <2>2 DEF TypeOK, SetListener
  <2> QED BY <2>3, <2>4 DEF SetListener, TypeOK, ConnectionsType
<1>2. ThreadsType'
  BY DEF SetListener, TypeOK, ThreadsType
<1>3. TrafficType' /\ HistoryType'
  BY TypeParts, Untouched DEF SetListener
<1> QED BY <1>1, <1>2, <1>3, TypeParts

LEMMA ListenerType ==
  ASSUME TypeOK, NEW r \in Receivers, Begin(r) \/ End(r)
  PROVE  TypeOK'
<1>1. CASE listed[r] \cap BadEndpoints = {} /\ SetListener(r, "running", TRUE, listed[r])
  <2>1. listed[r] \in SUBSET (Endpoints \ BadEndpoints)
    BY <1>1 DEF TypeOK
  <2> QED BY <1>1, <2>1, SetListenerType
<1>2. CASE SetListener(r, "err", FALSE, {}) \/ SetListener(r, "ok", FALSE, {})
  BY <1>2, SetListenerType
<1> QED BY <1>1, <1>2 DEF Begin, End

LEMMA StopType ==
  ASSUME TypeOK, Stop
  PROVE  TypeOK'
<1>1. ConnectionsType' /\ TrafficType'
  BY TypeParts, Untouched DEF Stop, StopInterrupting, lists
<1>2. ThreadsType'
  BY ReceiversAssumption DEF Stop, StopInterrupting, TypeOK, ThreadsType
<1>3. HistoryType'
  BY OwnerType DEF Stop, StopInterrupting, lists, TypeOK, HistoryType
<1> QED BY <1>1, <1>2, <1>3, TypeParts

LEMMA JoinNextType ==
  ASSUME TypeOK, JoinNext
  PROVE  TypeOK'
<1>1. ConnectionsType' /\ TrafficType' /\ HistoryType'
  BY TypeParts, Untouched DEF JoinNext, lists
<1>2. ThreadsType'
  <2>1. stopping' \in 0 .. N
    BY ReceiversAssumption DEF JoinNext, TypeOK
  <2>2. thread' \in [Receivers -> Alive \cup {"none", "ok", "err"}]
    BY DEF JoinNext, TypeOK
  <2> QED BY <2>1, <2>2 DEF JoinNext, TypeOK, ThreadsType
<1> QED BY <1>1, <1>2, TypeParts

\* A queue that is full makes room for the message by losing its oldest.
LEMMA PushedType ==
  ASSUME NEW q \in Seq(Messages), NEW m \in Messages, Len(q) <= BufferSize
  PROVE  Pushed(q, m) \in Seq(Messages) /\ Len(Pushed(q, m)) <= BufferSize
<1>1. CASE Len(q) >= BufferSize
  <2>1. q # <<>>
    BY <1>1, BoundsAssumption
  <2>2. Tail(q) \in Seq(Messages) /\ Len(Tail(q)) = Len(q) - 1
    BY <2>1
  <2> QED BY <1>1, <2>2, BoundsAssumption DEF Pushed
<1>2. CASE Len(q) < BufferSize
  BY <1>2, BoundsAssumption DEF Pushed
<1> QED BY <1>1, <1>2, BoundsAssumption

\* The callback is given as many copies of the message as there are receivers
\* without a queue that are connected to its source.
LEMMA HandedCopies ==
  ASSUME TypeOK, NEW a \in Sources, Publish(a)
  PROVE  \E k \in Nat :
            /\ k = Cardinality(Receiving(a) \ started)
            /\ handed' = [handed EXCEPT ![a] = @ \o [i \in 1 .. k |-> sent[a] + 1]]
            /\ handed' \in [Sources -> Seq(1 .. MaxSent)]
            /\ handed[a] \in Seq(1 .. MaxSent) /\ sent[a] + 1 \in 1 .. MaxSent
<1>1. Receiving(a) \ started \subseteq 1 .. N /\ IsFiniteSet(1 .. N)
  BY FS_Interval, ReceiversAssumption DEF Receiving
<1>2. IsFiniteSet(Receiving(a) \ started)
  BY <1>1, FS_Subset
<1>3. PICK k \in Nat : k = Cardinality(Receiving(a) \ started)
  BY <1>2, FS_CardinalityType
<1>4. handed' = [handed EXCEPT ![a] = @ \o [i \in 1 .. k |-> sent[a] + 1]]
  BY <1>3 DEF Publish
<1>5. sent[a] + 1 \in 1 .. MaxSent /\ handed \in [Sources -> Seq(1 .. MaxSent)]
      /\ handed[a] \in Seq(1 .. MaxSent)
  BY BoundsAssumption DEF Publish, TypeOK
<1>6. [i \in 1 .. k |-> sent[a] + 1] \in Seq(1 .. MaxSent)
  BY <1>5
<1>7. handed[a] \o [i \in 1 .. k |-> sent[a] + 1] \in Seq(1 .. MaxSent)
  BY <1>5, <1>6
<1>8. handed' \in [Sources -> Seq(1 .. MaxSent)]
  BY <1>4, <1>5, <1>7
<1> QED BY <1>3, <1>4, <1>5, <1>8

LEMMA PublishType ==
  ASSUME TypeOK, NEW e \in Sources, Publish(e)
  PROVE  TypeOK'
<1>1. ConnectionsType' /\ ThreadsType' /\ HistoryType'
  BY TypeParts, Untouched DEF Publish, lists
<1>2. TrafficType'
  <2> DEFINE m == [endpoint |-> e, n |-> sent[e] + 1]
             to == Receiving(e) \cap started
  <2>1. sent[e] + 1 \in 1 .. MaxSent
    BY BoundsAssumption DEF Publish, TypeOK
  <2>2. m \in Messages
    BY <2>1 DEF Messages
  <2>3. fifo' = [r \in Receivers |-> IF r \in to THEN Pushed(fifo[r], m) ELSE fifo[r]]
    BY DEF Publish
  <2>4. \A r \in Receivers : r \in to => r \in started
    OBVIOUS
  <2> HIDE DEF m, to
  <2>5. ASSUME NEW r \in Receivers
        PROVE  fifo'[r] \in Seq(Messages) /\ Len(fifo'[r]) <= IF r \in started THEN BufferSize ELSE 0
    <3>1. fifo[r] \in Seq(Messages) /\ Len(fifo[r]) <= IF r \in started THEN BufferSize ELSE 0
      BY DEF TypeOK
    <3>2. CASE r \in to
      <4>1. r \in started
        BY <3>2, <2>4
      <4>2. Pushed(fifo[r], m) \in Seq(Messages) /\ Len(Pushed(fifo[r], m)) <= BufferSize
        BY <3>1, <4>1, <2>2, PushedType
      <4> QED BY <2>3, <3>2, <4>1, <4>2
    <3>3. CASE r \notin to
      BY <2>3, <3>1, <3>3
    <3> QED BY <3>2, <3>3
  <2>6. sent' \in [Sources -> 0 .. MaxSent]
    BY <2>1 DEF Publish, TypeOK
  <2>7. handed' \in [Sources -> Seq(1 .. MaxSent)]
    BY HandedCopies
  <2> QED BY <2>3, <2>5, <2>6, <2>7 DEF Publish, TypeOK, TrafficType
<1> QED BY <1>1, <1>2, TypeParts

LEMMA GetType ==
  ASSUME TypeOK, Get
  PROVE  TypeOK'
<1> DEFINE r == LeastOf(Holding)
<1>1. r \in Receivers /\ fifo[r] # <<>>
  BY LeastIsFirst DEF Get, Holding
<1>2. Take(r)
  BY DEF Get
<1> HIDE DEF r
<1>3. ConnectionsType' /\ ThreadsType' /\ HistoryType'
  BY <1>2, TypeParts, Untouched DEF Take, lists
<1>4. TrafficType'
  <2>1. fifo[r] \in Seq(Messages) /\ Len(fifo[r]) <= IF r \in started THEN BufferSize ELSE 0
    BY <1>1 DEF TypeOK
  <2>2. Head(fifo[r]) \in Messages /\ Tail(fifo[r]) \in Seq(Messages) /\ Len(Tail(fifo[r])) = Len(fifo[r]) - 1
    BY <1>1, <2>1
  <2>3. Head(fifo[r]).endpoint \in Sources /\ Head(fifo[r]).n \in 1 .. MaxSent
    BY <2>2 DEF Messages
  <2>4. handed' \in [Sources -> Seq(1 .. MaxSent)]
    <3>1. handed[Head(fifo[r]).endpoint] \in Seq(1 .. MaxSent)
      BY <2>3 DEF TypeOK
    <3>2. Append(handed[Head(fifo[r]).endpoint], Head(fifo[r]).n) \in Seq(1 .. MaxSent)
      BY <2>3, <3>1
    <3> QED BY <1>2, <2>3, <3>2 DEF Take, TypeOK
  <2>5. fifo' \in [Receivers -> Seq(Messages)]
    BY <1>2, <2>2 DEF Take, TypeOK
  <2>6. \A q \in Receivers : Len(fifo'[q]) <= IF q \in started THEN BufferSize ELSE 0
    BY <1>1, <1>2, <2>1, <2>2, BoundsAssumption DEF Take, TypeOK
  <2> QED BY <1>2, <2>4, <2>5, <2>6 DEF Take, TypeOK, TrafficType
<1> QED BY <1>3, <1>4, TypeParts

LEMMA NextType == TypeOK /\ [Next]_vars => TypeOK'
<1> SUFFICES ASSUME TypeOK, [Next]_vars PROVE TypeOK'
  OBVIOUS
<1>1. CASE UNCHANGED vars
  BY <1>1, TypeParts, Untouched DEF vars, lists, threads, traffic
<1>2. CASE \E e \in Endpoints : AddEndpoint(e) \/ RemoveEndpoint(e)
  BY <1>2, AddEndpointType, RemoveEndpointType
<1>3. CASE \E e \in Sources : Publish(e)
  BY <1>3, PublishType
<1>4. CASE \E r \in Receivers : Begin(r) \/ End(r)
  BY <1>4, ListenerType
<1> QED BY <1>1, <1>2, <1>3, <1>4, ConnectType, DisconnectType, StartType, ForkType, StopType,
           JoinNextType, GetType DEF Next

\* Types: every variable of Pool keeps to its type, queues to their size, in
\* particular no receiver is connected to an endpoint that refuses, whatever
\* connect of several receivers makes of such endpoints (pool.rs:66-77).
THEOREM TypeCorrect == Spec => []TypeOK
BY InitType, NextType, PTL DEF Spec

-----------------------------------------------------------------------------
(* One receiver for each endpoint.                                         *)

\* The position in new's list tells the receiver.
LEMMA Modulo ==
  ASSUME NEW q \in Receivers, NEW r \in Receivers, q % N = r % N
  PROVE  q = r
BY ReceiversAssumption

LEMMA InitDisjoint == Init => OneReceiver
<1> SUFFICES ASSUME Init PROVE Disjoint(listed)
  BY DEF OneReceiver
<1>1. ASSUME NEW s \in DistinctEndpoints PROVE Disjoint(ShareOut(s))
  <2> SUFFICES ASSUME NEW q \in Receivers, NEW r \in Receivers, q # r,
                      NEW e \in ShareOut(s)[q], e \in ShareOut(s)[r]
               PROVE FALSE
    BY DEF Disjoint
  <2>1. PICK j \in 1 .. Len(s) : j % N = q % N /\ e = s[j]
    BY DEF ShareOut
  <2>2. PICK k \in 1 .. Len(s) : k % N = r % N /\ e = s[k]
    BY DEF ShareOut
  <2>3. j = k
    BY <2>1, <2>2 DEF DistinctEndpoints
  <2> QED BY <2>1, <2>2, <2>3, Modulo
<1> QED BY <1>1 DEF Init

LEMMA NextDisjoint ==
  ASSUME TypeOK, OneReceiver, [Next]_vars
  PROVE  OneReceiver'
<1>1. CASE UNCHANGED listed
  BY <1>1 DEF OneReceiver, Disjoint
<1>2. ASSUME NEW e \in Endpoints, AddEndpoint(e) PROVE OneReceiver'
  <2>1. PICK r \in Receivers : AddTo(e, r)
    BY <1>2, LeastLoadedIsLeast DEF AddEndpoint, TypeOK
  <2>2. \A q \in Receivers : e \notin listed[q]
    BY <1>2 DEF AddEndpoint, IsListed
  <2>3. CASE listed' = listed
    BY <2>3 DEF OneReceiver, Disjoint
  <2>4. CASE listed' = [listed EXCEPT ![r] = @ \cup {e}]
    <3>1. \A q \in Receivers : listed'[q] = IF q = r THEN listed[q] \cup {e} ELSE listed[q]
      BY <2>4 DEF TypeOK
    <3> QED BY <2>2, <3>1 DEF OneReceiver, Disjoint
  <2> QED BY <2>1, <2>3, <2>4 DEF AddTo
<1>3. ASSUME NEW e \in Endpoints, RemoveEndpoint(e) PROVE OneReceiver'
  <2> DEFINE r == ReceiverOf(e)
  <2>1. listed' = listed \/ listed' = [listed EXCEPT ![r] = @ \ {e}]
    BY <1>3 DEF RemoveEndpoint
  <2> HIDE DEF r
  <2>2. \A q \in Receivers : listed'[q] \subseteq listed[q]
    <3>1. DOMAIN listed = Receivers
      BY DEF TypeOK
    <3> QED BY <2>1, <3>1
  <2> QED BY <2>2 DEF OneReceiver, Disjoint
<1> QED BY <1>1, <1>2, <1>3 DEF Next, vars, lists, Connect, Disconnect, Publish, Start, Fork, Spawn,
           Stop, StopInterrupting, JoinNext, Get, Take, Begin, End, SetListener

\* Whatever is added, removed or refused, in whichever mode, and whichever calls
\* hang, no two receivers of a pool list the same endpoint (pool.rs:103-109).
THEOREM EndpointsHaveOneReceiver == Spec => []OneReceiver
<1>1. TypeOK /\ OneReceiver /\ [Next]_vars => OneReceiver'
  BY NextDisjoint
<1> QED BY InitDisjoint, TypeCorrect, <1>1, PTL DEF Spec

-----------------------------------------------------------------------------
(* One connection to each source.                                          *)

\* Receivers are threaded all at once.
Together == \A q, r \in Receivers : threaded[q] = threaded[r]

\* A receiver that is not threaded was not started and has no listener.
ModeOK ==
    /\ started # {} => \A r \in Receivers : threaded[r]
    /\ \A r \in Receivers : ~threaded[r] => thread[r] = "none" /\ ~connected[r]["listener"]

\* The object that calls act on is connected to listed endpoints only, and to
\* none while its flag is not set.
SocketsOK ==
    ~refused => \A r \in Receivers :
        /\ ~threaded[r] => sockets[r]["own"] \subseteq IF connected[r]["own"] THEN listed[r] ELSE {}
        /\ sockets[r]["listener"] \subseteq IF connected[r]["listener"] THEN listed[r] ELSE {}

\* The owner's objects, which calls act on no more, keep what they had then.
OwnOK == ~refused => Disjoint([r \in Receivers |-> sockets[r]["own"]])

IInv == TypeOK /\ OneReceiver /\ Together /\ ModeOK /\ SocketsOK /\ OwnOK

\* Before they are threaded, the owner's objects share no source either.
LEMMA OwnKept ==
  ASSUME IInv, OneReceiver', SocketsOK', UNCHANGED threaded, refused => refused',
         TypeOK',
         \A r \in Receivers : threaded[r] => sockets'[r]["own"] = sockets[r]["own"]
  PROVE  OwnOK'
<1>1. CASE \A r \in Receivers : threaded[r]
  BY <1>1 DEF IInv, OwnOK, Disjoint
<1>2. CASE \E r \in Receivers : ~threaded[r]
  <2>1. \A r \in Receivers : ~threaded'[r]
    BY <1>2 DEF IInv, Together
  <2>2. ~refused' => \A r \in Receivers : sockets'[r]["own"] \subseteq listed'[r]
    BY <2>1 DEF SocketsOK
  <2> QED BY <2>2 DEF OneReceiver, OwnOK, Disjoint
<1> QED BY <1>1, <1>2

LEMMA InitIInv == Init => IInv
<1> SUFFICES ASSUME Init PROVE IInv
  OBVIOUS
<1>1. TypeOK /\ OneReceiver
  BY InitType, InitDisjoint
<1>2. Together /\ ModeOK /\ SocketsOK /\ OwnOK
  BY DEF Init, Together, ModeOK, SocketsOK, OwnOK, Disjoint
<1> QED BY <1>1, <1>2 DEF IInv

\* What a call does to the objects it acts on is all that matters of it.
LEMMA CallKeeps ==
  ASSUME IInv, TypeOK', OneReceiver', UNCHANGED <<threaded, thread, started>>, refused => refused',
         \A r \in Receivers : threaded[r] => sockets'[r]["own"] = sockets[r]["own"],
         \A r \in Receivers : ~threaded[r] =>
             /\ sockets'[r]["listener"] = sockets[r]["listener"]
             /\ connected'[r]["listener"] = connected[r]["listener"],
         \A r \in Receivers : ~refused' =>
             sockets'[r][Side(r)] \subseteq IF connected'[r][Side(r)] THEN listed'[r] ELSE {}
  PROVE  IInv'
<1>1. Together' /\ ModeOK'
  BY DEF IInv, Together, ModeOK
<1>2. SocketsOK'
  <2>1. \A r \in Receivers : ~threaded[r] => ~connected[r]["listener"]
    BY DEF IInv, ModeOK
  <2>2. \A r \in Receivers : ~threaded[r] /\ ~refused => sockets[r]["listener"] = {}
    BY <2>1 DEF IInv, SocketsOK
  <2>3. \A r \in Receivers : threaded[r] \in BOOLEAN
    BY DEF IInv, TypeOK
  <2> QED BY <2>1, <2>2, <2>3 DEF SocketsOK, Side
<1>3. OwnOK'
  BY <1>2, OwnKept
<1> QED BY <1>1, <1>2, <1>3 DEF IInv

\* What the invariant says of the object a call acts on.
LEMMA ActedOn ==
  ASSUME IInv, NEW r \in Receivers, ~refused
  PROVE  sockets[r][Side(r)] \subseteq IF IsConnected(r) THEN listed[r] ELSE {}
BY DEF IInv, SocketsOK, TypeOK, Side, IsConnected

LEMMA ConnectKeeps ==
  ASSUME IInv, Connect
  PROVE  IInv'
<1> DEFINE failing == {r \in Receivers : ~IsConnected(r) /\ listed[r] \cap BadEndpoints # {}}
           stops == failing \cup {r \in Receivers : Deaf(r)}
           first == IF stops = {} THEN N + 1 ELSE LeastOf(stops)
           fails == first \in failing /\ ~Deaf(first)
<1>1. /\ first \in Nat
      /\ first \in stops <=> stops # {}
      /\ \A r \in Receivers : r < first => r \notin stops
  <2>1. stops \in SUBSET Receivers
    OBVIOUS
  <2> HIDE DEF stops
  <2> QED BY <2>1, FirstStops
<1>2. PICK some \in SUBSET IF fails THEN listed[first] \ BadEndpoints ELSE {} :
         sockets' = [r \in Receivers |->
            [sockets[r] EXCEPT ![Side(r)] =
                IF IsConnected(r) \/ r > first THEN @
                ELSE IF r < first THEN @ \cup listed[r] ELSE @ \cup some]]
  BY DEF Connect
<1>3. /\ connected' = [r \in Receivers |->
            IF r < first THEN [connected[r] EXCEPT ![Side(r)] = TRUE] ELSE connected[r]]
      /\ refused' = (refused \/ fails)
      /\ UNCHANGED <<listed, threaded, thread, started>>
  BY DEF Connect, threads, traffic
<1>4. ~refused' => some = {}
  BY <1>2, <1>3
<1>5. TypeOK' /\ OneReceiver'
  BY ConnectType, NextDisjoint DEF IInv, Next
<1>6. \A r \in Receivers : r \in Nat
  BY ReceiversAssumption
<1> HIDE DEF failing, stops, first, fails
<1>7. ASSUME NEW r \in Receivers
      PROVE  /\ threaded[r] => sockets'[r]["own"] = sockets[r]["own"]
             /\ ~threaded[r] => /\ sockets'[r]["listener"] = sockets[r]["listener"]
                                /\ connected'[r]["listener"] = connected[r]["listener"]
             /\ ~refused' => sockets'[r][Side(r)] \subseteq
                                IF connected'[r][Side(r)] THEN listed'[r] ELSE {}
  <2>1. TypeOK
    BY DEF IInv
  <2>2. sockets[r] \in [Sides -> SUBSET Endpoints] /\ connected[r] \in [Sides -> BOOLEAN]
    BY <2>1 DEF TypeOK
  <2>3. sockets'[r] = [sockets[r] EXCEPT ![Side(r)] =
                IF IsConnected(r) \/ r > first THEN @
                ELSE IF r < first THEN @ \cup listed[r] ELSE @ \cup some]
    BY <1>2
  <2>4. connected'[r] = IF r < first THEN [connected[r] EXCEPT ![Side(r)] = TRUE] ELSE connected[r]
    BY <1>3
  <2>5. Side(r) \in Sides /\ (threaded[r] => Side(r) = "listener") /\ (~threaded[r] => Side(r) = "own")
    BY <2>1, SideType
  <2>6. (threaded[r] => sockets'[r]["own"] = sockets[r]["own"])
        /\ (~threaded[r] => sockets'[r]["listener"] = sockets[r]["listener"]
                            /\ connected'[r]["listener"] = connected[r]["listener"])
    BY <2>2, <2>3, <2>4, <2>5
  <2>7. ASSUME ~refused'
        PROVE  sockets'[r][Side(r)] \subseteq IF connected'[r][Side(r)] THEN listed'[r] ELSE {}
    <3>1. ~refused /\ some = {}
      BY <1>3, <1>4, <2>7
    <3>2. sockets[r][Side(r)] \subseteq IF IsConnected(r) THEN listed[r] ELSE {}
      BY <3>1, ActedOn
    <3>3. sockets'[r][Side(r)] = IF IsConnected(r) \/ ~(r < first) THEN sockets[r][Side(r)]
                                 ELSE sockets[r][Side(r)] \cup listed[r]
      BY <1>1, <1>6, <2>2, <2>3, <2>5, <3>1
    <3>4. connected'[r][Side(r)] = (r < first \/ IsConnected(r))
      BY <2>2, <2>4, <2>5 DEF IsConnected
    <3> QED BY <1>3, <3>2, <3>3, <3>4
  <2> QED BY <2>6, <2>7
<1> QED BY <1>3, <1>5, <1>7, CallKeeps

LEMMA DisconnectKeeps ==
  ASSUME IInv, Disconnect
  PROVE  IInv'
<1> DEFINE deaf == {r \in Receivers : Deaf(r)}
           first == IF deaf = {} THEN N + 1 ELSE LeastOf(deaf)
<1>1. /\ sockets' = [r \in Receivers |->
            IF r < first /\ IsConnected(r)
            THEN [sockets[r] EXCEPT ![Side(r)] = @ \ listed[r]] ELSE sockets[r]]
      /\ connected' = [r \in Receivers |->
            IF r < first THEN [connected[r] EXCEPT ![Side(r)] = FALSE] ELSE connected[r]]
      /\ UNCHANGED <<listed, refused, threaded, thread, started>>
  BY DEF Disconnect, threads, traffic
<1>2. TypeOK' /\ OneReceiver'
  BY DisconnectType, NextDisjoint DEF IInv, Next
<1> HIDE DEF deaf, first
<1>3. ASSUME NEW r \in Receivers
      PROVE  /\ threaded[r] => sockets'[r]["own"] = sockets[r]["own"]
             /\ ~threaded[r] => /\ sockets'[r]["listener"] = sockets[r]["listener"]
                                /\ connected'[r]["listener"] = connected[r]["listener"]
             /\ ~refused' => sockets'[r][Side(r)] \subseteq
                                IF connected'[r][Side(r)] THEN listed'[r] ELSE {}
  <2>1. TypeOK
    BY DEF IInv
  <2>2. sockets[r] \in [Sides -> SUBSET Endpoints] /\ connected[r] \in [Sides -> BOOLEAN]
    BY <2>1 DEF TypeOK
  <2>3. sockets'[r] = IF r < first /\ IsConnected(r)
            THEN [sockets[r] EXCEPT ![Side(r)] = @ \ listed[r]] ELSE sockets[r]
    BY <1>1
  <2>4. connected'[r] = IF r < first THEN [connected[r] EXCEPT ![Side(r)] = FALSE] ELSE connected[r]
    BY <1>1
  <2>5. Side(r) \in Sides /\ (threaded[r] => Side(r) = "listener") /\ (~threaded[r] => Side(r) = "own")
    BY <2>1, SideType
  <2>6. (threaded[r] => sockets'[r]["own"] = sockets[r]["own"])
        /\ (~threaded[r] => sockets'[r]["listener"] = sockets[r]["listener"]
                            /\ connected'[r]["listener"] = connected[r]["listener"])
    BY <2>2, <2>3, <2>4, <2>5
  <2>7. ASSUME ~refused'
        PROVE  sockets'[r][Side(r)] \subseteq IF connected'[r][Side(r)] THEN listed'[r] ELSE {}
    <3>1. sockets[r][Side(r)] \subseteq IF IsConnected(r) THEN listed[r] ELSE {}
      BY <1>1, <2>7, ActedOn
    <3>2. CASE r < first
      <4>1. sockets'[r][Side(r)] = IF IsConnected(r) THEN sockets[r][Side(r)] \ listed[r]
                                   ELSE sockets[r][Side(r)]
        BY <2>2, <2>3, <2>5, <3>2
      <4> QED BY <3>1, <4>1
    <3>3. CASE ~(r < first)
      BY <1>1, <2>3, <2>4, <3>1, <3>3 DEF IsConnected
    <3> QED BY <3>2, <3>3
  <2> QED BY <2>6, <2>7
<1> QED BY <1>1, <1>2, <1>3, CallKeeps

\* A call on one receiver leaves the others as they are.
LEMMA OneCallKeeps ==
  ASSUME IInv, TypeOK', OneReceiver', UNCHANGED <<connected, threaded, thread, started>>,
         refused => refused', NEW r \in Receivers, NEW L, NEW S,
         listed' = [listed EXCEPT ![r] = L], sockets' = [sockets EXCEPT ![r][Side(r)] = S],
         ~refused' => S \subseteq IF IsConnected(r) THEN L ELSE {}
  PROVE  IInv'
<1>1. TypeOK
  BY DEF IInv
<1>2. ASSUME NEW q \in Receivers
      PROVE  /\ threaded[q] => sockets'[q]["own"] = sockets[q]["own"]
             /\ ~threaded[q] => sockets'[q]["listener"] = sockets[q]["listener"]
             /\ ~refused' => sockets'[q][Side(q)] \subseteq
                                IF connected'[q][Side(q)] THEN listed'[q] ELSE {}
  <2>1. /\ sockets[q] \in [Sides -> SUBSET (Endpoints \ BadEndpoints)]
        /\ listed \in [Receivers -> SUBSET Endpoints]
        /\ sockets \in [Receivers -> [Sides -> SUBSET (Endpoints \ BadEndpoints)]]
    BY <1>1 DEF TypeOK
  <2>2. Side(q) \in Sides /\ (threaded[q] => Side(q) = "listener") /\ (~threaded[q] => Side(q) = "own")
    BY <1>1, SideType
  <2>3. CASE q = r
    <3>1. sockets'[q] = [sockets[q] EXCEPT ![Side(q)] = S] /\ listed'[q] = L
      BY <2>1, <2>3
    <3> QED BY <2>1, <2>2, <2>3, <3>1 DEF IsConnected
  <2>4. CASE q # r
    <3>1. sockets'[q] = sockets[q] /\ listed'[q] = listed[q]
      BY <2>1, <2>4
    <3>2. ~refused' => sockets[q][Side(q)] \subseteq IF IsConnected(q) THEN listed[q] ELSE {}
      BY ActedOn
    <3> QED BY <3>1, <3>2 DEF IsConnected
  <2> QED BY <2>3, <2>4
<1> QED BY <1>2, CallKeeps

LEMMA AddToKeeps ==
  ASSUME IInv, TypeOK', OneReceiver', NEW e \in Endpoints, NEW r \in Receivers, AddTo(e, r)
  PROVE  IInv'
<1>1. TypeOK
  BY DEF IInv
<1>2. Deaf(r) \in BOOLEAN /\ IsConnected(r) \in BOOLEAN
  BY <1>1, SideType
<1>3. /\ listed' = IF Deaf(r) THEN listed ELSE [listed EXCEPT ![r] = @ \cup {e}]
      /\ sockets' = [sockets EXCEPT ![r][Side(r)] =
                        IF ~Deaf(r) /\ IsConnected(r) THEN @ \cup ({e} \ BadEndpoints) ELSE @]
      /\ refused => refused'
      /\ UNCHANGED <<connected, threaded, thread, started>>
  BY DEF AddTo, threads, traffic
<1> DEFINE L == IF Deaf(r) THEN listed[r] ELSE listed[r] \cup {e}
           S == IF ~Deaf(r) /\ IsConnected(r) THEN sockets[r][Side(r)] \cup ({e} \ BadEndpoints)
                ELSE sockets[r][Side(r)]
<1>4. listed' = [listed EXCEPT ![r] = L]
  <2>1. listed \in [Receivers -> SUBSET Endpoints]
    BY <1>1 DEF TypeOK
  <2>2. listed = [listed EXCEPT ![r] = listed[r]]
    BY <2>1
  <2> QED BY <1>2, <1>3, <2>2
<1>5. sockets' = [sockets EXCEPT ![r][Side(r)] = S]
  BY <1>3
<1>6. ~refused' => S \subseteq IF IsConnected(r) THEN L ELSE {}
  BY <1>2, <1>3, ActedOn
<1> HIDE DEF L, S
<1> QED BY <1>3, <1>4, <1>5, <1>6, OneCallKeeps

LEMMA AddEndpointKeeps ==
  ASSUME IInv, NEW e \in Endpoints, AddEndpoint(e)
  PROVE  IInv'
<1>1. TypeOK' /\ OneReceiver'
  BY AddEndpointType, NextDisjoint DEF IInv, Next
<1>2. LeastLoaded \in Receivers
  BY LeastLoadedIsLeast DEF IInv, TypeOK
<1>3. PICK r \in Receivers : AddTo(e, r)
  BY <1>2 DEF AddEndpoint
<1> QED BY <1>1, <1>3, AddToKeeps

LEMMA RemoveEndpointKeeps ==
  ASSUME IInv, NEW e \in Endpoints, RemoveEndpoint(e)
  PROVE  IInv'
<1> DEFINE r == ReceiverOf(e)
<1>1. TypeOK' /\ OneReceiver'
  BY RemoveEndpointType, NextDisjoint DEF IInv, Next
<1>2. /\ IsListed(e)
      /\ listed' = IF Deaf(r) THEN listed ELSE [listed EXCEPT ![r] = @ \ {e}]
      /\ sockets' = [sockets EXCEPT ![r][Side(r)] =
                        IF ~Deaf(r) /\ IsConnected(r) THEN @ \ {e} ELSE @]
      /\ UNCHANGED <<connected, refused, threaded, thread, started>>
  BY DEF RemoveEndpoint, threads, traffic
<1>3. r \in Receivers
  BY <1>2, ReceiverOfLists
<1> HIDE DEF r
<1>4. TypeOK
  BY DEF IInv
<1>5. Deaf(r) \in BOOLEAN /\ IsConnected(r) \in BOOLEAN
  BY <1>3, <1>4, SideType
<1> DEFINE L == IF Deaf(r) THEN listed[r] ELSE listed[r] \ {e}
           S == IF ~Deaf(r) /\ IsConnected(r) THEN sockets[r][Side(r)] \ {e}
                ELSE sockets[r][Side(r)]
<1>6. listed' = [listed EXCEPT ![r] = L]
  BY <1>2, <1>3, <1>4 DEF TypeOK
<1>7. sockets' = [sockets EXCEPT ![r][Side(r)] = S]
  BY <1>2
<1>8. ~refused' => S \subseteq IF IsConnected(r) THEN L ELSE {}
  BY <1>2, <1>3, <1>5, ActedOn
<1> HIDE DEF L, S
<1> QED BY <1>1, <1>2, <1>3, <1>6, <1>7, <1>8, OneCallKeeps

\* Starting threads connects nothing; from then on calls act on the listeners.
LEMMA SpawnKeeps ==
  ASSUME IInv, TypeOK', OneReceiver', NEW S \in SUBSET Receivers, Spawn(S),
         \A r \in Receivers : r \in S \/ threaded[r]
  PROVE  IInv'
<1>1. \A r \in Receivers : threaded'[r] = TRUE
  BY DEF Spawn
<1>2. UNCHANGED <<listed, connected, sockets, refused>>
  BY DEF Spawn, lists
<1>3. Together' /\ ModeOK'
  BY <1>1 DEF Together, ModeOK
<1>4. SocketsOK' /\ OwnOK'
  BY <1>1, <1>2 DEF IInv, SocketsOK, OwnOK, Disjoint
<1> QED BY <1>3, <1>4 DEF IInv

LEMMA StartKeeps ==
  ASSUME IInv, Start
  PROVE  IInv'
<1>1. TypeOK' /\ OneReceiver'
  BY StartType, NextDisjoint DEF IInv, Next
<1>2. \A r \in Receivers : r \in Receivers \ started \/ threaded[r]
  BY DEF IInv, ModeOK
<1> QED BY <1>1, <1>2, SpawnKeeps DEF Start

LEMMA ForkKeeps ==
  ASSUME IInv, Fork
  PROVE  IInv'
<1>1. TypeOK' /\ OneReceiver'
  BY ForkType, NextDisjoint DEF IInv, Next
<1> QED BY <1>1, SpawnKeeps DEF Fork

\* A listener is connected to what its receiver lists, or to nothing.
LEMMA SetListenerKeeps ==
  ASSUME IInv, TypeOK', OneReceiver', NEW r \in Receivers, thread[r] \in Alive, NEW state,
         NEW c \in BOOLEAN, NEW S, SetListener(r, state, c, S),
         S \subseteq IF c THEN listed[r] ELSE {}
  PROVE  IInv'
<1>1. TypeOK
  BY DEF IInv
<1>2. threaded[r] /\ \A q \in Receivers : threaded[q]
  BY DEF IInv, ModeOK, Together, TypeOK
<1>3. Together' /\ ModeOK'
  BY <1>2 DEF SetListener, Together, ModeOK
<1>4. ASSUME NEW q \in Receivers
      PROVE  /\ sockets'[q]["own"] = sockets[q]["own"]
             /\ sockets'[q]["listener"] = IF q = r THEN S ELSE sockets[q]["listener"]
             /\ connected'[q]["listener"] = IF q = r THEN c ELSE connected[q]["listener"]
  BY <1>1 DEF SetListener, TypeOK
<1>5. SocketsOK'
  BY <1>2, <1>4 DEF SetListener, IInv, SocketsOK
<1>6. OwnOK'
  BY <1>4 DEF SetListener, IInv, OwnOK, Disjoint
<1> QED BY <1>3, <1>5, <1>6 DEF IInv

LEMMA ListenerKeeps ==
  ASSUME IInv, NEW r \in Receivers, Begin(r) \/ End(r)
  PROVE  IInv'
<1>1. TypeOK' /\ OneReceiver'
  <2>1. Next
    BY DEF Next
  <2> QED BY <2>1, NextType, NextDisjoint DEF IInv
<1>2. thread[r] \in Alive
  BY DEF Begin, End
<1>3. \/ SetListener(r, "running", TRUE, listed[r])
      \/ SetListener(r, "err", FALSE, {})
      \/ SetListener(r, "ok", FALSE, {})
  BY DEF Begin, End
<1> QED BY <1>1, <1>2, <1>3, SetListenerKeeps

\* Joining and messages connect nothing.
LEMMA OthersKeep ==
  ASSUME IInv, \/ Stop \/ JoinNext \/ Get \/ (\E e \in Sources : Publish(e))
               \/ UNCHANGED vars
  PROVE  IInv'
<1>1. TypeOK' /\ OneReceiver'
  BY NextType, NextDisjoint DEF IInv, Next
<1>2. UNCHANGED <<listed, connected, sockets, refused, threaded, started>>
  BY DEF Stop, StopInterrupting, JoinNext, Get, Take, Publish, vars, lists, threads, traffic
<1>3. \A r \in Receivers : thread'[r] = thread[r] \/ thread'[r] = "none"
  BY DEF IInv, TypeOK, Stop, StopInterrupting, JoinNext, Get, Take, Publish, vars, threads
<1>4. Together' /\ ModeOK'
  BY <1>2, <1>3 DEF IInv, Together, ModeOK
<1>5. SocketsOK' /\ OwnOK'
  BY <1>2 DEF IInv, SocketsOK, OwnOK, Disjoint
<1> QED BY <1>1, <1>4, <1>5 DEF IInv

LEMMA NextIInv ==
  ASSUME IInv, [Next]_vars
  PROVE  IInv'
BY ConnectKeeps, DisconnectKeeps, AddEndpointKeeps, RemoveEndpointKeeps, StartKeeps, ForkKeeps,
   ListenerKeeps, OthersKeep DEF Next

\* No source is connected to by two of the pool's receivers, neither by their
\* own objects nor by their listeners, as long as no endpoint refused a
\* connection: whatever is added or removed before or after start and fork, and
\* wherever in a connect or disconnect of the pool a dead listener hangs it.
THEOREM SourcesHaveOneConnection == Spec => []OneConnection
<1>1. IInv => OneConnection
  <2> SUFFICES ASSUME IInv, ~refused, NEW q \in Receivers, NEW r \in Receivers, q # r
               PROVE  /\ sockets[q]["own"] \cap sockets[r]["own"] = {}
                      /\ sockets[q]["listener"] \cap sockets[r]["listener"] = {}
    BY DEF OneConnection, Disjoint
  <2>1. sockets[q]["own"] \cap sockets[r]["own"] = {}
    BY DEF IInv, OwnOK, Disjoint
  <2>2. sockets[q]["listener"] \subseteq listed[q] /\ sockets[r]["listener"] \subseteq listed[r]
    BY DEF IInv, SocketsOK
  <2>3. listed[q] \cap listed[r] = {}
    BY DEF IInv, OneReceiver, Disjoint
  <2> QED BY <2>1, <2>2, <2>3
<1>2. IInv /\ [Next]_vars => IInv'
  BY NextIInv
<1> QED BY InitIInv, <1>1, <1>2, PTL DEF Spec

-----------------------------------------------------------------------------
(* The loads.  new deals the endpoints out like cards: moving each of a     *)
(* receiver's positions, but the first, back by one round reaches different *)
(* positions of any other receiver.                                        *)

LEMMA MultiplesApart ==
  ASSUME NEW d \in Int
  PROVE  (d >= 1 => N * d >= N) /\ (d <= -1 => N * d <= -N)
BY ReceiversAssumption

LEMMA Quotient ==
  ASSUME NEW k \in Nat
  PROVE  k = N * (k \div N) + (k % N) /\ k \div N \in Int /\ k % N \in 0 .. N - 1
BY ReceiversAssumption

LEMMA SameRemainder ==
  ASSUME NEW a \in Int, NEW b \in Int, NEW c \in 0 .. N - 1, NEW d \in 0 .. N - 1,
         N * a + c = N * b + d
  PROVE  c = d
<1>1. N * (a - b) = d - c /\ a - b \in Int
  BY ReceiversAssumption
<1>2. a - b = 0
  BY <1>1, MultiplesApart, ReceiversAssumption
<1>3. a = b
  BY <1>2
<1> QED BY <1>3, ReceiversAssumption

\* A position after the first of a receiver's is a round or more later.
LEMMA RoundLater ==
  ASSUME NEW q \in Receivers, NEW k \in Nat, k > q, k % N = q % N
  PROVE  k >= q + N
<1>1. q \in Nat
  BY ReceiversAssumption
<1> DEFINE d == k \div N - q \div N
<1>2. k - q = N * d /\ d \in Int
  BY <1>1, Quotient, ReceiversAssumption
<1>3. d >= 1
  <2>1. CASE d = 0
    BY <1>1, <1>2, <2>1, ReceiversAssumption
  <2>2. CASE d <= -1
    BY <1>1, <1>2, <2>2, MultiplesApart, ReceiversAssumption
  <2> QED BY <1>2, <2>1, <2>2
<1> HIDE DEF d
<1> QED BY <1>1, <1>2, <1>3, MultiplesApart, ReceiversAssumption

\* A round earlier, as far from r as it was from q.
LEMMA RoundEarlier ==
  ASSUME NEW q \in Receivers, NEW r \in Receivers, NEW k \in Nat, k > q, k % N = q % N
  PROVE  /\ k + r - q - N \in 1 .. k
         /\ (k + r - q - N) % N = r % N
<1> DEFINE m == k + r - q - N
<1>1. q \in Nat /\ r \in Nat /\ N \in Nat
  BY ReceiversAssumption
<1>2. m \in 1 .. k
  BY <1>1, RoundLater
<1>3. /\ k = N * (k \div N) + (k % N) /\ k \div N \in Int
      /\ q = N * (q \div N) + (q % N) /\ q \div N \in Int
      /\ r = N * (r \div N) + (r % N) /\ r \div N \in Int /\ r % N \in 0 .. N - 1
      /\ m = N * (m \div N) + (m % N) /\ m \div N \in Int /\ m % N \in 0 .. N - 1
  BY <1>1, <1>2, Quotient
<1>4. k - q = N * (k \div N) - N * (q \div N)
  BY <1>1, <1>3
<1> DEFINE b == (r \div N) + (k \div N) - (q \div N) - 1
<1>5. N * b = N * (r \div N) + N * (k \div N) - N * (q \div N) - N /\ b \in Int
  BY <1>1, <1>3
<1>6. N * (m \div N) + (m % N) = N * b + (r % N)
  BY <1>1, <1>3, <1>4, <1>5
<1>7. m % N = r % N
  BY <1>3, <1>5, <1>6, SameRemainder
<1> QED BY <1>2, <1>7

LEMMA DealtOut ==
  ASSUME NEW s \in DistinctEndpoints, listed = ShareOut(s),
         listed \in [Receivers -> SUBSET Endpoints],
         NEW q \in Receivers, NEW r \in Receivers
  PROVE  Load(q) <= Load(r) + 1
<1> DEFINE T == listed[q] \ {s[q]}
           Pos(e) == CHOOSE k \in 1 .. Len(s) : s[k] = e
           f == [e \in T |-> s[Pos(e) + r - q - N]]
<1>1. Len(s) \in Nat
  <2>1. PICK n \in Nat : s \in [1 .. n -> Endpoints]
    BY EndpointsAssumption, FS_CardinalityType DEF DistinctEndpoints
  <2> QED BY <2>1
<1>2. \A i, j \in 1 .. Len(s) : s[i] = s[j] => i = j
  BY DEF DistinctEndpoints
<1>3. ASSUME NEW e \in T
      PROVE  /\ Pos(e) \in 1 .. Len(s) /\ s[Pos(e)] = e
             /\ Pos(e) + r - q - N \in 1 .. Len(s)
             /\ s[Pos(e) + r - q - N] \in listed[r]
  <2>1. PICK k \in 1 .. Len(s) : k % N = q % N /\ e = s[k]
    BY DEF ShareOut
  <2>2. Pos(e) = k
    BY <1>2, <2>1
  <2>3. k # q
    BY <2>1
  <2>4. k > q
    <3>1. CASE k < q
      <4>1. k \in Receivers
        BY <2>1, <3>1, ReceiversAssumption
      <4> QED BY <2>1, <2>3, <4>1, Modulo
    <3> QED BY <1>1, <2>3, <3>1, ReceiversAssumption
  <2> DEFINE m == k + r - q - N
  <2>5. m \in 1 .. k /\ m % N = r % N
    BY <1>1, <2>1, <2>4, RoundEarlier
  <2>6. m \in 1 .. Len(s)
    BY <1>1, <2>5
  <2> HIDE DEF m
  <2>7. s[m] \in listed[r]
    BY <2>5, <2>6 DEF ShareOut
  <2> QED BY <2>1, <2>2, <2>6, <2>7 DEF m
<1> HIDE DEF Pos
<1>4. IsFiniteSet(listed[q]) /\ IsFiniteSet(listed[r])
      /\ Cardinality(listed[q]) \in Nat /\ Cardinality(listed[r]) \in Nat
  BY LoadType DEF Load
<1>5. IsFiniteSet(T) /\ Cardinality(T) \in Nat /\ Cardinality(T) >= Cardinality(listed[q]) - 1
  <2>1. IsFiniteSet(T)
        /\ Cardinality(T) = IF s[q] \in listed[q] THEN Cardinality(listed[q]) - 1
                            ELSE Cardinality(listed[q])
    BY <1>4, FS_RemoveElement
  <2> HIDE DEF T
  <2> QED BY <1>4, <2>1, FS_CardinalityType
<1>6. Cardinality(T) <= Cardinality(listed[r])
  <2>1. f \in [T -> listed[r]]
    BY <1>3
  <2>2. ASSUME NEW x \in T, NEW y \in T, f[x] = f[y] PROVE x = y
    <3>1. s[Pos(x) + r - q - N] = s[Pos(y) + r - q - N]
      BY <2>2
    <3>2. Pos(x) + r - q - N = Pos(y) + r - q - N
      BY <1>2, <1>3, <3>1
    <3>3. Pos(x) = Pos(y)
      BY <1>1, <1>3, <3>2, ReceiversAssumption
    <3> QED BY <1>3, <3>3
  <2> HIDE DEF T, f
  <2> QED BY <1>4, <1>5, <2>1, <2>2, FS_PigeonHole
<1> HIDE DEF T
<1> QED BY <1>4, <1>5, <1>6 DEF Load

\* An endpoint more for the receiver that has fewest.
LEMMA OneMore ==
  ASSUME TypeOK, NEW e \in Endpoints, AddTo(e, LeastLoaded),
         \A q, r \in Receivers : Load(q) <= Load(r) + 1
  PROVE  \A q, r \in Receivers : Load(q)' <= Load(r)' + 1
<1> DEFINE least == LeastLoaded
<1>1. least \in Receivers /\ \A q \in Receivers : Load(least) <= Load(q)
  BY LeastLoadedIsLeast DEF TypeOK
<1>2. listed' = listed \/ listed' = [listed EXCEPT ![least] = @ \cup {e}]
  BY DEF AddTo
<1> HIDE DEF least
<1>3. \A q \in Receivers : IsFiniteSet(listed[q]) /\ Load(q) \in Nat
  BY LoadType DEF TypeOK
<1>4. CASE listed' = listed
  BY <1>4 DEF Load
<1>5. CASE listed' = [listed EXCEPT ![least] = @ \cup {e}]
  <2>1. \A q \in Receivers : listed'[q] = IF q = least THEN listed[q] \cup {e} ELSE listed[q]
    BY <1>5 DEF TypeOK
  <2>2. Cardinality(listed[least] \cup {e}) \in {Load(least), Load(least) + 1}
    BY <1>1, <1>3, FS_AddElement DEF Load
  <2>3. \A q \in Receivers : Load(q)' = IF q = least THEN Cardinality(listed[least] \cup {e}) ELSE Load(q)
    BY <2>1 DEF Load
  <2> DEFINE more == Cardinality(listed[least] \cup {e})
  <2> HIDE DEF more
  <2> SUFFICES ASSUME NEW q \in Receivers, NEW r \in Receivers PROVE Load(q)' <= Load(r)' + 1
    OBVIOUS
  <2>4. /\ Load(q)' = IF q = least THEN more ELSE Load(q)
        /\ Load(r)' = IF r = least THEN more ELSE Load(r)
        /\ more = Load(least) \/ more = Load(least) + 1
    BY <2>2, <2>3 DEF more
  <2>5. Load(q) <= Load(r) + 1 /\ Load(least) <= Load(r) /\ Load(q) <= Load(least) + 1
        /\ Load(q) \in Nat /\ Load(r) \in Nat /\ Load(least) \in Nat
    BY <1>1, <1>3
  <2> QED BY <2>4, <2>5
<1> QED BY <1>2, <1>4, <1>5

\* "Endpoints are automatically distributed to the threads" (pool.rs:26): as
\* long as none is removed or placed by hand, no receiver has more than one
\* endpoint more than another, however many endpoints new was given and
\* add_endpoint added, refused connections and dead listeners included.
THEOREM PoolIsBalanced == Spec => []Balanced
<1>1. Init => Balanced
  <2> SUFFICES ASSUME Init, ~skewed PROVE \A q, r \in Receivers : Load(q) <= Load(r) + 1
    BY DEF Balanced
  <2>1. PICK s \in DistinctEndpoints : listed = ShareOut(s)
    BY DEF Init
  <2>2. listed \in [Receivers -> SUBSET Endpoints]
    BY InitType DEF TypeOK
  <2> QED BY <2>1, <2>2, DealtOut
<1>2. TypeOK /\ Balanced /\ [Next]_vars => Balanced'
  <2> SUFFICES ASSUME TypeOK, Balanced, [Next]_vars PROVE Balanced'
    OBVIOUS
  <2>1. CASE UNCHANGED <<listed, skewed>>
    BY <2>1 DEF Balanced, Load
  <2>2. ASSUME NEW e \in Endpoints, AddEndpoint(e) PROVE Balanced'
    <3>1. CASE AddTo(e, LeastLoaded) /\ UNCHANGED skewed
      <4> SUFFICES ASSUME ~skewed PROVE \A q, r \in Receivers : Load(q)' <= Load(r)' + 1
        BY <3>1 DEF Balanced
      <4> QED BY <3>1, OneMore DEF Balanced
    <3>2. CASE skewed' = TRUE
      BY <3>2 DEF Balanced
    <3> QED BY <2>2, <3>1, <3>2 DEF AddEndpoint
  <2>3. ASSUME NEW e \in Endpoints, RemoveEndpoint(e) PROVE Balanced'
    BY <2>3 DEF RemoveEndpoint, Balanced
  <2> QED BY <2>1, <2>2, <2>3 DEF Next, vars, lists, Connect, Disconnect, Publish, Start, Fork,
             Spawn, Stop, StopInterrupting, JoinNext, Get, Take, Begin, End, SetListener
<1> QED BY TypeCorrect, <1>1, <1>2, PTL DEF Spec

-----------------------------------------------------------------------------
(* The order of messages.                                                  *)

\* start leaves no receiver without a queue.
AllOrNone == started = {} \/ started = Receivers

Holds(r, i, e) == i \in 1 .. Len(fifo[r]) /\ fifo[r][i].endpoint = e

\* The number handed over handed, and that they were handed over in order.
Latest(s) == IF s = <<>> THEN 0 ELSE s[Len(s)]
Rising(s) == \A i, j \in 1 .. Len(s) : i < j => s[i] < s[j]

LastOf(e) == Latest(handed[e])

\* No message is handed over or held before it is sent.
Numbered ==
    \A e \in Sources :
        /\ LastOf(e) <= sent[e]
        /\ \A r \in Receivers, i \in Nat : Holds(r, i, e) => fifo[r][i].n <= sent[e]

\* What is held of a source was not handed over yet, nor anything sent later.
Ahead(e) == \A r \in Receivers, i \in Nat : Holds(r, i, e) => fifo[r][i].n > LastOf(e)

\* A queue holds a source's messages in the order they were sent.
Within(e) ==
    \A r \in Receivers, i, j \in Nat :
        Holds(r, i, e) /\ Holds(r, j, e) /\ i < j => fifo[r][i].n < fifo[r][j].n

\* So do the queues taken together, in the order get looks at them.
Across(e) ==
    \A q, r \in Receivers, i, j \in Nat :
        Holds(q, i, e) /\ Holds(r, j, e) /\ q < r => fifo[q][i].n < fifo[r][j].n

\* What a receiver gets from now on is not looked at before what others hold.
Behind(e) ==
    \A q, r \in Receivers, i \in Nat : e \in listed[r] /\ q > r => ~Holds(q, i, e)

InOrder(e) == Rising(handed[e]) /\ Ahead(e) /\ Within(e) /\ Across(e) /\ Behind(e)

QueuesOK == AllOrNone /\ Numbered /\ (~refused => \A e \in Sources \ overtaken : InOrder(e))

LEMMA LatestIsNat ==
  ASSUME NEW s \in Seq(1 .. MaxSent)
  PROVE  Latest(s) \in Nat
<1>1. Len(s) \in Nat /\ \A i \in 1 .. Len(s) : s[i] \in Nat
  BY BoundsAssumption
<1>2. s # <<>> => Len(s) \in 1 .. Len(s)
  BY <1>1
<1> QED BY <1>1, <1>2 DEF Latest

LEMMA LastOfIsNat ==
  ASSUME TypeOK
  PROVE  \A e \in Sources : handed[e] \in Seq(1 .. MaxSent) /\ LastOf(e) \in Nat /\ sent[e] \in Nat
<1>1. \A e \in Sources : handed[e] \in Seq(1 .. MaxSent) /\ sent[e] \in Nat
  BY BoundsAssumption DEF TypeOK
<1> QED BY <1>1, LatestIsNat DEF LastOf

\* What is handed over next is in order if it was sent later.
LEMMA RisingOn ==
  ASSUME NEW s \in Seq(1 .. MaxSent), NEW n \in 1 .. MaxSent
  PROVE  /\ Latest(Append(s, n)) = n
         /\ Rising(s) /\ n > Latest(s) => Rising(Append(s, n))
<1>1. Len(s) \in Nat /\ \A i \in 1 .. Len(s) : s[i] \in Nat
  BY BoundsAssumption
<1>3. PICK t : t = Append(s, n)
  OBVIOUS
<1>4. /\ Len(t) = Len(s) + 1 /\ t[Len(s) + 1] = n /\ t # <<>>
      /\ \A i \in 1 .. Len(s) : t[i] = s[i]
  BY <1>3
<1>5. Latest(t) = n
  BY <1>1, <1>4 DEF Latest
<1>6. ASSUME Rising(s), n > Latest(s) PROVE Rising(t)
  <2> SUFFICES ASSUME NEW i \in 1 .. Len(t), NEW j \in 1 .. Len(t), i < j PROVE t[i] < t[j]
    BY DEF Rising
  <2>1. i \in 1 .. Len(s) /\ t[i] = s[i] /\ s[i] \in Nat
    BY <1>1, <1>4
  <2>2. CASE j \in 1 .. Len(s)
    BY <1>4, <1>6, <2>1, <2>2 DEF Rising
  <2>3. CASE j = Len(s) + 1
    <3>1. s # <<>> /\ Len(s) \in 1 .. Len(s)
      BY <1>1, <2>1
    <3>2. i = Len(s) \/ i < Len(s)
      BY <1>1, <2>1
    <3>3. s[i] <= s[Len(s)] /\ s[Len(s)] = Latest(s) /\ s[Len(s)] \in Nat
      BY <1>1, <1>6, <2>1, <3>1, <3>2 DEF Rising, Latest
    <3> QED BY <1>4, <1>6, <2>1, <2>3, <3>3
  <2> QED BY <1>1, <1>4, <2>2, <2>3
<1> QED BY <1>3, <1>5, <1>6

\* Calls that neither add to a queue nor take from one.
LEMMA QueuesLeftAlone ==
  ASSUME QueuesOK, UNCHANGED <<fifo, handed, sent>>, started' \in {started, Receivers},
         refused => refused', overtaken \subseteq overtaken',
         \A e \in Sources \ overtaken', r \in Receivers :
            e \in listed'[r] => e \in listed[r] \/ ~HeldBehind(e, r)
  PROVE  QueuesOK'
<1>1. AllOrNone' /\ Numbered'
  BY DEF QueuesOK, AllOrNone, Numbered, Holds, LastOf
<1>2. ASSUME ~refused', NEW e \in Sources \ overtaken' PROVE InOrder(e)'
  <2>1. InOrder(e)
    BY <1>2 DEF QueuesOK
  <2>2. Rising(handed[e])' /\ Ahead(e)' /\ Within(e)' /\ Across(e)'
    BY <2>1 DEF InOrder, Ahead, Within, Across, Holds, LastOf, Rising
  <2>3. Behind(e)'
    BY <2>1 DEF InOrder, Behind, Holds, HeldBehind
  <2> QED BY <2>2, <2>3 DEF InOrder
<1> QED BY <1>1, <1>2 DEF QueuesOK

LEMMA InitQueues == Init => QueuesOK
<1> SUFFICES ASSUME Init PROVE QueuesOK
  OBVIOUS
<1>1. \A r \in Receivers, i \in Nat : \A e : ~Holds(r, i, e)
  BY DEF Init, Holds
<1>2. AllOrNone
  BY DEF Init, AllOrNone
<1>3. \A e \in Sources : LastOf(e) <= sent[e] /\ Rising(handed[e])
  BY DEF Init, LastOf, Latest, Rising
<1> QED BY <1>1, <1>2, <1>3 DEF QueuesOK, Numbered, InOrder, Ahead, Within, Across, Behind

LEMMA AddEndpointQueues ==
  ASSUME TypeOK, QueuesOK, NEW a \in Endpoints, AddEndpoint(a)
  PROVE  QueuesOK'
<1>1. LeastLoaded \in Receivers
  BY LeastLoadedIsLeast DEF TypeOK
<1>2. PICK r \in Receivers : AddTo(a, r)
  BY <1>1 DEF AddEndpoint
<1>3. /\ listed' = IF Deaf(r) THEN listed ELSE [listed EXCEPT ![r] = @ \cup {a}]
      /\ overtaken' = IF HeldBehind(a, r) THEN overtaken \cup {a} ELSE overtaken
      /\ refused => refused'
      /\ UNCHANGED <<started, fifo, sent, handed>>
  BY <1>2 DEF AddTo, traffic
<1>4. ASSUME NEW e \in Sources \ overtaken', NEW q \in Receivers, e \in listed'[q]
      PROVE  e \in listed[q] \/ ~HeldBehind(e, q)
  <2>1. e \in listed[q] \/ (q = r /\ e = a)
    BY <1>3, <1>4 DEF TypeOK
  <2> QED BY <1>3, <2>1
<1> QED BY <1>3, <1>4, QueuesLeftAlone

LEMMA RemoveEndpointQueues ==
  ASSUME TypeOK, QueuesOK, NEW a \in Endpoints, RemoveEndpoint(a)
  PROVE  QueuesOK'
<1> DEFINE r == ReceiverOf(a)
<1>1. /\ listed' = IF Deaf(r) THEN listed ELSE [listed EXCEPT ![r] = @ \ {a}]
      /\ UNCHANGED <<started, fifo, sent, handed, refused, overtaken>>
  BY DEF RemoveEndpoint, traffic
<1> HIDE DEF r
<1>2. \A q \in Receivers : listed'[q] \subseteq listed[q]
  BY <1>1 DEF TypeOK
<1> QED BY <1>1, <1>2, QueuesLeftAlone

LEMMA HeldNumber ==
  ASSUME TypeOK
  PROVE  \A r \in Receivers, i \in Nat : \A e : Holds(r, i, e) => fifo[r][i].n \in Nat
<1> SUFFICES ASSUME NEW r \in Receivers, NEW i \in 1 .. Len(fifo[r]) PROVE fifo[r][i].n \in Nat
  BY DEF Holds
<1>1. fifo[r] \in Seq(Messages)
  BY DEF TypeOK
<1>2. fifo[r][i] \in Messages
  BY <1>1
<1> QED BY <1>2 DEF Messages

\* Where each message of a queue was before the step, and that a new one is the
\* last of the only queue that can be given messages of its source.
LEMMA InOrderShifted ==
  ASSUME TypeOK, OneReceiver, Numbered, NEW e \in Sources, InOrder(e), UNCHANGED listed,
         fifo' \in [Receivers -> Seq(Messages)],
         NEW shift \in [Receivers -> {0, 1}],
         \A r \in Receivers, i \in Nat : Holds(r, i, e)' =>
            \/ Holds(r, i + shift[r], e) /\ fifo'[r][i] = fifo[r][i + shift[r]]
            \/ i = Len(fifo'[r]) /\ e \in listed[r] /\ fifo'[r][i].n = sent[e] + 1
  PROVE  Within(e)' /\ Across(e)' /\ Behind(e)'
<1> DEFINE Old(r, i) == Holds(r, i + shift[r], e) /\ fifo'[r][i] = fifo[r][i + shift[r]]
           New(r, i) == i = Len(fifo'[r]) /\ e \in listed[r] /\ fifo'[r][i].n = sent[e] + 1
<1>1. \A r \in Receivers, i \in Nat : Holds(r, i, e)' => Old(r, i) \/ New(r, i)
  OBVIOUS
<1>2. sent[e] \in Nat /\ \A r \in Receivers : r \in Nat /\ shift[r] \in Nat
  <2>1. sent[e] \in Nat
    BY BoundsAssumption DEF TypeOK
  <2>2. \A r \in Receivers : r \in Nat
    BY ReceiversAssumption
  <2>3. \A r \in Receivers : shift[r] \in {0, 1}
    OBVIOUS
  <2> QED BY <2>1, <2>2, <2>3
<1>3. \A r \in Receivers, i \in Nat : Holds(r, i, e) => fifo[r][i].n \in Nat /\ fifo[r][i].n <= sent[e]
  BY HeldNumber DEF Numbered
<1>4. \A r \in Receivers, i \in Nat : Old(r, i) =>
         /\ i + shift[r] \in Nat
         /\ fifo'[r][i].n = fifo[r][i + shift[r]].n
         /\ fifo'[r][i].n \in Nat /\ fifo'[r][i].n <= sent[e]
  BY <1>2, <1>3
<1>5. Within(e)'
  <2> SUFFICES ASSUME NEW r \in Receivers, NEW i \in Nat, NEW j \in Nat,
                      Holds(r, i, e)', Holds(r, j, e)', i < j
               PROVE  fifo'[r][i].n < fifo'[r][j].n
    BY DEF Within
  <2>1. j <= Len(fifo'[r]) /\ Len(fifo'[r]) \in Nat
    BY DEF Holds
  <2>2. Old(r, i)
    BY <1>1, <2>1
  <2>3. CASE Old(r, j)
    <3>1. Holds(r, i + shift[r], e) /\ Holds(r, j + shift[r], e)
          /\ fifo'[r][i].n = fifo[r][i + shift[r]].n /\ fifo'[r][j].n = fifo[r][j + shift[r]].n
      BY <2>2, <2>3
    <3>2. i + shift[r] \in Nat /\ j + shift[r] \in Nat /\ i + shift[r] < j + shift[r]
      BY <1>2
    <3> QED BY <3>1, <3>2 DEF InOrder, Within
  <2>4. CASE New(r, j)
    BY <1>2, <1>4, <2>2, <2>4
  <2> HIDE DEF Old, New
  <2> QED BY <1>1, <2>3, <2>4
<1>6. Across(e)'
  <2> SUFFICES ASSUME NEW q \in Receivers, NEW r \in Receivers, NEW i \in Nat, NEW j \in Nat,
                      Holds(q, i, e)', Holds(r, j, e)', q < r
               PROVE  fifo'[q][i].n < fifo'[r][j].n
    BY DEF Across
  <2>1. CASE Old(q, i) /\ Old(r, j)
    <3>1. Holds(q, i + shift[q], e) /\ Holds(r, j + shift[r], e)
          /\ fifo'[q][i].n = fifo[q][i + shift[q]].n /\ fifo'[r][j].n = fifo[r][j + shift[r]].n
      BY <2>1
    <3>2. i + shift[q] \in Nat /\ j + shift[r] \in Nat
      BY <1>2
    <3> QED BY <3>1, <3>2 DEF InOrder, Across
  <2>2. CASE Old(q, i) /\ New(r, j)
    BY <1>2, <1>4, <2>2
  <2>3. CASE New(q, i) /\ Old(r, j)
    <3>1. e \in listed[q] /\ r > q /\ Holds(r, j + shift[r], e) /\ j + shift[r] \in Nat
      BY <1>2, <2>3
    <3> QED BY <3>1 DEF InOrder, Behind
  <2>4. CASE New(q, i) /\ New(r, j)
    <3>1. e \in listed[q] \cap listed[r] /\ q # r
      BY <1>2, <2>4
    <3> QED BY <3>1 DEF OneReceiver, Disjoint
  <2> HIDE DEF Old, New
  <2> QED BY <1>1, <2>1, <2>2, <2>3, <2>4
<1>7. Behind(e)'
  <2> SUFFICES ASSUME NEW q \in Receivers, NEW r \in Receivers, NEW i \in Nat,
                      e \in listed[r], q > r, Holds(q, i, e)'
               PROVE  FALSE
    BY DEF Behind
  <2>1. CASE Old(q, i)
    <3>1. Holds(q, i + shift[q], e) /\ i + shift[q] \in Nat
      BY <1>2, <2>1
    <3> QED BY <3>1 DEF InOrder, Behind
  <2>2. CASE New(q, i)
    <3>1. e \in listed[q] \cap listed[r] /\ q # r
      BY <1>2, <2>2
    <3> QED BY <3>1 DEF OneReceiver, Disjoint
  <2> HIDE DEF Old, New
  <2> QED BY <1>1, <2>1, <2>2
<1> QED BY <1>5, <1>6, <1>7

\* A message that is put in a queue comes last; the others are where they were,
\* or one place further to the front.
LEMMA PushedIs ==
  ASSUME NEW q \in Seq(Messages), NEW m \in Messages,
         NEW d, d = IF Len(q) >= BufferSize THEN 1 ELSE 0,
         NEW i \in 1 .. Len(Pushed(q, m))
  PROVE  \/ i = Len(Pushed(q, m)) /\ Pushed(q, m)[i] = m
         \/ i + d \in 1 .. Len(q) /\ Pushed(q, m)[i] = q[i + d]
<1>1. CASE Len(q) >= BufferSize
  <2>1. q # <<>>
    BY <1>1, BoundsAssumption
  <2>2. Tail(q) \in Seq(Messages) /\ Len(Tail(q)) = Len(q) - 1
        /\ \A k \in 1 .. Len(q) - 1 : Tail(q)[k] = q[k + 1]
    BY <2>1
  <2>3. Pushed(q, m) = Append(Tail(q), m)
    BY <1>1 DEF Pushed
  <2>4. PICK t \in Seq(Messages) : t = Tail(q)
    BY <2>2
  <2>5. /\ Len(Pushed(q, m)) = Len(t) + 1 /\ Len(t) \in Nat /\ Len(q) \in Nat
        /\ Pushed(q, m)[Len(t) + 1] = m
        /\ \A k \in 1 .. Len(t) : Pushed(q, m)[k] = t[k]
    BY <2>3, <2>4
  <2>6. i \in 1 .. Len(t) + 1
    BY <2>5
  <2>7. CASE i = Len(t) + 1
    BY <2>5, <2>7
  <2>8. CASE i \in 1 .. Len(t)
    <3>1. i + 1 \in 1 .. Len(q) /\ t[i] = q[i + 1]
      BY <2>2, <2>4, <2>5, <2>8
    <3>2. Pushed(q, m)[i] = t[i]
      BY <2>5, <2>8
    <3> QED BY <1>1, <3>1, <3>2
  <2> QED BY <2>5, <2>6, <2>7, <2>8
<1>2. CASE ~(Len(q) >= BufferSize)
  <2>1. Pushed(q, m) = Append(q, m)
    BY <1>2 DEF Pushed
  <2> QED BY <1>2, <2>1
<1> QED BY <1>1, <1>2

\* A listener's source is listed by its receiver.
LEMMA ReceivingLists ==
  ASSUME IInv, ~refused, NEW e, NEW r \in Receiving(e)
  PROVE  r \in Receivers /\ e \in listed[r]
BY DEF IInv, SocketsOK, Receiving

\* A source has one listener, so that its message is handed over once, and only
\* if it is not put in a queue.
LEMMA HandedOnce ==
  ASSUME IInv, NEW a \in Sources, Publish(a)
  PROVE  /\ LastOf(a)' \in {LastOf(a), sent[a] + 1}
         /\ ~refused => handed'[a] \in {handed[a], Append(handed[a], sent[a] + 1)}
         /\ \A e \in Sources \ {a} : handed'[e] = handed[e]
         /\ started = Receivers => handed' = handed
<1>0. TypeOK
  BY DEF IInv
<1>1. PICK k \in Nat :
         /\ k = Cardinality(Receiving(a) \ started)
         /\ handed' = [handed EXCEPT ![a] = @ \o [i \in 1 .. k |-> sent[a] + 1]]
         /\ handed' \in [Sources -> Seq(1 .. MaxSent)]
         /\ handed[a] \in Seq(1 .. MaxSent) /\ sent[a] + 1 \in 1 .. MaxSent
  BY <1>0, HandedCopies
<1>2. PICK s \in Seq(1 .. MaxSent), n \in 1 .. MaxSent : s = handed[a] /\ n = sent[a] + 1
  BY <1>1
<1>3. PICK t : t = [i \in 1 .. k |-> n]
  OBVIOUS
<1>4. t \in Seq(1 .. MaxSent) /\ Len(t) = k /\ \A i \in 1 .. k : t[i] = n
  BY <1>3
<1>5. DOMAIN handed = Sources
  BY <1>0 DEF TypeOK
<1>6. handed'[a] = s \o t /\ \A e \in Sources \ {a} : handed'[e] = handed[e]
  BY <1>1, <1>2, <1>3, <1>5
<1>7. s \o t \in Seq(1 .. MaxSent) /\ Len(s \o t) = Len(s) + k /\ Len(s) \in Nat
      /\ \A i \in 1 .. Len(s) + k : (s \o t)[i] = IF i <= Len(s) THEN s[i] ELSE t[i - Len(s)]
  BY <1>4
<1>8. k = 0 => s \o t = s
  <2>1. k = 0 => t = <<>>
    BY <1>3
  <2> QED BY <2>1
<1>9. Latest(s \o t) \in {Latest(s), n}
  <2>1. CASE k = 0
    BY <1>8, <2>1
  <2>2. CASE k > 0
    <3>1. Len(s) + k \in 1 .. Len(s) + k /\ ~(Len(s) + k <= Len(s)) /\ Len(s) + k - Len(s) = k
          /\ k \in 1 .. k
      BY <1>7, <2>2
    <3>2. (s \o t)[Len(s) + k] = n
      BY <1>4, <1>7, <3>1
    <3>3. s \o t # <<>>
      BY <1>7, <2>2
    <3> QED BY <1>7, <3>2, <3>3 DEF Latest
  <2> QED BY <2>1, <2>2
<1>10. ASSUME ~refused PROVE s \o t \in {s, Append(s, n)}
  <2>1. \A q, r \in Receiving(a) : q = r
    BY <1>10, ReceivingLists DEF IInv, OneReceiver, Disjoint
  <2>2. k \in {0, 1}
    <3>1. CASE Receiving(a) \ started = {}
      BY <1>1, <3>1, FS_EmptySet
    <3>2. CASE Receiving(a) \ started # {}
      <4>1. PICK r : Receiving(a) \ started = {r}
        BY <2>1, <3>2
      <4> QED BY <1>1, <4>1, FS_Singleton
    <3> QED BY <3>1, <3>2
  <2>3. CASE k = 1
    <3>1. /\ Append(s, n) \in Seq(1 .. MaxSent) /\ Len(Append(s, n)) = Len(s) + 1
          /\ \A i \in 1 .. Len(s) + 1 : Append(s, n)[i] = IF i <= Len(s) THEN s[i] ELSE n
      OBVIOUS
    <3>2. \A i \in 1 .. Len(s) + 1 : (s \o t)[i] = Append(s, n)[i]
      <4>1. \A i \in 1 .. Len(s) + 1 : ~(i <= Len(s)) => i - Len(s) = 1
        BY <1>7
      <4>2. t[1] = n
        BY <1>4, <2>3
      <4> QED BY <1>7, <2>3, <3>1, <4>1, <4>2
    <3> QED BY <1>7, <2>3, <3>1, <3>2, SeqEqual
  <2> QED BY <1>8, <2>2, <2>3
<1>11. started = Receivers => k = 0
  <2> SUFFICES ASSUME started = Receivers PROVE k = 0
    OBVIOUS
  <2>1. Receiving(a) \ started = {}
    BY DEF Receiving
  <2> QED BY <1>1, <2>1, FS_EmptySet
<1>12. started = Receivers => handed' = handed
  <2> SUFFICES ASSUME started = Receivers PROVE handed' = handed
    OBVIOUS
  <2>1. \A e \in Sources : handed'[e] = handed[e]
    BY <1>2, <1>6, <1>8, <1>11
  <2>2. handed \in [Sources -> Seq(1 .. MaxSent)]
    BY <1>0 DEF TypeOK
  <2> QED BY <1>1, <2>1, <2>2
<1>13. LastOf(a)' \in {LastOf(a), sent[a] + 1}
  BY <1>2, <1>6, <1>9 DEF LastOf
<1> QED BY <1>2, <1>6, <1>10, <1>12, <1>13

\* Before start the callback is handed the message; no queue holds any.
LEMMA PublishWithoutQueues ==
  ASSUME IInv, QueuesOK, NEW a \in Sources, Publish(a), started = {}
  PROVE  QueuesOK'
<1>0. TypeOK
  BY DEF IInv
<1>1. \A r \in Receivers : fifo'[r] = fifo[r] /\ Len(fifo[r]) = 0
  BY <1>0 DEF TypeOK, Publish
<1>2. \A r \in Receivers, i \in Nat : \A e : ~Holds(r, i, e)'
  BY <1>1 DEF Holds
<1>3. AllOrNone' /\ UNCHANGED <<refused, overtaken>>
  BY DEF Publish, AllOrNone, lists
<1>4. \A e \in Sources : /\ handed[e] \in Seq(1 .. MaxSent) /\ sent[e] \in Nat
                         /\ LastOf(e) \in Nat /\ LastOf(e) <= sent[e]
  BY <1>0, LastOfIsNat DEF QueuesOK, Numbered
<1>5. /\ \A e \in Sources : sent'[e] = IF e = a THEN sent[e] + 1 ELSE sent[e]
      /\ sent[a] + 1 \in 1 .. MaxSent
  BY <1>0, BoundsAssumption DEF Publish, TypeOK
<1>6. \A e \in Sources : (LastOf(e) <= sent[e])'
  <2> SUFFICES ASSUME NEW e \in Sources PROVE LastOf(e)' <= sent'[e]
    OBVIOUS
  <2>1. CASE e = a
    BY <1>4, <1>5, <2>1, HandedOnce
  <2>2. CASE e # a
    BY <1>4, <1>5, <2>2, HandedOnce DEF LastOf
  <2> QED BY <2>1, <2>2
<1>7. ASSUME ~refused', NEW e \in Sources \ overtaken' PROVE Rising(handed'[e])
  <2>1. ~refused /\ Rising(handed[e]) /\ e \in Sources
    BY <1>3, <1>7 DEF QueuesOK, InOrder
  <2>2. CASE e = a
    <3>1. sent[a] + 1 > LastOf(a)
      BY <1>4
    <3>2. handed'[a] \in {handed[a], Append(handed[a], sent[a] + 1)}
      BY <2>1, HandedOnce
    <3> QED BY <1>4, <1>5, <2>1, <2>2, <3>1, <3>2, RisingOn DEF LastOf
  <2>3. CASE e # a
    <3>1. handed'[e] = handed[e]
      BY <2>1, <2>3, HandedOnce
    <3> QED BY <2>1, <3>1
  <2> QED BY <2>2, <2>3
<1>8. \A e : Rising(handed'[e]) => Rising(handed[e])'
  BY DEF Rising
<1> QED BY <1>2, <1>3, <1>6, <1>7, <1>8 DEF QueuesOK, Numbered, InOrder, Ahead, Within, Across, Behind

LEMMA PublishQueues ==
  ASSUME IInv, QueuesOK, NEW a \in Sources, Publish(a)
  PROVE  QueuesOK'
<1> DEFINE m == [endpoint |-> a, n |-> sent[a] + 1]
           to == Receiving(a) \cap started
           shift == [r \in Receivers |-> IF r \in to /\ Len(fifo[r]) >= BufferSize THEN 1 ELSE 0]
<1>1. TypeOK
  BY DEF IInv
<1>2. CASE started = {}
  BY <1>2, PublishWithoutQueues
<1>3. CASE started = Receivers
  <2>1. UNCHANGED <<handed, started, listed, refused, overtaken>>
    BY <1>3, HandedOnce DEF Publish, lists
  <2>2. sent' = [sent EXCEPT ![a] = @ + 1] /\ sent[a] + 1 \in 1 .. MaxSent
    BY <1>1, BoundsAssumption DEF Publish, TypeOK
  <2>3. m \in Messages
    BY <2>2 DEF Messages
  <2>4. fifo' = [r \in Receivers |-> IF r \in to THEN Pushed(fifo[r], m) ELSE fifo[r]]
    BY DEF Publish
  <2>5. m.endpoint = a /\ m.n = sent[a] + 1
    OBVIOUS
  <2>6. to = Receiving(a) \cap started
    OBVIOUS
  <2> HIDE DEF m, to
  <2>7. ASSUME NEW r \in Receivers, NEW i \in 1 .. Len(fifo'[r])
        PROVE  \/ i + shift[r] \in 1 .. Len(fifo[r]) /\ fifo'[r][i] = fifo[r][i + shift[r]]
               \/ i = Len(fifo'[r]) /\ r \in to /\ fifo'[r][i] = m
    <3>1. fifo[r] \in Seq(Messages)
      BY <1>1 DEF TypeOK
    <3>2. CASE r \in to
      <4>1. fifo'[r] = Pushed(fifo[r], m)
        BY <2>4, <3>2
      <4>2. shift[r] = IF Len(fifo[r]) >= BufferSize THEN 1 ELSE 0
        BY <3>2
      <4> QED BY <2>3, <2>7, <3>1, <3>2, <4>1, <4>2, PushedIs
    <3>3. CASE r \notin to
      BY <2>4, <2>7, <3>1, <3>3
    <3> QED BY <3>2, <3>3
  <2>8. shift \in [Receivers -> {0, 1}]
    OBVIOUS
  <2> HIDE DEF shift
  <2>9. ASSUME NEW e \in Sources, NEW r \in Receivers, NEW i \in Nat, Holds(r, i, e)'
        PROVE  \/ Holds(r, i + shift[r], e) /\ fifo'[r][i] = fifo[r][i + shift[r]]
               \/ /\ i = Len(fifo'[r]) /\ r \in Receiving(a)
                  /\ fifo'[r][i].endpoint = a /\ e = a /\ fifo'[r][i].n = sent[a] + 1
    <3>1. i \in 1 .. Len(fifo'[r]) /\ fifo'[r][i].endpoint = e
      BY <2>9 DEF Holds
    <3> QED BY <2>5, <2>6, <2>7, <3>1 DEF Holds
  <2>10. \A e \in Sources : sent[e] \in Nat /\ LastOf(e) \in Nat
    BY <1>1, LastOfIsNat
  <2>11. \A e \in Sources : sent'[e] = IF e = a THEN sent[e] + 1 ELSE sent[e]
    BY <1>1, <2>2 DEF TypeOK
  <2>12. \A r \in Receivers, i \in Nat : i + shift[r] \in Nat
    BY <2>8
  <2>13. \A r \in Receivers, i \in Nat, e \in Sources : Holds(r, i, e) => fifo[r][i].n \in Nat
    BY <1>1, HeldNumber
  <2>14. AllOrNone'
    BY <2>1 DEF QueuesOK, AllOrNone
  <2>15. Numbered'
    <3>1. \A e \in Sources : LastOf(e)' <= sent'[e]
      BY <2>1, <2>10, <2>11 DEF QueuesOK, Numbered, LastOf
    <3>2. ASSUME NEW e \in Sources, NEW r \in Receivers, NEW i \in Nat, Holds(r, i, e)'
          PROVE  fifo'[r][i].n <= sent'[e]
      <4>1. CASE Holds(r, i + shift[r], e) /\ fifo'[r][i] = fifo[r][i + shift[r]]
        <5>1. fifo[r][i + shift[r]].n <= sent[e]
          BY <2>12, <4>1 DEF QueuesOK, Numbered
        <5>2. fifo[r][i + shift[r]].n \in Nat
          BY <2>12, <2>13, <4>1
        <5> QED BY <2>10, <2>11, <4>1, <5>1, <5>2
      <4>2. CASE e = a /\ fifo'[r][i].n = sent[a] + 1
        BY <2>10, <2>11, <4>2
      <4> QED BY <2>9, <3>2, <4>1, <4>2
    <3> QED BY <3>1, <3>2 DEF Numbered
  <2>16. ASSUME ~refused', NEW e \in Sources \ overtaken' PROVE InOrder(e)'
    <3>1. ~refused /\ InOrder(e) /\ e \in Sources
      BY <2>1, <2>16 DEF QueuesOK
    <3>2. ASSUME NEW r \in Receivers, NEW i \in Nat, Holds(r, i, e)'
          PROVE  \/ Holds(r, i + shift[r], e) /\ fifo'[r][i] = fifo[r][i + shift[r]]
                 \/ i = Len(fifo'[r]) /\ e \in listed[r] /\ fifo'[r][i].n = sent[e] + 1
      <4>1. \A q \in Receiving(a) : a \in listed[q]
        BY <3>1, ReceivingLists
      <4> QED BY <2>9, <3>1, <3>2, <4>1
    <3>3. fifo' \in [Receivers -> Seq(Messages)]
      BY <1>1, PublishType DEF TypeOK
    <3>4. OneReceiver /\ Numbered
      BY DEF IInv, QueuesOK
    <3>5. Within(e)' /\ Across(e)' /\ Behind(e)'
      BY <1>1, <2>1, <2>8, <3>1, <3>2, <3>3, <3>4, InOrderShifted
    <3>6. ASSUME NEW r \in Receivers, NEW i \in Nat, Holds(r, i, e)' PROVE fifo'[r][i].n > LastOf(e)
      <4>1. CASE Holds(r, i + shift[r], e) /\ fifo'[r][i] = fifo[r][i + shift[r]]
        BY <2>12, <3>1, <4>1 DEF InOrder, Ahead
      <4>2. CASE fifo'[r][i].n = sent[e] + 1
        BY <2>10, <3>1, <3>4, <4>2 DEF Numbered
      <4> QED BY <3>2, <3>6, <4>1, <4>2
    <3>7. Ahead(e)'
      BY <2>1, <3>6 DEF Ahead, LastOf
    <3>8. Rising(handed[e])'
      BY <2>1, <3>1 DEF InOrder, Rising
    <3> QED BY <3>5, <3>7, <3>8 DEF InOrder
  <2> QED BY <2>14, <2>15, <2>16 DEF QueuesOK
<1> QED BY <1>2, <1>3 DEF QueuesOK, AllOrNone

\* get takes the first message of the first queue that has one; of its source it
\* is the oldest that any queue holds.
LEMMA GetIsOldest ==
  ASSUME TypeOK, Get
  PROVE  LET r == LeastOf(Holding)
             m == Head(fifo[r])
         IN  /\ r \in Receivers /\ fifo[r] # <<>>
             /\ m \in Messages /\ Holds(r, 1, m.endpoint) /\ m = fifo[r][1]
             /\ fifo' = [fifo EXCEPT ![r] = Tail(@)]
             /\ handed' = [handed EXCEPT ![m.endpoint] = Append(@, m.n)]
             /\ \A q \in Receivers, i \in Nat : \A e : q < r => ~Holds(q, i, e)
             /\ UNCHANGED <<started, sent, listed, refused, overtaken>>
<1> DEFINE r == LeastOf(Holding)
<1>1. Holding \in SUBSET Receivers /\ Holding # {}
  BY DEF Get, Holding
<1>2. r \in Holding /\ \A q \in Holding : r <= q
  BY <1>1, LeastIsFirst
<1>3. Take(r)
  BY DEF Get
<1> HIDE DEF r
<1>4. r \in Receivers /\ fifo[r] # <<>> /\ fifo[r] \in Seq(Messages)
  BY <1>2 DEF Holding, TypeOK
<1>5. Head(fifo[r]) \in Messages /\ Head(fifo[r]) = fifo[r][1] /\ 1 \in 1 .. Len(fifo[r])
  BY <1>4
<1>6. \A q \in Receivers, i \in Nat : \A e : q < r => ~Holds(q, i, e)
  <2>1. \A q \in Receivers : q < r => fifo[q] = <<>>
    BY <1>2, <1>4, ReceiversAssumption DEF Holding
  <2> QED BY <2>1 DEF Holds
<1>7. /\ fifo' = [fifo EXCEPT ![r] = Tail(@)]
      /\ handed' = [handed EXCEPT ![Head(fifo[r]).endpoint] = Append(@, Head(fifo[r]).n)]
      /\ UNCHANGED <<started, sent, listed, refused, overtaken>>
  BY <1>3 DEF Take, lists
<1>8. Holds(r, 1, Head(fifo[r]).endpoint)
  BY <1>5 DEF Holds
<1> QED BY <1>4, <1>5, <1>6, <1>7, <1>8 DEF r

LEMMA GetQueues ==
  ASSUME IInv, QueuesOK, Get
  PROVE  QueuesOK'
<1> DEFINE r == LeastOf(Holding)
           m == Head(fifo[r])
           shift == [q \in Receivers |-> IF q = r THEN 1 ELSE 0]
<1>1. TypeOK /\ OneReceiver
  BY DEF IInv
<1>2. /\ r \in Receivers /\ fifo[r] # <<>>
      /\ m \in Messages /\ Holds(r, 1, m.endpoint) /\ m = fifo[r][1]
      /\ fifo' = [fifo EXCEPT ![r] = Tail(@)]
      /\ handed' = [handed EXCEPT ![m.endpoint] = Append(@, m.n)]
      /\ \A q \in Receivers, i \in Nat : \A e : q < r => ~Holds(q, i, e)
      /\ UNCHANGED <<started, sent, listed, refused, overtaken>>
  BY <1>1, GetIsOldest
<1> HIDE DEF r, m
<1>3. \A q \in Receivers : q \in Nat /\ shift[q] = (IF q = r THEN 1 ELSE 0)
  BY ReceiversAssumption
<1>4. shift \in [Receivers -> {0, 1}]
  OBVIOUS
<1> HIDE DEF shift
<1>5. ASSUME NEW e \in Sources, NEW q \in Receivers, NEW i \in Nat, Holds(q, i, e)'
      PROVE  Holds(q, i + shift[q], e) /\ fifo'[q][i] = fifo[q][i + shift[q]]
  <2>1. fifo[q] \in Seq(Messages)
    BY <1>1 DEF TypeOK
  <2>2. i \in 1 .. Len(fifo'[q]) /\ fifo'[q][i].endpoint = e
    BY <1>5 DEF Holds
  <2>3. CASE q = r
    <3>1. fifo'[q] = Tail(fifo[q]) /\ fifo[q] # <<>>
      BY <1>1, <1>2, <2>3 DEF TypeOK
    <3>2. i + 1 \in 1 .. Len(fifo[q]) /\ fifo'[q][i] = fifo[q][i + 1]
      BY <2>1, <2>2, <3>1
    <3> QED BY <1>3, <2>2, <2>3, <3>2 DEF Holds
  <2>4. CASE q # r
    <3>1. fifo'[q] = fifo[q] /\ i + shift[q] = i
      BY <1>1, <1>2, <1>3, <2>4 DEF TypeOK
    <3> QED BY <2>2, <3>1 DEF Holds
  <2> QED BY <2>3, <2>4
<1>6. \A q \in Receivers, i \in Nat : i + shift[q] \in Nat
  BY <1>4
<1>7. m.endpoint \in Sources /\ m.n \in Nat /\ m.n \in 1 .. MaxSent
  BY <1>2, BoundsAssumption DEF Messages
<1>12. \A e \in Sources : /\ handed[e] \in Seq(1 .. MaxSent)
                          /\ handed'[e] = IF e = m.endpoint THEN Append(handed[e], m.n) ELSE handed[e]
  BY <1>1, <1>2, <1>7 DEF TypeOK
<1>8. \A e \in Sources : LastOf(e)' = IF e = m.endpoint THEN m.n ELSE LastOf(e)
  BY <1>7, <1>12, RisingOn DEF LastOf
<1>9. AllOrNone'
  BY <1>2 DEF QueuesOK, AllOrNone
<1>10. Numbered'
  <2>1. m.n <= sent[m.endpoint]
    BY <1>2, <1>7 DEF QueuesOK, Numbered
  <2>2. \A e \in Sources : LastOf(e)' <= sent[e]
    BY <1>8, <2>1 DEF QueuesOK, Numbered
  <2>3. \A e \in Sources, q \in Receivers, i \in Nat : Holds(q, i, e)' => fifo'[q][i].n <= sent[e]
    BY <1>5, <1>6 DEF QueuesOK, Numbered
  <2> QED BY <1>2, <2>2, <2>3 DEF Numbered
<1>11. ASSUME ~refused', NEW e \in Sources \ overtaken' PROVE InOrder(e)'
  <2>1. InOrder(e) /\ e \in Sources
    BY <1>2, <1>11 DEF QueuesOK
  <2>2. fifo' \in [Receivers -> Seq(Messages)]
    BY <1>1, GetType DEF TypeOK
  <2>3. Within(e)' /\ Across(e)' /\ Behind(e)'
    <3>1. Numbered /\ UNCHANGED listed
      BY <1>2 DEF QueuesOK
    <3>2. \A q \in Receivers, i \in Nat : Holds(q, i, e)' =>
             Holds(q, i + shift[q], e) /\ fifo'[q][i] = fifo[q][i + shift[q]]
      BY <1>5, <2>1
    <3> QED BY <1>1, <1>4, <2>1, <2>2, <3>1, <3>2, InOrderShifted
  <2>4. ASSUME NEW q \in Receivers, NEW i \in Nat, Holds(q, i, e)' PROVE fifo'[q][i].n > LastOf(e)'
    <3>1. Holds(q, i + shift[q], e) /\ fifo'[q][i] = fifo[q][i + shift[q]] /\ i + shift[q] \in Nat
      BY <1>5, <1>6, <2>1, <2>4
    <3>2. CASE e # m.endpoint
      BY <1>8, <2>1, <3>1, <3>2 DEF InOrder, Ahead
    <3>3. CASE e = m.endpoint
      <4>1. Holds(r, 1, e) /\ m.n = fifo[r][1].n /\ LastOf(e)' = m.n
        BY <1>2, <1>8, <2>1, <3>3
      <4>2. CASE q = r
        <5>1. 1 < i + shift[q]
          BY <1>3, <2>4, <4>2 DEF Holds
        <5>2. fifo[r][1].n < fifo[q][i + shift[q]].n
          BY <1>2, <2>1, <3>1, <4>1, <4>2, <5>1 DEF InOrder, Within
        <5>3. fifo[q][i + shift[q]].n \in Nat
          BY <1>1, <3>1, HeldNumber
        <5> QED BY <1>7, <3>1, <4>1, <5>2, <5>3
      <4>3. CASE q # r
        <5>1. r < q
          BY <1>2, <1>3, <3>1, <4>3
        <5>2. fifo[r][1].n < fifo[q][i + shift[q]].n
          BY <1>2, <2>1, <3>1, <4>1, <5>1 DEF InOrder, Across
        <5>3. fifo[q][i + shift[q]].n \in Nat
          BY <1>1, <3>1, HeldNumber
        <5> QED BY <1>7, <3>1, <4>1, <5>2, <5>3
      <4> QED BY <4>2, <4>3
    <3> QED BY <3>2, <3>3
  <2>5. Ahead(e)'
    BY <2>4 DEF Ahead
  <2>6. Rising(handed'[e])
    <3>1. CASE e = m.endpoint
      <4>1. m.n > LastOf(e)
        BY <1>2, <2>1, <3>1 DEF InOrder, Ahead
      <4> QED BY <1>7, <1>12, <2>1, <3>1, <4>1, RisingOn DEF InOrder, LastOf
    <3>2. CASE e # m.endpoint
      BY <1>12, <2>1, <3>2 DEF InOrder
    <3> QED BY <3>1, <3>2
  <2>7. Rising(handed[e])'
    BY <2>6 DEF Rising
  <2> QED BY <2>3, <2>5, <2>7 DEF InOrder
<1> QED BY <1>9, <1>10, <1>11 DEF QueuesOK

LEMMA NextQueues ==
  ASSUME IInv, QueuesOK, [Next]_vars
  PROVE  QueuesOK'
<1>1. TypeOK
  BY DEF IInv
<1>2. ASSUME NEW e \in Endpoints, AddEndpoint(e) \/ RemoveEndpoint(e) PROVE QueuesOK'
  BY <1>1, <1>2, AddEndpointQueues, RemoveEndpointQueues
<1>3. ASSUME NEW e \in Sources, Publish(e) PROVE QueuesOK'
  BY <1>3, PublishQueues
<1>4. CASE Start
  BY <1>4, QueuesLeftAlone DEF Start, Spawn, lists
<1>5. CASE Get
  BY <1>5, GetQueues
<1>6. CASE Connect
  <2>1. UNCHANGED <<started, fifo, handed, sent, listed, overtaken>> /\ (refused => refused')
    BY <1>6 DEF Connect, traffic
  <2> QED BY <2>1, QueuesLeftAlone
<1>7. CASE \/ Disconnect \/ Fork \/ Stop \/ JoinNext \/ UNCHANGED vars
           \/ \E r \in Receivers : Begin(r) \/ End(r)
  <2>1. UNCHANGED <<started, fifo, handed, sent, listed, overtaken, refused>>
    BY <1>7 DEF Disconnect, Fork, Spawn, Stop, StopInterrupting, JoinNext, Begin, End,
       SetListener, vars, lists, traffic
  <2> QED BY <2>1, QueuesLeftAlone
<1> QED BY <1>2, <1>3, <1>4, <1>5, <1>6, <1>7 DEF Next

\* The messages of a source are handed over in the order they were sent, and none
\* of them twice: by get, which looks at the receivers one after the other
\* (pool.rs:221-229), or to the callback; as long as no connection was refused,
\* wherever the endpoint was moved to, except to a receiver before one that still
\* holds messages of it, and however many messages full queues dropped meanwhile.
THEOREM PoolKeepsOrder == Spec => []OrderKept
<1>1. Init => IInv /\ QueuesOK
  BY InitIInv, InitQueues
<1>2. IInv /\ QueuesOK /\ [Next]_vars => (IInv /\ QueuesOK)'
  BY NextIInv, NextQueues
<1>3. QueuesOK => OrderKept
  BY DEF QueuesOK, InOrder, Rising, OrderKept
<1> QED BY <1>1, <1>2, <1>3, PTL DEF Spec

-----------------------------------------------------------------------------
(* What stop leaves behind.                                                *)

\* While stop runs every receiver is interrupted, and of those joined the
\* handles are gone.
StopOnItsWay ==
    stopping # 0 => \A r \in Receivers : interrupted[r] /\ (r < stopping => thread[r] = "none")

\* While stop runs no thread starts again, and when it returns without an error
\* no receiver has a thread.
NothingLeftRunning ==
    [][stopping # 0 =>
          /\ \A r \in Receivers : thread[r] \notin Alive => thread'[r] \notin Alive
          /\ stopping' = 0 /\ thread[stopping] # "err" =>
                \A r \in Receivers : thread'[r] = "none"]_vars

\* A thread that begins or ends was alive.
LEMMA ListenerStep ==
  ASSUME TypeOK, NEW r \in Receivers, Begin(r) \/ End(r)
  PROVE  /\ UNCHANGED <<stopping, interrupted>> /\ thread[r] \in Alive
         /\ \A q \in Receivers : q # r => thread'[q] = thread[q]
<1>1. PICK state : thread' = [thread EXCEPT ![r] = state] /\ UNCHANGED <<stopping, interrupted>>
  BY DEF Begin, End, SetListener
<1>2. thread[r] \in Alive
  BY DEF Begin, End, Alive
<1> QED BY <1>1, <1>2 DEF TypeOK

\* The owner does nothing else while stop runs.
LEMMA StopStep ==
  ASSUME stopping # 0, [Next]_vars
  PROVE  \/ JoinNext
         \/ \E r \in Receivers : Begin(r) \/ End(r)
         \/ UNCHANGED <<thread, interrupted, stopping>>
BY DEF Next, vars, threads, Connect, Disconnect, AddEndpoint, RemoveEndpoint, Start, Fork, Stop,
   Get, Publish, Owner

\* Every step keeps stop on its way.
LEMMA StopOnItsWayNext ==
  ASSUME TypeOK, StopOnItsWay, [Next]_vars
  PROVE  StopOnItsWay'
<1>1. CASE stopping = 0
  <2>1. CASE Stop
    <3>1. stopping' = 1 /\ \A r \in Receivers : interrupted'[r]
      BY <2>1 DEF Stop, StopInterrupting
    <3> QED BY <3>1, ReceiversAssumption DEF StopOnItsWay, Receivers
  <2>2. CASE UNCHANGED stopping
    BY <1>1, <2>2 DEF StopOnItsWay
  <2> QED BY <1>1, <2>1, <2>2 DEF Next, vars, threads, lists, Connect, Disconnect, AddEndpoint, AddTo,
       RemoveEndpoint, Start, Fork, Spawn, JoinNext, Begin, End, SetListener, Get, Take, Publish
<1>2. CASE stopping # 0 /\ JoinNext
  <2>1. /\ thread' = [thread EXCEPT ![stopping] = "none"] /\ UNCHANGED interrupted
        /\ stopping' = 0 \/ stopping' = stopping + 1
    BY <1>2 DEF JoinNext
  <2>2. stopping \in Nat
    BY ReceiversAssumption DEF TypeOK
  <2>3. ASSUME NEW r \in Receivers, stopping' = stopping + 1, r < stopping'
        PROVE  thread'[r] = "none"
    <3>1. r \in Nat /\ (r < stopping \/ r = stopping)
      BY <2>2, <2>3, ReceiversAssumption DEF Receivers
    <3>2. r < stopping => thread[r] = "none"
      BY <1>2 DEF StopOnItsWay
    <3> QED BY <2>1, <3>1, <3>2 DEF TypeOK
  <2>4. \A r \in Receivers : interrupted'[r]
    BY <1>2, <2>1 DEF StopOnItsWay
  <2> QED BY <2>1, <2>3, <2>4 DEF StopOnItsWay
<1>3. ASSUME stopping # 0, NEW r \in Receivers, Begin(r) \/ End(r) PROVE StopOnItsWay'
  <2>1. /\ UNCHANGED <<stopping, interrupted>> /\ thread[r] # "none"
        /\ \A q \in Receivers : q # r => thread'[q] = thread[q]
    BY <1>3, ListenerStep DEF Alive
  <2> QED BY <2>1 DEF StopOnItsWay
<1>4. CASE UNCHANGED <<thread, interrupted, stopping>>
  BY <1>4 DEF StopOnItsWay
<1> QED BY <1>1, <1>2, <1>3, <1>4, StopStep

\* Pool::stop (pool.rs:204-212) cannot be undone by what goes on while it
\* joins: no thread starts again, and when it returns Ok no receiver has one,
\* whichever of them had failed or ended before.
THEOREM StopLeavesNothing == Spec => NothingLeftRunning
<1> DEFINE Left == stopping # 0 =>
              /\ \A r \in Receivers : thread[r] \notin Alive => thread'[r] \notin Alive
              /\ stopping' = 0 /\ thread[stopping] # "err" =>
                    \A r \in Receivers : thread'[r] = "none"
<1>1. Init => TypeOK /\ StopOnItsWay
  BY InitType DEF Init, StopOnItsWay
<1>2. TypeOK /\ StopOnItsWay /\ [Next]_vars => (TypeOK /\ StopOnItsWay)'
  BY NextType, StopOnItsWayNext
<1>3. ASSUME TypeOK, StopOnItsWay, [Next]_vars, stopping # 0
      PROVE  /\ \A r \in Receivers : thread[r] \notin Alive => thread'[r] \notin Alive
             /\ stopping' = 0 /\ thread[stopping] # "err" =>
                   \A r \in Receivers : thread'[r] = "none"
  <2>1. stopping \in 1 .. N
    BY <1>3, ReceiversAssumption DEF TypeOK
  <2>2. CASE JoinNext
    <3>1. /\ thread' = [thread EXCEPT ![stopping] = "none"]
          /\ stopping' = IF thread[stopping] = "err" \/ stopping = N THEN 0 ELSE stopping + 1
      BY <2>2 DEF JoinNext
    <3>2. \A r \in Receivers : thread[r] \notin Alive => thread'[r] \notin Alive
      BY <3>1 DEF Alive, TypeOK
    <3>3. ASSUME stopping' = 0, thread[stopping] # "err", NEW r \in Receivers
          PROVE  thread'[r] = "none"
      <4>1. stopping = N
        BY <2>1, <3>1, <3>3, ReceiversAssumption
      <4>2. r < stopping \/ r = stopping
        BY <4>1, ReceiversAssumption DEF Receivers
      <4>3. r < stopping => thread[r] = "none"
        BY <1>3 DEF StopOnItsWay
      <4> QED BY <3>1, <4>2, <4>3, <1>3 DEF TypeOK
    <3> QED BY <3>2, <3>3
  <2>3. ASSUME NEW r \in Receivers, Begin(r) \/ End(r)
        PROVE  /\ stopping' # 0
               /\ \A q \in Receivers : thread[q] \notin Alive => thread'[q] \notin Alive
    <3>1. /\ UNCHANGED stopping /\ thread[r] \in Alive
          /\ \A q \in Receivers : q # r => thread'[q] = thread[q]
      BY <1>3, <2>3, ListenerStep
    <3> QED BY <1>3, <3>1
  <2> QED BY <1>3, <2>2, <2>3, StopStep
<1>4. [](TypeOK /\ StopOnItsWay) /\ [][Next]_vars => [][Left]_vars
  <2>1. TypeOK /\ StopOnItsWay /\ [Next]_vars => [Left]_vars
    BY <1>3
  <2> QED BY <2>1, PTL
<1> QED BY <1>1, <1>2, <1>4, PTL DEF Spec, NothingLeftRunning
================================================================================
