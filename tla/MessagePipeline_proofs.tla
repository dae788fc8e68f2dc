------------------------ MODULE MessagePipeline_proofs ------------------------
(***************************************************************************)
(* Proofs about MessagePipeline, for any endpoints, headers, IDs, faults,  *)
(* masks and operations: what the checks let through and refuse, when the  *)
(* cache of data headers tells that a header changed, and that the         *)
(* statistics add up.                                                      *)
(***************************************************************************)
EXTENDS MessagePipeline, FiniteSetTheorems, WellFoundedInduction, TLAPS

-----------------------------------------------------------------------------
(* The checks.                                                             *)

\* The ID to be exceeded is the one last delivered with the check enabled, if
\* the endpoint is known.
IdsOK ==
    /\ shared \in BOOLEAN /\ receives \in Nat
    /\ checked \in [Endpoints -> Ids \cup {-1}]
    /\ id_buffer \in UNION {[S -> Ids] : S \in SUBSET Endpoints}
    /\ shared \/ \A e \in Endpoints :
                    checked[e] = IF e \in DOMAIN id_buffer THEN id_buffer[e] ELSE -1
    /\ shared => id_buffer = <<>>

\* What a read is, apart from what it counts.
LEMMA ReceiveIs ==
  ASSUME NEW e \in Endpoints, NEW m \in Message(e), Receive(e, m)
  PROVE  LET outcome == ParseOutcome(e, m)
             wellFormed == outcome = "Messages"
             changed == wellFormed /\ ~Cached(e, m.hash)
             verdict == IF wellFormed THEN CheckOutcome(e, m.id) ELSE outcome
             delivered == verdict = "Messages"
         IN  /\ header_buffer' = IF changed THEN Insert(header_buffer, Key(e, m.hash), m.hash)
                                 ELSE header_buffer
             /\ id_buffer' = IF wellFormed THEN Remember(e, m.id, verdict) ELSE id_buffer
             /\ returned' = [endpoint |-> e, id |-> m.id, hash |-> m.hash, changed |-> changed,
                             verdict |-> verdict]
             /\ latest' = IF wellFormed THEN With(latest, Key(e, m.hash), m.hash) ELSE latest
             /\ checked' = IF delivered /\ Enabled(CHECK_ID_MONOTONIC)
                           THEN [checked EXCEPT ![e] = m.id] ELSE checked
BY DEF Receive

LEMMA WithId ==
  ASSUME id_buffer \in UNION {[S -> Ids] : S \in SUBSET Endpoints}, NEW e \in Endpoints, NEW id \in Ids
  PROVE  /\ With(id_buffer, e, id) \in UNION {[S -> Ids] : S \in SUBSET Endpoints}
         /\ \A d \in Endpoints : d \in DOMAIN With(id_buffer, e, id) <=> d = e \/ d \in DOMAIN id_buffer
         /\ \A d \in Endpoints : d = e \/ d \in DOMAIN id_buffer =>
               With(id_buffer, e, id)[d] = IF d = e THEN id ELSE id_buffer[d]
<1>1. PICK S \in SUBSET Endpoints : id_buffer \in [S -> Ids]
  OBVIOUS
<1> DEFINE T == S \cup {e}
           f == With(id_buffer, e, id)
<1>2. f = [k \in T |-> IF k = e THEN id ELSE id_buffer[k]]
  BY <1>1 DEF With
<1>3. f \in [T -> Ids] /\ T \in SUBSET Endpoints
  BY <1>1, <1>2
<1>4. f \in UNION {[U -> Ids] : U \in SUBSET Endpoints}
  BY <1>3
<1> HIDE DEF f
<1>5. /\ \A d \in Endpoints : d \in DOMAIN f <=> d = e \/ d \in DOMAIN id_buffer
      /\ \A d \in Endpoints : d = e \/ d \in DOMAIN id_buffer =>
               f[d] = IF d = e THEN id ELSE id_buffer[d]
  BY <1>1, <1>2
<1> QED BY <1>4, <1>5 DEF f

LEMMA ReceiveIds ==
  ASSUME IdsOK, UNCHANGED shared, receives' \in Nat, NEW e \in Endpoints, NEW m \in Message(e), Receive(e, m)
  PROVE  IdsOK'
<1> DEFINE wellFormed == ParseOutcome(e, m) = "Messages"
           delivered == wellFormed /\ CheckOutcome(e, m.id) = "Messages"
           keeps == delivered /\ Enabled(CHECK_ID_MONOTONIC)
<1>1. m.id \in Ids
  BY DEF Message
<1>2. checked' = IF keeps THEN [checked EXCEPT ![e] = m.id] ELSE checked
  BY ReceiveIs
<1>3. id_buffer' = IF keeps /\ ~shared THEN With(id_buffer, e, m.id) ELSE id_buffer
  BY ReceiveIs DEF Remember
<1> HIDE DEF keeps
<1>4. CASE ~keeps
  BY <1>2, <1>3, <1>4 DEF IdsOK
<1>5. CASE keeps
  <2>1. /\ checked' \in [Endpoints -> Ids \cup {-1}]
        /\ \A d \in Endpoints : checked'[d] = IF d = e THEN m.id ELSE checked[d]
    BY <1>1, <1>2, <1>5 DEF IdsOK
  <2>2. CASE shared
    BY <1>3, <2>1, <2>2 DEF IdsOK
  <2>3. CASE ~shared
    <3>1. id_buffer' = With(id_buffer, e, m.id)
      BY <1>3, <1>5, <2>3
    <3> QED BY <1>1, <2>1, <2>3, <3>1, WithId DEF IdsOK
  <2> QED BY <2>2, <2>3
<1> QED BY <1>4, <1>5

LEMMA InitIds == Init => IdsOK
<1> SUFFICES ASSUME Init PROVE IdsOK
  OBVIOUS
<1>1. id_buffer = <<>> /\ id_buffer \in [{} -> Ids] /\ DOMAIN id_buffer = {}
  BY DEF Init
<1>2. id_buffer \in UNION {[S -> Ids] : S \in SUBSET Endpoints}
  BY <1>1
<1>3. checked \in [Endpoints -> Ids \cup {-1}] /\ \A e \in Endpoints : checked[e] = -1
  BY DEF Init, Unchecked
<1> QED BY <1>1, <1>2, <1>3 DEF IdsOK, Init

\* Nothing but a message touches them, except that a fork starts anew.
LEMMA NextIds ==
  ASSUME IdsOK, [Next]_vars
  PROVE  IdsOK'
<1>1. UNCHANGED shared
  BY DEF Next, Observe, vars
<1>0. receives' \in Nat
  BY DEF IdsOK, Next, Read, CountNext, Call, vars
<1>2. CASE UNCHANGED <<id_buffer, checked>>
  BY <1>0, <1>1, <1>2 DEF IdsOK
<1>3. ASSUME NEW e \in Endpoints, Read(e) PROVE IdsOK'
  <2>1. CASE \E m \in Message(e) : Receive(e, m)
    BY <1>0, <1>1, <2>1, ReceiveIds
  <2>2. CASE SocketError(e)
    BY <1>2, <2>2 DEF SocketError
  <2> QED BY <1>3, <2>1, <2>2 DEF Read
<1>4. CASE Fork
  <2>1. id_buffer' = <<>> /\ id_buffer' \in [{} -> Ids] /\ DOMAIN id_buffer' = {}
    BY <1>4 DEF Fork
  <2>2. id_buffer' \in UNION {[S -> Ids] : S \in SUBSET Endpoints}
    BY <2>1
  <2>3. checked' \in [Endpoints -> Ids \cup {-1}] /\ \A e \in Endpoints : checked'[e] = -1
    BY <1>4 DEF Fork, Unchecked
  <2>4. \A e \in Endpoints : checked'[e] = IF e \in DOMAIN id_buffer' THEN id_buffer'[e] ELSE -1
    BY <2>1, <2>3
  <2> QED BY <1>0, <1>1, <2>1, <2>2, <2>3, <2>4 DEF IdsOK
<1>5. CASE Connect \/ CountNext \/ (Call /\ ~Fork) \/ UNCHANGED vars
  <2>1. UNCHANGED <<id_buffer, checked>>
    BY <1>5 DEF Call, CountNext, Connect, Disconnect, AddEndpoint, RemoveEndpoint, EnableCheck, DisableCheck,
                Reset, InitT0, vars, object
  <2> QED BY <1>2, <2>1
<1> QED BY <1>1, <1>3, <1>4, <1>5 DEF Next

\* Only a read is judged, and it judges the message that was read.
LEMMA JudgedIsRead ==
  ASSUME IdsOK, [Next]_vars, Received, returned'.verdict # "SocketError"
  PROVE  \E e \in Endpoints : \E m \in Message(e) : Receive(e, m)
<1>1. \E e \in Endpoints : Read(e)
  <2>1. receives' # receives
    BY DEF IdsOK, Received
  <2> QED BY <2>1 DEF Next, CountNext, Call, vars
<1>2. PICK e \in Endpoints : Read(e)
  BY <1>1
<1>3. ~SocketError(e)
  BY DEF SocketError
<1> QED BY <1>2, <1>3 DEF Read

\* The verdict on a message that parsed is the first check it fails.
LEMMA Verdict ==
  ASSUME IdsOK, NEW e \in Endpoints, NEW m \in Message(e), Receive(e, m)
  PROVE  /\ returned'.endpoint = e /\ returned'.id = m.id /\ m.id \in Nat
         /\ returned'.verdict = "Messages" /\ Enabled(CHECK_ID_MONOTONIC) /\ ~shared
               => m.id > checked[e]
         /\ returned'.verdict \in {"DecreasingId", "RepeatedId"} => m.id <= checked[e]
<1> DEFINE outcome == ParseOutcome(e, m)
<1>1. returned'.endpoint = e /\ returned'.id = m.id
      /\ returned'.verdict = IF outcome = "Messages" THEN CheckOutcome(e, m.id) ELSE outcome
  BY ReceiveIs
<1>2. m.id \in Ids /\ m.id \in Nat /\ m.fault \in AllFaults
  BY IdsAssumption, OptionsAssumption DEF Message
<1>3. outcome \in {"Messages", "ParsingError", "DecompressionError", "Panic"}
  BY <1>2 DEF ParseOutcome, AllFaults, Outcome
<1> HIDE DEF outcome
<1>4. e \in DOMAIN id_buffer => ~shared /\ id_buffer[e] = checked[e] /\ id_buffer[e] \in Nat
  <2>1. e \in DOMAIN id_buffer => id_buffer # <<>> /\ id_buffer[e] \in Ids
    BY DEF IdsOK
  <2> QED BY <2>1, IdsAssumption DEF IdsOK
<1>5. ~shared /\ e \notin DOMAIN id_buffer => checked[e] = -1
  BY DEF IdsOK
<1>6. /\ CheckOutcome(e, m.id) = "Messages" /\ Enabled(CHECK_ID_MONOTONIC) /\ e \in DOMAIN id_buffer
            => ~(id_buffer[e] > m.id) /\ id_buffer[e] # m.id
      /\ CheckOutcome(e, m.id) \in {"DecreasingId", "RepeatedId"}
            => e \in DOMAIN id_buffer /\ (id_buffer[e] > m.id \/ id_buffer[e] = m.id)
  BY DEF CheckOutcome
<1> QED BY <1>1, <1>2, <1>3, <1>4, <1>5, <1>6

\* As long as the checks are enabled, an endpoint's IDs are delivered in
\* increasing order, whatever was delivered with them off in between
\* (receiver.rs:404-416): the ID to be exceeded is always the last one delivered
\* with them on, whichever messages were rejected before their ID was noted.
THEOREM IdsIncrease == Spec => IncreasingWhileChecked
<1> DEFINE A == Received /\ returned'.verdict = "Messages" /\ Enabled(CHECK_ID_MONOTONIC) /\ ~shared
     => returned'.id > checked[returned'.endpoint]
<1>1. IdsOK /\ [Next]_vars => [A]_vars
  <2> SUFFICES ASSUME IdsOK, [Next]_vars, Received, returned'.verdict = "Messages",
                      Enabled(CHECK_ID_MONOTONIC), ~shared
               PROVE  returned'.id > checked[returned'.endpoint]
    OBVIOUS
  <2>1. PICK e \in Endpoints : \E m \in Message(e) : Receive(e, m)
    BY JudgedIsRead
  <2>2. PICK m \in Message(e) : Receive(e, m)
    BY <2>1
  <2> QED BY <2>2, Verdict
<1>2. Init => IdsOK
  BY InitIds
<1>3. IdsOK /\ [Next]_vars => IdsOK'
  BY NextIds
<1> QED BY <1>1, <1>2, <1>3, PTL DEF Spec, IncreasingWhileChecked

\* A message is refused as decreasing or repeated only if one with an ID as large
\* was delivered: what was itself rejected shuts nothing out
\* (receiver.rs:404-416).
THEOREM RefusalsAreJustified == Spec => RefusedOnlyAgainstDelivered
<1> DEFINE A == Received /\ returned'.verdict \in {"DecreasingId", "RepeatedId"}
     => returned'.id <= checked[returned'.endpoint]
<1>1. IdsOK /\ [Next]_vars => [A]_vars
  <2> SUFFICES ASSUME IdsOK, [Next]_vars, Received, returned'.verdict \in {"DecreasingId", "RepeatedId"}
               PROVE  returned'.id <= checked[returned'.endpoint]
    OBVIOUS
  <2>1. PICK e \in Endpoints : \E m \in Message(e) : Receive(e, m)
    BY JudgedIsRead
  <2>2. PICK m \in Message(e) : Receive(e, m)
    BY <2>1
  <2> QED BY <2>2, Verdict
<1>2. Init => IdsOK
  BY InitIds
<1>3. IdsOK /\ [Next]_vars => IdsOK'
  BY NextIds
<1> QED BY <1>1, <1>2, <1>3, PTL DEF Spec, RefusedOnlyAgainstDelivered

-----------------------------------------------------------------------------
(* The cache of data headers.                                              *)

\* The cache holds headers as they were last parsed; all of them, as long as
\* there never were more than endpoints, for which it is large enough.
CacheOK ==
    /\ receives \in Nat
    /\ endpoints \subseteq Endpoints /\ connected \in BOOLEAN /\ crowded \in BOOLEAN
    /\ header_buffer.max_size \in Nat
    /\ IsFiniteSet(DOMAIN latest)
    /\ \A key \in KeysOf(header_buffer) :
          key \in DOMAIN latest /\ latest[key] = header_buffer.map[key]
    /\ header_buffer.allocated \/ KeysOf(header_buffer) = {}
    /\ ~crowded => /\ KeysOf(header_buffer) = DOMAIN latest
                   /\ Cardinality(DOMAIN latest) <= Cardinality(endpoints)
    /\ connected => Cardinality(endpoints) <= header_buffer.max_size

LEMMA Endless ==
  ASSUME NEW S \in SUBSET Endpoints
  PROVE  IsFiniteSet(S) /\ Cardinality(S) \in Nat
BY EndpointsAssumption, FS_Subset, FS_CardinalityType

\* What insert makes of a map.
Inserted(n, m, key, value) ==
    /\ n.max_size = m.max_size /\ n.allocated
    /\ KeysOf(n) \subseteq KeysOf(m) \cup {key}
    /\ \A k \in KeysOf(n) : n.map[k] = IF k = key THEN value ELSE m.map[k]
    /\ ~(Cardinality(KeysOf(m) \cup {key}) > m.max_size)
          => KeysOf(n) = KeysOf(m) \cup {key}

LEMMA InsertIs ==
  ASSUME NEW m, NEW key, NEW value, NEW n, n = Insert(m, key, value)
  PROVE  Inserted(n, m, key, value)
BY DEF Inserted, Insert, Holding, KeysOf, With, Without

LEMMA SizedIs ==
  ASSUME NEW n \in Nat, header_buffer.allocated \/ KeysOf(header_buffer) = {}
  PROVE  /\ Sized(n).max_size = n
         /\ KeysOf(Sized(n)) \subseteq KeysOf(header_buffer)
         /\ \A k \in KeysOf(Sized(n)) : Sized(n).map[k] = header_buffer.map[k]
         /\ Cardinality(KeysOf(header_buffer)) \in Nat /\ Cardinality(KeysOf(header_buffer)) <= n
               => KeysOf(Sized(n)) = KeysOf(header_buffer)
         /\ Sized(n).allocated \/ KeysOf(Sized(n)) = {}
<1>1. CASE IsVoid(header_buffer)
  <2>1. Sized(n).max_size = n /\ KeysOf(Sized(n)) = {}
    BY <1>1 DEF Sized, NewMap, Holding, KeysOf
  <2>2. KeysOf(header_buffer) = {}
    BY <1>1 DEF IsVoid
  <2> QED BY <2>1, <2>2
<1>2. CASE ~IsVoid(header_buffer)
  <2> DEFINE surplus == Cardinality(KeysOf(header_buffer)) - n
             gone == {header_buffer.order[i] : i \in 1 .. surplus}
  <2>1. Sized(n) = IF surplus > 0
                   THEN Holding(Without(header_buffer.map, gone),
                                SubSeq(header_buffer.order, surplus + 1, Len(header_buffer.order)), n,
                                header_buffer.allocated)
                   ELSE Holding(header_buffer.map, header_buffer.order, n, header_buffer.allocated)
    BY <1>2 DEF Sized, SetMaxSize
  <2> HIDE DEF gone
  <2>2. /\ Sized(n).max_size = n
        /\ KeysOf(Sized(n)) \subseteq KeysOf(header_buffer)
        /\ \A k \in KeysOf(Sized(n)) : Sized(n).map[k] = header_buffer.map[k]
        /\ ~(surplus > 0) => KeysOf(Sized(n)) = KeysOf(header_buffer)
        /\ Sized(n).allocated = header_buffer.allocated
    BY <2>1 DEF Holding, KeysOf, Without
  <2> QED BY <2>2
<1> QED BY <1>1, <1>2

\* A message read: what is cached follows what was parsed.
LEMMA ReceiveCache ==
  ASSUME CacheOK, receives' \in Nat, connected, UNCHANGED <<endpoints, connected>>, Observe,
         NEW e \in Endpoints, NEW m \in Message(e), Receive(e, m)
  PROVE  CacheOK'
<1> DEFINE wellFormed == ParseOutcome(e, m) = "Messages"
           key == Key(e, m.hash)
           changed == wellFormed /\ ~Cached(e, m.hash)
<1>1. /\ header_buffer' = IF changed THEN Insert(header_buffer, key, m.hash) ELSE header_buffer
      /\ latest' = IF wellFormed THEN With(latest, key, m.hash) ELSE latest
  BY ReceiveIs
<1>2. wellFormed /\ ~changed => key \in KeysOf(header_buffer) /\ header_buffer.map[key] = m.hash
  BY DEF Cached
<1>3. crowded' = (crowded \/ Cardinality(DOMAIN latest') > Cardinality(endpoints))
  BY DEF Observe
<1>4. IsFiniteSet(endpoints) /\ Cardinality(endpoints) \in Nat
  BY Endless DEF CacheOK
<1>5. changed => wellFormed
  OBVIOUS
<1> HIDE DEF wellFormed, key, changed
<1>6. IsFiniteSet(DOMAIN latest) /\ IsFiniteSet(DOMAIN latest \cup {key})
  BY FS_AddElement DEF CacheOK
<1>7. Cardinality(DOMAIN latest) \in Nat /\ Cardinality(DOMAIN latest \cup {key}) \in Nat
  BY <1>6, FS_CardinalityType
<1>8. CASE ~wellFormed
  <2>1. UNCHANGED <<header_buffer, latest, endpoints, connected>>
    BY <1>1, <1>5, <1>8
  <2> QED BY <1>3, <1>4, <1>7, <2>1 DEF CacheOK, KeysOf
<1>9. CASE wellFormed
  <2>1. /\ DOMAIN latest' = DOMAIN latest \cup {key}
        /\ \A k \in DOMAIN latest' : latest'[k] = IF k = key THEN m.hash ELSE latest[k]
    BY <1>1, <1>9 DEF With
  <2>2. CASE ~changed
    <3>1. header_buffer' = header_buffer /\ key \in DOMAIN latest /\ latest[key] = m.hash
      BY <1>1, <1>2, <1>9, <2>2 DEF CacheOK
    <3>2. DOMAIN latest' = DOMAIN latest /\ \A k \in DOMAIN latest : latest'[k] = latest[k]
      BY <2>1, <3>1
    <3> QED BY <1>3, <1>4, <1>7, <3>1, <3>2 DEF CacheOK, KeysOf
  <2>3. CASE changed
    <3> DEFINE over == Cardinality(KeysOf(header_buffer) \cup {key}) > header_buffer.max_size
               n == Insert(header_buffer, key, m.hash)
    <3>1. /\ header_buffer' = n
          /\ n.max_size = header_buffer.max_size /\ n.allocated
          /\ KeysOf(n) \subseteq KeysOf(header_buffer) \cup {key}
          /\ \A k \in KeysOf(n) : n.map[k] = IF k = key THEN m.hash ELSE header_buffer.map[k]
          /\ ~over => KeysOf(n) = KeysOf(header_buffer) \cup {key}
      <4>1. header_buffer' = Insert(header_buffer, key, m.hash)
        BY <1>1, <2>3
      <4> HIDE DEF n
      <4>2. n = Insert(header_buffer, key, m.hash)
        BY DEF n
      <4>3. Inserted(n, header_buffer, key, m.hash)
        BY <4>2, InsertIs
      <4>4. header_buffer' = n
        BY <4>1, <4>2
      <4> QED BY <4>3, <4>4 DEF Inserted
    <3>2. ~crowded' => ~over
      <4> SUFFICES ASSUME ~crowded, ~(Cardinality(DOMAIN latest') > Cardinality(endpoints))
                   PROVE  ~over
        BY <1>3
      <4>1. KeysOf(header_buffer) \cup {key} = DOMAIN latest'
        BY <2>1 DEF CacheOK
      <4>2. Cardinality(DOMAIN latest') \in Nat
        BY <1>7, <2>1
      <4>3. Cardinality(endpoints) <= header_buffer.max_size /\ header_buffer.max_size \in Nat
        BY DEF CacheOK
      <4> QED BY <1>4, <4>1, <4>2, <4>3
    <3> HIDE DEF over, n
    <3>3. /\ \A k \in KeysOf(n) : k \in DOMAIN latest' /\ latest'[k] = n.map[k]
      BY <2>1, <3>1 DEF CacheOK
    <3>4. ~crowded' => KeysOf(n) = DOMAIN latest' /\ Cardinality(DOMAIN latest') <= Cardinality(endpoints)
      <4>1. ~crowded' => ~crowded /\ ~(Cardinality(DOMAIN latest') > Cardinality(endpoints))
        BY <1>3
      <4>2. ~crowded => KeysOf(header_buffer) = DOMAIN latest
        BY DEF CacheOK
      <4> QED BY <1>4, <1>7, <2>1, <3>1, <3>2, <4>1, <4>2
    <3>5. crowded' \in BOOLEAN
      BY <1>3 DEF CacheOK
    <3>6. KeysOf(header_buffer') = KeysOf(n)
      BY <3>1
    <3> QED BY <1>6, <2>1, <3>1, <3>3, <3>4, <3>5, <3>6 DEF CacheOK, KeysOf
  <2> QED BY <2>2, <2>3
<1> QED BY <1>8, <1>9

LEMMA InitCache == Init => CacheOK
<1> SUFFICES ASSUME Init PROVE CacheOK
  OBVIOUS
<1>1. KeysOf(header_buffer) = {} /\ header_buffer.max_size = 1 /\ DOMAIN latest = {}
  BY DEF Init, VoidMap, Holding, KeysOf
<1>2. Cardinality(endpoints) \in Nat /\ IsFiniteSet(DOMAIN latest) /\ Cardinality(DOMAIN latest) = 0
  BY <1>1, FS_EmptySet, Endless DEF Init
<1>3. endpoints \subseteq Endpoints /\ connected = FALSE /\ crowded = FALSE /\ receives = 0
  BY DEF Init
<1>4. connected \in BOOLEAN /\ crowded \in BOOLEAN
  BY <1>3, Zenon
<1>6. receives \in Nat /\ header_buffer.max_size \in Nat
  BY <1>1, <1>3
<1>5. Cardinality(DOMAIN latest) <= Cardinality(endpoints)
  BY <1>2
<1> QED BY <1>1, <1>2, <1>3, <1>4, <1>5, <1>6 DEF CacheOK

\* The cache is sized for a list of at least as many endpoints, or the object is
\* not connected.
LEMMA CallsCache ==
  ASSUME CacheOK, receives' \in Nat, Observe, UNCHANGED latest, connected' \in BOOLEAN,
         endpoints' \subseteq Endpoints,
         \/ /\ UNCHANGED header_buffer
            /\ connected' => (connected /\ endpoints' \subseteq endpoints) \/ endpoints' = {}
         \/ header_buffer' = Sized(Cardinality(endpoints'))
  PROVE  CacheOK'
<1>1. /\ Cardinality(endpoints) \in Nat /\ IsFiniteSet(endpoints)
      /\ Cardinality(endpoints') \in Nat /\ IsFiniteSet(endpoints')
  BY Endless DEF CacheOK
<1>2. Cardinality(DOMAIN latest) \in Nat
  BY FS_CardinalityType DEF CacheOK
<1>3. crowded' = (crowded \/ Cardinality(DOMAIN latest) > Cardinality(endpoints')) /\ crowded' \in BOOLEAN
  BY DEF Observe, CacheOK
<1>4. ~crowded' => ~crowded /\ Cardinality(DOMAIN latest) <= Cardinality(endpoints')
  <2> SUFFICES ASSUME ~crowded'
               PROVE  ~crowded /\ Cardinality(DOMAIN latest) <= Cardinality(endpoints')
    OBVIOUS
  <2>1. ~crowded /\ ~(Cardinality(DOMAIN latest) > Cardinality(endpoints'))
    BY <1>3, Zenon
  <2> QED BY <1>1, <1>2, <2>1
<1>5. CASE /\ UNCHANGED header_buffer
           /\ connected' => (connected /\ endpoints' \subseteq endpoints) \/ endpoints' = {}
  <2>1. endpoints' \subseteq endpoints => Cardinality(endpoints') <= Cardinality(endpoints)
    BY <1>1, FS_Subset
  <2>2. endpoints' = {} => Cardinality(endpoints') = 0
    BY FS_EmptySet
  <2>3. connected' => Cardinality(endpoints') <= header_buffer.max_size
    BY <1>1, <1>5, <2>1, <2>2 DEF CacheOK
  <2> QED BY <1>3, <1>4, <1>5, <2>3 DEF CacheOK, KeysOf
<1>6. CASE header_buffer' = Sized(Cardinality(endpoints'))
  <2> DEFINE n == Sized(Cardinality(endpoints'))
  <2>1. /\ n.max_size = Cardinality(endpoints')
        /\ KeysOf(n) \subseteq KeysOf(header_buffer)
        /\ \A k \in KeysOf(n) : n.map[k] = header_buffer.map[k]
        /\ Cardinality(KeysOf(header_buffer)) \in Nat
           /\ Cardinality(KeysOf(header_buffer)) <= Cardinality(endpoints')
              => KeysOf(n) = KeysOf(header_buffer)
        /\ n.allocated \/ KeysOf(n) = {}
    BY <1>1, SizedIs DEF CacheOK
  <2>2. header_buffer' = n
    BY <1>6
  <2> HIDE DEF n
  <2>3. ~crowded' => KeysOf(n) = DOMAIN latest
    BY <1>2, <1>4, <2>1 DEF CacheOK
  <2>4. \A k \in KeysOf(n) : k \in DOMAIN latest /\ latest[k] = n.map[k]
    BY <2>1 DEF CacheOK
  <2>5. KeysOf(header_buffer') = KeysOf(n)
    BY <2>2
  <2>6. connected' => Cardinality(endpoints') <= n.max_size
    BY <1>1, <2>1
  <2> QED BY <1>1, <1>3, <1>4, <2>1, <2>2, <2>3, <2>4, <2>5, <2>6 DEF CacheOK, KeysOf
<1> QED BY <1>5, <1>6

LEMMA NextCache ==
  ASSUME CacheOK, [Next]_vars
  PROVE  CacheOK'
<1>0. receives' \in Nat
  BY DEF CacheOK, Next, Read, CountNext, Call, vars
<1>1. CASE UNCHANGED vars
  BY <1>1 DEF CacheOK, vars, object, KeysOf
<1>2. ASSUME NEW e \in Endpoints, Read(e), Observe PROVE CacheOK'
  <2>1. CASE \E m \in Message(e) : Receive(e, m)
    BY <1>0, <1>2, <2>1, ReceiveCache DEF Read
  <2>2. CASE SocketError(e)
    <3>1. UNCHANGED <<header_buffer, latest, endpoints, connected>>
      BY <1>2, <2>2 DEF Read, SocketError
    <3> QED BY <1>0, <1>2, <3>1, CallsCache DEF CacheOK
  <2> QED BY <1>2, <2>1, <2>2 DEF Read
<1>3. CASE ~connected /\ Connect /\ Observe
  <2>1. connected' = TRUE /\ UNCHANGED <<endpoints, latest>>
    BY <1>3 DEF Connect
  <2>2. header_buffer' = IF endpoints = {} THEN header_buffer ELSE Sized(Cardinality(endpoints))
    BY <1>3 DEF Connect
  <2> QED BY <1>0, <1>3, <2>1, <2>2, CallsCache DEF CacheOK
<1>4. CASE Call /\ Observe
  <2>1. CASE Disconnect
    <3>1. connected' = FALSE /\ UNCHANGED <<endpoints, header_buffer, latest>>
      BY <2>1 DEF Disconnect, object
    <3> QED BY <1>0, <1>4, <3>1, CallsCache DEF CacheOK
  <2>2. ASSUME NEW e \in Endpoints, AddEndpoint(e) PROVE CacheOK'
    <3>1. endpoints' = endpoints \cup {e} /\ UNCHANGED <<connected, latest>>
          /\ header_buffer' = IF connected THEN Sized(Cardinality(endpoints')) ELSE header_buffer
      BY <2>2 DEF AddEndpoint
    <3>2. endpoints' \subseteq Endpoints /\ connected' \in BOOLEAN
      BY <3>1 DEF CacheOK
    <3> QED BY <1>0, <1>4, <3>1, <3>2, CallsCache DEF CacheOK
  <2>3. ASSUME NEW e \in Endpoints, RemoveEndpoint(e) PROVE CacheOK'
    <3>1. endpoints' = endpoints \ {e} /\ UNCHANGED <<connected, header_buffer, latest>>
      BY <2>3 DEF RemoveEndpoint, object
    <3>2. endpoints' \subseteq Endpoints /\ endpoints' \subseteq endpoints /\ connected' \in BOOLEAN
      BY <3>1 DEF CacheOK
    <3> QED BY <1>0, <1>4, <3>1, <3>2, CallsCache
  <2>4. CASE Reset \/ InitT0 \/ (\E mask \in Masks : EnableCheck(mask) \/ DisableCheck(mask))
    <3>1. UNCHANGED <<endpoints, connected, header_buffer, latest>>
      BY <2>4 DEF Reset, InitT0, EnableCheck, DisableCheck, object
    <3> QED BY <1>0, <1>4, <3>1, CallsCache DEF CacheOK
  <2>5. CASE Fork
    <3>1. /\ KeysOf(header_buffer') = {} /\ header_buffer'.max_size = 1 /\ DOMAIN latest' = {}
          /\ connected' = FALSE /\ endpoints' = endpoints
      BY <2>5 DEF Fork, VoidMap, Holding, KeysOf
    <3>2. Cardinality(endpoints) \in Nat /\ IsFiniteSet(DOMAIN latest') /\ Cardinality(DOMAIN latest') = 0
      BY <3>1, FS_EmptySet, Endless DEF CacheOK
    <3>3. crowded' \in BOOLEAN
      BY <1>4 DEF Observe, CacheOK
    <3>4. endpoints' \subseteq Endpoints /\ header_buffer'.max_size \in Nat
      BY <3>1 DEF CacheOK
    <3>7. connected' \in BOOLEAN
      BY <3>1, Zenon
    <3>5. Cardinality(DOMAIN latest') <= Cardinality(endpoints')
      BY <3>1, <3>2
    <3>6. KeysOf(header_buffer)' = {}
      BY <3>1 DEF KeysOf
    <3> QED BY <1>0, <3>1, <3>2, <3>3, <3>4, <3>5, <3>6, <3>7 DEF CacheOK
  <2> QED BY <1>4, <2>1, <2>2, <2>3, <2>4, <2>5 DEF Call
<1>5. CASE CountNext /\ Observe
  <2>1. UNCHANGED <<endpoints, connected, header_buffer, latest>>
    BY <1>5 DEF CountNext, object
  <2> QED BY <1>0, <1>5, <2>1, CallsCache DEF CacheOK
<1> QED BY <1>1, <1>2, <1>3, <1>4, <1>5 DEF Next

\* A changed data header is never missed; and none is invented, as long as the
\* cache never held the headers of more endpoints, or with a shared socket more
\* headers, than there are endpoints listed (message.rs:325-360): however it was
\* resized by connecting, adding and removing meanwhile, it lost none.
THEOREM ChangesAreSeen == Spec => ChangeIsExact
<1> DEFINE A == Judged =>
          LET key == Key(returned'.endpoint, returned'.hash)
              known == key \in DOMAIN latest /\ latest[key] = returned'.hash
          IN  /\ returned'.changed \/ known
              /\ returned'.changed => ~known \/ crowded
<1>1. IdsOK /\ CacheOK /\ [Next]_vars => [A]_vars
  <2> SUFFICES ASSUME IdsOK, CacheOK, [Next]_vars, Judged PROVE A
    OBVIOUS
  <2>1. PICK e \in Endpoints : \E m \in Message(e) : Receive(e, m)
    BY JudgedIsRead DEF Judged
  <2>2. PICK m \in Message(e) : Receive(e, m)
    BY <2>1
  <2> DEFINE outcome == ParseOutcome(e, m)
             key == Key(e, m.hash)
             known == key \in DOMAIN latest /\ latest[key] = m.hash
  <2>3. /\ returned'.endpoint = e /\ returned'.hash = m.hash
        /\ returned'.changed = (outcome = "Messages" /\ ~Cached(e, m.hash))
        /\ returned'.verdict = IF outcome = "Messages" THEN CheckOutcome(e, m.id) ELSE outcome
    BY <2>2, ReceiveIs
  <2>4. outcome \in {"Messages", "ParsingError", "DecompressionError", "Panic"}
    BY OptionsAssumption DEF ParseOutcome, AllFaults, Outcome, Message
  <2> HIDE DEF outcome
  <2>5. outcome = "Messages"
    BY <2>3, <2>4 DEF Judged
  <2>6. /\ Cached(e, m.hash) => known
        /\ ~crowded /\ known => Cached(e, m.hash)
    BY DEF Cached, CacheOK
  <2> QED BY <2>3, <2>5, <2>6
<1>2. Init => IdsOK /\ CacheOK
  BY InitIds, InitCache
<1>3. IdsOK /\ CacheOK /\ [Next]_vars => IdsOK' /\ CacheOK'
  BY NextIds, NextCache
<1> QED BY <1>1, <1>2, <1>3, PTL DEF Spec, ChangeIsExact

-----------------------------------------------------------------------------
(* Sums over finite sets.  There is no induction to cite; in its place a   *)
(* counterexample with no counterexample among its subsets is refuted.     *)

LEMMA Smallest ==
  ASSUME NEW S, IsFiniteSet(S), NEW P \in SUBSET SUBSET S, P # {}
  PROVE  \E T \in P : IsFiniteSet(T) /\ \A U \in P : U \subseteq T => U = T
<1>1. P \subseteq FiniteSubsetsOf(S)
  BY FS_FiniteSubsetsOfFinite
<1>2. PICK T \in P : \A U \in P : ~(<<U, T>> \in StrictSubsetOrdering(S))
  BY <1>1, FS_StrictSubsetOrderingWellFounded, WFMin
<1>3. ASSUME NEW U \in P, U \subseteq T PROVE U = T
  <2>1. T \in SUBSET S /\ U \in SUBSET S /\ ~(<<U, T>> \in StrictSubsetOrdering(S))
    BY <1>2
  <2> QED BY <1>3, <2>1 DEF StrictSubsetOrdering
<1>4. IsFiniteSet(T)
  BY FS_Subset
<1> QED BY <1>3, <1>4

\* The element a fold takes out next.
Chosen(T) == CHOOSE x \in T : TRUE

\* What SumFunctionOnSet adds up as it goes.
IsTally(g, f, S) ==
    g = [T \in SUBSET S |-> IF T = {} THEN 0 ELSE f[Chosen(T)] + g[T \ {Chosen(T)}]]

LEMMA ChosenIsIn ==
  ASSUME NEW T, T # {}
  PROVE  Chosen(T) \in T /\ T \ {Chosen(T)} \subseteq T /\ T \ {Chosen(T)} # T
<1>1. Chosen(T) \in T
  BY DEF Chosen
<1> QED BY <1>1

LEMMA SumIsTally ==
  ASSUME NEW f, NEW S
  PROVE  SumFunctionOnSet(f, S) = (CHOOSE g : IsTally(g, f, S))[S]
BY DEF SumFunctionOnSet, FoldFunctionOnSet, MapThenFoldSet, IsTally, Chosen

\* Two tallies agree on what both of them count.
LEMMA TalliesAgree ==
  ASSUME NEW f, NEW S, NEW R, NEW g, NEW h, IsTally(g, f, S), IsTally(h, f, R), S \subseteq R,
         IsFiniteSet(S)
  PROVE  g[S] = h[S]
<1> DEFINE bad == {T \in SUBSET S : g[T] # h[T]}
<1> SUFFICES bad = {}
  OBVIOUS
<1> SUFFICES ASSUME bad # {} PROVE FALSE
  OBVIOUS
<1>1. PICK T \in bad : \A U \in bad : U \subseteq T => U = T
  <2>1. bad \in SUBSET SUBSET S
    OBVIOUS
  <2> HIDE DEF bad
  <2> QED BY <2>1, Smallest
<1>2. T \in SUBSET S /\ T \in SUBSET R /\ g[T] # h[T]
  OBVIOUS
<1>3. g[T] = IF T = {} THEN 0 ELSE f[Chosen(T)] + g[T \ {Chosen(T)}]
  BY <1>2 DEF IsTally
<1>4. h[T] = IF T = {} THEN 0 ELSE f[Chosen(T)] + h[T \ {Chosen(T)}]
  BY <1>2 DEF IsTally
<1>5. T # {}
  BY <1>2, <1>3, <1>4
<1>6. T \ {Chosen(T)} \notin bad
  BY <1>1, <1>5, ChosenIsIn
<1>7. g[T \ {Chosen(T)}] = h[T \ {Chosen(T)}]
  BY <1>2, <1>6
<1> QED BY <1>2, <1>3, <1>4, <1>5, <1>7

LEMMA TallyExists ==
  ASSUME NEW f, NEW S, IsFiniteSet(S)
  PROVE  \E g : IsTally(g, f, S)
<1> DEFINE bad == {T \in SUBSET S : ~\E g : IsTally(g, f, T)}
<1> SUFFICES bad = {}
  OBVIOUS
<1> SUFFICES ASSUME bad # {} PROVE FALSE
  OBVIOUS
<1>1. PICK T \in bad : IsFiniteSet(T) /\ \A U \in bad : U \subseteq T => U = T
  <2>1. bad \in SUBSET SUBSET S
    OBVIOUS
  <2> HIDE DEF bad
  <2> QED BY <2>1, Smallest
<1>2. T \in SUBSET S
  OBVIOUS
<1> DEFINE tally(U) == CHOOSE g : IsTally(g, f, U)
           rest(U) == U \ {Chosen(U)}
           h == [U \in SUBSET T |-> IF U = {} THEN 0 ELSE f[Chosen(U)] + tally(rest(U))[rest(U)]]
<1>3. ASSUME NEW U \in SUBSET T, U # T PROVE IsTally(tally(U), f, U)
  <2>1. U \notin bad /\ U \in SUBSET S
    BY <1>1, <1>2, <1>3
  <2>2. \E g : IsTally(g, f, U)
    BY <2>1
  <2> QED BY <2>2
<1>4. ASSUME NEW U \in SUBSET T, U # {}
      PROVE  h[rest(U)] = tally(rest(U))[rest(U)]
  <2> DEFINE V == rest(U)
  <2>1. V \in SUBSET T /\ V # T /\ V \subseteq U
    BY <1>4, ChosenIsIn
  <2>2. CASE V = {}
    <3>1. IsTally(tally(V), f, V)
      BY <1>3, <2>1
    <3>2. tally(V)[{}] = 0
      <4> HIDE DEF V, tally
      <4> QED BY <2>2, <3>1 DEF IsTally
    <3>3. h[V] = 0
      BY <2>1, <2>2
    <3> QED BY <2>2, <3>2, <3>3
  <2>3. CASE V # {}
    <3> DEFINE W == rest(V)
    <3>1. W \in SUBSET T /\ W # T /\ W \subseteq V
      BY <2>1, <2>3, ChosenIsIn
    <3>2. IsTally(tally(V), f, V) /\ IsTally(tally(W), f, W)
      BY <1>3, <2>1, <3>1
    <3>3. IsFiniteSet(W)
      BY <1>1, <3>1, FS_Subset
    <3>4. tally(W)[W] = tally(V)[W]
      <4> HIDE DEF V, W, tally
      <4> QED BY <3>1, <3>2, <3>3, TalliesAgree
    <3>5. tally(V)[V] = f[Chosen(V)] + tally(V)[W]
      <4> HIDE DEF V, tally
      <4>1. tally(V)[V] = IF V = {} THEN 0 ELSE f[Chosen(V)] + tally(V)[V \ {Chosen(V)}]
        BY <3>2 DEF IsTally
      <4> QED BY <2>3, <4>1
    <3>6. h[V] = f[Chosen(V)] + tally(W)[W]
      BY <2>1, <2>3
    <3> QED BY <3>4, <3>5, <3>6
  <2> QED BY <2>2, <2>3
<1>5. IsTally(h, f, T)
  <2>1. \A U \in SUBSET T : h[U] = IF U = {} THEN 0 ELSE f[Chosen(U)] + tally(rest(U))[rest(U)]
    OBVIOUS
  <2>2. h = [U \in SUBSET T |-> h[U]]
    OBVIOUS
  <2> HIDE DEF h, tally
  <2>3. \A U \in SUBSET T : h[U] = IF U = {} THEN 0 ELSE f[Chosen(U)] + h[rest(U)]
    BY <1>4, <2>1
  <2> QED BY <2>2, <2>3 DEF IsTally
<1>6. \E g : IsTally(g, f, T)
  <2> HIDE DEF h
  <2> QED BY <1>5
<1> QED BY <1>6

LEMMA SumStep ==
  ASSUME NEW f, NEW S, IsFiniteSet(S)
  PROVE  SumFunctionOnSet(f, S) =
            IF S = {} THEN 0 ELSE f[Chosen(S)] + SumFunctionOnSet(f, S \ {Chosen(S)})
<1> DEFINE g == CHOOSE t : IsTally(t, f, S)
           R == S \ {Chosen(S)}
           h == CHOOSE t : IsTally(t, f, R)
<1>1. IsFiniteSet(R)
  BY FS_Subset
<1>2. IsTally(g, f, S) /\ IsTally(h, f, R)
  BY <1>1, TallyExists
<1>3. SumFunctionOnSet(f, S) = g[S] /\ SumFunctionOnSet(f, R) = h[R]
  BY SumIsTally
<1> HIDE DEF g, h
<1>4. g[S] = IF S = {} THEN 0 ELSE f[Chosen(S)] + g[R]
  BY <1>2 DEF IsTally
<1>5. h[R] = g[R]
  BY <1>1, <1>2, TalliesAgree
<1> QED BY <1>3, <1>4, <1>5

LEMMA SumType ==
  ASSUME NEW f, NEW S, IsFiniteSet(S), \A x \in S : f[x] \in Nat
  PROVE  SumFunctionOnSet(f, S) \in Nat
<1> DEFINE bad == {T \in SUBSET S : SumFunctionOnSet(f, T) \notin Nat}
<1> SUFFICES bad = {}
  OBVIOUS
<1> SUFFICES ASSUME bad # {} PROVE FALSE
  OBVIOUS
<1>1. PICK T \in bad : IsFiniteSet(T) /\ \A U \in bad : U \subseteq T => U = T
  <2>1. bad \in SUBSET SUBSET S
    OBVIOUS
  <2> HIDE DEF bad
  <2> QED BY <2>1, Smallest
<1>2. T \in SUBSET S /\ SumFunctionOnSet(f, T) \notin Nat
  OBVIOUS
<1>3. T # {}
  <2>1. ASSUME T = {} PROVE SumFunctionOnSet(f, T) = 0
    BY <1>1, <2>1, SumStep
  <2> QED BY <1>2, <2>1
<1>4. Chosen(T) \in T /\ T \ {Chosen(T)} \notin bad
  BY <1>1, <1>3, ChosenIsIn
<1>5. f[Chosen(T)] \in Nat /\ SumFunctionOnSet(f, T \ {Chosen(T)}) \in Nat
  BY <1>2, <1>4
<1> QED BY <1>1, <1>2, <1>3, <1>5, SumStep

\* Any element can be taken out first.
LEMMA SumSplit ==
  ASSUME NEW f, NEW S, IsFiniteSet(S), \A x \in S : f[x] \in Nat, NEW x \in S
  PROVE  SumFunctionOnSet(f, S) = f[x] + SumFunctionOnSet(f, S \ {x})
<1> DEFINE Sum(T) == SumFunctionOnSet(f, T)
           bad == {T \in SUBSET S : \E y \in T : Sum(T) # f[y] + Sum(T \ {y})}
<1> SUFFICES bad = {}
  OBVIOUS
<1> SUFFICES ASSUME bad # {} PROVE FALSE
  OBVIOUS
<1>1. PICK T \in bad : IsFiniteSet(T) /\ \A U \in bad : U \subseteq T => U = T
  <2>1. bad \in SUBSET SUBSET S
    OBVIOUS
  <2> HIDE DEF bad
  <2> QED BY <2>1, Smallest
<1>2. PICK y \in T : Sum(T) # f[y] + Sum(T \ {y})
  OBVIOUS
<1> DEFINE c == Chosen(T)
<1>3. c \in T /\ T \ {c} # T
  BY <1>2, ChosenIsIn
<1>4. \A U \in SUBSET T : IsFiniteSet(U) /\ Sum(U) \in Nat
  BY <1>1, FS_Subset, SumType
<1>5. Sum(T) = f[c] + Sum(T \ {c})
  BY <1>1, <1>2, SumStep
<1> HIDE DEF c
<1>6. c # y
  BY <1>2, <1>5
<1>7. Sum(T \ {c}) = f[y] + Sum((T \ {c}) \ {y})
  <2>1. T \ {c} \notin bad /\ T \ {c} \in SUBSET S
    BY <1>1, <1>3
  <2> QED BY <1>6, <2>1
<1>8. Sum(T \ {y}) = f[c] + Sum((T \ {y}) \ {c})
  <2>1. T \ {y} \notin bad /\ T \ {y} \in SUBSET S
    BY <1>1
  <2> QED BY <1>3, <1>6, <2>1
<1>9. (T \ {c}) \ {y} = (T \ {y}) \ {c}
  OBVIOUS
<1>10. f[c] \in Nat /\ f[y] \in Nat /\ Sum((T \ {y}) \ {c}) \in Nat
  BY <1>3, <1>4
<1> HIDE DEF Sum, bad
<1> QED BY <1>2, <1>5, <1>7, <1>8, <1>9, <1>10

\* Only the values that are added up matter.
LEMMA SumSame ==
  ASSUME NEW f, NEW g, NEW S, IsFiniteSet(S), \A x \in S : f[x] = g[x]
  PROVE  SumFunctionOnSet(f, S) = SumFunctionOnSet(g, S)
<1> DEFINE bad == {T \in SUBSET S : SumFunctionOnSet(f, T) # SumFunctionOnSet(g, T)}
<1> SUFFICES bad = {}
  OBVIOUS
<1> SUFFICES ASSUME bad # {} PROVE FALSE
  OBVIOUS
<1>1. PICK T \in bad : IsFiniteSet(T) /\ \A U \in bad : U \subseteq T => U = T
  <2>1. bad \in SUBSET SUBSET S
    OBVIOUS
  <2> HIDE DEF bad
  <2> QED BY <2>1, Smallest
<1>2. T \in SUBSET S /\ SumFunctionOnSet(f, T) # SumFunctionOnSet(g, T)
  OBVIOUS
<1>3. T # {}
  BY <1>1, <1>2, SumStep
<1>4. Chosen(T) \in T /\ T \ {Chosen(T)} \notin bad
  BY <1>1, <1>3, ChosenIsIn
<1>5. f[Chosen(T)] = g[Chosen(T)] /\ SumFunctionOnSet(f, T \ {Chosen(T)}) = SumFunctionOnSet(g, T \ {Chosen(T)})
  BY <1>2, <1>4
<1> QED BY <1>1, <1>2, <1>3, <1>5, SumStep

LEMMA SumZero ==
  ASSUME NEW f, NEW S, IsFiniteSet(S), \A x \in S : f[x] = 0
  PROVE  SumFunctionOnSet(f, S) = 0
<1> DEFINE bad == {T \in SUBSET S : SumFunctionOnSet(f, T) # 0}
<1> SUFFICES bad = {}
  OBVIOUS
<1> SUFFICES ASSUME bad # {} PROVE FALSE
  OBVIOUS
<1>1. PICK T \in bad : IsFiniteSet(T) /\ \A U \in bad : U \subseteq T => U = T
  <2>1. bad \in SUBSET SUBSET S
    OBVIOUS
  <2> HIDE DEF bad
  <2> QED BY <2>1, Smallest
<1>2. T \in SUBSET S /\ SumFunctionOnSet(f, T) # 0
  OBVIOUS
<1>3. T # {}
  BY <1>1, <1>2, SumStep
<1>4. Chosen(T) \in T /\ T \ {Chosen(T)} \notin bad
  BY <1>1, <1>3, ChosenIsIn
<1>5. f[Chosen(T)] = 0 /\ SumFunctionOnSet(f, T \ {Chosen(T)}) = 0
  BY <1>2, <1>4
<1> QED BY <1>1, <1>2, <1>3, <1>5, SumStep

-----------------------------------------------------------------------------
(* The statistics.                                                         *)

LEMMA KindsFinite == IsFiniteSet(ErrorKinds)
<1>1. /\ IsFiniteSet({"RepeatedId"}) /\ IsFiniteSet({"NonPositiveId"}) /\ IsFiniteSet({"DecreasingId"})
      /\ IsFiniteSet({"OutOfRangeId"}) /\ IsFiniteSet({"ParsingError"})
      /\ IsFiniteSet({"DecompressionError"})
  BY FS_Singleton
<1>2. IsFiniteSet({"RepeatedId"} \cup {"NonPositiveId"} \cup {"DecreasingId"}
                     \cup {"OutOfRangeId"} \cup {"ParsingError"} \cup {"DecompressionError"})
  BY <1>1, FS_Union
<1>3. ErrorKinds = {"RepeatedId"} \cup {"NonPositiveId"} \cup {"DecreasingId"}
                     \cup {"OutOfRangeId"} \cup {"ParsingError"} \cup {"DecompressionError"}
  BY DEF ErrorKinds
<1> QED BY <1>2, <1>3

\* Counts with one of them counted once more.
More(f, kind) == [f EXCEPT ![kind] = @ + 1]

LEMMA MoreIs ==
  ASSUME NEW f \in [Kinds -> Nat], NEW kind \in Kinds, NEW g, g = More(f, kind)
  PROVE  /\ g \in [Kinds -> Nat]
         /\ \A k \in Kinds : g[k] = f[k] + (IF k = kind THEN 1 ELSE 0)
BY DEF More

\* A reason counted once more, and none.
LEMMA Plus ==
  ASSUME NEW f \in [Kinds -> Nat], NEW kind \in Kinds, NEW g, g = More(f, kind)
  PROVE  /\ SumFunctionOnSet(f, ErrorKinds) \in Nat
         /\ SumFunctionOnSet(g, ErrorKinds)
               = SumFunctionOnSet(f, ErrorKinds) + (IF kind \in ErrorKinds THEN 1 ELSE 0)
<1>0. \A k \in Kinds : f[k] \in Nat /\ g[k] \in Nat /\ g[k] = f[k] + (IF k = kind THEN 1 ELSE 0)
  BY MoreIs
<1>1. ErrorKinds \subseteq Kinds /\ IsFiniteSet(ErrorKinds)
  BY KindsFinite DEF Kinds
<1>2. \A k \in ErrorKinds : f[k] \in Nat /\ g[k] \in Nat
  BY <1>0, <1>1
<1>5. SumFunctionOnSet(f, ErrorKinds) \in Nat
  BY <1>1, <1>2, SumType
<1>3. ASSUME kind \in ErrorKinds
      PROVE  SumFunctionOnSet(g, ErrorKinds) = SumFunctionOnSet(f, ErrorKinds) + 1
  <2> DEFINE others == ErrorKinds \ {kind}
  <2>1. IsFiniteSet(others)
    BY <1>1, FS_Subset
  <2>2. g[kind] = f[kind] + 1 /\ \A j \in others : g[j] = f[j]
    BY <1>0, <1>1, <1>3
  <2>3. /\ SumFunctionOnSet(g, ErrorKinds) = g[kind] + SumFunctionOnSet(g, others)
        /\ SumFunctionOnSet(f, ErrorKinds) = f[kind] + SumFunctionOnSet(f, others)
    BY <1>1, <1>2, <1>3, SumSplit
  <2>4. SumFunctionOnSet(g, others) = SumFunctionOnSet(f, others)
    BY <2>1, <2>2, SumSame
  <2>5. SumFunctionOnSet(f, others) \in Nat /\ f[kind] \in Nat
    BY <1>2, <1>3, <2>1, SumType
  <2> HIDE DEF others
  <2> QED BY <2>2, <2>3, <2>4, <2>5
<1>4. ASSUME kind \notin ErrorKinds
      PROVE  SumFunctionOnSet(g, ErrorKinds) = SumFunctionOnSet(f, ErrorKinds)
  <2>1. \A k \in ErrorKinds : g[k] = f[k]
    BY <1>0, <1>1, <1>4
  <2> QED BY <1>1, <2>1, SumSame
<1> QED BY <1>3, <1>4, <1>5

\* What the endpoints count of a kind, in StatsAddUp.
Total(d, kind) == SumFunction([e \in DOMAIN d |-> d[e][kind]])

\* Counts, by endpoint and kind, of finitely many endpoints.
IsCounts(d) == IsFiniteSet(DOMAIN d) /\ \A e \in DOMAIN d : d[e] \in [Kinds -> Nat]

LEMMA TotalSplit ==
  ASSUME NEW d, IsCounts(d), NEW kind \in Kinds
  PROVE  /\ Total(d, kind) \in Nat
         /\ \A e : Total(d, kind) = (IF e \in DOMAIN d THEN d[e][kind] ELSE 0)
                                        + Total(Without(d, {e}), kind)
         /\ \A e : Total(Without(d, {e}), kind) \in Nat
<1> DEFINE D == DOMAIN d
           f == [e \in D |-> d[e][kind]]
<1>1. IsFiniteSet(D) /\ \A e \in D : f[e] \in Nat
  BY DEF IsCounts
<1>2. Total(d, kind) = SumFunctionOnSet(f, D)
  BY DEF Total, SumFunction
<1>3. ASSUME NEW e
      PROVE  /\ Total(Without(d, {e}), kind) = SumFunctionOnSet(f, D \ {e})
             /\ Total(Without(d, {e}), kind) \in Nat
  <2> DEFINE E == D \ {e}
             w == Without(d, {e})
             g == [c \in DOMAIN w |-> w[c][kind]]
  <2>1. DOMAIN w = E /\ DOMAIN g = E /\ \A c \in E : g[c] = f[c]
    BY DEF Without
  <2>2. Total(w, kind) = SumFunctionOnSet(g, E)
    BY <2>1 DEF Total, SumFunction
  <2>3. IsFiniteSet(E) /\ \A c \in E : f[c] \in Nat
    BY <1>1, FS_Subset
  <2> HIDE DEF g, f, w
  <2>4. SumFunctionOnSet(g, E) = SumFunctionOnSet(f, E)
    BY <2>1, <2>3, SumSame
  <2>5. SumFunctionOnSet(f, E) \in Nat
    BY <2>3, SumType
  <2> QED BY <2>2, <2>4, <2>5 DEF w
<1>4. SumFunctionOnSet(f, D) \in Nat
  <2> HIDE DEF f, D
  <2> QED BY <1>1, SumType
<1>5. ASSUME NEW e
      PROVE  SumFunctionOnSet(f, D) = (IF e \in D THEN f[e] ELSE 0) + SumFunctionOnSet(f, D \ {e})
  <2> HIDE DEF f, D
  <2>1. CASE e \in D
    BY <1>1, <2>1, SumSplit
  <2>2. CASE e \notin D
    <3>1. D \ {e} = D
      BY <2>2
    <3>2. SumFunctionOnSet(f, D \ {e}) = SumFunctionOnSet(f, D)
      BY <3>1, Zenon
    <3> QED BY <1>4, <2>2, <3>2
  <2> QED BY <2>1, <2>2
<1>6. \A e \in D : f[e] = d[e][kind]
  OBVIOUS
<1> HIDE DEF f
<1> QED BY <1>2, <1>3, <1>4, <1>5, <1>6

\* Whose counts a message from e goes to, and what they are so far.
Counted(e) == IF shared THEN "" ELSE e

CountsOf(ep) == IF ep \in DOMAIN diagnostics THEN diagnostics[ep] ELSE NoCounts

LEMMA CountIs ==
  ASSUME NEW e, NEW kind
  PROVE  Count(e, kind) = With(diagnostics, Counted(e), More(CountsOf(Counted(e)), kind))
BY Zenon DEF Count, Counted, CountsOf, More

LEMMA CountsOfType ==
  ASSUME IsCounts(diagnostics), NEW ep
  PROVE  /\ CountsOf(ep) \in [Kinds -> Nat]
         /\ \A k \in Kinds : CountsOf(ep)[k] = IF ep \in DOMAIN diagnostics THEN diagnostics[ep][k] ELSE 0
<1>1. NoCounts \in [Kinds -> Nat] /\ \A k \in Kinds : NoCounts[k] = 0
  BY DEF NoCounts
<1> QED BY <1>1 DEF CountsOf, IsCounts

\* What a call of increse_stats on one endpoint makes of its counts and of the
\* sums over the endpoints.
Adds(d, ep, kind) ==
    /\ IsCounts(d)
    /\ \A k \in Kinds : Total(d, k) = Total(diagnostics, k) + (IF k = kind THEN 1 ELSE 0)
    /\ DOMAIN d = DOMAIN diagnostics \cup {ep}
    /\ \A c \in DOMAIN diagnostics : c # ep => d[c] = diagnostics[c]
    /\ d[ep] = More(CountsOf(ep), kind)

LEMMA CountAdds ==
  ASSUME NEW e, NEW kind \in Kinds, IsCounts(diagnostics), NEW d, d = Count(e, kind)
  PROVE  Adds(d, Counted(e), kind)
<1>1. PICK ep : ep = Counted(e)
  OBVIOUS
<1>2. PICK old : old = CountsOf(ep)
  OBVIOUS
<1>3. PICK new : new = More(old, kind)
  OBVIOUS
<1>4. d = With(diagnostics, ep, new)
  BY <1>1, <1>2, <1>3, CountIs, Zenon
<1>5. /\ old \in [Kinds -> Nat]
      /\ \A k \in Kinds : old[k] = IF ep \in DOMAIN diagnostics THEN diagnostics[ep][k] ELSE 0
  BY <1>2, CountsOfType
<1>6. /\ new \in [Kinds -> Nat]
      /\ \A k \in Kinds : new[k] = old[k] + (IF k = kind THEN 1 ELSE 0)
  BY <1>3, <1>5, MoreIs
<1>7. /\ DOMAIN d = DOMAIN diagnostics \cup {ep}
      /\ \A c \in DOMAIN diagnostics : c # ep => d[c] = diagnostics[c]
      /\ d[ep] = new
  BY <1>4 DEF With
<1>8. IsCounts(d)
  <2>1. IsFiniteSet(DOMAIN diagnostics \cup {ep})
    BY FS_AddElement DEF IsCounts
  <2> QED BY <1>6, <1>7, <2>1 DEF IsCounts
<1>9. ASSUME NEW k \in Kinds
      PROVE  Total(d, k) = Total(diagnostics, k) + (IF k = kind THEN 1 ELSE 0)
  <2>1. Without(d, {ep}) = Without(diagnostics, {ep})
    <3>1. DOMAIN d \ {ep} = DOMAIN diagnostics \ {ep}
      BY <1>7
    <3>2. \A c \in DOMAIN diagnostics \ {ep} : d[c] = diagnostics[c]
      BY <1>7
    <3> QED BY <3>1, <3>2 DEF Without
  <2>2. Total(d, k) = new[k] + Total(Without(diagnostics, {ep}), k)
    BY <1>7, <1>8, <2>1, TotalSplit
  <2>3. Total(diagnostics, k) = old[k] + Total(Without(diagnostics, {ep}), k)
        /\ Total(Without(diagnostics, {ep}), k) \in Nat
    <3>1. /\ Total(diagnostics, k) = (IF ep \in DOMAIN diagnostics THEN diagnostics[ep][k] ELSE 0)
                                        + Total(Without(diagnostics, {ep}), k)
          /\ Total(Without(diagnostics, {ep}), k) \in Nat
      BY TotalSplit
    <3>2. old[k] = IF ep \in DOMAIN diagnostics THEN diagnostics[ep][k] ELSE 0
      BY <1>5
    <3> QED BY <3>1, <3>2
  <2>4. old[k] \in Nat /\ new[k] = old[k] + (IF k = kind THEN 1 ELSE 0)
    BY <1>5, <1>6
  <2> QED BY <2>2, <2>3, <2>4
<1>10. d[ep] = More(CountsOf(ep), kind)
  BY <1>2, <1>3, <1>7
<1>11. Adds(d, ep, kind)
  BY <1>7, <1>8, <1>9, <1>10 DEF Adds
<1> QED BY <1>1, <1>11

\* What a message still owes the counts, before `what` is counted of it.
ErrorDue(what) == IF what \in {"counter_error", "Errors"} THEN 1 ELSE 0
MessageDue(what) == IF what \in {"counter_messages", "Messages"} THEN 1 ELSE 0

\* One endpoint's counts, x errors and y messages being due; z is 1 if a reset may
\* have taken the reason of one of its errors away.
AddUp(f, x, y, z) ==
    /\ f["Errors"] + x - SumFunctionOnSet(f, ErrorKinds) \in 0 .. z
    /\ f["HeaderChange"] <= f["Messages"] + y

Stray == IF split THEN 1 ELSE 0

\* All that is counted, when what comes next is `what`, of endpoint e.
StatsWhen(e, what) ==
    /\ messages \in Nat /\ errors \in Nat /\ split \in BOOLEAN
    /\ IsCounts(diagnostics)
    /\ \A ep : AddUp(CountsOf(ep), IF ep = Counted(e) THEN ErrorDue(what) ELSE 0,
                                   IF ep = Counted(e) THEN MessageDue(what) ELSE 0, Stray)
    /\ Total(diagnostics, "Messages") + MessageDue(what)
          <= messages + (IF what = "counter_messages" THEN 1 ELSE 0) + Stray
    /\ Total(diagnostics, "Errors") + ErrorDue(what)
          <= errors + (IF what = "counter_error" THEN 1 ELSE 0) + Stray

\* What is counted, one by one.
Numbers ==
    ErrorKinds \cup {"counter_error", "Errors", "HeaderChange", "counter_messages", "Messages",
                     "SocketError"}

StatsOK ==
    /\ counting.next \in Numbers \cup {"done"}
    /\ counting # Done => counting.next \in Numbers
    /\ StatsWhen(counting.endpoint, counting.next)

LEMMA NumbersAre ==
  /\ {"Errors", "Messages", "HeaderChange"} \subseteq Kinds /\ ErrorKinds \subseteq Kinds
  /\ {"Errors", "Messages", "HeaderChange", "SocketError"} \cap ErrorKinds = {}
  /\ {"counter_error", "counter_messages", "done"} \cap Kinds = {}
BY DEF Kinds, ErrorKinds

LEMMA NoCountsAddUp == NoCounts \in [Kinds -> Nat] /\ SumFunctionOnSet(NoCounts, ErrorKinds) = 0
<1>1. ErrorKinds \subseteq Kinds
  BY DEF Kinds
<1>2. SumFunctionOnSet(NoCounts, ErrorKinds) = 0
  BY <1>1, KindsFinite, SumZero DEF NoCounts
<1> QED BY <1>2 DEF NoCounts

\* A number counted is no longer due.
LEMMA CountedAddUp ==
  ASSUME NEW f \in [Kinds -> Nat], NEW what \in Numbers, NEW z \in 0 .. 1,
         AddUp(f, ErrorDue(what), MessageDue(what), z),
         NEW g, g = IF what \in Kinds THEN More(f, what) ELSE f
  PROVE  AddUp(g, ErrorDue(After(what)), MessageDue(After(what)), z)
<1>1. /\ f["Errors"] \in Nat /\ f["Messages"] \in Nat /\ f["HeaderChange"] \in Nat
      /\ SumFunctionOnSet(f, ErrorKinds) \in Nat
  BY NumbersAre, Plus
<1>2. CASE what \in Kinds
  <2>1. /\ g["Errors"] = f["Errors"] + (IF what = "Errors" THEN 1 ELSE 0)
        /\ g["Messages"] = f["Messages"] + (IF what = "Messages" THEN 1 ELSE 0)
        /\ g["HeaderChange"] = f["HeaderChange"] + (IF what = "HeaderChange" THEN 1 ELSE 0)
    BY <1>2, NumbersAre, MoreIs
  <2>2. SumFunctionOnSet(g, ErrorKinds)
           = SumFunctionOnSet(f, ErrorKinds) + (IF what \in ErrorKinds THEN 1 ELSE 0)
    BY <1>2, Plus
  <2>3. CASE what \in ErrorKinds
    <3>1. /\ what \notin {"Errors", "Messages", "HeaderChange", "counter_error", "counter_messages"}
          /\ After(what) = "counter_error"
      BY <2>3, NumbersAre DEF After
    <3> QED BY <1>1, <2>1, <2>2, <2>3, <3>1 DEF AddUp, ErrorDue, MessageDue
  <2>4. CASE what \notin ErrorKinds
    <3>1. what \in {"Errors", "HeaderChange", "Messages", "SocketError"}
      BY <1>2, <2>4, NumbersAre DEF Numbers
    <3>2. After(what) = IF what = "HeaderChange" THEN "counter_messages" ELSE "done"
      BY <2>4, <3>1 DEF After
    <3> QED BY <1>1, <2>1, <2>2, <2>4, <3>1, <3>2 DEF AddUp, ErrorDue, MessageDue
  <2> QED BY <2>3, <2>4
<1>3. CASE what \notin Kinds
  <2>1. what \in {"counter_error", "counter_messages"} /\ what \notin ErrorKinds
    BY <1>3, NumbersAre DEF Numbers, Kinds
  <2>2. After(what) = IF what = "counter_error" THEN "Errors" ELSE "Messages"
    BY <2>1 DEF After
  <2> QED BY <1>3, <2>1, <2>2 DEF AddUp, ErrorDue, MessageDue
<1> QED BY <1>2, <1>3

\* What is due of a message comes after what is counted of it now.
LEMMA AfterIs ==
  ASSUME NEW what \in Numbers
  PROVE  /\ After(what) \in Numbers \cup {"done"}
         /\ ErrorDue(After(what)) = IF what \in ErrorKinds \cup {"counter_error"} THEN 1 ELSE 0
         /\ MessageDue(After(what)) = IF what \in {"HeaderChange", "counter_messages"} THEN 1 ELSE 0
         /\ After(what) = "counter_error" <=> what \in ErrorKinds
         /\ After(what) = "counter_messages" <=> what = "HeaderChange"
BY NumbersAre DEF After, Numbers, ErrorDue, MessageDue

\* One number counted keeps the rest in step.
LEMMA IncreaseKeeps ==
  ASSUME NEW e, NEW what \in Numbers, StatsWhen(e, what), Increase(e, what), UNCHANGED shared
  PROVE  StatsOK'
<1> DEFINE ep == Counted(e)
           next == After(what)
<1>1. /\ messages' = IF what = "counter_messages" THEN messages + 1 ELSE messages
      /\ errors' = IF what = "counter_error" THEN errors + 1 ELSE errors
      /\ diagnostics' = IF what \in Kinds THEN Count(e, what) ELSE diagnostics
      /\ counting' = IF next = "done" THEN Done ELSE [endpoint |-> e, next |-> next]
      /\ UNCHANGED split
  BY DEF Increase
<1>2. /\ IsCounts(diagnostics')
      /\ \A k \in Kinds : Total(diagnostics', k) = Total(diagnostics, k) + (IF k = what THEN 1 ELSE 0)
      /\ \A c : CountsOf(c)' = IF c = ep /\ what \in Kinds THEN More(CountsOf(c), what) ELSE CountsOf(c)
  <2>1. CASE what \in Kinds
    <3>1. PICK d : d = diagnostics'
      OBVIOUS
    <3>2. d = Count(e, what) /\ IsCounts(diagnostics)
      BY <1>1, <2>1, <3>1 DEF StatsWhen
    <3>3. Adds(d, ep, what)
      BY <2>1, <3>2, CountAdds
    <3> HIDE DEF ep
    <3>4. /\ IsCounts(d)
          /\ \A k \in Kinds : Total(d, k) = Total(diagnostics, k) + (IF k = what THEN 1 ELSE 0)
      BY <3>3 DEF Adds
    <3>5. \A c : CountsOf(c)' = IF c = ep THEN More(CountsOf(c), what) ELSE CountsOf(c)
      BY <3>1, <3>3 DEF Adds, CountsOf
    <3> QED BY <2>1, <3>1, <3>4, <3>5
  <2>2. CASE what \notin Kinds
    <3>1. UNCHANGED diagnostics /\ IsCounts(diagnostics)
      BY <1>1, <2>2 DEF StatsWhen
    <3>2. \A k \in Kinds : Total(diagnostics, k) \in Nat
      BY <3>1, TotalSplit
    <3> QED BY <2>2, <3>1, <3>2 DEF CountsOf
  <2> QED BY <2>1, <2>2
<1>3. Stray \in 0 .. 1 /\ UNCHANGED Stray
  BY <1>1 DEF StatsWhen, Stray
<1>4. ASSUME NEW c
      PROVE  AddUp(CountsOf(c)', IF c = ep THEN ErrorDue(next) ELSE 0,
                                 IF c = ep THEN MessageDue(next) ELSE 0, Stray)
  <2>1. AddUp(CountsOf(c), IF c = ep THEN ErrorDue(what) ELSE 0,
                           IF c = ep THEN MessageDue(what) ELSE 0, Stray)
    BY DEF StatsWhen
  <2>2. CASE c = ep
    <3>1. PICK f : f = CountsOf(c)
      OBVIOUS
    <3>2. PICK g : g = CountsOf(c)'
      OBVIOUS
    <3>3. PICK z : z = Stray
      OBVIOUS
    <3>4. f \in [Kinds -> Nat] /\ z \in 0 .. 1
      BY <1>3, <3>1, <3>3, CountsOfType DEF StatsWhen
    <3>5. AddUp(f, ErrorDue(what), MessageDue(what), z)
      BY <2>1, <2>2, <3>1, <3>3
    <3>6. g = IF what \in Kinds THEN More(f, what) ELSE f
      BY <1>2, <2>2, <3>1, <3>2
    <3>7. AddUp(g, ErrorDue(next), MessageDue(next), z)
      BY <3>4, <3>5, <3>6, CountedAddUp
    <3> QED BY <2>2, <3>2, <3>3, <3>7
  <2>3. CASE c # ep
    BY <1>2, <2>1, <2>3
  <2> QED BY <2>2, <2>3
<1>5. /\ Total(diagnostics', "Messages") + MessageDue(next)
            <= messages' + (IF next = "counter_messages" THEN 1 ELSE 0) + Stray
      /\ Total(diagnostics', "Errors") + ErrorDue(next)
            <= errors' + (IF next = "counter_error" THEN 1 ELSE 0) + Stray
  <2>1. /\ Total(diagnostics, "Messages") + MessageDue(what)
              <= messages + (IF what = "counter_messages" THEN 1 ELSE 0) + Stray
        /\ Total(diagnostics, "Errors") + ErrorDue(what)
              <= errors + (IF what = "counter_error" THEN 1 ELSE 0) + Stray
        /\ messages \in Nat /\ errors \in Nat /\ IsCounts(diagnostics)
    BY DEF StatsWhen
  <2>2. Total(diagnostics, "Messages") \in Nat /\ Total(diagnostics, "Errors") \in Nat
    BY <2>1, NumbersAre, TotalSplit
  <2>3. /\ Total(diagnostics', "Messages") = Total(diagnostics, "Messages") + (IF what = "Messages" THEN 1 ELSE 0)
        /\ Total(diagnostics', "Errors") = Total(diagnostics, "Errors") + (IF what = "Errors" THEN 1 ELSE 0)
    BY <1>2, NumbersAre
  <2>4. what \in ErrorKinds => what \notin {"Errors", "Messages", "HeaderChange", "counter_error",
                                            "counter_messages"}
    BY NumbersAre
  <2> HIDE DEF next
  <2>5. /\ ErrorDue(next) = IF what \in ErrorKinds \cup {"counter_error"} THEN 1 ELSE 0
        /\ MessageDue(next) = IF what \in {"HeaderChange", "counter_messages"} THEN 1 ELSE 0
        /\ next = "counter_error" <=> what \in ErrorKinds
        /\ next = "counter_messages" <=> what = "HeaderChange"
    BY AfterIs DEF next
  <2> QED BY <1>1, <1>3, <2>1, <2>2, <2>3, <2>4, <2>5 DEF ErrorDue, MessageDue
<1>6. messages' \in Nat /\ errors' \in Nat /\ split' \in BOOLEAN
  BY <1>1 DEF StatsWhen
<1>7. /\ counting'.next = next /\ next \in Numbers \cup {"done"}
      /\ counting' # Done => next \in Numbers
  BY <1>1, AfterIs DEF Done
<1>8. \A c : (IF c = Counted(counting.endpoint)' THEN ErrorDue(next) ELSE 0)
                = (IF c = ep THEN ErrorDue(next) ELSE 0)
         /\ (IF c = Counted(counting.endpoint)' THEN MessageDue(next) ELSE 0)
                = (IF c = ep THEN MessageDue(next) ELSE 0)
  <2>1. CASE next = "done"
    BY <2>1 DEF ErrorDue, MessageDue
  <2>2. CASE next # "done"
    BY <1>1, <2>2 DEF Counted
  <2> QED BY <2>1, <2>2
<1> HIDE DEF next, ep
<1>9. \A c : AddUp(CountsOf(c), IF c = Counted(counting.endpoint) THEN ErrorDue(counting.next) ELSE 0,
                               IF c = Counted(counting.endpoint) THEN MessageDue(counting.next) ELSE 0,
                               Stray)'
  BY <1>3, <1>4, <1>7, <1>8 DEF AddUp
<1> QED BY <1>2, <1>3, <1>5, <1>6, <1>7, <1>9 DEF StatsOK, StatsWhen

\* Before the first number of a message nothing is due.
LEMMA StartStats ==
  ASSUME StatsOK, counting = Done, NEW e,
         NEW what \in ErrorKinds \cup {"HeaderChange", "counter_messages", "SocketError"}
  PROVE  StatsWhen(e, what) /\ what \in Numbers
<1>1. /\ counting.next = "done" /\ what \in Numbers /\ ErrorDue(what) = 0
      /\ MessageDue(what) = IF what = "counter_messages" THEN 1 ELSE 0
      /\ what # "counter_error"
  BY NumbersAre DEF Done, Numbers, ErrorDue, MessageDue
<1>2. \A ep : AddUp(CountsOf(ep), 0, 0, Stray)
  BY <1>1 DEF StatsOK, StatsWhen, ErrorDue, MessageDue
<1>3. /\ messages \in Nat /\ errors \in Nat /\ split \in BOOLEAN /\ IsCounts(diagnostics)
      /\ Total(diagnostics, "Messages") <= messages + Stray
      /\ Total(diagnostics, "Errors") <= errors + Stray
  <2>1. IsCounts(diagnostics) /\ messages \in Nat /\ errors \in Nat /\ split \in BOOLEAN
    BY DEF StatsOK, StatsWhen
  <2>2. Total(diagnostics, "Messages") \in Nat /\ Total(diagnostics, "Errors") \in Nat
    BY <2>1, NumbersAre, TotalSplit
  <2> QED BY <1>1, <2>1, <2>2 DEF StatsOK, StatsWhen, ErrorDue, MessageDue, Stray
<1>4. Total(diagnostics, "Messages") \in Nat /\ Total(diagnostics, "Errors") \in Nat
  BY <1>3, NumbersAre, TotalSplit
<1>5. ASSUME NEW ep
      PROVE  AddUp(CountsOf(ep), IF ep = Counted(e) THEN ErrorDue(what) ELSE 0,
                                 IF ep = Counted(e) THEN MessageDue(what) ELSE 0, Stray)
  <2>1. CountsOf(ep) \in [Kinds -> Nat]
    BY <1>3, CountsOfType
  <2>2. CountsOf(ep)["Messages"] \in Nat /\ CountsOf(ep)["HeaderChange"] \in Nat
    BY <2>1, NumbersAre
  <2> QED BY <1>1, <1>2, <2>2 DEF AddUp
<1>6. /\ Total(diagnostics, "Messages") + MessageDue(what)
            <= messages + (IF what = "counter_messages" THEN 1 ELSE 0) + Stray
      /\ Total(diagnostics, "Errors") + ErrorDue(what)
            <= errors + (IF what = "counter_error" THEN 1 ELSE 0) + Stray
  BY <1>1, <1>3, <1>4 DEF Stray
<1> QED BY <1>1, <1>3, <1>5, <1>6 DEF StatsWhen

\* Where nothing is counted, nothing changes.
LEMMA SameStats ==
  ASSUME StatsOK, UNCHANGED stats, UNCHANGED shared
  PROVE  StatsOK'
<1>1. \A ep : UNCHANGED CountsOf(ep) /\ UNCHANGED Counted(ep)
  BY DEF stats, CountsOf, Counted
<1> QED BY <1>1 DEF StatsOK, StatsWhen, stats, Stray, Counted

LEMMA ReceiveStats ==
  ASSUME StatsOK, counting = Done, UNCHANGED shared,
         NEW e \in Endpoints, NEW m \in Message(e), Receive(e, m)
  PROVE  StatsOK'
<1> DEFINE outcome == ParseOutcome(e, m)
           changed == outcome = "Messages" /\ ~Cached(e, m.hash)
           verdict == IF outcome = "Messages" THEN CheckOutcome(e, m.id) ELSE outcome
           first == IF verdict # "Messages" THEN verdict
                    ELSE IF changed THEN "HeaderChange" ELSE "counter_messages"
<1>1. IF verdict = "Panic" THEN UNCHANGED stats ELSE Increase(e, first)
  BY DEF Receive
<1>2. verdict \in ErrorKinds \cup {"Messages", "Panic"}
  <2>1. outcome \in {"Messages", "ParsingError", "DecompressionError", "Panic"}
    BY OptionsAssumption DEF ParseOutcome, AllFaults, Outcome, Message
  <2> HIDE DEF outcome
  <2> QED BY <2>1 DEF CheckOutcome, ErrorKinds
<1> HIDE DEF verdict, changed
<1>3. CASE verdict = "Panic"
  BY <1>1, <1>3, SameStats
<1>4. CASE verdict # "Panic"
  <2>1. first \in ErrorKinds \cup {"HeaderChange", "counter_messages", "SocketError"}
    BY <1>2, <1>4
  <2>2. Increase(e, first)
    BY <1>1, <1>4
  <2> HIDE DEF first
  <2> QED BY <2>1, <2>2, StartStats, IncreaseKeeps
<1> QED BY <1>3, <1>4

\* Where nothing is counted.
LEMMA NothingCounted == IsCounts(<<>>) /\ \A k : Total(<<>>, k) = 0
<1>1. DOMAIN <<>> = {} /\ IsFiniteSet({})
  BY FS_EmptySet
<1>2. ASSUME NEW k PROVE Total(<<>>, k) = 0
  <2> DEFINE f == [e \in DOMAIN <<>> |-> <<>>[e][k]]
  <2>1. DOMAIN f = {}
    BY <1>1
  <2>2. Total(<<>>, k) = SumFunctionOnSet(f, {})
    BY <2>1 DEF Total, SumFunction
  <2> QED BY <1>1, <2>2, SumStep
<1> QED BY <1>1, <1>2 DEF IsCounts

LEMMA DoneIs ==
  /\ Done.next = "done" /\ Done.endpoint = "" /\ "done" \notin Numbers
  /\ ErrorDue("done") = 0 /\ MessageDue("done") = 0
BY DEF Done, Numbers, ErrorKinds, ErrorDue, MessageDue

\* With nothing counted, what is still due of a message is stray.
LEMMA NoneAddUp ==
  ASSUME NEW what \in Numbers \cup {"done"}, NEW z, z = IF what = "done" THEN 0 ELSE 1
  PROVE  \A x \in {0, ErrorDue(what)}, y \in {0, MessageDue(what)} : AddUp(NoCounts, x, y, z)
<1>1. NoCounts["Errors"] = 0 /\ NoCounts["Messages"] = 0 /\ NoCounts["HeaderChange"] = 0
  BY NumbersAre DEF NoCounts
<1>2. {0, ErrorDue(what)} \subseteq 0 .. z /\ {0, MessageDue(what)} \subseteq 0 .. z
  BY DEF ErrorDue, MessageDue
<1> QED BY <1>1, <1>2, NoCountsAddUp DEF AddUp

LEMMA InitStats == Init => StatsOK
<1> SUFFICES ASSUME Init PROVE StatsOK
  OBVIOUS
<1>1. /\ messages = 0 /\ errors = 0 /\ diagnostics = <<>> /\ counting = Done /\ split = FALSE
      /\ counting.next = "done"
  BY DEF Init, Done
<1>2. \A ep : CountsOf(ep) = NoCounts
  BY <1>1 DEF CountsOf
<1>3. Stray = 0 /\ ErrorDue("done") = 0 /\ MessageDue("done") = 0
  BY <1>1 DEF Stray, ErrorDue, MessageDue
<1>4. AddUp(NoCounts, 0, 0, 0)
  BY NoneAddUp
<1>5. IsCounts(diagnostics) /\ Total(diagnostics, "Messages") = 0 /\ Total(diagnostics, "Errors") = 0
  BY <1>1, NothingCounted
<1>6. \A ep : AddUp(CountsOf(ep), IF ep = Counted("") THEN ErrorDue("done") ELSE 0,
                                 IF ep = Counted("") THEN MessageDue("done") ELSE 0, Stray)
  BY <1>2, <1>3, <1>4
<1>7. /\ messages \in Nat /\ errors \in Nat /\ split \in BOOLEAN
      /\ Total(diagnostics, "Messages") + MessageDue("done")
            <= messages + (IF "done" = "counter_messages" THEN 1 ELSE 0) + Stray
      /\ Total(diagnostics, "Errors") + ErrorDue("done")
            <= errors + (IF "done" = "counter_error" THEN 1 ELSE 0) + Stray
  <2>1. split \in BOOLEAN
    BY <1>1, Zenon
  <2>2. messages = 0 /\ errors = 0
    BY <1>1, Zenon
  <2> QED BY <1>3, <1>5, <2>1, <2>2
<1>9. StatsWhen("", "done")
  BY <1>5, <1>6, <1>7, Zenon DEF StatsWhen
<1>8. counting.endpoint = "" /\ counting.next = "done" /\ counting = Done
  BY <1>1 DEF Done
<1> QED BY <1>8, <1>9 DEF StatsOK

\* reset_counters empties counts and totals together.
LEMMA ResetStats ==
  ASSUME StatsOK, ResetCounters
  PROVE  StatsOK'
<1>1. /\ messages' = 0 /\ errors' = 0 /\ diagnostics' = <<>>
      /\ split' = (counting # Done) /\ UNCHANGED counting
  BY DEF ResetCounters
<1>2. PICK what : what = counting.next
  OBVIOUS
<1>3. what \in Numbers \cup {"done"} /\ (counting # Done <=> what # "done")
  BY <1>2, DoneIs DEF StatsOK
<1>4. \A ep : CountsOf(ep)' = NoCounts
  BY <1>1 DEF CountsOf
<1>5. PICK z : z = Stray'
  OBVIOUS
<1>6. z = IF what = "done" THEN 0 ELSE 1
  BY <1>1, <1>3, <1>5 DEF Stray
<1>7. \A x \in {0, ErrorDue(what)}, y \in {0, MessageDue(what)} : AddUp(NoCounts, x, y, z)
  BY <1>3, <1>6, NoneAddUp
<1>8. IsCounts(diagnostics') /\ Total(diagnostics', "Messages") = 0 /\ Total(diagnostics', "Errors") = 0
  BY <1>1, NothingCounted
<1>9. counting'.next = what
  BY <1>1, <1>2
<1>10. ErrorDue(what) \in 0 .. z /\ MessageDue(what) \in 0 .. z /\ z \in 0 .. 1
  BY <1>6 DEF ErrorDue, MessageDue
<1>11. \A ep : AddUp(CountsOf(ep), IF ep = Counted(counting.endpoint) THEN ErrorDue(counting.next) ELSE 0,
                                  IF ep = Counted(counting.endpoint) THEN MessageDue(counting.next) ELSE 0,
                                  Stray)'
  <2> SUFFICES ASSUME NEW ep
               PROVE  AddUp(CountsOf(ep)', (IF ep = Counted(counting.endpoint) THEN ErrorDue(counting.next) ELSE 0)',
                            (IF ep = Counted(counting.endpoint) THEN MessageDue(counting.next) ELSE 0)', Stray')
    BY DEF AddUp
  <2>1. /\ (IF ep = Counted(counting.endpoint) THEN ErrorDue(counting.next) ELSE 0)' \in {0, ErrorDue(what)}
        /\ (IF ep = Counted(counting.endpoint) THEN MessageDue(counting.next) ELSE 0)' \in {0, MessageDue(what)}
    BY <1>9 DEF ErrorDue, MessageDue
  <2> QED BY <1>4, <1>5, <1>7, <2>1
<1>12. split' \in BOOLEAN /\ messages' \in Nat /\ errors' \in Nat
  BY <1>1
<1>13. /\ (Total(diagnostics, "Messages") + MessageDue(counting.next)
              <= messages + (IF counting.next = "counter_messages" THEN 1 ELSE 0) + Stray)'
       /\ (Total(diagnostics, "Errors") + ErrorDue(counting.next)
              <= errors + (IF counting.next = "counter_error" THEN 1 ELSE 0) + Stray)'
  BY <1>1, <1>5, <1>8, <1>9, <1>10 DEF ErrorDue, MessageDue
<1>14. (counting.next \in Numbers \cup {"done"} /\ (counting # Done => counting.next \in Numbers))'
  BY <1>1 DEF StatsOK
<1> QED BY <1>8, <1>11, <1>12, <1>13, <1>14 DEF StatsOK, StatsWhen

\* What is forgotten of a removed endpoint stays in the totals.
LEMMA RemoveStats ==
  ASSUME StatsOK, counting = Done, NEW e \in Endpoints, RemoveEndpoint(e)
  PROVE  StatsOK'
<1>1. diagnostics' = Without(diagnostics, {e}) /\ UNCHANGED <<messages, errors, counting, split>>
  BY DEF RemoveEndpoint
<1>2. DOMAIN diagnostics' = DOMAIN diagnostics \ {e}
      /\ \A c \in DOMAIN diagnostics' : diagnostics'[c] = diagnostics[c]
  BY <1>1 DEF Without
<1>3. IsCounts(diagnostics') /\ IsCounts(diagnostics)
  BY <1>2, FS_Subset DEF StatsOK, StatsWhen, IsCounts
<1>4. ASSUME NEW k \in Kinds PROVE Total(diagnostics', k) <= Total(diagnostics, k)
  <2>1. IsCounts(diagnostics) /\ (e \in DOMAIN diagnostics => diagnostics[e][k] \in Nat)
    BY <1>3 DEF IsCounts
  <2>2. Total(diagnostics, k) = (IF e \in DOMAIN diagnostics THEN diagnostics[e][k] ELSE 0)
                                    + Total(diagnostics', k)
        /\ Total(diagnostics', k) \in Nat
    BY <1>1, <2>1, TotalSplit
  <2> QED BY <2>1, <2>2
<1>5. "Messages" \in Kinds /\ "Errors" \in Kinds
  BY DEF Kinds
<1>6. /\ Total(diagnostics, "Messages") \in Nat /\ Total(diagnostics, "Errors") \in Nat
      /\ Total(diagnostics', "Messages") \in Nat /\ Total(diagnostics', "Errors") \in Nat
  BY <1>3, <1>5, TotalSplit
<1>7. counting.next = "done" /\ ErrorDue("done") = 0 /\ MessageDue("done") = 0
      /\ UNCHANGED Stray /\ Stray \in 0 .. 1
  <2>1. split \in BOOLEAN /\ split' = split
    BY <1>1 DEF StatsOK, StatsWhen
  <2>2. UNCHANGED Stray /\ Stray \in 0 .. 1
    BY <2>1 DEF Stray
  <2>3. counting.next = "done"
    BY DEF Done
  <2> QED BY <2>2, <2>3, DoneIs
<1>8. /\ messages \in Nat /\ errors \in Nat /\ split \in BOOLEAN
      /\ Total(diagnostics, "Messages") <= messages + Stray
      /\ Total(diagnostics, "Errors") <= errors + Stray
      /\ \A ep : AddUp(CountsOf(ep), 0, 0, Stray)
  BY <1>6, <1>7 DEF StatsOK, StatsWhen
<1>9. /\ Total(diagnostics', "Messages") <= messages + Stray
      /\ Total(diagnostics', "Errors") <= errors + Stray
  BY <1>4, <1>5, <1>6, <1>7, <1>8
<1>10. \A ep : AddUp(CountsOf(ep)', 0, 0, Stray)
  <2> SUFFICES ASSUME NEW ep PROVE AddUp(CountsOf(ep)', 0, 0, Stray)
    OBVIOUS
  <2>1. CASE ep = e
    <3>1. CountsOf(ep)' = NoCounts
      BY <1>2, <2>1 DEF CountsOf
    <3>2. NoCounts["Errors"] = 0 /\ NoCounts["Messages"] = 0 /\ NoCounts["HeaderChange"] = 0
      BY NumbersAre DEF NoCounts
    <3> QED BY <1>7, <3>1, <3>2, NoCountsAddUp DEF AddUp
  <2>2. CASE ep # e
    <3>1. CountsOf(ep)' = CountsOf(ep)
      BY <1>2, <2>2 DEF CountsOf
    <3> QED BY <1>8, <3>1
  <2> QED BY <2>1, <2>2
<1>11. \A ep : AddUp(CountsOf(ep), 0, 0, Stray)'
  BY <1>7, <1>10 DEF AddUp
<1> QED BY <1>1, <1>3, <1>6, <1>7, <1>8, <1>9, <1>11 DEF StatsOK, StatsWhen

LEMMA NextStats ==
  ASSUME StatsOK, [Next]_vars
  PROVE  StatsOK'
<1>0. UNCHANGED shared
  BY DEF Next, Observe, vars
<1>1. ASSUME NEW e \in Endpoints, Read(e) PROVE StatsOK'
  <2>1. CASE \E m \in Message(e) : Receive(e, m)
    BY <1>0, <1>1, <2>1, ReceiveStats DEF Read
  <2>2. CASE SocketError(e)
    <3>1. Increase(e, "SocketError") /\ counting = Done
      BY <1>1, <2>2 DEF Read, SocketError
    <3> QED BY <1>0, <3>1, StartStats, IncreaseKeeps
  <2> QED BY <1>1, <2>1, <2>2 DEF Read
<1>2. CASE CountNext
  <2>1. /\ counting.next \in Numbers /\ Increase(counting.endpoint, counting.next)
        /\ StatsWhen(counting.endpoint, counting.next)
    BY <1>2 DEF CountNext, StatsOK
  <2>2. PICK e, what : e = counting.endpoint /\ what = counting.next
    OBVIOUS
  <2>3. what \in Numbers /\ Increase(e, what) /\ StatsWhen(e, what)
    BY <2>1, <2>2
  <2> QED BY <1>0, <2>3, IncreaseKeeps
<1>3. ASSUME NEW e \in Endpoints, RemoveEndpoint(e), counting = Done PROVE StatsOK'
  BY <1>3, RemoveStats
<1>4. CASE Reset \/ Fork
  <2>1. ResetCounters
    BY <1>4 DEF Reset, Fork
  <2> QED BY <2>1, ResetStats
<1>5. CASE UNCHANGED stats
  BY <1>0, <1>5, SameStats
<1> QED BY <1>1, <1>2, <1>3, <1>4, <1>5 DEF Next, Call, Idle, Connect, Disconnect, AddEndpoint,
           EnableCheck, DisableCheck, InitT0, vars

\* The statistics add up (receiver.rs:365-418, 478-502, 832-843), each number being
\* counted under a lock of its own: between two messages every error of an endpoint
\* has one reason, no header of it changed without a message, and the totals cover
\* what is counted by endpoint; while a message is counted, and until the next
\* reset after one that fell in between (883-885), each is off by one at most.
\* For any number of endpoints and messages, shared sockets, endpoints removed,
\* counters reset and listeners forked.
THEOREM StatisticsAddUp == Spec => []StatsAddUp
<1>1. Init => StatsOK
  BY InitStats
<1>2. StatsOK /\ [Next]_vars => StatsOK'
  BY NextStats
<1>3. StatsOK => StatsAddUp
  <2> SUFFICES ASSUME StatsOK PROVE StatsAddUp
    OBVIOUS
  <2> DEFINE due == IF counting # Done THEN 1 ELSE 0
  <2>1. /\ IsCounts(diagnostics) /\ messages \in Nat /\ errors \in Nat
        /\ Stray \in 0 .. 1 /\ due \in 0 .. 1
    BY DEF StatsOK, StatsWhen, Stray
  <2>2. /\ counting = Done => ErrorDue(counting.next) = 0 /\ MessageDue(counting.next) = 0
        /\ ErrorDue(counting.next) \in 0 .. due /\ MessageDue(counting.next) \in 0 .. due
    <3>1. ErrorDue(counting.next) \in 0 .. 1 /\ MessageDue(counting.next) \in 0 .. 1
      BY DEF ErrorDue, MessageDue
    <3>2. CASE counting = Done
      <4>1. ErrorDue(counting.next) = 0 /\ MessageDue(counting.next) = 0
        BY <3>2, DoneIs
      <4> QED BY <4>1, <2>1
    <3>3. CASE counting # Done
      BY <3>1, <3>3
    <3> QED BY <3>2, <3>3
  <2> HIDE DEF due
  <2>3. ASSUME NEW e \in DOMAIN diagnostics
        PROVE  /\ diagnostics[e]["Errors"] - SumFunctionOnSet(diagnostics[e], ErrorKinds) \in -due .. Stray
               /\ diagnostics[e]["HeaderChange"] <= diagnostics[e]["Messages"] + due
    <3>1. PICK f : f = diagnostics[e]
      OBVIOUS
    <3>2. f = CountsOf(e) /\ f \in [Kinds -> Nat]
      BY <2>1, <3>1 DEF CountsOf, IsCounts
    <3>3. PICK x \in 0 .. due, y \in 0 .. due : AddUp(f, x, y, Stray)
      <4>1. AddUp(CountsOf(e), IF e = Counted(counting.endpoint) THEN ErrorDue(counting.next) ELSE 0,
                               IF e = Counted(counting.endpoint) THEN MessageDue(counting.next) ELSE 0, Stray)
        BY DEF StatsOK, StatsWhen
      <4>2. 0 \in 0 .. due
        BY <2>1
      <4> QED BY <2>2, <3>2, <4>1, <4>2
    <3>4. /\ f["Errors"] \in Nat /\ f["Messages"] \in Nat /\ f["HeaderChange"] \in Nat
          /\ SumFunctionOnSet(f, ErrorKinds) \in Nat
      BY <3>2, NumbersAre, Plus
    <3>5. /\ f["Errors"] - SumFunctionOnSet(f, ErrorKinds) \in -due .. Stray
          /\ f["HeaderChange"] <= f["Messages"] + due
      BY <2>1, <3>3, <3>4 DEF AddUp
    <3> QED BY <3>1, <3>5
  <2>4. /\ Total(diagnostics, "Messages") <= messages + Stray
        /\ Total(diagnostics, "Errors") <= errors + Stray
    <3>1. Total(diagnostics, "Messages") \in Nat /\ Total(diagnostics, "Errors") \in Nat
      BY <2>1, NumbersAre, TotalSplit
    <3> QED BY <2>1, <3>1 DEF StatsOK, StatsWhen, ErrorDue, MessageDue
  <2> QED BY <2>3, <2>4 DEF StatsAddUp, Total, Stray, due
<1> QED BY <1>1, <1>2, <1>3, PTL DEF Spec
================================================================================
