---------------------------- MODULE Sender_proofs ----------------------------
(***************************************************************************)
(* Proofs about Sender, for any lists of channels, explicit IDs and number *)
(* of sends: what of a message is left behind on the socket, what a        *)
(* receiver makes of the messages that arrive, and that their IDs increase.*)
(***************************************************************************)
EXTENDS Sender, SequenceTheorems, FiniteSetTheorems, WellFoundedInduction, TLAPS

-----------------------------------------------------------------------------
(* The channels sent.                                                      *)

\* Numbers that are not all excluded have a least one that is not.
LEMMA Least ==
  ASSUME NEW S \in SUBSET Nat, S # {}
  PROVE  \E x \in S : \A y \in S : x <= y
<1> DEFINE Less == OpToRel(<, Nat)
<1>1. PICK x \in S : \A y \in S : ~(<<y, x>> \in Less)
  BY NatLessThanWellFounded, WFMin
<1>2. \A y \in S : ~(y < x)
  BY <1>1 DEF OpToRel
<1> QED BY <1>2

\* Each of the channels sent has its place.
LEMMA KthExists ==
  ASSUME NEW n \in Nat, NEW S \in SUBSET (1 .. n), NEW k \in 1 .. Cardinality(S)
  PROVE  Kth(S, k) \in S /\ Cardinality({j \in S : j <= Kth(S, k)}) = k
<1> DEFINE upto(i) == {j \in S : j <= i}
           reached == {i \in 0 .. n : Cardinality(upto(i)) >= k}
<1>0. S \subseteq Nat /\ \A j \in S : j \in 1 .. n
  OBVIOUS
<1>1. IsFiniteSet(S) /\ Cardinality(S) \in Nat
  <2>1. IsFiniteSet(1 .. n)
    BY FS_Interval
  <2>2. IsFiniteSet(S)
    BY <2>1, FS_Subset
  <2> QED BY <2>2, FS_CardinalityType
<1>2. \A i : IsFiniteSet(upto(i)) /\ Cardinality(upto(i)) \in Nat
  <2> TAKE i
  <2>1. upto(i) \in SUBSET S
    OBVIOUS
  <2> QED BY <1>1, <2>1, FS_Subset, FS_CardinalityType
<1>3. upto(n) = S
  <2>1. \A j \in S : j <= n
    BY <1>0
  <2> QED BY <2>1
<1>4. n \in reached
  BY <1>1, <1>3
<1>5. PICK i \in reached : \A y \in reached : i <= y
  <2> HIDE DEF reached
  <2>1. reached \in SUBSET Nat
    BY DEF reached
  <2> QED BY <1>4, <2>1, Least
<1>6. upto(0) = {}
  <2>1. \A j \in S : ~(j <= 0)
    BY <1>0
  <2> QED BY <2>1
<1>7. i # 0
  <2>1. Cardinality(upto(0)) = 0
    BY <1>6, FS_EmptySet
  <2> QED BY <1>1, <1>5, <2>1
<1>8. i \in 1 .. n /\ i - 1 \in 0 .. n
  BY <1>5, <1>7
<1>9. Cardinality(upto(i - 1)) < k
  <2>1. i - 1 \notin reached
    <3> SUFFICES ASSUME i - 1 \in reached PROVE FALSE
      OBVIOUS
    <3>1. i <= i - 1
      BY <1>5
    <3> QED BY <1>8, <3>1
  <2>2. ~(Cardinality(upto(i - 1)) >= k)
    BY <1>8, <2>1
  <2> HIDE DEF upto
  <2> QED BY <1>1, <1>2, <2>2
<1>10. upto(i) = IF i \in S THEN upto(i - 1) \cup {i} ELSE upto(i - 1)
  <2>1. \A j \in S : j <= i <=> j <= i - 1 \/ j = i
    BY <1>0, <1>8
  <2>2. \A j : j \in upto(i) <=> j \in S /\ (j <= i - 1 \/ j = i)
    BY <2>1
  <2> QED BY <2>2
<1>11. i \in S /\ Cardinality(upto(i)) = k
  <2>1. Cardinality(upto(i)) >= k
    BY <1>5
  <2>2. i \notin upto(i - 1)
    BY <1>8
  <2>3. Cardinality(upto(i - 1) \cup {i}) = Cardinality(upto(i - 1)) + 1
    <3>1. PICK below : below = upto(i - 1)
      OBVIOUS
    <3>2. IsFiniteSet(below) /\ i \notin below
      BY <1>2, <1>8, <2>2, <3>1
    <3>3. Cardinality(below \cup {i}) = Cardinality(below) + 1
      BY <3>2, FS_AddElement
    <3> QED BY <3>1, <3>3
  <2> HIDE DEF upto
  <2> QED BY <1>1, <1>2, <1>9, <1>10, <2>1, <2>3
<1> QED BY <1>11 DEF Kth

\* When all are sent, the k-th is channel k.
LEMMA KthOfAll ==
  ASSUME NEW n \in Nat, NEW k \in 1 .. n
  PROVE  Kth(1 .. n, k) = k
<1>1. \A i \in 1 .. n : Cardinality({j \in 1 .. n : j <= i}) = i
  <2> TAKE i \in 1 .. n
  <2>1. {j \in 1 .. n : j <= i} = 1 .. i
    OBVIOUS
  <2>2. Cardinality(1 .. i) = i
    BY FS_Interval
  <2> QED BY <2>1, <2>2
<1>2. Cardinality(1 .. n) = n
  BY FS_Interval
<1>3. Kth(1 .. n, k) \in 1 .. n /\ Cardinality({j \in 1 .. n : j <= Kth(1 .. n, k)}) = k
  BY <1>2, KthExists
<1> QED BY <1>1, <1>3

LEMMA SentIs ==
  ASSUME NEW layout \in Layouts, NEW data \in Data(layout)
  PROVE  /\ Width[layout] \in Nat
         /\ Given(layout, data) \subseteq 1 .. Width[layout]
         /\ IsFiniteSet(Given(layout, data)) /\ IsFiniteSet(Sent(layout, data))
         /\ Cardinality(Given(layout, data)) \in 0 .. Width[layout]
         /\ Cardinality(Sent(layout, data)) \in 0 .. Cardinality(Given(layout, data))
         /\ Sent(layout, data) \subseteq Given(layout, data)
         /\ Cardinality(Sent(layout, data)) = Cardinality(Given(layout, data))
               <=> ~Fails(layout, data)
         /\ Cardinality(Sent(layout, data)) = Width[layout]
               => Sent(layout, data) = 1 .. Width[layout]
         /\ (\A i \in 1 .. Width[layout] : data[i] = "good")
               => Sent(layout, data) = 1 .. Width[layout] /\ ~Fails(layout, data)
<1> DEFINE G == Given(layout, data)
           S == Sent(layout, data)
           W == Width[layout]
<1>1. W \in Nat
  BY LayoutsAssumption
<1>2. G \subseteq 1 .. W /\ S \subseteq G
  BY DEF Given, Sent
<1>3. IsFiniteSet(1 .. W) /\ Cardinality(1 .. W) = W
  <2>1. PICK one \in Int, top \in Int : one = 1 /\ top = W
    BY <1>1
  <2>2. /\ IsFiniteSet(one .. top)
        /\ Cardinality(one .. top) = IF one > top THEN 0 ELSE top - one + 1
    BY FS_Interval
  <2> HIDE DEF W
  <2> QED BY <1>1, <2>1, <2>2
<1>4. IsFiniteSet(G) /\ Cardinality(G) <= W /\ Cardinality(G) \in Nat
  BY <1>2, <1>3, FS_Subset, FS_CardinalityType
<1>5. IsFiniteSet(S) /\ Cardinality(S) <= Cardinality(G) /\ Cardinality(S) \in Nat
  BY <1>2, <1>4, FS_Subset, FS_CardinalityType
<1>6. Cardinality(S) = Cardinality(G) => S = G
  BY <1>2, <1>4, FS_Subset
<1>7. S \subseteq 1 .. W /\ (Cardinality(S) = W => S = 1 .. W)
  BY <1>2, <1>3, FS_Subset
<1>8. S = G <=> ~Fails(layout, data)
  <2>1. ASSUME S = G, NEW i \in 1 .. W, data[i] = "bad" PROVE FALSE
    <3>1. i \in G
      BY <2>1 DEF Given, None
    <3>2. i \notin S
      BY <1>1, <2>1 DEF Sent
    <3> QED BY <2>1, <3>1, <3>2
  <2>2. ASSUME ~Fails(layout, data) PROVE S = G
    <3>1. \A i \in G : \A j \in 1 .. i : j \in 1 .. W
      BY <1>1, <1>2
    <3> QED BY <2>2, <3>1 DEF Sent, Fails
  <2> QED BY <2>1, <2>2 DEF Fails
<1>9. (\A i \in 1 .. W : data[i] = "good") => G = 1 .. W /\ ~Fails(layout, data)
  BY DEF Given, Fails, None
<1> QED BY <1>1, <1>2, <1>4, <1>5, <1>6, <1>7, <1>8, <1>9

-----------------------------------------------------------------------------
(* The frames of a message.                                                *)

Piece == [frame : Frames, more : BOOLEAN]

LEMMA PiecesIs ==
  ASSUME NEW layout \in Layouts, NEW data \in Data(layout), sends + 1 \in 1 .. MaxSends
  PROVE  LET P == Pieces(layout, data)
             c == Cardinality(Sent(layout, data))
         IN  /\ P \in Seq(Piece) /\ Len(P) = 2 * c
             /\ \A p \in 1 .. 2 * c : /\ P[p].frame.send = sends + 1
                                      /\ p < 2 * c => P[p].more
             /\ c # 0 => (P[2 * c].more <=> Fails(layout, data))
<1> DEFINE P == Pieces(layout, data)
           S == Sent(layout, data)
           c == Cardinality(S)
           g == Cardinality(Given(layout, data))
<1>1. c \in 0 .. g /\ g \in Nat /\ (c = g <=> ~Fails(layout, data))
      /\ S \subseteq 1 .. Width[layout] /\ Width[layout] \in Nat
  BY SentIs
<1> DEFINE K(p) == Kth(S, (p + 1) \div 2)
           frame(p) == [part |-> IF p % 2 = 1 THEN "value" ELSE "time", send |-> sends + 1,
                        layout |-> layout, index |-> K(p)]
           more(p) == p % 2 = 1 \/ ~Ends(layout, data, (p + 1) \div 2)
<1>2. P = [p \in 1 .. 2 * c |-> [frame |-> frame(p), more |-> more(p)]]
  BY DEF Pieces
<1>3. \A p \in 1 .. 2 * c : (p + 1) \div 2 \in 1 .. c
  BY <1>1
<1>4. \A p \in 1 .. 2 * c : K(p) \in Nat
  <2> TAKE p \in 1 .. 2 * c
  <2>1. K(p) \in S
    BY <1>1, <1>3, KthExists
  <2> QED BY <1>1, <2>1
<1> HIDE DEF K
<1>5. \A p \in 1 .. 2 * c : frame(p) \in Frames
  <2> TAKE p \in 1 .. 2 * c
  <2>1. frame(p) \in [part : {"value", "time"}, send : 1 .. MaxSends, layout : Layouts, index : Nat]
    BY <1>4
  <2> HIDE DEF frame
  <2> QED BY <2>1 DEF Frames
<1>6. \A p : more(p) \in BOOLEAN
  OBVIOUS
<1>7. \A p \in 1 .. 2 * c : p < 2 * c => more(p)
  <2> SUFFICES ASSUME NEW p \in 1 .. 2 * c, p < 2 * c, p % 2 # 1 PROVE more(p)
    OBVIOUS
  <2>1. (p + 1) \div 2 < c
    BY <1>1
  <2> QED BY <1>1, <2>1 DEF Ends
<1>8. c # 0 => (more(2 * c) <=> Fails(layout, data))
  <2> SUFFICES ASSUME c # 0 PROVE more(2 * c) <=> c # g
    BY <1>1
  <2>1. (2 * c) % 2 # 1 /\ (2 * c + 1) \div 2 = c
    BY <1>1
  <2> QED BY <1>1, <2>1 DEF Ends
<1>9. \A p \in 1 .. 2 * c : frame(p).send = sends + 1
  OBVIOUS
<1> HIDE DEF frame
<1>10. P \in Seq(Piece) /\ Len(P) = 2 * c
  <2>1. P \in [1 .. 2 * c -> Piece]
    BY <1>2, <1>5, <1>6 DEF Piece
  <2>2. 2 * c \in Nat
    BY <1>1
  <2> HIDE DEF P, c
  <2> QED BY <2>1, <2>2, SeqDef
<1>11. \A p \in 1 .. 2 * c : P[p] = [frame |-> frame(p), more |-> more(p)]
  BY <1>2
<1>12. c # 0 => 2 * c \in 1 .. 2 * c
  BY <1>1
<1> HIDE DEF P, c
<1>13. \A p \in 1 .. 2 * c : P[p].frame = frame(p) /\ P[p].more = more(p)
  <2> TAKE p \in 1 .. 2 * c
  <2> DEFINE r == [frame |-> frame(p), more |-> more(p)]
  <2>1. r.frame = frame(p) /\ r.more = more(p)
    BY Zenon
  <2>2. P[p] = r
    BY <1>11
  <2> HIDE DEF r, more
  <2> QED BY <2>1, <2>2, Zenon
<1> HIDE DEF more
<1> QED BY <1>7, <1>8, <1>9, <1>10, <1>12, <1>13 DEF P, c

\* What the socket makes of frames of which only the last may end a message.
LEMMA TakenIs ==
  ASSUME NEW Q \in Seq(Piece), Q # <<>>, \A k \in 1 .. Len(Q) : k < Len(Q) => Q[k].more
  PROVE  LET all == unfinished \o [k \in 1 .. Len(Q) |-> Q[k].frame]
         IN  /\ Taken(Q).done = IF Q[Len(Q)].more THEN {} ELSE {all}
             /\ Taken(Q).rest = IF Q[Len(Q)].more THEN all ELSE <<>>
<1> DEFINE n == Len(Q)
           ends == {k \in DOMAIN Q : ~Q[k].more}
           From(k) == Max({j \in ends : j < k} \cup {0}) + 1
           Upto(k) == (IF From(k) = 1 THEN unfinished ELSE <<>>)
                      \o [i \in 1 .. k - From(k) + 1 |-> Q[From(k) + i - 1].frame]
           all == unfinished \o [k \in 1 .. n |-> Q[k].frame]
<1>1. n \in Nat \ {0} /\ DOMAIN Q = 1 .. n
  OBVIOUS
<1>2. /\ Taken(Q).done = {Upto(k) : k \in ends}
      /\ Taken(Q).rest = IF n \in ends THEN <<>> ELSE Upto(n)
  BY DEF Taken
<1>3. ends = IF Q[n].more THEN {} ELSE {n}
  BY <1>1
<1>4. {j \in ends : j < n} = {}
  BY <1>1, <1>3
<1>5. Max({0}) = 0
  BY DEF Max
<1>6. From(n) = 1
  <2> DEFINE before == {j \in ends : j < n} \cup {0}
  <2>1. before = {0}
    BY <1>4
  <2>2. From(n) = Max(before) + 1
    OBVIOUS
  <2> HIDE DEF before, From
  <2> QED BY <1>5, <2>1, <2>2
<1> HIDE DEF From, ends
<1>7. [i \in 1 .. n - From(n) + 1 |-> Q[From(n) + i - 1].frame] = [i \in 1 .. n |-> Q[i].frame]
  BY <1>1, <1>6
<1>8. Upto(n) = all
  BY <1>6, <1>7
<1> HIDE DEF Upto, all
<1>9. {Upto(k) : k \in {}} = {} /\ {Upto(k) : k \in {n}} = {Upto(n)}
  OBVIOUS
<1>10. n \in ends <=> ~Q[n].more
  BY <1>3
<1> QED BY <1>2, <1>3, <1>8, <1>9, <1>10 DEF all

LEMMA Joined ==
  ASSUME NEW S, NEW u \in Seq(S), NEW f \in Seq(S), f # <<>>
  PROVE  LET m == u \o f
         IN  /\ m \in Seq(S) /\ Len(m) = Len(u) + Len(f) /\ m # <<>>
             /\ \A i \in 1 .. Len(m) : m[i] = IF i <= Len(u) THEN u[i] ELSE f[i - Len(u)]
             /\ m[1] = IF u = <<>> THEN f[1] ELSE u[1]
             /\ m[Len(u) + 1] = f[1] /\ Len(u) + 1 \in 1 .. Len(m)
             /\ u = <<>> => m = f
OBVIOUS

\* The frames go out and end a message, or end none because the send fails.
Passed(F, fails) ==
    IF fails
    THEN returned' = "err" /\ unfinished' = unfinished \o F /\ UNCHANGED <<arrived, last>>
    ELSE /\ returned' = "ok" /\ unfinished' = <<>>
         /\ \/ UNCHANGED <<arrived, last>>
            \/ LET m == unfinished \o F
               IN  /\ arrived' = m
                   /\ last' = IF m[1].part = "main"
                              THEN [id |-> m[1].id, simulated |-> m[1].simulated] ELSE last

LEMMA TransmitIs ==
  ASSUME NEW Q \in Seq(Piece), Q # <<>>, \A k \in 1 .. Len(Q) : k < Len(Q) => Q[k].more,
         NEW fails \in BOOLEAN, Q[Len(Q)].more <=> fails, Transmit(Q, fails)
  PROVE  Passed([k \in 1 .. Len(Q) |-> Q[k].frame], fails)
<1> DEFINE all == unfinished \o [k \in 1 .. Len(Q) |-> Q[k].frame]
<1>1. /\ Taken(Q).done = IF fails THEN {} ELSE {all}
      /\ Taken(Q).rest = IF fails THEN all ELSE <<>>
  BY TakenIs
<1>2. /\ unfinished' = Taken(Q).rest /\ Arrive(Taken(Q).done)
      /\ returned' = IF fails THEN "err" ELSE "ok"
  BY DEF Transmit
<1> HIDE DEF all
<1>3. CASE fails
  <2>1. unfinished' = all /\ Arrive({}) /\ returned' = "err"
    BY <1>1, <1>2, <1>3
  <2> QED BY <1>3, <2>1 DEF Arrive, Passed, all
<1>4. CASE ~fails
  <2>1. unfinished' = <<>> /\ Arrive({all}) /\ returned' = "ok"
    BY <1>1, <1>2, <1>4
  <2>2. \/ UNCHANGED <<arrived, last>>
        \/ /\ arrived' = all
           /\ last' = IF all[1].part = "main"
                      THEN [id |-> all[1].id, simulated |-> all[1].simulated] ELSE last
    BY <2>1 DEF Arrive
  <2> QED BY <1>4, <2>1, <2>2 DEF Passed, all
<1> QED BY <1>3, <1>4

Main(header, stale, id, layout, data) ==
    [part |-> "main", send |-> sends + 1, layout |-> header, id |-> UsedId(id),
     simulated |-> id = ID_SIMULATED, stale |-> stale,
     whole |-> \A i \in 1 .. Width[layout] : data[i] = "good"]

\* The frames of a send.
FramesOf(F, header, stale, id, layout, data) ==
    LET P == Pieces(layout, data)
        c == Cardinality(Sent(layout, data))
    IN  /\ F \in Seq(Frames) /\ Len(F) = 2 + 2 * c
        /\ \A k \in 1 .. Len(F) : F[k].send = sends + 1
        /\ F[1] = Main(header, stale, id, layout, data)
        /\ F[2] = [part |-> "header", send |-> sends + 1, layout |-> header]
        /\ \A p \in 1 .. 2 * c : F[p + 2] = P[p].frame

LEMMA SendIs ==
  ASSUME TypeOK, sends < MaxSends, NEW layout \in Layouts, NEW data \in Data(layout),
         NEW id \in ExplicitIds \cup {ID_SIMULATED}, NEW header \in Layouts \cup {None},
         NEW stale \in BOOLEAN, SendWith(header, stale, id, layout, data)
  PROVE  \/ returned' = "err" /\ UNCHANGED <<pulse_id, unfinished, arrived, last, lowered>>
         \/ /\ UpdateMainHeader(id) /\ Width[layout] # 0
            /\ lowered' = (lowered \/ (id # ID_SIMULATED /\ pulse_id > id))
            /\ \/ Refused
               \/ \E F : /\ FramesOf(F, header, stale, id, layout, data)
                         /\ Passed(F, Fails(layout, data))
<1> DEFINE main == Main(header, stale, id, layout, data)
           dh == [part |-> "header", send |-> sends + 1, layout |-> header]
           front == <<[frame |-> main, more |-> TRUE],
                      [frame |-> dh, more |-> Given(layout, data) # {}]>>
           P == Pieces(layout, data)
           Q == front \o P
           F == [k \in 1 .. Len(Q) |-> Q[k].frame]
           c == Cardinality(Sent(layout, data))
           fails == Fails(layout, data)
<1>1. CASE Width[layout] = 0
  BY <1>1 DEF SendWith
<1>2. CASE Width[layout] # 0
  <2>1. /\ UpdateMainHeader(id)
        /\ lowered' = (lowered \/ (id # ID_SIMULATED /\ pulse_id > id))
        /\ Refused \/ Transmit(Q, fails)
    BY <1>2 DEF SendWith, Main
  <2>2. SUFFICES ASSUME Transmit(Q, fails)
                 PROVE  FramesOf(F, header, stale, id, layout, data) /\ Passed(F, fails)
    BY <1>2, <2>1
  <2>3. sends + 1 \in 1 .. MaxSends
    BY BoundsAssumption DEF TypeOK
  <2>4. /\ P \in Seq(Piece) /\ Len(P) = 2 * c
        /\ \A p \in 1 .. 2 * c : P[p].frame.send = sends + 1 /\ (p < 2 * c => P[p].more)
        /\ c # 0 => (P[2 * c].more <=> fails)
    BY <2>3, PiecesIs
  <2>5. c \in Nat /\ (c = 0 /\ ~fails => Given(layout, data) = {})
        /\ (fails => Given(layout, data) # {})
    <3>1. /\ c \in 0 .. Cardinality(Given(layout, data)) /\ IsFiniteSet(Given(layout, data))
          /\ Cardinality(Given(layout, data)) \in Nat /\ (c = Cardinality(Given(layout, data)) <=> ~fails)
      BY SentIs
    <3> QED BY <3>1, FS_EmptySet
  <2>6. main \in Frames /\ dh \in Frames
    <3>1. UsedId(id) \in Nat
      BY IdsAssumption DEF UsedId, TypeOK, ID_SIMULATED
    <3>2. main \in [part : {"main"}, send : 1 .. MaxSends, layout : Layouts \cup {None}, id : Nat,
                    simulated : BOOLEAN, stale : BOOLEAN, whole : BOOLEAN]
      BY <2>3, <3>1 DEF Main
    <3>3. dh \in [part : {"header"}, send : 1 .. MaxSends, layout : Layouts \cup {None}]
      BY <2>3
    <3> QED BY <3>2, <3>3 DEF Frames
  <2>7. main.send = sends + 1 /\ dh.send = sends + 1
    BY DEF Main
  <2> HIDE DEF main, dh, P, c, fails
  <2>8. front \in Seq(Piece) /\ Len(front) = 2
        /\ front[1].frame = main /\ front[2].frame = dh /\ front[1].more
        /\ (front[2].more <=> Given(layout, data) # {})
    <3> DEFINE some == Given(layout, data) # {}
               first == [frame |-> main, more |-> TRUE]
               second == [frame |-> dh, more |-> some]
    <3>1. some \in BOOLEAN
      OBVIOUS
    <3>2. (some <=> Given(layout, data) # {}) /\ front = <<first, second>>
      OBVIOUS
    <3> HIDE DEF some, front
    <3>3. first \in Piece /\ second \in Piece
      BY <2>6, <3>1 DEF Piece
    <3>4. first.frame = main /\ first.more = TRUE /\ second.frame = dh /\ second.more = some
      BY Zenon
    <3> HIDE DEF first, second
    <3>5. front \in Seq(Piece) /\ Len(front) = 2 /\ front[1] = first /\ front[2] = second
      BY <3>2, <3>3
    <3>6. front[1].more /\ (front[2].more <=> some)
      BY <3>4, <3>5, Zenon
    <3> QED BY <3>2, <3>4, <3>5, <3>6
  <2> HIDE DEF front
  <2>9. /\ Q \in Seq(Piece) /\ Len(Q) = 2 + 2 * c /\ Q # <<>>
        /\ \A k \in 1 .. Len(Q) : Q[k] = IF k <= 2 THEN front[k] ELSE P[k - 2]
    <3>1. front \in Seq(Piece) /\ Len(front) = 2
      BY <2>8, Zenon
    <3>2. P \in Seq(Piece) /\ Len(P) = 2 * c
      BY <2>4, Zenon
    <3>6. c \in Nat
      BY <2>5, Zenon
    <3>3. Q \in Seq(Piece) /\ Len(Q) = 2 + 2 * c
      <4>1. Q \in Seq(Piece) /\ Len(Q) = Len(front) + Len(P)
        BY <3>1, <3>2, ConcatProperties, Zenon
      <4> HIDE DEF Q
      <4> QED BY <3>1, <3>2, <3>6, <4>1
    <3>4. Q # <<>>
      BY <2>5, <3>3
    <3>5. \A k \in 1 .. Len(Q) : Q[k] = IF k <= 2 THEN front[k] ELSE P[k - 2]
      <4>1. \A k \in 1 .. Len(front) + Len(P) : Q[k] = IF k <= Len(front) THEN front[k] ELSE P[k - Len(front)]
        BY <3>1, <3>2, ConcatProperties, Zenon
      <4> HIDE DEF Q
      <4> QED BY <3>1, <3>2, <3>3, <3>6, <4>1
    <3> QED BY <3>3, <3>4, <3>5
  <2> HIDE DEF Q
  <2>10. \A k \in 1 .. Len(Q) : k < Len(Q) => Q[k].more
    <3> SUFFICES ASSUME NEW k \in 1 .. Len(Q), k < Len(Q) PROVE Q[k].more
      OBVIOUS
    <3>1. CASE k = 1
      BY <2>8, <2>9, <3>1
    <3>2. CASE k = 2
      <4>1. c # 0
        BY <2>9, <3>2
      <4>2. Given(layout, data) # {}
        BY <4>1, SentIs, FS_EmptySet DEF c
      <4> QED BY <2>8, <2>9, <3>2, <4>2
    <3>3. CASE k > 2
      <4>1. k - 2 \in 1 .. 2 * c /\ k - 2 < 2 * c
        BY <2>5, <2>9, <3>3
      <4> QED BY <2>4, <2>9, <3>3, <4>1
    <3> QED BY <3>1, <3>2, <3>3
  <2>11. Q[Len(Q)].more <=> fails
    <3>1. CASE c = 0
      BY <2>5, <2>8, <2>9, <3>1
    <3>2. CASE c # 0
      <4>1. Q[Len(Q)] = P[2 * c]
        BY <2>5, <2>9, <3>2
      <4> QED BY <2>4, <3>2, <4>1
    <3> QED BY <3>1, <3>2
  <2>12. fails \in BOOLEAN
    BY DEF fails, Fails
  <2>13. Passed(F, fails)
    BY <2>2, <2>9, <2>10, <2>11, <2>12, TransmitIs
  <2>14. F \in Seq(Frames) /\ Len(F) = 2 + 2 * c
    <3>1. \A k \in 1 .. Len(Q) : Q[k].frame \in Frames
      <4> TAKE k \in 1 .. Len(Q)
      <4>1. Q[k] \in Piece
        BY <2>9
      <4> HIDE DEF F
      <4> QED BY <4>1 DEF Piece
    <3>2. 2 + 2 * c \in Nat
      BY <2>5
    <3> QED BY <2>9, <3>1, <3>2
  <2>15. F[1] = main /\ F[2] = dh
    BY <2>5, <2>8, <2>9
  <2>16. \A p \in 1 .. 2 * c : F[p + 2] = P[p].frame
    BY <2>5, <2>9
  <2>17. \A k \in 1 .. Len(F) : F[k].send = sends + 1
    <3> SUFFICES ASSUME NEW k \in 1 .. 2 + 2 * c PROVE F[k].send = sends + 1
      BY <2>14
    <3>1. CASE k > 2
      <4>1. k - 2 \in 1 .. 2 * c /\ k = (k - 2) + 2
        BY <2>5, <3>1
      <4>2. F[k] = P[k - 2].frame
        BY <2>16, <4>1
      <4> QED BY <2>4, <4>1, <4>2
    <3>2. CASE ~(k > 2)
      BY <2>7, <2>15, <3>2
    <3> QED BY <3>1, <3>2
  <2> HIDE DEF F
  <2> QED BY <2>13, <2>14, <2>15, <2>16, <2>17 DEF FramesOf, P, c, main, dh, fails
<1> QED BY <1>1, <1>2

-----------------------------------------------------------------------------
(* The invariant.                                                          *)

\* What is left on the socket is of earlier sends.
Earlier == \A i \in DOMAIN unfinished : unfinished[i].send <= sends

\* This ID may arrive next, and this one was given out.
Follows(id) == id > last.id \/ (id = last.id /\ ~last.simulated)
Behind(m) == m.id <= pulse_id /\ (m.simulated => m.id < pulse_id)

\* As long as the application does not go back, IDs go on from the ones that
\* arrived and the one that waits on the socket.
Ahead ==
    ~lowered =>
        /\ Behind(last)
        /\ Own(unfinished) => Follows(unfinished[1].id) /\ Behind(unfinished[1])

Messages == NothingLeftBehind /\ AcceptedIsGenuine /\ WholeIsAccepted

IInv == TypeOK /\ Earlier /\ Ahead /\ Messages

\* A message of which all frames are of one send.
LEMMA ArrivedWhole ==
  ASSUME TypeOK, sends < MaxSends, NEW layout \in Layouts, NEW data \in Data(layout), NEW id,
         NEW header \in Layouts \cup {None}, NEW stale \in BOOLEAN, ~stale => header = layout,
         Width[layout] # 0,
         NEW F, FramesOf(F, header, stale, id, layout, data)
  PROVE  /\ Accepts(F) => F[1].stale \/ Genuine(F)
         /\ F[1].whole => F[1].stale \/ F[1].layout = None \/ Accepts(F)
<1> DEFINE c == Cardinality(Sent(layout, data))
           S == Sent(layout, data)
           W == Width[layout]
<1>1. /\ F \in Seq(Frames) /\ Len(F) = 2 + 2 * c
      /\ F[1].layout = header /\ F[1].stale = stale /\ F[1].send = sends + 1 /\ F[1].part = "main"
      /\ F[2] = [part |-> "header", send |-> sends + 1, layout |-> header]
      /\ \A p \in 1 .. 2 * c : F[p + 2] = Pieces(layout, data)[p].frame
  BY DEF FramesOf, Main
<1>2. F[1].whole <=> \A i \in 1 .. W : data[i] = "good"
  <2>1. F[1] = Main(header, stale, id, layout, data)
    BY DEF FramesOf
  <2>2. Main(header, stale, id, layout, data).whole = \A i \in 1 .. W : data[i] = "good"
    BY Zenon DEF Main
  <2> QED BY <2>1, <2>2, Zenon
<1>3. c \in Nat /\ W \in Nat /\ (c = W => S = 1 .. W)
      /\ ((\A i \in 1 .. W : data[i] = "good") => S = 1 .. W)
  BY SentIs
<1>4. Cardinality(1 .. W) = W
  <2>1. W \in Nat
    BY <1>3, Zenon
  <2> HIDE DEF W
  <2> QED BY <2>1, FS_Interval
<1>5. ASSUME Accepts(F), ~F[1].stale PROVE Genuine(F)
  <2>1. header = layout
    BY <1>1, <1>5
  <2>2. c = W
    BY <1>1, <1>3, <1>5, <2>1 DEF Accepts
  <2>3. S = 1 .. W
    BY <1>3, <2>2
  <2>4. \A p \in 1 .. 2 * c :
          Pieces(layout, data)[p].frame =
            [part |-> IF p % 2 = 1 THEN "value" ELSE "time", send |-> sends + 1,
             layout |-> layout, index |-> Kth(S, (p + 1) \div 2)]
    BY DEF Pieces
  <2>5. ASSUME NEW i \in 1 .. W
        PROVE  /\ F[2 * i + 1] = [part |-> "value", send |-> sends + 1, layout |-> layout, index |-> i]
               /\ F[2 * i + 2] = [part |-> "time", send |-> sends + 1, layout |-> layout, index |-> i]
    <3>1. Kth(S, i) = i
      BY <1>3, <2>3, KthOfAll
    <3>2. 2 * i - 1 \in 1 .. 2 * c /\ 2 * i \in 1 .. 2 * c
      BY <1>3, <2>2
    <3>3. (2 * i - 1) % 2 = 1 /\ (2 * i) % 2 # 1 /\ ((2 * i - 1) + 1) \div 2 = i
          /\ (2 * i + 1) \div 2 = i
      BY <1>3
    <3>4. (2 * i - 1) + 2 = 2 * i + 1
      BY <1>3
    <3> HIDE DEF c, S
    <3>5. F[2 * i + 1] = Pieces(layout, data)[2 * i - 1].frame
      BY <1>1, <3>2, <3>4
    <3>6. F[2 * i + 2] = Pieces(layout, data)[2 * i].frame
      BY <1>1, <3>2
    <3> QED BY <2>4, <3>1, <3>2, <3>3, <3>5, <3>6
  <2> QED BY <1>1, <2>1, <2>5 DEF Genuine
<1>6. ASSUME F[1].whole, ~F[1].stale, F[1].layout # None PROVE Accepts(F)
  <2>1. c = W
    BY <1>2, <1>3, <1>4, <1>6
  <2>2. Len(F) - 2 = 2 * Width[layout]
    BY <1>1, <1>3, <2>1
  <2> QED BY <1>1, <1>6, <2>2 DEF Accepts
<1> QED BY <1>5, <1>6

\* A message that was begun by an earlier send is torn.
LEMMA TornIs ==
  ASSUME TypeOK, Earlier, unfinished # <<>>,
         NEW F \in Seq(Frames), F # <<>>, F[1].send = sends + 1
  PROVE  Torn(unfinished \o F)
<1> DEFINE m == unfinished \o F
<1>1. unfinished \in Seq(Frames) /\ sends \in Nat /\ Len(unfinished) \in Nat \ {0}
  BY BoundsAssumption DEF TypeOK
<1>2. m[1] = unfinished[1] /\ m[Len(unfinished) + 1] = F[1] /\ Len(unfinished) + 1 \in 1 .. Len(m)
  BY <1>1, Joined
<1>3. 1 \in DOMAIN unfinished
  BY <1>1
<1>4. unfinished[1].send <= sends /\ unfinished[1].send \in Nat
  <2>1. unfinished[1] \in Frames
    BY <1>1, <1>3
  <2> QED BY <1>3, <2>1, BoundsAssumption DEF Earlier, Frames
<1> HIDE DEF m
<1>5. m[Len(unfinished) + 1].send # m[1].send
  BY <1>1, <1>2, <1>4
<1> QED BY <1>2, <1>5 DEF Torn, m

\* The messages that arrive are as the properties say.
LEMMA PassedMessages ==
  ASSUME TypeOK, Earlier, Messages, NEW F \in Seq(Frames), F # <<>>, F[1].send = sends + 1,
         NEW fails \in BOOLEAN, Passed(F, fails),
         F[1].part = "main" =>
            /\ Accepts(F) => F[1].stale \/ Genuine(F)
            /\ F[1].whole => F[1].stale \/ F[1].layout = None \/ Accepts(F)
  PROVE  Messages'
<1>1. NothingLeftBehind'
  BY DEF Passed, NothingLeftBehind
<1>2. CASE UNCHANGED arrived
  BY <1>1, <1>2 DEF Messages, AcceptedIsGenuine, WholeIsAccepted, Own, Accepts, Torn, Genuine
<1>3. CASE arrived' = unfinished \o F
  <2>1. CASE unfinished # <<>>
    <3>1. Torn(arrived)'
      BY <1>3, <2>1, TornIs DEF Torn
    <3> QED BY <1>1, <3>1 DEF Messages, AcceptedIsGenuine, WholeIsAccepted
  <2>2. CASE unfinished = <<>>
    <3>1. arrived' = F
      BY <1>3, <2>2
    <3>2. Own(arrived)' => (Accepts(arrived)' => arrived'[1].stale \/ Genuine(arrived)')
      BY <3>1 DEF Own, Accepts, Genuine
    <3>3. Own(arrived)' /\ arrived'[1].whole
          => arrived'[1].stale \/ arrived'[1].layout = None \/ Accepts(arrived)'
      BY <3>1 DEF Own, Accepts
    <3> QED BY <1>1, <3>2, <3>3 DEF Messages, AcceptedIsGenuine, WholeIsAccepted
  <2> QED BY <2>1, <2>2
<1> QED BY <1>2, <1>3 DEF Passed

\* Nothing arrives and nothing is taken.
LEMMA QuietKeeps ==
  ASSUME IInv, sends' \in 0 .. MaxSends, sends' >= sends, announced' \in Layouts \cup {None},
         UNCHANGED <<unfinished, arrived, last>>, returned' = returned \/ returned' = "err",
         pulse_id' \in Nat, lowered' \in BOOLEAN, ~lowered' => ~lowered /\ pulse_id <= pulse_id'
  PROVE  IInv'
<1>1. TypeOK'
  BY DEF IInv, TypeOK
<1>2. Earlier'
  <2>1. \A i \in DOMAIN unfinished : unfinished[i].send \in Nat
    <3> TAKE i \in DOMAIN unfinished
    <3>1. unfinished[i] \in Frames
      BY DEF IInv, TypeOK
    <3> QED BY <3>1, BoundsAssumption DEF Frames
  <2>2. sends \in Nat /\ sends' \in Nat
    BY BoundsAssumption DEF IInv, TypeOK
  <2> QED BY <2>1, <2>2 DEF IInv, Earlier
<1>3. Ahead'
  <2> SUFFICES ASSUME ~lowered'
               PROVE  /\ Behind(last)'
                      /\ Own(unfinished)' => Follows(unfinished[1].id)' /\ Behind(unfinished[1])'
    BY DEF Ahead
  <2>1. ~lowered /\ pulse_id <= pulse_id' /\ pulse_id \in Nat /\ pulse_id' \in Nat
        /\ last.id \in Nat \cup {-1}
    BY DEF IInv, TypeOK
  <2>2. Behind(last)'
    BY <2>1 DEF IInv, Ahead, Behind
  <2>3. ASSUME Own(unfinished) PROVE Follows(unfinished[1].id)' /\ Behind(unfinished[1])'
    <3>1. unfinished[1] \in Frames /\ unfinished[1].part = "main"
      BY <2>3 DEF Own, IInv, TypeOK
    <3>2. unfinished[1].id \in Nat
      BY <3>1 DEF Frames
    <3>3. Follows(unfinished[1].id) /\ Behind(unfinished[1])
      BY <2>1, <2>3 DEF IInv, Ahead
    <3> QED BY <2>1, <3>2, <3>3 DEF Follows, Behind
  <2> QED BY <2>2, <2>3 DEF Own
<1>4. Messages'
  BY DEF IInv, Messages, NothingLeftBehind, AcceptedIsGenuine, WholeIsAccepted, Own, Accepts, Torn,
         Genuine
<1> QED BY <1>1, <1>2, <1>3, <1>4 DEF IInv

\* Frames go out under an ID that is not before those before it.
LEMMA PassedKeeps ==
  ASSUME IInv, sends < MaxSends, sends' = sends + 1, announced' \in Layouts \cup {None},
         pulse_id' \in Nat, lowered' \in BOOLEAN, ~lowered' => ~lowered /\ pulse_id <= pulse_id',
         NEW F \in Seq(Frames), F # <<>>, \A k \in 1 .. Len(F) : F[k].send = sends + 1,
         NEW fails \in BOOLEAN, Passed(F, fails),
         F[1].part = "main" =>
            /\ Accepts(F) => F[1].stale \/ Genuine(F)
            /\ F[1].whole => F[1].stale \/ F[1].layout = None \/ Accepts(F)
            /\ ~lowered' => /\ pulse_id <= F[1].id
                            /\ F[1].id <= pulse_id' /\ (F[1].simulated => F[1].id < pulse_id')
  PROVE  IInv' /\ (Own(arrived') /\ arrived' # arrived /\ ~lowered' => Follows(last'.id))
<1> DEFINE m == unfinished \o F
<1>1. /\ TypeOK /\ Earlier /\ Ahead /\ Messages
      /\ unfinished \in Seq(Frames) /\ sends \in Nat /\ sends + 1 \in 1 .. MaxSends
  BY BoundsAssumption DEF IInv, TypeOK
<1>2. /\ m \in Seq(Frames) /\ m # <<>> /\ Len(m) = Len(unfinished) + Len(F)
      /\ m[1] = IF unfinished = <<>> THEN F[1] ELSE unfinished[1]
      /\ \A i \in 1 .. Len(m) : m[i] = IF i <= Len(unfinished) THEN unfinished[i]
                                       ELSE F[i - Len(unfinished)]
  BY <1>1, Joined
<1>3. 1 \in DOMAIN m /\ m[1] \in Frames
  BY <1>2
<1>4. m[1].part = "main" => m[1].id \in Nat /\ m[1].simulated \in BOOLEAN
  BY <1>3 DEF Frames
<1>5. pulse_id \in Nat /\ last.id \in Nat \cup {-1} /\ last.simulated \in BOOLEAN
  BY <1>1 DEF TypeOK
<1>6. Messages'
  <2>1. F[1].send = sends + 1
    BY <1>1
  <2> QED BY <1>1, <2>1, PassedMessages
<1>7. Earlier'
  <2>1. \A i \in DOMAIN unfinished : unfinished[i].send <= sends' /\ i \in 1 .. Len(unfinished)
    <3> TAKE i \in DOMAIN unfinished
    <3>1. unfinished[i] \in Frames
      BY <1>1
    <3>2. unfinished[i].send \in Nat /\ unfinished[i].send <= sends
      BY <1>1, <3>1, BoundsAssumption DEF Frames, Earlier
    <3> QED BY <1>1, <3>2
  <2>2. \A i \in DOMAIN m : m[i].send <= sends'
    <3>0. DOMAIN m = 1 .. Len(m)
      <4>1. m \in Seq(Frames)
        BY <1>2
      <4> HIDE DEF m
      <4> QED BY <4>1
    <3> SUFFICES ASSUME NEW i \in 1 .. Len(m) PROVE m[i].send <= sends'
      BY <3>0
    <3>1. CASE i <= Len(unfinished)
      BY <1>1, <1>2, <2>1, <3>1
    <3>2. CASE ~(i <= Len(unfinished))
      <4>1. i - Len(unfinished) \in 1 .. Len(F)
        BY <1>1, <1>2, <3>2
      <4> QED BY <1>1, <1>2, <3>2, <4>1
    <3> QED BY <3>1, <3>2
  <2>3. unfinished' = m \/ unfinished' = <<>>
    BY DEF Passed
  <2> HIDE DEF m
  <2> QED BY <2>2, <2>3 DEF Earlier
\* The ID of the message, when it arrives and when it waits.
<1>8. m[1].part = "main" /\ ~lowered' =>
        /\ Follows(m[1].id) /\ m[1].id <= pulse_id' /\ (m[1].simulated => m[1].id < pulse_id')
  <2> SUFFICES ASSUME m[1].part = "main", ~lowered'
               PROVE  /\ Follows(m[1].id) /\ m[1].id <= pulse_id'
                      /\ (m[1].simulated => m[1].id < pulse_id')
    OBVIOUS
  <2>1. ~lowered /\ pulse_id <= pulse_id' /\ Behind(last)
    BY <1>1 DEF Ahead
  <2>2. CASE unfinished = <<>>
    <3>1. m[1] = F[1]
      BY <1>2, <2>2
    <3> HIDE DEF m
    <3> QED BY <1>4, <1>5, <2>1, <3>1 DEF Follows, Behind
  <2>3. CASE unfinished # <<>>
    <3>1. m[1] = unfinished[1] /\ Own(unfinished)
      BY <1>2, <2>3 DEF Own
    <3>2. Follows(m[1].id) /\ Behind(m[1])
      BY <1>1, <2>1, <3>1 DEF Ahead
    <3> HIDE DEF m
    <3> QED BY <1>4, <1>5, <2>1, <3>2 DEF Behind
  <2> QED BY <2>2, <2>3
<1>9. \/ UNCHANGED <<arrived, last>>
      \/ /\ arrived' = m
         /\ last' = IF m[1].part = "main" THEN [id |-> m[1].id, simulated |-> m[1].simulated]
                    ELSE last
  BY DEF Passed
<1>10. unfinished' = m \/ unfinished' = <<>>
  BY DEF Passed
<1>11. unfinished' = <<>> \/ UNCHANGED <<arrived, last>>
  BY DEF Passed
<1>12. TypeOK'
  <2>1. last' \in [id : Nat \cup {-1}, simulated : BOOLEAN]
    <3>1. last \in [id : Nat \cup {-1}, simulated : BOOLEAN]
      BY <1>1 DEF TypeOK
    <3>2. m[1].part = "main" =>
             [id |-> m[1].id, simulated |-> m[1].simulated] \in [id : Nat \cup {-1}, simulated : BOOLEAN]
      BY <1>4
    <3>3. \/ last' = last
          \/ m[1].part = "main" /\ last' = [id |-> m[1].id, simulated |-> m[1].simulated]
      BY <1>9
    <3> QED BY <3>1, <3>2, <3>3
  <2>2. unfinished' \in Seq(Frames) /\ arrived' \in Seq(Frames)
    <3>1. m \in Seq(Frames) /\ <<>> \in Seq(Frames) /\ arrived \in Seq(Frames)
      BY <1>1, <1>2 DEF TypeOK
    <3> HIDE DEF m
    <3> QED BY <1>9, <1>10, <3>1
  <2>3. returned' \in {None, "ok", "err"} /\ sends' \in 0 .. MaxSends
    BY <1>1 DEF Passed
  <2> QED BY <2>1, <2>2, <2>3 DEF TypeOK
<1> HIDE DEF m
<1>13. Ahead'
  <2> SUFFICES ASSUME ~lowered'
               PROVE  /\ Behind(last)'
                      /\ Own(unfinished)' => Follows(unfinished[1].id)' /\ Behind(unfinished[1])'
    BY DEF Ahead
  <2>1. Behind(last) /\ pulse_id <= pulse_id'
    BY <1>1 DEF Ahead
  <2>2. Behind(last)'
    <3>1. CASE last' = last
      BY <1>5, <2>1, <3>1 DEF Behind
    <3>2. CASE m[1].part = "main" /\ last' = [id |-> m[1].id, simulated |-> m[1].simulated]
      <4>1. last'.id = m[1].id /\ last'.simulated = m[1].simulated
        BY <3>2, Zenon
      <4> QED BY <1>8, <3>2, <4>1, Zenon DEF Behind
    <3> QED BY <1>9, <3>1, <3>2
  <2>3. CASE unfinished' = <<>>
    BY <2>2, <2>3 DEF Own
  <2>4. CASE unfinished' = m /\ last' = last
    BY <1>8, <2>2, <2>4 DEF Own, Follows, Behind
  <2> QED BY <1>9, <1>10, <1>11, <2>3, <2>4
<1>14. Own(arrived') /\ arrived' # arrived /\ ~lowered' => Follows(last'.id)
  <2> SUFFICES ASSUME arrived' = m, m[1].part = "main", ~lowered',
                      last' = [id |-> m[1].id, simulated |-> m[1].simulated]
               PROVE  Follows(last'.id)
    BY <1>9 DEF Own
  <2> QED BY <1>8
<1> QED BY <1>6, <1>7, <1>12, <1>13, <1>14 DEF IInv

LEMMA SendKeeps ==
  ASSUME IInv, Sending, NEW layout \in Layouts, NEW data \in Data(layout),
         NEW id \in ExplicitIds \cup {ID_SIMULATED}, NEW header \in Layouts \cup {None},
         NEW stale \in BOOLEAN, ~stale => header = layout, announced' \in Layouts \cup {None},
         SendWith(header, stale, id, layout, data)
  PROVE  IInv' /\ (Own(arrived') /\ arrived' # arrived /\ ~lowered' => Follows(last'.id))
<1>1. /\ TypeOK /\ pulse_id \in Nat /\ lowered \in BOOLEAN /\ sends \in Nat
      /\ sends < MaxSends /\ sends' = sends + 1 /\ sends' \in 0 .. MaxSends /\ sends' >= sends
  BY BoundsAssumption DEF IInv, TypeOK, Sending
<1>2. id \in Nat /\ UsedId(id) \in Nat
  BY <1>1, IdsAssumption DEF ID_SIMULATED, UsedId
<1>3. CASE returned' = "err" /\ UNCHANGED <<pulse_id, unfinished, arrived, last, lowered>>
  BY <1>1, <1>3, QuietKeeps
<1>4. CASE /\ UpdateMainHeader(id) /\ Width[layout] # 0
           /\ lowered' = (lowered \/ (id # ID_SIMULATED /\ pulse_id > id))
           /\ \/ Refused
              \/ \E F : /\ FramesOf(F, header, stale, id, layout, data)
                        /\ Passed(F, Fails(layout, data))
  <2>1. pulse_id' = IF id = ID_SIMULATED THEN pulse_id + 1 ELSE id
    BY <1>4 DEF UpdateMainHeader
  <2>2. lowered' \in BOOLEAN /\ pulse_id' \in Nat
    BY <1>1, <1>2, <1>4, <2>1
  <2>3. ~lowered' => ~lowered /\ (id = ID_SIMULATED \/ ~(pulse_id > id))
    BY <1>4, Zenon
  <2>4. ~lowered' => ~lowered /\ pulse_id <= pulse_id'
    BY <1>1, <1>2, <2>1, <2>3
  <2>5. CASE Refused
    <3>1. UNCHANGED <<unfinished, arrived, last>> /\ returned' = "err"
      BY <2>5 DEF Refused
    <3> QED BY <1>1, <2>2, <2>4, <3>1, QuietKeeps
  <2>6. ASSUME NEW F, FramesOf(F, header, stale, id, layout, data), Passed(F, Fails(layout, data))
        PROVE  IInv' /\ (Own(arrived') /\ arrived' # arrived /\ ~lowered' => Follows(last'.id))
    <3>1. F \in Seq(Frames) /\ F # <<>> /\ \A k \in 1 .. Len(F) : F[k].send = sends + 1
      <4>1. F \in Seq(Frames) /\ Len(F) = 2 + 2 * Cardinality(Sent(layout, data))
            /\ \A k \in 1 .. Len(F) : F[k].send = sends + 1
        BY <2>6 DEF FramesOf
      <4>2. Cardinality(Sent(layout, data)) \in Nat
        BY SentIs, FS_CardinalityType
      <4>3. Len(F) # 0
        BY <4>1, <4>2
      <4> QED BY <4>1, <4>3
    <3>2. /\ Accepts(F) => F[1].stale \/ Genuine(F)
          /\ F[1].whole => F[1].stale \/ F[1].layout = None \/ Accepts(F)
      BY <1>1, <1>4, <2>6, ArrivedWhole
    <3>3. F[1].id = UsedId(id) /\ F[1].simulated = (id = ID_SIMULATED)
      <4>1. F[1] = Main(header, stale, id, layout, data)
        BY <2>6 DEF FramesOf
      <4> QED BY <4>1 DEF Main
    <3>4. ~lowered' => /\ pulse_id <= F[1].id
                       /\ F[1].id <= pulse_id' /\ (F[1].simulated => F[1].id < pulse_id')
      <4>1. CASE id = ID_SIMULATED
        BY <1>1, <2>1, <3>3, <4>1 DEF UsedId
      <4>2. CASE id # ID_SIMULATED
        BY <1>1, <1>2, <2>1, <2>3, <3>3, <4>2 DEF UsedId
      <4> QED BY <4>1, <4>2
    <3>5. Fails(layout, data) \in BOOLEAN
      BY DEF Fails
    <3> QED BY <1>1, <2>2, <2>4, <2>6, <3>1, <3>2, <3>4, <3>5, PassedKeeps
  <2> QED BY <1>4, <2>5, <2>6
<1> QED BY <1>1, <1>3, <1>4, SendIs

LEMMA ForwardKeeps ==
  ASSUME IInv, NEW n \in 1 .. 2, Forward(n)
  PROVE  IInv' /\ (Own(arrived') /\ arrived' # arrived /\ ~lowered' => Follows(last'.id))
<1> DEFINE part == [part |-> "foreign", send |-> sends + 1]
           Q == [k \in 1 .. n |-> [frame |-> part, more |-> k < n]]
           F == [k \in 1 .. Len(Q) |-> Q[k].frame]
<1>1. /\ pulse_id \in Nat /\ lowered \in BOOLEAN /\ sends \in Nat /\ sends + 1 \in 1 .. MaxSends
      /\ sends < MaxSends /\ sends' = sends + 1 /\ sends' \in 0 .. MaxSends /\ sends' >= sends
      /\ announced' \in Layouts \cup {None}
      /\ UNCHANGED <<pulse_id, lowered>>
  BY BoundsAssumption DEF IInv, TypeOK, Sending, Forward
<1>2. Refused \/ Transmit(Q, FALSE)
  BY DEF Forward
<1>3. CASE Refused
  <2>1. UNCHANGED <<unfinished, arrived, last>> /\ returned' = "err"
    BY <1>3 DEF Refused
  <2> QED BY <1>1, <2>1, QuietKeeps
<1>4. CASE Transmit(Q, FALSE)
  <2>1. part \in Frames
    BY <1>1 DEF Frames
  <2>2. part.send = sends + 1 /\ part.part # "main"
    OBVIOUS
  <2> HIDE DEF part
  <2>3. \A k \in 1 .. n : Q[k] = [frame |-> part, more |-> k < n]
    OBVIOUS
  <2>4. \A k \in 1 .. n : Q[k].frame = part /\ (Q[k].more <=> k < n)
    <3> TAKE k \in 1 .. n
    <3> DEFINE less == k < n
               r == [frame |-> part, more |-> less]
    <3>1. r.frame = part /\ r.more = less
      BY Zenon
    <3>2. Q[k] = r
      BY <2>3
    <3> HIDE DEF r, Q
    <3> QED BY <3>1, <3>2, Zenon
  <2>5. Q \in Seq(Piece) /\ Len(Q) = n /\ Q # <<>>
    <3>1. \A k \in 1 .. n : [frame |-> part, more |-> k < n] \in Piece
      BY <2>1 DEF Piece
    <3>2. n \in Nat /\ n >= 1
      OBVIOUS
    <3>3. Q \in Seq(Piece) /\ Len(Q) = n
      BY <3>1, <3>2
    <3> HIDE DEF Q
    <3> QED BY <3>2, <3>3
  <2> HIDE DEF Q
  <2>6. (\A k \in 1 .. Len(Q) : k < Len(Q) => Q[k].more) /\ (Q[Len(Q)].more <=> FALSE)
    BY <2>4, <2>5
  <2>7. Passed(F, FALSE)
    BY <1>4, <2>5, <2>6, TransmitIs
  <2>8. F \in Seq(Frames) /\ F # <<>> /\ \A k \in 1 .. Len(F) : F[k].send = sends + 1
    BY <2>1, <2>2, <2>4, <2>5
  <2>9. F[1].part # "main"
    BY <2>2, <2>4, <2>5
  <2> HIDE DEF F
  <2>10. pulse_id' \in Nat /\ pulse_id <= pulse_id'
    BY <1>1
  <2>11. lowered' \in BOOLEAN /\ (~lowered' => ~lowered) /\ FALSE \in BOOLEAN
    BY <1>1
  <2> QED BY <1>1, <2>7, <2>8, <2>9, <2>10, <2>11, PassedKeeps
<1> QED BY <1>2, <1>3, <1>4

LEMMA NextKeeps ==
  ASSUME IInv, [Next]_vars
  PROVE  IInv' /\ (Own(arrived') /\ arrived' # arrived /\ ~lowered' => Follows(last'.id))
<1>0. announced \in Layouts \cup {None} /\ pulse_id \in Nat /\ lowered \in BOOLEAN
      /\ sends \in 0 .. MaxSends /\ sends <= sends
  BY BoundsAssumption DEF IInv, TypeOK
<1>1. CASE UNCHANGED vars
  BY <1>0, <1>1, QuietKeeps DEF vars
<1>2. ASSUME NEW layout \in Layouts, CreateDataHeader(layout)
      PROVE  IInv' /\ (Own(arrived') /\ arrived' # arrived /\ ~lowered' => Follows(last'.id))
  <2>1. announced' = layout /\ UNCHANGED <<pulse_id, unfinished, returned, arrived, last, lowered, sends>>
    BY <1>2 DEF CreateDataHeader
  <2> QED BY <1>0, <2>1, QuietKeeps
<1>3. ASSUME NEW layout \in Layouts, NEW data \in Data(layout),
             NEW id \in ExplicitIds \cup {ID_SIMULATED}, Send(id, layout, data)
      PROVE  IInv' /\ (Own(arrived') /\ arrived' # arrived /\ ~lowered' => Follows(last'.id))
  <2> DEFINE stale == announced # layout
  <2>1. Sending /\ SendWith(announced, stale, id, layout, data) /\ announced' = announced
    BY <1>3 DEF Send
  <2>2. stale \in BOOLEAN /\ (~stale => announced = layout)
    OBVIOUS
  <2> HIDE DEF stale
  <2> QED BY <1>0, <2>1, <2>2, SendKeeps
<1>4. ASSUME NEW layout \in Layouts, NEW data \in Data(layout),
             NEW id \in ExplicitIds \cup {ID_SIMULATED}, NEW create \in BOOLEAN,
             SendMessage(id, layout, data, create)
      PROVE  IInv' /\ (Own(arrived') /\ arrived' # arrived /\ ~lowered' => Follows(last'.id))
  <2> DEFINE header == IF create \/ announced = None THEN layout ELSE announced
             stale == ~create /\ header # layout
  <2>1. Sending /\ SendWith(header, stale, id, layout, data) /\ announced' = header
    BY <1>4 DEF SendMessage
  <2>2. stale \in BOOLEAN /\ (~stale => header = layout)
    OBVIOUS
  <2>3. header \in Layouts \cup {None}
    BY <1>0
  <2> HIDE DEF header, stale
  <2> QED BY <2>1, <2>2, <2>3, SendKeeps
<1>5. ASSUME NEW n \in 1 .. 2, Forward(n)
      PROVE  IInv' /\ (Own(arrived') /\ arrived' # arrived /\ ~lowered' => Follows(last'.id))
  BY <1>5, ForwardKeeps
<1> QED BY <1>1, <1>2, <1>3, <1>4, <1>5 DEF Next

LEMMA InitIInv == Init => IInv
<1> SUFFICES ASSUME Init PROVE IInv
  OBVIOUS
<1>1. TypeOK
  <2>1. unfinished \in Seq(Frames) /\ arrived \in Seq(Frames)
    BY DEF Init
  <2>2. last \in [id : Nat \cup {-1}, simulated : BOOLEAN] /\ lowered \in BOOLEAN
    BY DEF Init
  <2>3. pulse_id \in Nat /\ sends \in 0 .. MaxSends /\ announced \in Layouts \cup {None}
        /\ returned \in {None, "ok", "err"}
    BY IdsAssumption, BoundsAssumption DEF Init
  <2> QED BY <2>1, <2>2, <2>3 DEF TypeOK
<1>2. Earlier /\ Messages
  BY DEF Init, Earlier, Messages, NothingLeftBehind, AcceptedIsGenuine, WholeIsAccepted, Own
<1>3. Ahead
  BY IdsAssumption DEF Init, Ahead, Own, Behind
<1> QED BY <1>1, <1>2, <1>3 DEF IInv

LEMMA Invariant == Spec => []IInv
<1>1. IInv /\ [Next]_vars => IInv'
  BY NextKeeps
<1> QED BY <1>1, InitIInv, PTL DEF Spec

\* Types: every variable of Sender keeps to its type, and what waits on the
\* socket or arrived is made of the frames the calls send, whatever fails.
THEOREM TypeCorrect == Spec => []TypeOK
<1>1. IInv => TypeOK
  BY DEF IInv
<1> QED BY Invariant, <1>1, PTL

\* The frame without SNDMORE, which send picks by counting the channels that
\* have data (sender.rs:122-140), ends the message of every send that returns
\* Ok: whichever channels have data and whatever was left on the socket before.
THEOREM SendsAreClosed == Spec => []NothingLeftBehind
<1>1. IInv => NothingLeftBehind
  BY DEF IInv, Messages
<1> QED BY Invariant, <1>1, PTL

\* By the number of its parts (message.rs:418) a receiver tells a message that
\* lacks channels, for any list of channels: unless it was begun by another send
\* or has the header of other channels, what it accepts is channel by channel
\* what one send was given.
THEOREM AcceptedAsGiven == Spec => []AcceptedIsGenuine
<1>1. IInv => AcceptedIsGenuine
  BY DEF IInv, Messages
<1> QED BY Invariant, <1>1, PTL

\* Nor does it refuse for its number of parts any message in which all channels
\* have data, with the same exceptions.
THEOREM WholeGetsThrough == Spec => []WholeIsAccepted
<1>1. IInv => WholeIsAccepted
  BY DEF IInv, Messages
<1> QED BY Invariant, <1>1, PTL

\* Simulated and explicit IDs share one counter (sender.rs:171-184): whatever
\* fails, is refused or lost, those that arrive increase, as long as no explicit
\* ID is below the counter.
THEOREM IdsGoOn == Spec => IdsIncrease
<1> DEFINE A == Own(arrived') /\ arrived' # arrived /\ ~lowered'
                => last'.id > last.id \/ (last'.id = last.id /\ ~last.simulated)
<1>1. IInv /\ [Next]_vars => [A]_vars
  BY NextKeeps DEF Follows
<1> QED BY Invariant, <1>1, PTL DEF Spec, IdsIncrease
=============================================================================
