------------------------- MODULE SocketMonitor_proofs -------------------------
(***************************************************************************)
(* Proofs about SocketMonitor, for any number of endpoints, sockets and    *)
(* changes of connections: a socket has one entry at most, and a state is  *)
(* kept of nothing but what the entry's own socket reported; an endpoint   *)
(* has one entry at most, and once the thread has caught up the states are *)
(* those the sockets monitored reported last.                              *)
(***************************************************************************)
EXTENDS SocketMonitor, SequenceTheorems, FiniteSetTheorems, WellFoundedInduction, TLAPS

IsAdd(cmd) == cmd.op = "Add"

\* A socket that was registered stays so as long as the object has it.
Once(i) == i <= opened /\ (i \in sockets => i \in monitoring)

\* Sockets are numbered as they are opened, and are silent until then.
Numbered ==
    /\ sockets \subseteq 1 .. opened
    /\ \A i \in 1 .. opened : endpoint[i] \in Endpoints
    /\ \A i \in Indices : emitted[i] # None => i <= opened

\* No socket is registered twice.
Registered ==
    /\ \A j, k \in DOMAIN cmds :
          IsAdd(cmds[j]) /\ IsAdd(cmds[k]) /\ cmds[j].index = cmds[k].index => j = k
    /\ \A k \in DOMAIN cmds :
          IsAdd(cmds[k]) => cmds[k].index \notin ToSet(monitors) /\ Once(cmds[k].index)
    /\ \A i \in ToSet(monitors) : Once(i)

\* What is in a pipe was put there while its entry was the socket's, and what
\* was found readable still is.
Reported ==
    /\ \A i \in Indices : \A k \in DOMAIN pipe[i] : pipe[i][k] # Stopped => emitted[i] # None
    /\ \A i \in polled : pipe[i] # <<>>

IInv == TypeOK /\ Numbered /\ Registered /\ Reported /\ StatesAreCurrent

USE DEF Indices, EndpointState, Stopped, None

-----------------------------------------------------------------------------
(* Sequences.                                                              *)

Events == EndpointState \cup {Stopped}

\* A set of numbers that is not empty has a least one.
LEMMA LeastNumber ==
  ASSUME NEW S \in SUBSET Nat, S # {}
  PROVE  Min(S) \in S /\ \A y \in S : Min(S) <= y
<1> DEFINE Less == OpToRel(<, Nat)
<1>1. IsWellFoundedOn(Less, Nat)
  BY NatLessThanWellFounded
<1>2. \A x, y \in Nat : <<x, y>> \in Less <=> x < y
  BY DEF OpToRel
<1> HIDE DEF Less
<1>3. PICK x \in S : \A y \in S : ~(<<y, x>> \in Less)
  BY <1>1, WFMin
<1>4. \A y \in S : x <= y
  <2> TAKE y \in S
  <2>1. ~(y < x)
    BY <1>2, <1>3
  <2> QED BY <2>1
<1> QED BY <1>4 DEF Min

\* A command of this kind for each of the sockets in S is sent.
LEMMA Sent ==
  ASSUME cmds \in Seq(Command), NEW S \in SUBSET Indices, NEW op \in {"Add", "Remove"},
         NEW order \in SetToSeqs(S),
         cmds' = cmds \o [k \in DOMAIN order |-> [op |-> op, index |-> order[k]]]
  PROVE  /\ cmds' \in Seq(Command)
         /\ DOMAIN cmds = 1 .. Len(cmds) /\ DOMAIN cmds' = 1 .. Len(cmds')
         /\ Len(cmds) \in Nat /\ Len(cmds') \in Nat /\ Len(cmds) <= Len(cmds')
         /\ \A k \in DOMAIN cmds : cmds'[k] = cmds[k]
         /\ \A k \in Len(cmds) + 1 .. Len(cmds') : cmds'[k].op = op /\ cmds'[k].index \in S
         /\ \A j, k \in Len(cmds) + 1 .. Len(cmds') : cmds'[j].index = cmds'[k].index => j = k
<1> DEFINE n == Cardinality(S)
           new == [k \in DOMAIN order |-> [op |-> op, index |-> order[k]]]
<1>1. order \in [1 .. n -> S] /\ \A i, j \in 1 .. n : i # j => order[i] # order[j]
  BY DEF SetToSeqs
<1>2. DOMAIN order = 1 .. n
  BY <1>1
<1>3. n \in Nat
  <2>1. IsFiniteSet(Indices)
    BY BoundsAssumption, FS_Interval
  <2>2. IsFiniteSet(S)
    BY <2>1, FS_Subset
  <2> QED BY <2>2, FS_CardinalityType
<1> HIDE DEF n
<1>4. new \in Seq(Command) /\ Len(new) = n
      /\ \A k \in 1 .. n : new[k] = [op |-> op, index |-> order[k]]
  <2>1. \A k \in 1 .. n : [op |-> op, index |-> order[k]] \in Command
    BY <1>1 DEF Command
  <2> QED BY <1>2, <1>3, <2>1
<1> HIDE DEF new
<1>5. cmds' = cmds \o new
  BY DEF new
<1>6. /\ cmds' \in Seq(Command) /\ Len(cmds) \in Nat /\ Len(cmds') = Len(cmds) + n
      /\ \A k \in 1 .. Len(cmds') :
            cmds'[k] = IF k <= Len(cmds) THEN cmds[k] ELSE new[k - Len(cmds)]
  BY <1>3, <1>4, <1>5, ConcatProperties, LenProperties
<1>7. DOMAIN cmds = 1 .. Len(cmds) /\ DOMAIN cmds' = 1 .. Len(cmds')
  BY <1>6, LenProperties
<1>8. \A k \in Len(cmds) + 1 .. Len(cmds') :
         k - Len(cmds) \in 1 .. n /\ cmds'[k] = [op |-> op, index |-> order[k - Len(cmds)]]
  BY <1>3, <1>4, <1>6
<1>9. ASSUME NEW k \in Len(cmds) + 1 .. Len(cmds')
      PROVE  cmds'[k].op = op /\ cmds'[k].index = order[k - Len(cmds)] /\ cmds'[k].index \in S
  <2>1. k - Len(cmds) \in 1 .. n /\ cmds'[k] = [op |-> op, index |-> order[k - Len(cmds)]]
    BY <1>8
  <2>2. order[k - Len(cmds)] \in S
    BY <1>1, <2>1
  <2> QED BY <2>1, <2>2
<1>10. ASSUME NEW j \in Len(cmds) + 1 .. Len(cmds'), NEW k \in Len(cmds) + 1 .. Len(cmds'),
              cmds'[j].index = cmds'[k].index
       PROVE  j = k
  <2>1. order[j - Len(cmds)] = order[k - Len(cmds)]
    BY <1>9, <1>10
  <2>2. j - Len(cmds) = k - Len(cmds)
    BY <1>1, <1>8, <2>1
  <2> QED BY <1>6, <2>2
<1>11. \A k \in DOMAIN cmds : cmds'[k] = cmds[k]
  BY <1>3, <1>6, <1>7
<1>12. Len(cmds') \in Nat /\ Len(cmds) <= Len(cmds')
  BY <1>3, <1>6
<1> QED BY <1>6, <1>7, <1>9, <1>10, <1>11, <1>12

\* The first command is taken.
LEMMA Received ==
  ASSUME cmds \in Seq(Command), cmds # <<>>, cmds' = Tail(cmds)
  PROVE  /\ Head(cmds) = cmds[1] /\ 1 \in DOMAIN cmds /\ Head(cmds) \in Command
         /\ cmds' \in Seq(Command)
         /\ \A k \in DOMAIN cmds' : k \in Nat /\ k + 1 # 1 /\ k + 1 \in DOMAIN cmds
                                   /\ cmds'[k] = cmds[k + 1]
<1>1. Len(cmds) \in Nat /\ Len(cmds) # 0 /\ DOMAIN cmds = 1 .. Len(cmds)
  BY LenProperties, EmptySeq
<1>2. cmds' \in Seq(Command) /\ Len(cmds') = Len(cmds) - 1
      /\ \A k \in 1 .. Len(cmds') : cmds'[k] = cmds[k + 1]
  BY HeadTailProperties
<1>3. DOMAIN cmds' = 1 .. Len(cmds')
  BY <1>2, LenProperties
<1>4. Head(cmds) = cmds[1] /\ Head(cmds) \in Command
  BY HeadTailProperties
<1> QED BY <1>1, <1>2, <1>3, <1>4

\* An entry is dropped from the list, and no other.
LEMMA Dropped ==
  ASSUME NEW s \in Seq(Indices), IsInjective(s), NEW k \in DOMAIN s
  PROVE  /\ RemoveAt(s, k) \in Seq(Indices)
         /\ IsInjective(RemoveAt(s, k))
         /\ ToSet(RemoveAt(s, k)) = ToSet(s) \ {s[k]}
<1> DEFINE t == RemoveAt(s, k)
           a == SubSeq(s, 1, k - 1)
           b == SubSeq(s, k + 1, Len(s))
<1>1. Len(s) \in Nat /\ DOMAIN s = 1 .. Len(s) /\ k \in 1 .. Len(s) /\ \A i \in 1 .. Len(s) : s[i] \in Indices
  BY LenProperties, ElementOfSeq
<1>2. a \in Seq(Indices) /\ Len(a) = k - 1 /\ \A i \in 1 .. k - 1 : a[i] = s[i]
  BY <1>1, SubSeqProperties
<1>3. b \in Seq(Indices) /\ Len(b) = Len(s) - k /\ \A i \in 1 .. Len(s) - k : b[i] = s[i + k]
  <2>1. /\ k + 1 \in Int /\ Len(s) \in Int
        /\ \A i \in k + 1 .. Len(s) : s[i] \in Indices
    BY <1>1
  <2>2. /\ b \in Seq(Indices)
        /\ Len(b) = IF k + 1 <= Len(s) THEN Len(s) - (k + 1) + 1 ELSE 0
        /\ \A i \in 1 .. Len(s) - (k + 1) + 1 : b[i] = s[(k + 1) + i - 1]
    BY <2>1, SubSeqProperties
  <2>3. \A n, l \in Nat : n \in 1 .. l =>
          /\ l - (n + 1) + 1 = l - n
          /\ (IF n + 1 <= l THEN l - (n + 1) + 1 ELSE 0) = l - n
          /\ \A i \in 1 .. l - n : (n + 1) + i - 1 = i + n
    OBVIOUS
  <2> HIDE DEF b
  <2>4. k \in Nat /\ Len(s) \in Nat /\ k \in 1 .. Len(s)
    BY <1>1
  <2> QED BY <2>2, <2>3, <2>4
<1>4. t = a \o b
  BY DEF RemoveAt
<1> HIDE DEF a, b, t
<1>5. /\ t \in Seq(Indices) /\ Len(t) = Len(s) - 1
      /\ \A i \in 1 .. Len(t) : t[i] = IF i < k THEN s[i] ELSE s[i + 1]
  <2>1. t \in Seq(Indices) /\ Len(t) = Len(a) + Len(b)
        /\ \A i \in 1 .. Len(a) + Len(b) : t[i] = IF i <= Len(a) THEN a[i] ELSE b[i - Len(a)]
    BY <1>2, <1>3, <1>4, ConcatProperties
  <2>2. Len(t) = Len(s) - 1
    BY <1>1, <1>2, <1>3, <2>1
  <2> SUFFICES ASSUME NEW i \in 1 .. Len(t) PROVE t[i] = IF i < k THEN s[i] ELSE s[i + 1]
    BY <2>1, <2>2
  <2>3. CASE i < k
    BY <1>1, <1>2, <1>3, <2>1, <2>2, <2>3
  <2>4. CASE ~(i < k)
    <3>1. i - (k - 1) \in 1 .. Len(s) - k /\ i - (k - 1) + k = i + 1
      BY <1>1, <2>2, <2>4
    <3>2. t[i] = b[i - (k - 1)]
      BY <1>1, <1>2, <1>3, <2>1, <2>2, <2>4
    <3> QED BY <1>3, <2>4, <3>1, <3>2
  <2> QED BY <2>3, <2>4
<1>6. DOMAIN t = 1 .. Len(t)
  BY <1>5, LenProperties
<1>7. IsInjective(t)
  <2> SUFFICES ASSUME NEW i \in 1 .. Len(t), NEW j \in 1 .. Len(t), t[i] = t[j] PROVE i = j
    BY <1>6 DEF IsInjective
  <2> DEFINE x == IF i < k THEN i ELSE i + 1
             y == IF j < k THEN j ELSE j + 1
  <2>1. x \in 1 .. Len(s) /\ y \in 1 .. Len(s) /\ t[i] = s[x] /\ t[j] = s[y]
    BY <1>1, <1>5
  <2>2. x = y
    BY <1>1, <2>1 DEF IsInjective
  <2> QED BY <1>1, <1>5, <2>2
<1>8. ToSet(t) = ToSet(s) \ {s[k]}
  <2>1. ASSUME NEW i \in 1 .. Len(t) PROVE t[i] \in ToSet(s) \ {s[k]}
    <3>1. t[i] = s[IF i < k THEN i ELSE i + 1] /\ (IF i < k THEN i ELSE i + 1) \in 1 .. Len(s)
          /\ (IF i < k THEN i ELSE i + 1) # k
      BY <1>1, <1>5
    <3> QED BY <1>1, <3>1 DEF ToSet, IsInjective
  <2>2. ASSUME NEW j \in 1 .. Len(s), j # k PROVE s[j] \in ToSet(t)
    <3>1. t[IF j < k THEN j ELSE j - 1] = s[j] /\ (IF j < k THEN j ELSE j - 1) \in 1 .. Len(t)
      BY <1>1, <1>5, <2>2
    <3> QED BY <1>6, <3>1 DEF ToSet
  <2> QED BY <1>1, <1>6, <2>1, <2>2 DEF ToSet
<1> QED BY <1>5, <1>7, <1>8 DEF t

-----------------------------------------------------------------------------
(* The object.                                                             *)

\* Types, apart from those of the thread.
ObjectType ==
    /\ opened \in 0 .. MaxSockets
    /\ endpoint \in [Indices -> Endpoints \cup {None}]
    /\ sockets \subseteq Indices /\ monitoring \subseteq sockets
    /\ \A i, j \in sockets : endpoint[i] = endpoint[j] => i = j
    /\ enabled \in {None, "some", "down"}

NetworkType ==
    /\ emitted \in [Indices -> EndpointState \cup {None}]
    /\ pipe \in [Indices -> Seq(Events)]
    /\ changes \in 0 .. MaxChanges

ThreadType ==
    /\ monitors \in Seq(Indices) /\ IsInjective(monitors)
    /\ polled \subseteq ToSet(monitors)
    /\ running \in BOOLEAN
    /\ states \in UNION {[S -> EndpointState] : S \in SUBSET Endpoints}

LEMMA TypeParts ==
  /\ TypeOK <=> ObjectType /\ NetworkType /\ cmds \in Seq(Command) /\ ThreadType
  /\ TypeOK' <=> ObjectType' /\ NetworkType' /\ cmds' \in Seq(Command) /\ ThreadType'
BY DEF TypeOK, ObjectType, NetworkType, ThreadType, Events

LEMMA ThreadUntouched == ThreadType /\ UNCHANGED thread => ThreadType'
BY DEF ThreadType, thread

LEMMA EntriesAreIndices ==
  ASSUME monitors \in Seq(Indices), NEW i \in ToSet(monitors)
  PROVE  i \in Indices
<1>1. PICK k \in DOMAIN monitors : i = monitors[k]
  BY DEF ToSet
<1>2. k \in 1 .. Len(monitors)
  BY LenProperties
<1> QED BY <1>1, <1>2, ElementOfSeq

LEMMA AddsAreIndices ==
  ASSUME cmds \in Seq(Command), NEW k \in DOMAIN cmds, IsAdd(cmds[k])
  PROVE  cmds[k].index \in Indices
<1>1. k \in 1 .. Len(cmds)
  BY LenProperties
<1>2. cmds[k] \in Command
  BY <1>1, ElementOfSeq
<1> QED BY <1>2 DEF Command, IsAdd

OnceNext(i) == i <= opened' /\ (i \in sockets' => i \in monitoring')

\* A step that keeps what is registered so, and sends and adds nothing.
LEMMA RegisteredStays ==
  ASSUME IInv, UNCHANGED <<cmds, monitors>>, \A i \in Indices : Once(i) => OnceNext(i)
  PROVE  Registered'
<1>1. \A k \in DOMAIN cmds : IsAdd(cmds[k]) => cmds[k].index \in Indices
  BY AddsAreIndices DEF IInv, TypeOK
<1>2. \A i \in ToSet(monitors) : i \in Indices
  BY EntriesAreIndices DEF IInv, TypeOK
<1>3. /\ \A k \in DOMAIN cmds : IsAdd(cmds[k]) => OnceNext(cmds[k].index)
      /\ \A i \in ToSet(monitors) : OnceNext(i)
  BY <1>1, <1>2 DEF IInv, Registered
<1> QED BY <1>3 DEF IInv, Registered, OnceNext, Once

\* Registering sockets that were not, or no more sockets, registers none twice.
LEMMA RegisteredKept ==
  ASSUME IInv, UNCHANGED monitors, NEW S \in SUBSET Indices,
         NEW op \in {"Add", "Remove"}, NEW order \in SetToSeqs(S),
         cmds' = cmds \o [k \in DOMAIN order |-> [op |-> op, index |-> order[k]]],
         op = "Add" => \A i \in S : ~Once(i) /\ OnceNext(i),
         \A i \in Indices : Once(i) => OnceNext(i)
  PROVE  Registered' /\ cmds' \in Seq(Command)
<1>1. /\ cmds' \in Seq(Command)
      /\ DOMAIN cmds = 1 .. Len(cmds) /\ DOMAIN cmds' = 1 .. Len(cmds')
      /\ Len(cmds) \in Nat /\ Len(cmds') \in Nat /\ Len(cmds) <= Len(cmds')
      /\ \A k \in DOMAIN cmds : cmds'[k] = cmds[k]
      /\ \A k \in Len(cmds) + 1 .. Len(cmds') : cmds'[k].op = op /\ cmds'[k].index \in S
      /\ \A j, k \in Len(cmds) + 1 .. Len(cmds') : cmds'[j].index = cmds'[k].index => j = k
  BY Sent DEF IInv, TypeOK
<1>2. \A k \in DOMAIN cmds : IsAdd(cmds[k]) =>
         Once(cmds[k].index) /\ OnceNext(cmds[k].index) /\ cmds[k].index \notin ToSet(monitors)
  BY AddsAreIndices DEF IInv, Registered, TypeOK
<1>3. \A i \in ToSet(monitors) : Once(i) /\ OnceNext(i)
  BY EntriesAreIndices DEF IInv, Registered, TypeOK
<1>4. ASSUME NEW k \in DOMAIN cmds', IsAdd(cmds'[k])
      PROVE  \/ k \in DOMAIN cmds /\ cmds'[k] = cmds[k]
             \/ k \in Len(cmds) + 1 .. Len(cmds') /\ ~Once(cmds'[k].index) /\ OnceNext(cmds'[k].index)
  <2>1. CASE k \in DOMAIN cmds
    BY <1>1, <2>1
  <2>2. CASE k \notin DOMAIN cmds
    <3>1. k \in Len(cmds) + 1 .. Len(cmds')
      BY <1>1, <2>2
    <3>2. cmds'[k].op = op /\ cmds'[k].index \in S
      BY <1>1, <3>1
    <3>3. op = "Add"
      BY <1>4, <3>2 DEF IsAdd
    <3> QED BY <3>1, <3>2, <3>3
  <2> QED BY <2>1, <2>2
<1>5. ASSUME NEW j \in DOMAIN cmds', NEW k \in DOMAIN cmds', IsAdd(cmds'[j]), IsAdd(cmds'[k]),
             cmds'[j].index = cmds'[k].index
      PROVE  j = k
  <2>1. /\ \/ j \in DOMAIN cmds /\ cmds'[j] = cmds[j]
           \/ j \in Len(cmds) + 1 .. Len(cmds') /\ ~Once(cmds'[j].index)
        /\ \/ k \in DOMAIN cmds /\ cmds'[k] = cmds[k]
           \/ k \in Len(cmds) + 1 .. Len(cmds') /\ ~Once(cmds'[k].index)
    BY <1>4, <1>5
  <2>2. CASE j \in DOMAIN cmds /\ k \in DOMAIN cmds
    BY <1>1, <1>5, <2>2 DEF IInv, Registered
  <2>3. CASE j \in Len(cmds) + 1 .. Len(cmds') /\ k \in Len(cmds) + 1 .. Len(cmds')
    BY <1>1, <1>5, <2>3
  <2> QED BY <1>2, <1>5, <2>1, <2>2, <2>3
<1>6. ASSUME NEW k \in DOMAIN cmds', IsAdd(cmds'[k])
      PROVE  cmds'[k].index \notin ToSet(monitors) /\ OnceNext(cmds'[k].index)
  BY <1>2, <1>3, <1>4, <1>6
<1>7. /\ \A j, k \in DOMAIN cmds' :
            IsAdd(cmds'[j]) /\ IsAdd(cmds'[k]) /\ cmds'[j].index = cmds'[k].index => j = k
      /\ \A k \in DOMAIN cmds' :
            IsAdd(cmds'[k]) => cmds'[k].index \notin ToSet(monitors') /\ OnceNext(cmds'[k].index)
      /\ \A i \in ToSet(monitors') : OnceNext(i)
  BY <1>3, <1>5, <1>6
<1>8. Registered'
  BY <1>7 DEF Registered, OnceNext, Once, IsAdd
<1> QED BY <1>1, <1>8

\* The object's calls neither read a pipe nor forget a state.
LEMMA ReportedKept ==
  ASSUME IInv, ObjectType', UNCHANGED <<network, polled, running, monitors, states>>,
         \A i \in Indices : i <= opened => endpoint'[i] = endpoint[i],
         opened <= opened', sockets' \subseteq 1 .. opened',
         \A i \in 1 .. opened' : endpoint'[i] \in Endpoints,
         \A i \in Indices : pipe'[i] = pipe[i] \/ pipe'[i] = Append(pipe[i], Stopped)
  PROVE  Numbered' /\ Reported' /\ StatesAreCurrent'
<1>1. \A i \in ToSet(monitors) : i \in Indices
  BY EntriesAreIndices DEF IInv, TypeOK
<1>2. \A i \in Indices : pipe[i] \in Seq(Events)
  BY DEF IInv, TypeOK, Events
<1>3. Reported'
  <2>1. ASSUME NEW i \in Indices, NEW k \in DOMAIN pipe'[i], pipe'[i][k] # Stopped
        PROVE  emitted'[i] # None
    <3>1. CASE pipe'[i] = pipe[i]
      BY <2>1, <3>1 DEF IInv, Reported, network
    <3>2. CASE pipe'[i] = Append(pipe[i], Stopped)
      <4>1. k \in DOMAIN pipe[i] /\ pipe'[i][k] = pipe[i][k]
        BY <1>2, <2>1, <3>2 DEF Events
      <4> QED BY <2>1, <4>1 DEF IInv, Reported, network
    <3> QED BY <3>1, <3>2
  <2>2. ASSUME NEW i \in polled' PROVE pipe'[i] # <<>>
    <3>1. i \in Indices /\ i \in polled /\ pipe[i] # <<>>
      BY <1>1 DEF IInv, TypeOK, Reported
    <3>2. pipe[i] \in Seq(Events)
      BY <1>2, <3>1
    <3> QED BY <3>1, <3>2
  <2> QED BY <2>1, <2>2 DEF Reported
<1>4. Numbered'
  BY DEF IInv, Numbered, network, TypeOK, ObjectType
<1>5. \A i \in Indices : emitted[i] # None => endpoint'[i] = endpoint[i]
  BY DEF IInv, Numbered
<1>6. StatesAreCurrent'
  BY <1>1, <1>5 DEF IInv, StatesAreCurrent, network
<1> QED BY <1>3, <1>4, <1>6

LEMMA ConnectKeeps ==
  ASSUME IInv, NEW e \in Endpoints, Connect(e)
  PROVE  IInv'
<1>1. TypeOK /\ Numbered
  BY DEF IInv
<1>2. opened + 1 \in Indices /\ opened + 1 \in 1 .. opened' /\ opened' = opened + 1 /\ opened \in Nat
  BY <1>1, BoundsAssumption DEF TypeOK, Connect
<1>3. opened + 1 \notin sockets /\ opened + 1 \notin monitoring
  BY <1>1, <1>2 DEF Numbered, TypeOK
<1>4. monitoring' = monitoring \/ monitoring' = monitoring \cup {opened + 1}
  BY DEF Connect, Register
<1>5. ObjectType'
  <2>1. opened' \in 0 .. MaxSockets
    BY <1>2, BoundsAssumption
  <2>2. endpoint' \in [Indices -> Endpoints \cup {None}]
        /\ \A i \in Indices : endpoint'[i] = IF i = opened + 1 THEN e ELSE endpoint[i]
    BY <1>1 DEF TypeOK, Connect
  <2>3. sockets' \subseteq Indices /\ monitoring' \subseteq sockets'
    BY <1>1, <1>2, <1>4 DEF TypeOK, Connect
  <2>4. \A i, j \in sockets' : endpoint'[i] = endpoint'[j] => i = j
    BY <1>1, <1>3, <2>2, <2>3 DEF TypeOK, Connect
  <2> QED BY <1>1, <2>1, <2>2, <2>3, <2>4 DEF ObjectType, Connect, TypeOK
<1>6. Numbered' /\ Reported' /\ StatesAreCurrent'
  <2>1. \A i \in Indices : i <= opened => endpoint'[i] = endpoint[i]
    BY <1>1, <1>2 DEF TypeOK, Connect
  <2>2. sockets' \subseteq 1 .. opened' /\ opened <= opened'
    BY <1>1, <1>2 DEF Connect, Numbered
  <2>3. UNCHANGED <<network, polled, running, monitors, states, pipe>>
    BY DEF Connect, network, thread
  <2>4. \A i \in 1 .. opened' : endpoint'[i] \in Endpoints
    BY <1>1, <1>2 DEF TypeOK, Connect, Numbered
  <2> QED BY <1>5, <2>1, <2>2, <2>3, <2>4, ReportedKept
<1>7. NetworkType' /\ ThreadType'
  BY <1>1, TypeParts, ThreadUntouched DEF Connect, NetworkType
<1>8. Registered' /\ cmds' \in Seq(Command)
  <2>1. \A i \in Indices : Once(i) => OnceNext(i)
    BY <1>1, <1>2, <1>4 DEF Once, OnceNext, Connect, TypeOK
  <2>2. CASE enabled = "some"
    <3>1. ~Once(opened + 1)
      BY <1>2 DEF Once
    <3>2. OnceNext(opened + 1)
      BY <1>2, <2>2 DEF OnceNext, Connect, Register
    <3>3. {opened + 1} \ monitoring = {opened + 1} /\ {opened + 1} \in SUBSET Indices
      BY <1>2, <1>3
    <3>4. PICK order \in SetToSeqs({opened + 1}) :
             cmds' = cmds \o [k \in DOMAIN order |-> [op |-> "Add", index |-> order[k]]]
      BY <2>2, <3>3 DEF Connect, Register
    <3>5. UNCHANGED monitors
      BY DEF Connect, thread
    <3>6. \A i \in {opened + 1} : ~Once(i) /\ OnceNext(i)
      BY <3>1, <3>2
    <3> QED BY <2>1, <3>3, <3>4, <3>5, <3>6, RegisteredKept
  <2>3. CASE enabled # "some"
    BY <1>1, <2>1, <2>3, RegisteredStays DEF Connect, thread, TypeOK
  <2> QED BY <2>2, <2>3
<1> QED BY <1>5, <1>6, <1>7, <1>8, TypeParts DEF IInv

\* Closing some of the sockets, unregistered first.
LEMMA UnregisterKeeps ==
  ASSUME IInv, NEW S \in SUBSET sockets, Unregister(S, S),
         UNCHANGED <<opened, endpoint, enabled, network, thread>>
  PROVE  IInv'
<1>1. TypeOK /\ Numbered
  BY DEF IInv
<1>2. ObjectType'
  BY <1>1 DEF TypeOK, ObjectType, Unregister
<1>3. NetworkType'
  <2>1. \A i \in Indices : pipe[i] \in Seq(Events) /\ Append(pipe[i], Stopped) \in Seq(Events)
    BY <1>1 DEF TypeOK, Events
  <2>2. pipe' \in [Indices -> Seq(Events)]
    BY <2>1 DEF Unregister
  <2> QED BY <1>1, <2>2, TypeParts DEF NetworkType, network
<1>4. ThreadType'
  BY <1>1, TypeParts, ThreadUntouched
<1>5. Numbered' /\ Reported' /\ StatesAreCurrent'
  <2>1. \A i \in Indices : pipe'[i] = pipe[i] \/ pipe'[i] = Append(pipe[i], Stopped)
    BY DEF Unregister
  <2>2. /\ sockets' \subseteq 1 .. opened' /\ opened <= opened'
        /\ \A i \in 1 .. opened' : endpoint'[i] \in Endpoints
    BY <1>1 DEF Numbered, TypeOK, Unregister
  <2> QED BY <1>2, <2>1, <2>2, ReportedKept DEF thread
<1>6. Registered' /\ cmds' \in Seq(Command)
  <2>1. PICK order \in SetToSeqs(S \cap monitoring) :
           cmds' = cmds \o [k \in DOMAIN order |-> [op |-> "Remove", index |-> order[k]]]
    BY DEF Unregister
  <2>2. \A i \in Indices : Once(i) => OnceNext(i)
    BY DEF Once, OnceNext, Unregister
  <2>3. S \cap monitoring \in SUBSET Indices /\ UNCHANGED monitors
    BY <1>1 DEF TypeOK, thread
  <2> HIDE DEF Unregister
  <2> QED BY <2>1, <2>2, <2>3, RegisteredKept
<1> QED BY <1>2, <1>3, <1>4, <1>5, <1>6, TypeParts DEF IInv

LEMMA DisconnectKeeps ==
  ASSUME IInv, DisconnectAll \/ (\E e \in Endpoints : Disconnect(e))
  PROVE  IInv'
<1>1. \E S \in SUBSET sockets : Unregister(S, S)
  BY DEF Disconnect, DisconnectAll
<1>2. UNCHANGED <<opened, endpoint, enabled, network, thread>>
  BY DEF Disconnect, DisconnectAll
<1> QED BY <1>1, <1>2, UnregisterKeeps

LEMMA EnableKeeps ==
  ASSUME IInv, Enable
  PROVE  IInv'
<1>1. TypeOK /\ Numbered
  BY DEF IInv
<1>2. UNCHANGED <<opened, endpoint, sockets, network, pipe, thread>> /\ monitoring' = sockets
  BY <1>1 DEF Enable, Register, TypeOK
<1>3. ObjectType'
  BY <1>1, <1>2 DEF TypeOK, ObjectType, Enable
<1>4. NetworkType' /\ ThreadType'
  BY <1>1, <1>2, TypeParts, ThreadUntouched DEF NetworkType, network
<1>5. Numbered' /\ Reported' /\ StatesAreCurrent'
  <2>1. /\ sockets' \subseteq 1 .. opened' /\ opened <= opened'
        /\ \A i \in 1 .. opened' : endpoint'[i] \in Endpoints
    BY <1>1, <1>2 DEF Numbered, TypeOK
  <2> QED BY <1>2, <1>3, <2>1, ReportedKept DEF thread
<1>6. Registered' /\ cmds' \in Seq(Command)
  <2>1. PICK order \in SetToSeqs(sockets \ monitoring) :
           cmds' = cmds \o [k \in DOMAIN order |-> [op |-> "Add", index |-> order[k]]]
    BY DEF Enable, Register
  <2>2. \A i \in Indices : Once(i) => OnceNext(i)
    BY <1>2 DEF Once, OnceNext
  <2>3. sockets \ monitoring \in SUBSET Indices /\ UNCHANGED monitors
    BY <1>1, <1>2 DEF TypeOK, thread
  <2>4. \A i \in sockets \ monitoring : ~Once(i) /\ OnceNext(i)
    BY <1>1, <1>2 DEF Once, OnceNext, Numbered, TypeOK
  <2> QED BY <2>1, <2>2, <2>3, <2>4, RegisteredKept
<1> QED BY <1>3, <1>4, <1>5, <1>6, TypeParts DEF IInv

LEMMA DropKeeps ==
  ASSUME IInv, Drop
  PROVE  IInv'
<1>1. TypeOK /\ Numbered
  BY DEF IInv
<1>2. UNCHANGED <<opened, endpoint, network, pipe, thread>> /\ sockets' = {} /\ monitoring' = {}
  BY DEF Drop
<1>3. ObjectType'
  BY <1>1, <1>2 DEF TypeOK, ObjectType, Drop
<1>4. NetworkType' /\ ThreadType'
  BY <1>1, <1>2, TypeParts, ThreadUntouched DEF NetworkType, network
<1>5. Numbered' /\ Reported' /\ StatesAreCurrent'
  <2>1. /\ sockets' \subseteq 1 .. opened' /\ opened <= opened'
        /\ \A i \in 1 .. opened' : endpoint'[i] \in Endpoints
    BY <1>1, <1>2 DEF Numbered, TypeOK
  <2> QED BY <1>2, <1>3, <2>1, ReportedKept DEF thread
<1>6. Registered' /\ cmds' \in Seq(Command)
  <2>1. \A i \in Indices : Once(i) => OnceNext(i)
    BY <1>2 DEF Once, OnceNext
  <2>2. CASE enabled = "some"
    <3> DEFINE shut == [op |-> "Shutdown"]
    <3>1. cmds' = Append(cmds, shut) /\ UNCHANGED monitors
      BY <2>2 DEF Drop, thread
    <3>2. shut \in Command /\ ~IsAdd(shut)
      BY DEF Command, IsAdd
    <3>3. cmds \in Seq(Command)
      BY <1>1 DEF TypeOK
    <3> HIDE DEF shut
    <3>4. /\ cmds' \in Seq(Command)
          /\ \A k \in DOMAIN cmds' : (k \in DOMAIN cmds /\ cmds'[k] = cmds[k]) \/ cmds'[k] = shut
      BY <3>1, <3>2, <3>3
    <3>5. \A k \in DOMAIN cmds' : IsAdd(cmds'[k]) => k \in DOMAIN cmds /\ cmds'[k] = cmds[k]
      BY <3>2, <3>4
    <3>6. /\ \A k \in DOMAIN cmds : IsAdd(cmds[k]) => OnceNext(cmds[k].index)
          /\ \A i \in ToSet(monitors) : OnceNext(i)
      BY <2>1, <3>3, AddsAreIndices, EntriesAreIndices DEF IInv, Registered, TypeOK
    <3> QED BY <3>1, <3>4, <3>5, <3>6 DEF IInv, Registered, OnceNext, Once, IsAdd
  <2>3. CASE enabled # "some"
    BY <1>1, <1>2, <2>1, <2>3, RegisteredStays DEF Drop, thread, TypeOK
  <2> QED BY <2>2, <2>3
<1> QED BY <1>3, <1>4, <1>5, <1>6, TypeParts DEF IInv

LEMMA ChangeKeeps ==
  ASSUME IInv, NEW i \in Indices, Change(i)
  PROVE  IInv'
<1>1. TypeOK /\ Numbered
  BY DEF IInv
<1>2. PICK state \in EndpointState :
         /\ pipe' = [pipe EXCEPT ![i] = Append(@, state)]
         /\ emitted' = [emitted EXCEPT ![i] = state]
  BY DEF Change
<1>3. UNCHANGED <<object, cmds, thread>> /\ i \in monitoring /\ changes' \in 0 .. MaxChanges
  BY <1>1, BoundsAssumption DEF Change, TypeOK
<1>4. ObjectType' /\ ThreadType' /\ cmds' \in Seq(Command)
  BY <1>1, <1>3, TypeParts, ThreadUntouched DEF ObjectType, object
<1>5. \A j \in Indices : pipe[j] \in Seq(Events)
  BY <1>1 DEF TypeOK, Events
<1>6. NetworkType'
  <2>1. Append(pipe[i], state) \in Seq(Events)
    BY <1>5 DEF Events
  <2>2. pipe' \in [Indices -> Seq(Events)]
    BY <1>1, <1>2, <2>1 DEF TypeOK, Events
  <2> QED BY <1>1, <1>2, <1>3, <2>2 DEF TypeOK, NetworkType
<1>7. \A j \in Indices : emitted'[j] = IF j = i THEN state ELSE emitted[j]
  BY <1>1, <1>2 DEF TypeOK
<1>8. Numbered'
  BY <1>1, <1>3, <1>7 DEF Numbered, TypeOK, object
<1>9. Registered'
  BY <1>3 DEF IInv, Registered, Once, object, thread
<1>10. Reported'
  <2>1. ASSUME NEW j \in Indices, NEW k \in DOMAIN pipe'[j], pipe'[j][k] # Stopped
        PROVE  emitted'[j] # None
    <3>1. CASE j = i
      BY <1>7, <3>1
    <3>2. CASE j # i
      <4>1. pipe'[j] = pipe[j]
        BY <1>1, <1>2, <3>2 DEF TypeOK
      <4> QED BY <1>7, <2>1, <3>2, <4>1 DEF IInv, Reported
    <3> QED BY <3>1, <3>2
  <2>2. ASSUME NEW j \in polled' PROVE pipe'[j] # <<>>
    <3>1. j \in Indices /\ pipe[j] # <<>> /\ pipe[j] \in Seq(Events)
      BY <1>3, <1>5, EntriesAreIndices DEF IInv, TypeOK, Reported, thread
    <3>2. pipe'[j] = pipe[j] \/ pipe'[j] = Append(pipe[j], state)
      BY <1>1, <1>2, <3>1 DEF TypeOK
    <3> QED BY <3>1, <3>2
  <2> QED BY <2>1, <2>2 DEF Reported
<1>11. StatesAreCurrent'
  <2>1. \A j \in ToSet(monitors) : j \in Indices
    BY <1>1, EntriesAreIndices DEF TypeOK
  <2> QED BY <1>3, <1>7, <2>1 DEF IInv, StatesAreCurrent, object, thread
<1> QED BY <1>4, <1>6, <1>8, <1>9, <1>10, <1>11, TypeParts DEF IInv

-----------------------------------------------------------------------------
(* The thread.                                                             *)

\* The first command is taken; what it does to the entries is up to the step.
LEMMA TakenKeeps ==
  ASSUME IInv, cmds # <<>>, cmds' = Tail(cmds), UNCHANGED object,
         ToSet(monitors') \subseteq
             ToSet(monitors) \cup (IF IsAdd(Head(cmds)) THEN {Head(cmds).index} ELSE {})
  PROVE  Registered' /\ cmds' \in Seq(Command)
<1>1. /\ Head(cmds) = cmds[1] /\ 1 \in DOMAIN cmds
      /\ cmds' \in Seq(Command)
      /\ \A k \in DOMAIN cmds' : k \in Nat /\ k + 1 # 1 /\ k + 1 \in DOMAIN cmds
                                /\ cmds'[k] = cmds[k + 1]
  BY Received DEF IInv, TypeOK
<1>2. \A i : Once(i) => OnceNext(i)
  BY DEF Once, OnceNext, object
<1>3. ASSUME NEW j \in DOMAIN cmds', NEW k \in DOMAIN cmds', IsAdd(cmds'[j]), IsAdd(cmds'[k]),
             cmds'[j].index = cmds'[k].index
      PROVE  j = k
  <2>1. j + 1 = k + 1
    BY <1>1, <1>3 DEF IInv, Registered
  <2> QED BY <1>1, <2>1
<1>4. ASSUME NEW k \in DOMAIN cmds', IsAdd(cmds'[k])
      PROVE  cmds'[k].index \notin ToSet(monitors') /\ OnceNext(cmds'[k].index)
  <2>1. k + 1 \in DOMAIN cmds /\ k + 1 # 1 /\ cmds'[k] = cmds[k + 1]
    BY <1>1
  <2>2. cmds[k + 1].index \notin ToSet(monitors) /\ Once(cmds[k + 1].index)
    BY <1>4, <2>1 DEF IInv, Registered
  <2>3. IsAdd(Head(cmds)) => Head(cmds).index # cmds[k + 1].index
    BY <1>1, <1>4, <2>1 DEF IInv, Registered
  <2> QED BY <1>2, <2>1, <2>2, <2>3
<1>5. ASSUME NEW i \in ToSet(monitors') PROVE OnceNext(i)
  <2>1. Once(i)
    BY <1>1, <1>5 DEF IInv, Registered
  <2> QED BY <1>2, <2>1
<1>6. Registered'
  BY <1>3, <1>4, <1>5 DEF Registered, OnceNext, Once, IsAdd
<1> QED BY <1>1, <1>6

LEMMA AddEntryKeeps ==
  ASSUME IInv, AddEntry
  PROVE  IInv'
<1> DEFINE i == Head(cmds).index
<1>1. TypeOK
  BY DEF IInv
<1>2. /\ cmds # <<>> /\ Head(cmds).op = "Add" /\ polled = {}
      /\ monitors' = Append(monitors, i) /\ cmds' = Tail(cmds)
      /\ UNCHANGED <<object, network, pipe, polled, running, states>>
  BY DEF AddEntry, Holds
<1>3. Head(cmds) = cmds[1] /\ 1 \in DOMAIN cmds /\ IsAdd(cmds[1])
  BY <1>1, <1>2, Received DEF TypeOK, IsAdd
<1>4. i \in Indices /\ i \notin ToSet(monitors)
  BY <1>1, <1>3, AddsAreIndices DEF IInv, Registered, TypeOK
<1> HIDE DEF i
<1>5. monitors' \in Seq(Indices) /\ IsInjective(monitors') /\ ToSet(monitors') = ToSet(monitors) \cup {i}
  <2>1. monitors \in Seq(Indices) /\ IsInjective(monitors)
    BY <1>1 DEF TypeOK
  <2>2. /\ monitors' \in Seq(Indices) /\ Len(monitors) \in Nat /\ Len(monitors') = Len(monitors) + 1
        /\ \A k \in 1 .. Len(monitors) : monitors'[k] = monitors[k]
        /\ monitors'[Len(monitors) + 1] = i
    BY <1>2, <1>4, <2>1
  <2>3. DOMAIN monitors = 1 .. Len(monitors) /\ DOMAIN monitors' = 1 .. Len(monitors) + 1
    BY <2>1, <2>2, LenProperties
  <2>4. ToSet(monitors') = ToSet(monitors) \cup {i}
    BY <2>2, <2>3 DEF ToSet
  <2>5. IsInjective(monitors')
    BY <1>4, <2>1, <2>2, <2>3 DEF ToSet, IsInjective
  <2> QED BY <2>2, <2>4, <2>5
<1>6. Registered' /\ cmds' \in Seq(Command)
  BY <1>2, <1>3, <1>5, TakenKeeps DEF i
<1>7. ObjectType' /\ NetworkType' /\ ThreadType'
  BY <1>1, <1>2, <1>5, TypeParts DEF ObjectType, NetworkType, ThreadType, object, network
<1>8. Numbered' /\ Reported' /\ StatesAreCurrent'
  BY <1>2, <1>5 DEF IInv, Numbered, Reported, StatesAreCurrent, object, network
<1> QED BY <1>6, <1>7, <1>8, TypeParts DEF IInv

LEMMA RemoveEntryKeeps ==
  ASSUME IInv, RemoveEntry
  PROVE  IInv'
<1> DEFINE i == Head(cmds).index
           positions == {k \in DOMAIN monitors : monitors[k] = i}
<1>1. TypeOK
  BY DEF IInv
<1>2. cmds # <<>> /\ Head(cmds).op = "Remove" /\ polled = {} /\ cmds' = Tail(cmds)
      /\ UNCHANGED <<object, changes, polled, running>>
  BY DEF RemoveEntry, Holds
<1>3. ~IsAdd(Head(cmds))
  BY <1>2 DEF IsAdd
<1>4. CASE positions = {}
  <2>1. UNCHANGED <<monitors, states, pipe, emitted>>
    BY <1>4 DEF RemoveEntry
  <2>2. Registered' /\ cmds' \in Seq(Command)
    BY <1>2, <2>1, TakenKeeps
  <2>3. ObjectType' /\ NetworkType' /\ ThreadType'
    BY <1>1, <1>2, <2>1, TypeParts DEF ObjectType, NetworkType, ThreadType, object
  <2>4. Numbered' /\ Reported' /\ StatesAreCurrent'
    BY <1>2, <2>1 DEF IInv, Numbered, Reported, StatesAreCurrent, object
  <2> QED BY <2>2, <2>3, <2>4, TypeParts DEF IInv
<1>5. CASE positions # {}
  <2>1. /\ monitors' = RemoveAt(monitors, Min(positions))
        /\ states' = Forget(endpoint[i])
        /\ pipe' = [pipe EXCEPT ![i] = <<>>]
        /\ emitted' = [emitted EXCEPT ![i] = None]
    BY <1>5 DEF RemoveEntry
  <2>2. monitors \in Seq(Indices) /\ IsInjective(monitors) /\ positions \in SUBSET Nat
    BY <1>1, LenProperties DEF TypeOK
  <2>3. Min(positions) \in DOMAIN monitors /\ monitors[Min(positions)] = i
    <3> HIDE DEF positions
    <3>1. Min(positions) \in positions
      BY <1>5, <2>2, LeastNumber
    <3> QED BY <3>1 DEF positions
  <2> HIDE DEF positions, i
  <2>4. /\ monitors' \in Seq(Indices) /\ IsInjective(monitors')
        /\ ToSet(monitors') = ToSet(monitors) \ {i}
    BY <2>1, <2>2, <2>3, Dropped
  <2>5. Registered' /\ cmds' \in Seq(Command)
    BY <1>2, <1>3, <2>4, TakenKeeps
  <2>6. i \in Indices
    BY <2>2, <2>3, LenProperties, ElementOfSeq
  <2>7. ObjectType'
    BY <1>1, <1>2, TypeParts DEF ObjectType, object
  <2>8. /\ pipe' \in [Indices -> Seq(Events)]
        /\ \A j \in Indices : pipe'[j] = IF j = i THEN <<>> ELSE pipe[j]
    BY <1>1, <2>1, EmptySeq DEF TypeOK, Events
  <2>9. /\ emitted' \in [Indices -> EndpointState \cup {None}]
        /\ \A j \in Indices : emitted'[j] = IF j = i THEN None ELSE emitted[j]
    BY <1>1, <2>1 DEF TypeOK
  <2>10. states' \in UNION {[S -> EndpointState] : S \in SUBSET Endpoints}
         /\ DOMAIN states' = DOMAIN states \ {endpoint[i]}
    <3>1. PICK S \in SUBSET Endpoints : states \in [S -> EndpointState]
      BY <1>1 DEF TypeOK
    <3> DEFINE T == S \ {endpoint[i]}
    <3>2. states' = [x \in T |-> states[x]] /\ T \in SUBSET Endpoints /\ \A x \in T : states[x] \in EndpointState
      BY <2>1, <3>1 DEF Forget
    <3>3. DOMAIN states' = T /\ DOMAIN states = S
      BY <3>1, <3>2
    <3> HIDE DEF T
    <3>4. states' \in [T -> EndpointState]
      BY <3>2
    <3>5. states' \in UNION {[U -> EndpointState] : U \in SUBSET Endpoints}
      BY <3>2, <3>4
    <3> QED BY <3>3, <3>5 DEF T
  <2>11. NetworkType' /\ ThreadType'
    BY <1>1, <1>2, <2>4, <2>8, <2>9, <2>10 DEF NetworkType, ThreadType, TypeOK
  <2>12. Numbered'
    BY <1>2, <2>9 DEF IInv, Numbered, object
  <2>13. Reported'
    <3>1. ASSUME NEW j \in Indices, NEW k \in DOMAIN pipe'[j], pipe'[j][k] # Stopped
          PROVE  emitted'[j] # None
      <4>1. j # i
        BY <2>8, <3>1
      <4> QED BY <2>8, <2>9, <3>1, <4>1 DEF IInv, Reported
    <3> QED BY <1>2, <3>1 DEF Reported
  <2>14. StatesAreCurrent'
    <3> SUFFICES ASSUME NEW e \in DOMAIN states, e # endpoint[i]
                 PROVE  \E j \in ToSet(monitors') : endpoint[j] = e /\ emitted'[j] # None
      BY <1>2, <2>10 DEF StatesAreCurrent, object
    <3>1. PICK j \in ToSet(monitors) : endpoint[j] = e /\ emitted[j] # None
      BY DEF IInv, StatesAreCurrent
    <3>2. j \in Indices /\ j # i
      BY <2>2, <3>1, EntriesAreIndices
    <3> QED BY <2>4, <2>9, <3>1, <3>2
  <2> QED BY <2>5, <2>7, <2>11, <2>12, <2>13, <2>14, TypeParts DEF IInv
<1> QED BY <1>4, <1>5

LEMMA ShutdownKeeps ==
  ASSUME IInv, Shutdown
  PROVE  IInv'
<1>1. /\ cmds # <<>> /\ cmds' = Tail(cmds) /\ running' = FALSE
      /\ UNCHANGED <<object, network, pipe, monitors, polled, states>>
  BY DEF Shutdown, Holds
<1>2. Registered' /\ cmds' \in Seq(Command)
  BY <1>1, TakenKeeps
<1>3. ObjectType' /\ NetworkType' /\ ThreadType'
  BY <1>1, TypeParts DEF IInv, ObjectType, NetworkType, ThreadType, object, network
<1>4. Numbered' /\ Reported' /\ StatesAreCurrent'
  BY <1>1 DEF IInv, Numbered, Reported, StatesAreCurrent, object, network
<1> QED BY <1>2, <1>3, <1>4, TypeParts DEF IInv

LEMMA PollKeeps ==
  ASSUME IInv, Poll
  PROVE  IInv'
<1>1. /\ UNCHANGED <<object, network, pipe, cmds, monitors, running, states>>
      /\ polled' = {i \in ToSet(monitors) : pipe[i] # <<>>}
  BY DEF Poll
<1>2. ObjectType' /\ NetworkType' /\ ThreadType' /\ cmds' \in Seq(Command)
  BY <1>1, TypeParts DEF IInv, ObjectType, NetworkType, ThreadType, object, network
<1>3. Numbered' /\ Reported' /\ StatesAreCurrent'
  BY <1>1 DEF IInv, Numbered, Reported, StatesAreCurrent, object, network
<1>4. Registered'
  BY <1>1 DEF IInv, Registered, Once, object
<1> QED BY <1>2, <1>3, <1>4, TypeParts DEF IInv

\* The entry read is one that was found readable, and its pipe still is.
LEMMA ReadIsPolled ==
  ASSUME TypeOK, polled # {}
  PROVE  LET i == monitors[Min({k \in DOMAIN monitors : monitors[k] \in polled})]
         IN  i \in polled /\ i \in ToSet(monitors) /\ i \in Indices
<1> DEFINE K == {k \in DOMAIN monitors : monitors[k] \in polled}
<1>1. K \in SUBSET Nat
  BY LenProperties DEF TypeOK
<1>2. K # {}
  BY DEF TypeOK, ToSet
<1> HIDE DEF K
<1>3. Min(K) \in K
  BY <1>1, <1>2, LeastNumber
<1> QED BY <1>3, EntriesAreIndices DEF K, TypeOK, ToSet

LEMMA ReadKeeps ==
  ASSUME IInv, Read
  PROVE  IInv'
<1> DEFINE i == monitors[Min({k \in DOMAIN monitors : monitors[k] \in polled})]
<1>1. TypeOK
  BY DEF IInv
<1>2. /\ polled # {} /\ polled' = polled \ {i}
      /\ pipe' = [pipe EXCEPT ![i] = Tail(@)]
      /\ states' = IF Head(pipe[i]) = "MONITOR_STOPPED" THEN states
                   ELSE Note(endpoint[i], Head(pipe[i]))
      /\ UNCHANGED <<object, network, cmds, monitors, running>>
  BY DEF Read
<1>3. i \in polled /\ i \in ToSet(monitors) /\ i \in Indices
  BY <1>1, <1>2, ReadIsPolled
<1> HIDE DEF i
<1>4. \A j \in Indices : pipe[j] \in Seq(Events)
  BY <1>1 DEF TypeOK, Events
<1>5. pipe[i] # <<>>
  BY <1>3 DEF IInv, Reported
<1>6. /\ Head(pipe[i]) \in Events /\ Head(pipe[i]) = pipe[i][1] /\ 1 \in DOMAIN pipe[i]
      /\ Tail(pipe[i]) \in Seq(Events)
      /\ \A k \in DOMAIN Tail(pipe[i]) : k + 1 \in DOMAIN pipe[i] /\ Tail(pipe[i])[k] = pipe[i][k + 1]
  <2>1. pipe[i] \in Seq(Events)
    BY <1>3, <1>4
  <2> DEFINE s == pipe[i]
  <2> HIDE DEF s
  <2>2. s # <<>> /\ s \in Seq(Events)
    BY <1>5, <2>1 DEF s
  <2>3. Len(s) \in Nat /\ Len(s) # 0 /\ DOMAIN s = 1 .. Len(s)
    BY <2>2, LenProperties, EmptySeq
  <2>4. Tail(s) \in Seq(Events) /\ Len(Tail(s)) = Len(s) - 1
        /\ \A k \in 1 .. Len(Tail(s)) : Tail(s)[k] = s[k + 1]
    BY <2>2, HeadTailProperties
  <2>5. DOMAIN Tail(s) = 1 .. Len(Tail(s))
    BY <2>4, LenProperties
  <2>6. Head(s) = s[1] /\ Head(s) \in Events
    BY <2>2, HeadTailProperties
  <2> QED BY <2>3, <2>4, <2>5, <2>6 DEF s
<1>7. /\ pipe' \in [Indices -> Seq(Events)]
      /\ \A j \in Indices : pipe'[j] = IF j = i THEN Tail(pipe[i]) ELSE pipe[j]
  BY <1>1, <1>2, <1>6 DEF TypeOK, Events
<1>8. \/ states' = states
      \/ /\ emitted[i] # None
         /\ states' \in UNION {[S -> EndpointState] : S \in SUBSET Endpoints}
         /\ DOMAIN states' = DOMAIN states \cup {endpoint[i]}
  <2>1. CASE Head(pipe[i]) = "MONITOR_STOPPED"
    BY <1>2, <2>1
  <2>2. CASE Head(pipe[i]) # "MONITOR_STOPPED"
    <3> DEFINE state == Head(pipe[i])
    <3>1. emitted[i] # None /\ state \in EndpointState
      BY <1>3, <1>6, <2>2 DEF IInv, Reported, Events
    <3>2. endpoint[i] \in Endpoints
      <4>1. i \in 1 .. opened
        BY <1>1, <1>3, <3>1 DEF IInv, Numbered, TypeOK
      <4> QED BY <4>1 DEF IInv, Numbered
    <3>3. PICK S \in SUBSET Endpoints : states \in [S -> EndpointState]
      BY <1>1 DEF TypeOK
    <3> DEFINE T == S \cup {endpoint[i]}
    <3>4. states' = [x \in T |-> IF x = endpoint[i] THEN state ELSE states[x]]
      BY <1>2, <2>2, <3>3 DEF Note
    <3> HIDE DEF state
    <3>5. T \in SUBSET Endpoints
          /\ \A x \in T : (IF x = endpoint[i] THEN state ELSE states[x]) \in EndpointState
      BY <3>1, <3>2, <3>3
    <3>6. DOMAIN states' = T /\ DOMAIN states = S
      BY <3>3, <3>4
    <3> HIDE DEF T
    <3>7. states' \in [T -> EndpointState]
      BY <3>4, <3>5
    <3>8. states' \in UNION {[U -> EndpointState] : U \in SUBSET Endpoints}
      BY <3>5, <3>7
    <3> QED BY <3>1, <3>6, <3>8 DEF T
  <2> QED BY <2>1, <2>2
<1>9. ObjectType' /\ cmds' \in Seq(Command)
  BY <1>1, <1>2, TypeParts DEF ObjectType, object
<1>10. NetworkType' /\ ThreadType'
  BY <1>1, <1>2, <1>7, <1>8 DEF NetworkType, ThreadType, TypeOK, network
<1>11. Numbered' /\ Registered'
  BY <1>2 DEF IInv, Numbered, Registered, Once, object, network
<1>12. Reported'
  <2>1. ASSUME NEW j \in Indices, NEW k \in DOMAIN pipe'[j], pipe'[j][k] # Stopped
        PROVE  emitted'[j] # None
    <3>1. CASE j = i
      <4>1. k \in DOMAIN Tail(pipe[i]) /\ Tail(pipe[i])[k] # Stopped
        BY <1>7, <2>1, <3>1
      <4>2. k + 1 \in DOMAIN pipe[i] /\ pipe[i][k + 1] # Stopped
        BY <1>6, <4>1
      <4> QED BY <1>2, <1>3, <3>1, <4>2 DEF IInv, Reported, network
    <3>2. CASE j # i
      BY <1>2, <1>7, <2>1, <3>2 DEF IInv, Reported, network
    <3> QED BY <3>1, <3>2
  <2>2. ASSUME NEW j \in polled' PROVE pipe'[j] # <<>>
    <3>1. j \in polled /\ j # i /\ j \in Indices
      BY <1>1, <1>2, <2>2, EntriesAreIndices DEF TypeOK
    <3> QED BY <1>7, <3>1 DEF IInv, Reported
  <2> QED BY <2>1, <2>2 DEF Reported
<1>13. StatesAreCurrent'
  BY <1>2, <1>3, <1>8 DEF IInv, StatesAreCurrent, object, network
<1> QED BY <1>9, <1>10, <1>11, <1>12, <1>13, TypeParts DEF IInv

-----------------------------------------------------------------------------
(* The theorems.                                                           *)

LEMMA InitIInv == Init => IInv
<1> SUFFICES ASSUME Init PROVE IInv
  OBVIOUS
<1>1. ObjectType
  BY BoundsAssumption DEF Init, ObjectType
<1>2. NetworkType
  BY BoundsAssumption, EmptySeq DEF Init, NetworkType
<1>3. ThreadType
  <2>1. states \in [{} -> EndpointState]
    BY DEF Init
  <2>2. {} \in SUBSET Endpoints
    OBVIOUS
  <2>3. states \in UNION {[S -> EndpointState] : S \in SUBSET Endpoints}
    BY <2>1, <2>2
  <2>4. monitors \in Seq(Indices) /\ DOMAIN monitors = {}
    BY DEF Init
  <2>5. IsInjective(monitors)
    BY <2>4 DEF IsInjective
  <2> QED BY <2>3, <2>4, <2>5 DEF Init, ThreadType
<1>4. cmds \in Seq(Command) /\ DOMAIN cmds = {} /\ ToSet(monitors) = {} /\ DOMAIN states = {}
      /\ \A i \in Indices : DOMAIN pipe[i] = {}
  BY DEF Init, ToSet
<1>5. Numbered
  BY DEF Init, Numbered
<1>6. Registered
  BY <1>4 DEF Registered
<1>7. Reported
  BY <1>4 DEF Init, Reported
<1>8. StatesAreCurrent
  BY <1>4 DEF StatesAreCurrent
<1> QED BY <1>1, <1>2, <1>3, <1>4, <1>5, <1>6, <1>7, <1>8, TypeParts DEF IInv

LEMMA NextIInv == IInv /\ [Next]_vars => IInv'
<1> SUFFICES ASSUME IInv, [Next]_vars PROVE IInv'
  OBVIOUS
<1>1. CASE UNCHANGED vars
  <2>1. UNCHANGED <<opened, endpoint, sockets, monitoring, enabled, emitted, changes, pipe, cmds,
                    monitors, polled, running, states>>
    BY <1>1 DEF vars, object, network, thread
  <2>2. TypeOK' /\ Numbered' /\ Registered'
    BY <2>1 DEF IInv, TypeOK, Numbered, Registered, Once
  <2>3. Reported' /\ StatesAreCurrent'
    BY <2>1 DEF IInv, Reported, StatesAreCurrent
  <2> QED BY <2>2, <2>3 DEF IInv
<1>2. CASE Next
  BY <1>2, ConnectKeeps, DisconnectKeeps, EnableKeeps, DropKeeps, ChangeKeeps, AddEntryKeeps,
     RemoveEntryKeeps, ShutdownKeeps, PollKeeps, ReadKeeps DEF Next
<1> QED BY <1>1, <1>2

LEMMA Invariant == Spec => []IInv
BY InitIInv, NextIInv, PTL DEF Spec

\* The object has one socket for each endpoint and the thread one entry for each
\* socket, whatever is registered, closed and opened again while commands wait,
\* which also makes dropping the first entry found (sockets.rs:357) drop all.
THEOREM TypeCorrect == Spec => []TypeOK
<1>1. IInv => TypeOK
  BY DEF IInv
<1> QED BY Invariant, <1>1, PTL

\* No state is kept of an endpoint without an entry, nor one reported by a socket
\* the endpoint had before it was removed and added again: what is left in the
\* pipes, and what is found readable but not yet read, is never a closed one's
\* (sockets.rs:355-390).
THEOREM NoStaleState == Spec => []StatesAreCurrent
<1>1. IInv => StatesAreCurrent
  BY DEF IInv
<1> QED BY Invariant, <1>1, PTL

-----------------------------------------------------------------------------
(* What is on the way to the thread.                                       *)

\* Where the socket's commands are in the channel, if they are.
AddsOf(i) == {k \in DOMAIN cmds : IsAdd(cmds[k]) /\ cmds[k].index = i}
DropsOf(i) == {k \in DOMAIN cmds : cmds[k].op = "Remove" /\ cmds[k].index = i}

\* The socket has an entry or will have one.
Known(i) == i \in ToSet(monitors) \/ AddsOf(i) # {}

\* Registered sockets are known; those known that are not registered any more
\* are on their way out, and out after they were in; those unknown are silent.
OnTheWay ==
    /\ \A i \in monitoring : Known(i)
    /\ \A i \in Indices : DropsOf(i) # {} => i \notin sockets /\ i <= opened
    /\ \A i \in Indices : Known(i) => i \in monitoring \/ enabled = "down" \/ DropsOf(i) # {}
    /\ \A i \in Indices : \A p \in AddsOf(i), r \in DropsOf(i) : p < r
    /\ \A i \in Indices : ~Known(i) => pipe[i] = <<>> /\ emitted[i] = None

\* Before a socket gets its entry, those its endpoint had before have lost theirs.
InTurn ==
    \A i, j \in Indices : i # j /\ endpoint[i] = endpoint[j] =>
        \A q \in AddsOf(i) :
            j \in ToSet(monitors) \/ (\E p \in AddsOf(j) : p < q) => \E r \in DropsOf(j) : r < q

\* No endpoint has two entries at a time, however often it is removed and added
\* again while the thread is behind: a Remove forgets the state of its own
\* socket's endpoint (sockets.rs:345-364), never what the next one reported.
OneEntryEach ==
    \A i, j \in ToSet(monitors) : endpoint[i] = endpoint[j] => i = j

\* The last state a registered socket reported is in its pipe or is what is
\* kept of its endpoint.
UpToDate ==
    \A i \in monitoring :
        /\ \A k \in DOMAIN pipe[i] : pipe[i][k] # Stopped
        /\ pipe[i] # <<>> => pipe[i][Len(pipe[i])] = emitted[i]
        /\ pipe[i] = <<>> /\ emitted[i] # None =>
              /\ i \in ToSet(monitors)
              /\ endpoint[i] \in DOMAIN states /\ states[endpoint[i]] = emitted[i]

\* The sockets whose state the thread should tell.
Reporting == {i \in monitoring : emitted[i] # None}

\* The thread has nothing to do.
Idle == enabled # "down" /\ cmds = <<>> /\ \A i \in ToSet(monitors) : pipe[i] = <<>>

\* Whenever the thread has caught up, endpoint_states is exactly what the
\* registered sockets reported last: no state is missing, none is out of date,
\* and none is left of an endpoint that was removed (the safety half of Converges
\* and RemovedIsForgotten; sockets.rs:344-397).
ExactWhenIdle ==
    Idle => /\ DOMAIN states = {endpoint[i] : i \in Reporting}
            /\ \A i \in Reporting : states[endpoint[i]] = emitted[i]

JInv == OnTheWay /\ InTurn /\ OneEntryEach /\ UpToDate

\* Each of the sockets has its command among those sent.
LEMMA SentAll ==
  ASSUME cmds \in Seq(Command), NEW S \in SUBSET Indices, NEW op \in {"Add", "Remove"},
         NEW order \in SetToSeqs(S),
         cmds' = cmds \o [k \in DOMAIN order |-> [op |-> op, index |-> order[k]]],
         NEW i \in S
  PROVE  \E k \in Len(cmds) + 1 .. Len(cmds') : cmds'[k].index = i
<1> DEFINE n == Cardinality(S)
           new == [k \in DOMAIN order |-> [op |-> op, index |-> order[k]]]
<1>1. order \in [1 .. n -> S] /\ \A a, b \in 1 .. n : a # b => order[a] # order[b]
  BY DEF SetToSeqs
<1>2. IsFiniteSet(S) /\ n \in Nat
  <2>1. IsFiniteSet(Indices)
    BY BoundsAssumption, FS_Interval
  <2>2. IsFiniteSet(S)
    BY <2>1, FS_Subset
  <2> QED BY <2>2, FS_CardinalityType
<1>3. order \in Surjection(1 .. n, S)
  <2>1. order \in Injection(1 .. n, S)
    BY <1>1 DEF Injection, IsInjective
  <2>2. Cardinality(1 .. n) = n
    BY <1>2, FS_Interval
  <2> QED BY <1>2, <2>1, <2>2, FS_Injection
<1>4. PICK a \in 1 .. n : order[a] = i
  BY <1>3 DEF Surjection
<1> HIDE DEF n
<1>5. DOMAIN order = 1 .. n
  BY <1>1
<1>6. new \in Seq(Command) /\ Len(new) = n
      /\ \A k \in 1 .. n : new[k] = [op |-> op, index |-> order[k]]
  <2>1. \A k \in 1 .. n : [op |-> op, index |-> order[k]] \in Command
    BY <1>1 DEF Command
  <2> QED BY <1>2, <1>5, <2>1
<1> HIDE DEF new
<1>7. cmds' = cmds \o new
  BY DEF new
<1>8. /\ Len(cmds) \in Nat /\ Len(cmds') = Len(cmds) + n
      /\ \A k \in 1 .. Len(cmds) + n :
            cmds'[k] = IF k <= Len(cmds) THEN cmds[k] ELSE new[k - Len(cmds)]
  <2>1. Len(cmds) \in Nat
    BY LenProperties
  <2>2. /\ Len(cmds \o new) = Len(cmds) + Len(new)
        /\ \A k \in 1 .. Len(cmds) + Len(new) :
              (cmds \o new)[k] = IF k <= Len(cmds) THEN cmds[k] ELSE new[k - Len(cmds)]
    BY <1>6, ConcatProperties
  <2> QED BY <1>6, <1>7, <2>1, <2>2
<1>9. Len(cmds) + a \in Len(cmds) + 1 .. Len(cmds') /\ cmds'[Len(cmds) + a] = new[a]
  <2>1. \A l, m \in Nat : \A b \in 1 .. m :
           l + b \in 1 .. l + m /\ l + b \in l + 1 .. l + m /\ ~(l + b <= l) /\ (l + b) - l = b
    OBVIOUS
  <2> QED BY <1>2, <1>4, <1>8, <2>1
<1>10. new[a].index = i
  BY <1>4, <1>6
<1> QED BY <1>9, <1>10

\* Registering sends an Add for each socket, after all that was sent before.
LEMMA SentAdds ==
  ASSUME cmds \in Seq(Command), NEW S \in SUBSET Indices, NEW order \in SetToSeqs(S),
         cmds' = cmds \o [k \in DOMAIN order |-> [op |-> "Add", index |-> order[k]]],
         NEW i \in Indices
  PROVE  /\ DropsOf(i)' = DropsOf(i) /\ AddsOf(i) \subseteq AddsOf(i)'
         /\ i \in S => AddsOf(i)' # {}
         /\ i \notin S => AddsOf(i)' = AddsOf(i)
         /\ \A k \in AddsOf(i)' : k \in AddsOf(i) \/ (\A p \in DOMAIN cmds : p < k)
         /\ DOMAIN cmds \subseteq Nat
<1>1. /\ DOMAIN cmds = 1 .. Len(cmds) /\ DOMAIN cmds' = 1 .. Len(cmds')
      /\ Len(cmds) \in Nat /\ Len(cmds') \in Nat /\ Len(cmds) <= Len(cmds')
      /\ \A k \in DOMAIN cmds : cmds'[k] = cmds[k]
      /\ \A k \in Len(cmds) + 1 .. Len(cmds') : cmds'[k].op = "Add" /\ cmds'[k].index \in S
  BY Sent
<1>2. /\ \A k \in DOMAIN cmds' : k \in DOMAIN cmds \/ k \in Len(cmds) + 1 .. Len(cmds')
      /\ \A k \in DOMAIN cmds : k \in DOMAIN cmds'
  BY <1>1
<1>3. DropsOf(i)' = DropsOf(i)
  BY <1>1, <1>2 DEF DropsOf
<1>4. AddsOf(i) \subseteq AddsOf(i)' /\ (i \notin S => AddsOf(i)' = AddsOf(i))
  BY <1>1, <1>2 DEF AddsOf, IsAdd
<1>5. ASSUME i \in S PROVE AddsOf(i)' # {}
  <2>1. PICK k \in Len(cmds) + 1 .. Len(cmds') : cmds'[k].index = i
    BY <1>5, SentAll
  <2>2. k \in DOMAIN cmds' /\ cmds'[k].op = "Add"
    BY <1>1, <2>1
  <2> QED BY <2>1, <2>2 DEF AddsOf, IsAdd
<1>6. ASSUME NEW k \in AddsOf(i)' PROVE k \in AddsOf(i) \/ (\A p \in DOMAIN cmds : p < k)
  <2>1. k \in DOMAIN cmds' /\ IsAdd(cmds'[k]) /\ cmds'[k].index = i
    BY DEF AddsOf, IsAdd
  <2>2. CASE k \in DOMAIN cmds BY <1>1, <2>1, <2>2 DEF AddsOf
  <2>3. CASE k \in Len(cmds) + 1 .. Len(cmds') BY <1>1, <2>3
  <2> QED BY <1>2, <2>1, <2>2, <2>3
<1> QED BY <1>1, <1>3, <1>4, <1>5, <1>6

\* Unregistering sends a Remove for each socket, after all that was sent before.
LEMMA SentDrops ==
  ASSUME cmds \in Seq(Command), NEW S \in SUBSET Indices, NEW order \in SetToSeqs(S),
         cmds' = cmds \o [k \in DOMAIN order |-> [op |-> "Remove", index |-> order[k]]],
         NEW i \in Indices
  PROVE  /\ AddsOf(i)' = AddsOf(i) /\ DropsOf(i) \subseteq DropsOf(i)'
         /\ i \in S => DropsOf(i)' # {}
         /\ i \notin S => DropsOf(i)' = DropsOf(i)
         /\ \A k \in DropsOf(i)' : k \in DropsOf(i) \/ (\A p \in DOMAIN cmds : p < k)
         /\ DOMAIN cmds \subseteq Nat
<1>1. /\ DOMAIN cmds = 1 .. Len(cmds) /\ DOMAIN cmds' = 1 .. Len(cmds')
      /\ Len(cmds) \in Nat /\ Len(cmds') \in Nat /\ Len(cmds) <= Len(cmds')
      /\ \A k \in DOMAIN cmds : cmds'[k] = cmds[k]
      /\ \A k \in Len(cmds) + 1 .. Len(cmds') : cmds'[k].op = "Remove" /\ cmds'[k].index \in S
  BY Sent
<1>2. /\ \A k \in DOMAIN cmds' : k \in DOMAIN cmds \/ k \in Len(cmds) + 1 .. Len(cmds')
      /\ \A k \in DOMAIN cmds : k \in DOMAIN cmds'
  BY <1>1
<1>3. AddsOf(i)' = AddsOf(i)
  BY <1>1, <1>2 DEF AddsOf, IsAdd
<1>4. DropsOf(i) \subseteq DropsOf(i)' /\ (i \notin S => DropsOf(i)' = DropsOf(i))
  BY <1>1, <1>2 DEF DropsOf
<1>5. ASSUME i \in S PROVE DropsOf(i)' # {}
  <2>1. PICK k \in Len(cmds) + 1 .. Len(cmds') : cmds'[k].index = i
    BY <1>5, SentAll
  <2>2. k \in DOMAIN cmds' /\ cmds'[k].op = "Remove"
    BY <1>1, <2>1
  <2> QED BY <2>1, <2>2 DEF DropsOf
<1>6. ASSUME NEW k \in DropsOf(i)' PROVE k \in DropsOf(i) \/ (\A p \in DOMAIN cmds : p < k)
  <2>1. k \in DOMAIN cmds' /\ cmds'[k].op = "Remove" /\ cmds'[k].index = i
    BY DEF DropsOf
  <2>2. CASE k \in DOMAIN cmds BY <1>1, <2>1, <2>2 DEF DropsOf
  <2>3. CASE k \in Len(cmds) + 1 .. Len(cmds') BY <1>1, <2>3
  <2> QED BY <1>2, <2>1, <2>2, <2>3
<1> QED BY <1>1, <1>3, <1>4, <1>5, <1>6

\* Taking the first command moves the others up by one place.
LEMMA TakenFirst ==
  ASSUME cmds \in Seq(Command), cmds # <<>>, cmds' = Tail(cmds), NEW i \in Indices
  PROVE  /\ \A k \in AddsOf(i)' : k \in Nat \ {0} /\ k + 1 \in AddsOf(i)
         /\ \A k \in DropsOf(i)' : k \in Nat \ {0} /\ k + 1 \in DropsOf(i)
         /\ \A k \in AddsOf(i) : k \in Nat \ {0} /\ (k # 1 => k - 1 \in AddsOf(i)')
         /\ \A k \in DropsOf(i) : k \in Nat \ {0} /\ (k # 1 => k - 1 \in DropsOf(i)')
         /\ 1 \in AddsOf(i) <=> IsAdd(Head(cmds)) /\ Head(cmds).index = i
         /\ 1 \in DropsOf(i) <=> Head(cmds).op = "Remove" /\ Head(cmds).index = i
<1>1. Len(cmds) \in Nat /\ Len(cmds) # 0 /\ DOMAIN cmds = 1 .. Len(cmds)
  BY LenProperties, EmptySeq
<1>2. cmds' \in Seq(Command) /\ Len(cmds') = Len(cmds) - 1
      /\ \A k \in 1 .. Len(cmds') : cmds'[k] = cmds[k + 1]
  BY HeadTailProperties
<1>3. DOMAIN cmds' = 1 .. Len(cmds')
  BY <1>2, LenProperties
<1>4. Head(cmds) = cmds[1]
  BY HeadTailProperties
<1>5. \A k \in DOMAIN cmds' : k \in Nat \ {0} /\ k + 1 \in DOMAIN cmds /\ cmds'[k] = cmds[k + 1]
  BY <1>1, <1>2, <1>3
<1>6. ASSUME NEW k \in DOMAIN cmds, k # 1
      PROVE  k - 1 \in DOMAIN cmds' /\ cmds'[k - 1] = cmds[k]
  <2>1. k - 1 \in 1 .. Len(cmds') /\ (k - 1) + 1 = k
    BY <1>1, <1>2, <1>6
  <2> QED BY <1>2, <1>3, <2>1
<1>7. \A k \in DOMAIN cmds : k \in Nat \ {0}
  BY <1>1
<1>8. /\ \A k \in AddsOf(i)' : k \in Nat \ {0} /\ k + 1 \in AddsOf(i)
      /\ \A k \in DropsOf(i)' : k \in Nat \ {0} /\ k + 1 \in DropsOf(i)
  BY <1>5 DEF AddsOf, DropsOf, IsAdd
<1>9. /\ \A k \in AddsOf(i) : k \in Nat \ {0} /\ (k # 1 => k - 1 \in AddsOf(i)')
      /\ \A k \in DropsOf(i) : k \in Nat \ {0} /\ (k # 1 => k - 1 \in DropsOf(i)')
  BY <1>6, <1>7 DEF AddsOf, DropsOf, IsAdd
<1>10. /\ 1 \in AddsOf(i) <=> IsAdd(Head(cmds)) /\ Head(cmds).index = i
       /\ 1 \in DropsOf(i) <=> Head(cmds).op = "Remove" /\ Head(cmds).index = i
  BY <1>1, <1>4 DEF AddsOf, DropsOf
<1> QED BY <1>8, <1>9, <1>10

-----------------------------------------------------------------------------
(* JInv is inductive, given IInv.                                          *)

\* Where commands are, and what the object's sockets are, as numbers.
LEMMA Places ==
  ASSUME IInv
  PROVE  /\ DOMAIN cmds \subseteq Nat
         /\ \A i : AddsOf(i) \subseteq DOMAIN cmds /\ DropsOf(i) \subseteq DOMAIN cmds
         /\ opened \in Nat /\ sockets \subseteq Indices /\ monitoring \subseteq sockets
         /\ \A i \in ToSet(monitors) : i \in Indices
         /\ \A i : AddsOf(i) # {} => i \in Indices
         /\ Indices \subseteq Nat
<1>1. cmds \in Seq(Command) /\ monitors \in Seq(Indices)
  BY DEF IInv, TypeOK
<1>2. DOMAIN cmds = 1 .. Len(cmds) /\ Len(cmds) \in Nat
  BY <1>1, LenProperties
<1>3. DOMAIN cmds \subseteq Nat
  BY <1>2
<1>4. \A i : AddsOf(i) \subseteq DOMAIN cmds /\ DropsOf(i) \subseteq DOMAIN cmds
  BY DEF AddsOf, DropsOf
<1>5. opened \in Nat /\ sockets \subseteq Indices /\ monitoring \subseteq sockets
  BY BoundsAssumption DEF IInv, TypeOK
<1>6. \A i \in ToSet(monitors) : i \in Indices
  BY <1>1, EntriesAreIndices
<1>7. ASSUME NEW i, AddsOf(i) # {} PROVE i \in Indices
  <2>1. PICK k \in DOMAIN cmds : IsAdd(cmds[k]) /\ cmds[k].index = i
    BY <1>7 DEF AddsOf
  <2> QED BY <1>1, <2>1, AddsAreIndices
<1>8. Indices \subseteq Nat
  BY BoundsAssumption
<1> QED BY <1>3, <1>4, <1>5, <1>6, <1>7, <1>8

\* A socket known to the thread was opened, and is registered if still there.
LEMMA KnownOnce ==
  ASSUME IInv, NEW i, Known(i)
  PROVE  i \in Indices /\ i <= opened /\ (i \in sockets => i \in monitoring)
<1>1. i \in Indices
  BY Places DEF Known
<1>2. Once(i)
  <2>1. CASE i \in ToSet(monitors) BY <2>1 DEF IInv, Registered
  <2>2. CASE AddsOf(i) # {} BY <2>2 DEF IInv, Registered, AddsOf
  <2> QED BY <2>1, <2>2 DEF Known
<1> QED BY <1>1, <1>2 DEF Once

\* An Add of each of the sockets in S is sent, after what was sent before.
Adding(S) ==
    \A i \in Indices :
        /\ DropsOf(i)' = DropsOf(i) /\ AddsOf(i) \subseteq AddsOf(i)'
        /\ i \in S => AddsOf(i)' # {}
        /\ i \notin S => AddsOf(i)' = AddsOf(i)
        /\ \A k \in AddsOf(i)' : k \in AddsOf(i) \/ (\A p \in DOMAIN cmds : p < k)

\* Sockets are opened or registered.
LEMMA AddingKeeps ==
  ASSUME IInv, IInv', JInv, NEW S \in SUBSET Indices, Adding(S),
         UNCHANGED <<monitors, states, pipe, emitted>>,
         opened <= opened', \A i \in Indices : i <= opened => endpoint'[i] = endpoint[i],
         sockets \subseteq sockets', \A i \in sockets' : i \in sockets \/ ~(i <= opened),
         S \subseteq sockets', S \cap monitoring = {}, monitoring' = monitoring \cup S,
         enabled # "down"
  PROVE  JInv'
<1>1. /\ DOMAIN cmds \subseteq Nat /\ sockets \subseteq Indices /\ monitoring \subseteq sockets
      /\ \A i : AddsOf(i) \subseteq DOMAIN cmds /\ DropsOf(i) \subseteq DOMAIN cmds
      /\ opened \in Nat /\ Indices \subseteq Nat /\ opened' \in Nat
      /\ \A i \in ToSet(monitors) : i \in Indices
  <2>1. opened' \in Nat
    BY BoundsAssumption DEF IInv, TypeOK
  <2> QED BY <2>1, Places
<1>2. OnTheWay
  BY DEF JInv
<1>3. \A i \in Indices : Known(i) => i <= opened /\ (i \in sockets => i \in monitoring)
  BY KnownOnce
<1>4. \A i \in Indices : Known(i)' <=> Known(i) \/ i \in S
  BY DEF Known, Adding
<1>5. \A i \in S : ~Known(i) /\ DropsOf(i) = {}
  <2> TAKE i \in S
  <2>1. i \in sockets' /\ i \notin monitoring /\ i \in Indices
    OBVIOUS
  <2>2. i \in sockets \/ ~(i <= opened)
    BY <2>1
  <2> QED BY <1>2, <1>3, <2>1, <2>2 DEF OnTheWay
<1>6. OnTheWay'
  <2>1. \A i \in monitoring' : Known(i)'
    BY <1>1, <1>2, <1>4 DEF OnTheWay
  <2>2. ASSUME NEW i \in Indices, DropsOf(i)' # {} PROVE i \notin sockets' /\ i <= opened'
    <3>1. i \notin sockets /\ i <= opened
      BY <1>2, <2>2 DEF OnTheWay, Adding
    <3>2. i <= opened'
      BY <1>1, <3>1
    <3> QED BY <3>1, <3>2
  <2>3. ASSUME NEW i \in Indices, Known(i)'
        PROVE  i \in monitoring' \/ enabled' = "down" \/ DropsOf(i)' # {}
    BY <1>2, <1>4, <2>3 DEF OnTheWay, Adding
  <2>4. ASSUME NEW i \in Indices, NEW p \in AddsOf(i)', NEW r \in DropsOf(i)' PROVE p < r
    <3>1. r \in DropsOf(i)
      BY DEF Adding
    <3>2. i \notin S
      BY <1>5, <3>1
    <3>3. p \in AddsOf(i)
      BY <3>2 DEF Adding
    <3> QED BY <1>2, <3>1, <3>3 DEF OnTheWay
  <2>5. \A i \in Indices : ~Known(i)' => pipe'[i] = <<>> /\ emitted'[i] = None
    BY <1>2, <1>4 DEF OnTheWay
  <2> QED BY <2>1, <2>2, <2>3, <2>4, <2>5 DEF OnTheWay
<1>7. InTurn'
  <2> SUFFICES ASSUME NEW i \in Indices, NEW j \in Indices, i # j, endpoint'[i] = endpoint'[j],
                      NEW q \in AddsOf(i)',
                      j \in ToSet(monitors) \/ (\E p \in AddsOf(j)' : p < q)
               PROVE  \E r \in DropsOf(j)' : r < q
    BY DEF InTurn
  <2>0. DropsOf(j)' = DropsOf(j)
    BY DEF Adding
  <2>1. CASE q \in AddsOf(i)
    <3>1. Known(i) /\ q \in DOMAIN cmds /\ q \in Nat
      BY <1>1, <2>1 DEF Known
    <3>2. j \in ToSet(monitors) \/ (\E p \in AddsOf(j) : p < q)
      <4>1. SUFFICES ASSUME NEW p \in AddsOf(j)', p < q PROVE p \in AddsOf(j)
        OBVIOUS
      <4>2. p \in AddsOf(j) \/ q < p
        BY <3>1 DEF Adding
      <4>3. p \in Nat
        <5>1. DOMAIN cmds' \subseteq Nat /\ AddsOf(j)' \subseteq DOMAIN cmds'
          <6>1. cmds' \in Seq(Command)
            BY DEF IInv, TypeOK
          <6>2. DOMAIN cmds' = 1 .. Len(cmds') /\ Len(cmds') \in Nat
            BY <6>1, LenProperties
          <6> QED BY <6>2 DEF AddsOf
        <5> QED BY <5>1
      <4> QED BY <3>1, <4>1, <4>2, <4>3
    <3>3. Known(j)
      BY <3>2 DEF Known
    <3>4. endpoint[i] = endpoint[j]
      BY <1>3, <3>1, <3>3
    <3> QED BY <2>0, <2>1, <3>2, <3>4 DEF JInv, InTurn
  <2>2. CASE q \notin AddsOf(i)
    <3>1. i \in S /\ \A p \in DOMAIN cmds : p < q
      BY <2>2 DEF Adding
    <3>2. j \notin sockets'
      BY <3>1 DEF IInv, TypeOK
    <3>3. j \notin S /\ j \notin monitoring
      BY <1>1, <3>2
    <3>4. Known(j)
      BY <3>3 DEF Known, Adding
    <3>5. DropsOf(j) # {}
      BY <1>2, <3>3, <3>4 DEF OnTheWay
    <3> QED BY <1>1, <2>0, <3>1, <3>5
  <2> QED BY <2>1, <2>2
<1>8. OneEntryEach'
  <2>1. \A i \in ToSet(monitors) : endpoint'[i] = endpoint[i]
    BY <1>1, <1>3 DEF Known
  <2> QED BY <2>1 DEF JInv, OneEntryEach
<1>9. UpToDate'
  <2> SUFFICES ASSUME NEW i \in monitoring'
               PROVE  /\ \A k \in DOMAIN pipe[i] : pipe[i][k] # Stopped
                      /\ pipe[i] # <<>> => pipe[i][Len(pipe[i])] = emitted[i]
                      /\ pipe[i] = <<>> /\ emitted[i] # None =>
                            /\ i \in ToSet(monitors)
                            /\ endpoint'[i] \in DOMAIN states /\ states[endpoint'[i]] = emitted[i]
    BY DEF UpToDate
  <2>1. CASE i \in S
    <3>1. pipe[i] = <<>> /\ emitted[i] = None
      BY <1>2, <1>5, <2>1 DEF OnTheWay
    <3>2. DOMAIN pipe[i] = {}
      BY <3>1
    <3> QED BY <3>1, <3>2
  <2>2. CASE i \in monitoring
    <3>1. endpoint'[i] = endpoint[i]
      BY <1>1, <1>2, <1>3, <2>2 DEF OnTheWay
    <3> QED BY <2>2, <3>1 DEF JInv, UpToDate
  <2> QED BY <2>1, <2>2
<1> QED BY <1>6, <1>7, <1>8, <1>9 DEF JInv

\* connect opens a socket that no entry knows.
LEMMA ConnectFollows ==
  ASSUME IInv, IInv', JInv, NEW e \in Endpoints, Connect(e)
  PROVE  JInv'
<1>1. /\ opened + 1 \in Indices /\ opened' = opened + 1 /\ opened \in Nat
      /\ opened + 1 \notin sockets /\ monitoring \subseteq sockets
  <2>1. opened + 1 \in Indices /\ opened' = opened + 1 /\ opened \in Nat
    BY BoundsAssumption DEF IInv, TypeOK, Connect
  <2>2. sockets \subseteq 1 .. opened /\ monitoring \subseteq sockets
    BY DEF IInv, Numbered, TypeOK
  <2> QED BY <2>1, <2>2
<1>2. \A i \in Indices : i <= opened => endpoint'[i] = endpoint[i]
  BY <1>1 DEF IInv, TypeOK, Connect
<1>3. sockets' = sockets \cup {opened + 1} /\ enabled # "down"
      /\ UNCHANGED <<monitors, states, pipe, emitted>>
  BY DEF Connect, thread
<1>4. opened <= opened' /\ \A i \in sockets' : i \in sockets \/ ~(i <= opened)
  BY <1>1, <1>3
<1>5. CASE enabled = "some"
  <2> DEFINE S == {opened + 1}
  <2>1. S \ monitoring = S /\ S \in SUBSET Indices
    BY <1>1
  <2>2. monitoring' = monitoring \cup S
    BY <1>5 DEF Connect, Register
  <2>3. PICK order \in SetToSeqs(S) :
           cmds' = cmds \o [k \in DOMAIN order |-> [op |-> "Add", index |-> order[k]]]
    BY <1>5, <2>1 DEF Connect, Register
  <2>4. cmds \in Seq(Command)
    BY DEF IInv, TypeOK
  <2>5. Adding(S)
    <3> HIDE DEF S
    <3> QED BY <2>1, <2>3, <2>4, SentAdds DEF Adding
  <2>6. S \subseteq sockets' /\ S \cap monitoring = {}
    BY <1>1, <1>3
  <2> QED BY <1>2, <1>3, <1>4, <2>1, <2>2, <2>5, <2>6, AddingKeeps
<1>6. CASE enabled # "some"
  <2>1. UNCHANGED <<monitoring, cmds>>
    BY <1>6 DEF Connect
  <2>2. Adding({})
    BY <2>1 DEF Adding, AddsOf, DropsOf
  <2> QED BY <1>2, <1>3, <1>4, <2>1, <2>2, AddingKeeps
<1> QED BY <1>5, <1>6

\* enable_monitoring sends an Add of every socket not registered yet.
LEMMA EnableFollows ==
  ASSUME IInv, IInv', JInv, Enable
  PROVE  JInv'
<1> DEFINE S == sockets \ monitoring
<1>1. /\ UNCHANGED <<opened, endpoint, sockets>> /\ enabled # "down"
      /\ UNCHANGED <<monitors, states, pipe, emitted>>
  BY DEF Enable, network, thread
<1>2. monitoring' = monitoring \cup S /\ S \in SUBSET Indices /\ S \subseteq sockets'
      /\ S \cap monitoring = {} /\ opened \in Nat
  BY <1>1, Places DEF Enable, Register
<1>3. PICK order \in SetToSeqs(S) :
         cmds' = cmds \o [k \in DOMAIN order |-> [op |-> "Add", index |-> order[k]]]
  BY DEF Enable, Register
<1>4. cmds \in Seq(Command)
  BY DEF IInv, TypeOK
<1> HIDE DEF S
<1>5. Adding(S)
  BY <1>2, <1>3, <1>4, SentAdds DEF Adding
<1>6. opened <= opened' /\ \A i \in sockets' : i \in sockets \/ ~(i <= opened)
  BY <1>1, <1>2
<1> QED BY <1>1, <1>2, <1>5, <1>6, AddingKeeps

\* Sockets are unregistered and closed: each has a Remove at the end.
LEMMA DisconnectFollows ==
  ASSUME IInv, IInv', JInv, DisconnectAll \/ (\E e \in Endpoints : Disconnect(e))
  PROVE  JInv'
<1>1. PICK S \in SUBSET sockets : Unregister(S, S)
  BY DEF Disconnect, DisconnectAll
<1>2. UNCHANGED <<opened, endpoint, enabled, emitted, monitors, states>>
  BY DEF Disconnect, DisconnectAll, network, thread
<1> DEFINE T == S \cap monitoring
<1>3. /\ monitoring \subseteq sockets /\ sockets \subseteq Indices /\ T \in SUBSET Indices
      /\ sockets' = sockets \ S /\ monitoring' = monitoring \ S
      /\ \A i \in Indices : pipe'[i] = IF i \in T THEN Append(pipe[i], Stopped) ELSE pipe[i]
  BY <1>1, Places DEF Unregister
<1>4. PICK order \in SetToSeqs(T) :
         cmds' = cmds \o [k \in DOMAIN order |-> [op |-> "Remove", index |-> order[k]]]
  BY <1>1 DEF Unregister
<1>5. cmds \in Seq(Command)
  BY DEF IInv, TypeOK
<1> HIDE DEF T
<1>6. \A i \in Indices :
         /\ AddsOf(i)' = AddsOf(i) /\ DropsOf(i) \subseteq DropsOf(i)'
         /\ i \in T => DropsOf(i)' # {}
         /\ i \notin T => DropsOf(i)' = DropsOf(i)
         /\ \A k \in DropsOf(i)' : k \in DropsOf(i) \/ (\A p \in DOMAIN cmds : p < k)
  BY <1>3, <1>4, <1>5, SentDrops
<1>7. \A i \in Indices : Known(i)' <=> Known(i)
  BY <1>2, <1>6 DEF Known
<1>8. OnTheWay
  BY DEF JInv
<1>9. OnTheWay'
  <2>1. \A i \in monitoring' : Known(i)'
    BY <1>3, <1>7, <1>8 DEF OnTheWay
  <2>2. ASSUME NEW i \in Indices, DropsOf(i)' # {} PROVE i \notin sockets' /\ i <= opened'
    <3>1. CASE i \in T
      <4>1. Known(i) /\ i \in S
        BY <1>8, <3>1 DEF OnTheWay, T
      <4> QED BY <1>2, <1>3, <4>1, KnownOnce
    <3>2. CASE i \notin T
      BY <1>2, <1>3, <1>6, <1>8, <2>2, <3>2 DEF OnTheWay
    <3> QED BY <3>1, <3>2
  <2>3. ASSUME NEW i \in Indices, Known(i)'
        PROVE  i \in monitoring' \/ enabled' = "down" \/ DropsOf(i)' # {}
    <3>1. CASE i \in T BY <1>6, <3>1
    <3>2. CASE i \notin T
      <4>1. i \in monitoring \/ enabled = "down" \/ DropsOf(i) # {}
        BY <1>7, <1>8, <2>3 DEF OnTheWay
      <4>2. i \in monitoring => i \in monitoring'
        BY <1>3, <3>2 DEF T
      <4> QED BY <1>2, <1>6, <3>2, <4>1, <4>2
    <3> QED BY <3>1, <3>2
  <2>4. ASSUME NEW i \in Indices, NEW p \in AddsOf(i)', NEW r \in DropsOf(i)' PROVE p < r
    <3>1. p \in AddsOf(i) /\ p \in DOMAIN cmds
      BY <1>6, Places
    <3>2. r \in DropsOf(i) \/ p < r
      BY <1>6, <3>1
    <3> QED BY <1>8, <3>1, <3>2 DEF OnTheWay
  <2>5. ASSUME NEW i \in Indices, ~Known(i)' PROVE pipe'[i] = <<>> /\ emitted'[i] = None
    <3>1. pipe[i] = <<>> /\ emitted[i] = None /\ i \notin monitoring
      BY <1>7, <1>8, <2>5 DEF OnTheWay
    <3> QED BY <1>2, <1>3, <3>1 DEF T
  <2> QED BY <2>1, <2>2, <2>3, <2>4, <2>5 DEF OnTheWay
<1>10. InTurn'
  <2> SUFFICES ASSUME NEW i \in Indices, NEW j \in Indices, i # j, endpoint[i] = endpoint[j],
                      NEW q \in AddsOf(i)',
                      j \in ToSet(monitors) \/ (\E p \in AddsOf(j)' : p < q)
               PROVE  \E r \in DropsOf(j)' : r < q
    BY <1>2 DEF InTurn
  <2>1. AddsOf(i)' = AddsOf(i) /\ AddsOf(j)' = AddsOf(j) /\ DropsOf(j) \subseteq DropsOf(j)'
    BY <1>6
  <2>2. \E r \in DropsOf(j) : r < q
    BY <2>1 DEF JInv, InTurn
  <2> QED BY <2>1, <2>2
<1>11. OneEntryEach'
  BY <1>2 DEF JInv, OneEntryEach
<1>12. UpToDate'
  <2>1. \A i \in monitoring' : i \in monitoring /\ pipe'[i] = pipe[i]
    BY <1>3 DEF T
  <2> QED BY <1>2, <2>1 DEF JInv, UpToDate
<1> QED BY <1>9, <1>10, <1>11, <1>12 DEF JInv

\* A dropped object leaves its entries to the Removes it sends.
LEMMA DropFollows ==
  ASSUME IInv, JInv, Drop
  PROVE  JInv'
<1>1. /\ UNCHANGED <<opened, endpoint, emitted, pipe, monitors, states>>
      /\ sockets' = {} /\ monitoring' = {} /\ enabled' = "down"
  BY DEF Drop, network, thread
<1>2. \A i \in Indices : AddsOf(i)' = AddsOf(i) /\ DropsOf(i)' = DropsOf(i)
  <2>1. CASE cmds' = cmds
    BY <2>1 DEF AddsOf, DropsOf, IsAdd
  <2>2. CASE cmds' # cmds
    <3> DEFINE shut == [op |-> "Shutdown"]
    <3>1. cmds' = Append(cmds, shut) /\ cmds \in Seq(Command) /\ shut \in Command
      BY <2>2 DEF Drop, IInv, TypeOK, Command
    <3>2. shut.op # "Add" /\ shut.op # "Remove"
      OBVIOUS
    <3> HIDE DEF shut
    <3>3. /\ Len(cmds) \in Nat /\ DOMAIN cmds = 1 .. Len(cmds) /\ DOMAIN cmds' = 1 .. Len(cmds) + 1
          /\ \A k \in 1 .. Len(cmds) : cmds'[k] = cmds[k]
          /\ cmds'[Len(cmds) + 1] = shut
      BY <3>1, AppendProperties, LenProperties
    <3>4. /\ \A k \in DOMAIN cmds : k \in DOMAIN cmds' /\ cmds'[k] = cmds[k]
          /\ \A k \in DOMAIN cmds' : k \in DOMAIN cmds \/ cmds'[k] = shut
      BY <3>3
    <3> QED BY <3>2, <3>4 DEF AddsOf, DropsOf, IsAdd
  <2> QED BY <2>1, <2>2
<1>3. \A i \in Indices : Known(i)' <=> Known(i)
  BY <1>1, <1>2 DEF Known
<1>4. OnTheWay'
  BY <1>1, <1>2, <1>3 DEF JInv, OnTheWay
<1>5. InTurn'
  BY <1>1, <1>2 DEF JInv, InTurn
<1>6. OneEntryEach' /\ UpToDate'
  BY <1>1 DEF JInv, OneEntryEach, UpToDate
<1> QED BY <1>4, <1>5, <1>6 DEF JInv

\* A step that only moves what is in the pipes of known sockets.
LEMMA EventsFollow ==
  ASSUME IInv, JInv, UNCHANGED <<object, cmds, monitors>>,
         \A i \in Indices : ~Known(i) => pipe'[i] = pipe[i] /\ emitted'[i] = emitted[i],
         UpToDate'
  PROVE  JInv'
<1>1. \A i : AddsOf(i)' = AddsOf(i) /\ DropsOf(i)' = DropsOf(i) /\ (Known(i)' <=> Known(i))
  BY DEF AddsOf, DropsOf, Known
<1>2. UNCHANGED <<opened, endpoint, sockets, monitoring, enabled>>
  BY DEF object
<1>3. OnTheWay'
  BY <1>1, <1>2 DEF JInv, OnTheWay
<1>4. InTurn'
  BY <1>1, <1>2 DEF JInv, InTurn
<1>5. OneEntryEach'
  BY <1>2 DEF JInv, OneEntryEach
<1> QED BY <1>3, <1>4, <1>5 DEF JInv

\* A change is reported to the pipe of the socket that saw it.
LEMMA ChangeFollows ==
  ASSUME IInv, JInv, NEW i \in Indices, Change(i)
  PROVE  JInv'
<1>1. PICK state \in EndpointState :
         /\ pipe' = [pipe EXCEPT ![i] = Append(@, state)]
         /\ emitted' = [emitted EXCEPT ![i] = state]
  BY DEF Change
<1>2. UNCHANGED <<object, cmds, thread>> /\ i \in monitoring
  BY DEF Change
<1>3. /\ \A j \in Indices : pipe'[j] = IF j = i THEN Append(pipe[i], state) ELSE pipe[j]
      /\ \A j \in Indices : emitted'[j] = IF j = i THEN state ELSE emitted[j]
      /\ pipe[i] \in Seq(Events)
  BY <1>1 DEF IInv, TypeOK, Events
<1>4. Known(i)
  BY <1>2 DEF JInv, OnTheWay
<1>5. UpToDate'
  <2> SUFFICES ASSUME NEW j \in monitoring
               PROVE  /\ \A k \in DOMAIN pipe'[j] : pipe'[j][k] # Stopped
                      /\ pipe'[j] # <<>> => pipe'[j][Len(pipe'[j])] = emitted'[j]
                      /\ pipe'[j] = <<>> /\ emitted'[j] # None =>
                            /\ j \in ToSet(monitors)
                            /\ endpoint[j] \in DOMAIN states /\ states[endpoint[j]] = emitted'[j]
    BY <1>2 DEF UpToDate, object, thread
  <2>0. j \in Indices
    BY Places
  <2>1. CASE j # i
    BY <1>3, <2>0, <2>1 DEF JInv, UpToDate
  <2>2. CASE j = i
    <3> DEFINE s == pipe[i]
    <3>1. s \in Seq(Events) /\ state \in Events /\ state # Stopped
      BY <1>3 DEF Events
    <3>2. \A k \in DOMAIN s : s[k] # Stopped
      BY <1>2 DEF JInv, UpToDate
    <3>3. pipe'[j] = Append(s, state) /\ emitted'[j] = state
      BY <1>3, <2>2
    <3> HIDE DEF s
    <3>4. /\ Append(s, state) \in Seq(Events) /\ Len(Append(s, state)) = Len(s) + 1 /\ Len(s) \in Nat
          /\ \A k \in 1 .. Len(s) : Append(s, state)[k] = s[k]
          /\ Append(s, state)[Len(s) + 1] = state
      BY <3>1, AppendProperties, LenProperties
    <3>5. DOMAIN s = 1 .. Len(s) /\ DOMAIN Append(s, state) = 1 .. Len(s) + 1
      BY <3>1, <3>4, LenProperties
    <3>6. \A k \in DOMAIN Append(s, state) : Append(s, state)[k] # Stopped
      BY <3>1, <3>2, <3>4, <3>5
    <3>7. Append(s, state) # <<>>
      BY <3>4
    <3> QED BY <3>3, <3>4, <3>6, <3>7
  <2> QED BY <2>1, <2>2
<1>6. \A j \in Indices : ~Known(j) => pipe'[j] = pipe[j] /\ emitted'[j] = emitted[j]
  BY <1>3, <1>4
<1>7. UNCHANGED <<object, cmds, monitors>>
  BY <1>2 DEF thread
<1> QED BY <1>5, <1>6, <1>7, EventsFollow

\* What the thread reads is kept of the endpoint, whose only entry it is.
LEMMA ReadFollows ==
  ASSUME IInv, JInv, Read
  PROVE  JInv'
<1>1. PICK i : i = monitors[Min({k \in DOMAIN monitors : monitors[k] \in polled})]
  OBVIOUS
<1>2. /\ polled # {}
      /\ pipe' = [pipe EXCEPT ![i] = Tail(@)]
      /\ states' = IF Head(pipe[i]) = "MONITOR_STOPPED" THEN states
                   ELSE Note(endpoint[i], Head(pipe[i]))
      /\ UNCHANGED <<object, network, cmds, monitors, running>>
  BY <1>1 DEF Read
<1>3. i \in polled /\ i \in ToSet(monitors) /\ i \in Indices
  BY <1>1, <1>2, ReadIsPolled DEF IInv
<1>4. /\ \A j \in Indices : pipe'[j] = IF j = i THEN Tail(pipe[i]) ELSE pipe[j]
      /\ pipe[i] \in Seq(Events) /\ pipe[i] # <<>>
  BY <1>2, <1>3 DEF IInv, TypeOK, Events, Reported
<1>5. Known(i)
  BY <1>3 DEF Known
<1>6. ASSUME NEW j \in monitoring
      PROVE  /\ \A k \in DOMAIN pipe'[j] : pipe'[j][k] # Stopped
             /\ pipe'[j] # <<>> => pipe'[j][Len(pipe'[j])] = emitted[j]
             /\ pipe'[j] = <<>> /\ emitted[j] # None =>
                   /\ j \in ToSet(monitors)
                   /\ endpoint[j] \in DOMAIN states' /\ states'[endpoint[j]] = emitted[j]
  <2>0. j \in Indices
    BY Places
  <2>1. CASE j # i
    <3>1. pipe'[j] = pipe[j]
      BY <1>4, <2>0, <2>1
    <3>2. ASSUME j \in ToSet(monitors), endpoint[j] \in DOMAIN states
          PROVE  endpoint[j] \in DOMAIN states' /\ states'[endpoint[j]] = states[endpoint[j]]
      <4>1. endpoint[j] # endpoint[i]
        BY <1>3, <2>1, <3>2 DEF JInv, OneEntryEach
      <4>2. CASE states' = states BY <3>2, <4>2
      <4>3. CASE states' = Note(endpoint[i], Head(pipe[i]))
        BY <3>2, <4>1, <4>3 DEF Note
      <4> QED BY <1>2, <4>2, <4>3
    <3> QED BY <3>1, <3>2 DEF JInv, UpToDate
  <2>2. CASE j = i
    <3> DEFINE s == pipe[i]
    <3>1. s \in Seq(Events) /\ s # <<>> /\ pipe'[j] = Tail(s)
      BY <1>3, <1>4, <2>2
    <3>2. (\A k \in DOMAIN s : s[k] # Stopped) /\ s[Len(s)] = emitted[j]
      BY <1>4, <2>2 DEF JInv, UpToDate
    <3> HIDE DEF s
    <3>3. Len(s) \in Nat /\ Len(s) # 0 /\ DOMAIN s = 1 .. Len(s)
      BY <3>1, LenProperties, EmptySeq
    <3>4. /\ Tail(s) \in Seq(Events) /\ Len(Tail(s)) = Len(s) - 1 /\ Head(s) = s[1]
          /\ \A k \in 1 .. Len(Tail(s)) : Tail(s)[k] = s[k + 1]
      BY <3>1, HeadTailProperties
    <3>5. DOMAIN Tail(s) = 1 .. Len(s) - 1
      BY <3>4, LenProperties
    <3>6. \A k \in DOMAIN Tail(s) : k + 1 \in DOMAIN s /\ Tail(s)[k] = s[k + 1]
      BY <3>3, <3>4, <3>5
    <3>7. \A k \in DOMAIN Tail(s) : Tail(s)[k] # Stopped
      BY <3>2, <3>6
    <3>8. ASSUME Tail(s) # <<>> PROVE Tail(s)[Len(Tail(s))] = s[Len(s)]
      <4>1. Len(Tail(s)) # 0
        BY <3>4, <3>8, EmptySeq
      <4>2. Len(Tail(s)) \in 1 .. Len(Tail(s)) /\ Len(Tail(s)) + 1 = Len(s)
        BY <3>3, <3>4, <4>1
      <4> QED BY <3>4, <4>2
    <3>9. ASSUME Tail(s) = <<>> PROVE Head(s) = s[Len(s)]
      <4>1. Len(Tail(s)) = 0
        BY <3>4, <3>9, EmptySeq
      <4>2. \A l, t \in Nat : t = l - 1 /\ t = 0 => l = 1
        OBVIOUS
      <4>3. Len(s) = 1
        BY <3>3, <3>4, <4>1, <4>2
      <4> QED BY <3>4, <4>3
    <3>10. /\ endpoint[i] \in DOMAIN states' /\ states'[endpoint[i]] = Head(s)
      <4>1. Head(s) # "MONITOR_STOPPED"
        BY <3>2, <3>3, <3>4
      <4>2. states' = Note(endpoint[i], Head(s))
        BY <1>2, <4>1 DEF s
      <4> QED BY <4>2 DEF Note
    <3> QED BY <1>3, <2>2, <3>1, <3>2, <3>7, <3>8, <3>9, <3>10
  <2> QED BY <2>1, <2>2
<1>7. UNCHANGED <<object, cmds, monitors, emitted>>
  BY <1>2 DEF network
<1>8. UpToDate'
  BY <1>6, <1>7 DEF UpToDate, object
<1>9. \A j \in Indices : ~Known(j) => pipe'[j] = pipe[j] /\ emitted'[j] = emitted[j]
  BY <1>4, <1>5, <1>7
<1> QED BY <1>7, <1>8, <1>9, EventsFollow

\* zmq::poll changes nothing but what is known to be readable.
LEMMA PollFollows ==
  ASSUME IInv, JInv, Poll
  PROVE  JInv'
<1>1. UNCHANGED <<object, cmds, monitors, pipe, emitted, states>>
  BY DEF Poll, network
<1>2. UpToDate'
  BY <1>1 DEF JInv, UpToDate, object
<1> QED BY <1>1, <1>2, EventsFollow

\* The thread takes a command. Whatever it is, what is on the way and in turn
\* stays so if the entries change as the command says.
LEMMA TakenFollows ==
  ASSUME IInv, JInv, cmds # <<>>, cmds' = Tail(cmds), UNCHANGED object,
         \A j \in Indices : IsAdd(Head(cmds)) /\ Head(cmds).index = j => j \in ToSet(monitors'),
         \A j \in Indices : Head(cmds).op = "Remove" /\ Head(cmds).index = j =>
            j \notin ToSet(monitors') /\ pipe'[j] = <<>> /\ emitted'[j] = None,
         \A j \in Indices : ~(Head(cmds).op \in {"Add", "Remove"} /\ Head(cmds).index = j) =>
            (j \in ToSet(monitors') <=> j \in ToSet(monitors)),
         \A j \in Indices : ~(Head(cmds).op = "Remove" /\ Head(cmds).index = j) =>
            pipe'[j] = pipe[j] /\ emitted'[j] = emitted[j]
  PROVE  OnTheWay' /\ InTurn'
<1> DEFINE Here(j) == IsAdd(Head(cmds)) /\ Head(cmds).index = j
           Out(j) == Head(cmds).op = "Remove" /\ Head(cmds).index = j
<1>1. UNCHANGED <<opened, endpoint, sockets, monitoring, enabled>>
  BY DEF object
<1>2. \A j \in Indices :
         /\ \A k \in AddsOf(j)' : k \in Nat \ {0} /\ k + 1 \in AddsOf(j)
         /\ \A k \in DropsOf(j)' : k \in Nat \ {0} /\ k + 1 \in DropsOf(j)
         /\ \A k \in AddsOf(j) : k \in Nat \ {0} /\ (k # 1 => k - 1 \in AddsOf(j)')
         /\ \A k \in DropsOf(j) : k \in Nat \ {0} /\ (k # 1 => k - 1 \in DropsOf(j)')
         /\ 1 \in AddsOf(j) <=> Here(j)
         /\ 1 \in DropsOf(j) <=> Out(j)
  <2>1. cmds \in Seq(Command)
    BY DEF IInv, TypeOK
  <2> QED BY <2>1, TakenFirst
<1>3. /\ \A j \in Indices : Here(j) => j \in ToSet(monitors')
      /\ \A j \in Indices : Out(j) =>
            j \notin ToSet(monitors') /\ pipe'[j] = <<>> /\ emitted'[j] = None
      /\ \A j \in Indices : ~Here(j) /\ ~Out(j) =>
            (j \in ToSet(monitors') <=> j \in ToSet(monitors))
      /\ \A j \in Indices : ~Out(j) => pipe'[j] = pipe[j] /\ emitted'[j] = emitted[j]
      /\ \A j : ~(Here(j) /\ Out(j))
  BY DEF IsAdd
<1> HIDE DEF Here, Out
<1>4. OnTheWay
  BY DEF JInv
<1>5. \A j \in Indices : Out(j) => AddsOf(j) = {} /\ AddsOf(j)' = {} /\ ~Known(j)'
  <2> SUFFICES ASSUME NEW j \in Indices, Out(j) PROVE AddsOf(j) = {} /\ AddsOf(j)' = {} /\ ~Known(j)'
    OBVIOUS
  <2>1. AddsOf(j) = {}
    <3>1. \A p \in AddsOf(j) : p \in Nat \ {0} /\ p < 1
      BY <1>2, <1>4 DEF OnTheWay
    <3> QED BY <3>1
  <2>2. AddsOf(j)' = {}
    BY <1>2, <2>1
  <2> QED BY <1>3, <2>1, <2>2 DEF Known
<1>6. \A j \in Indices : ~Out(j) => (Known(j)' <=> Known(j))
  <2> SUFFICES ASSUME NEW j \in Indices, ~Out(j) PROVE Known(j)' <=> Known(j)
    OBVIOUS
  <2>1. CASE Here(j)
    BY <1>2, <1>3, <2>1 DEF Known
  <2>2. CASE ~Here(j)
    <3>1. AddsOf(j)' # {} <=> AddsOf(j) # {}
      BY <1>2, <2>2
    <3> QED BY <1>3, <2>2, <3>1 DEF Known
  <2> QED BY <2>1, <2>2
<1>7. \A j \in Indices : ~Out(j) => (DropsOf(j)' # {} <=> DropsOf(j) # {})
  BY <1>2
<1>8. OnTheWay'
  <2>1. ASSUME NEW j \in monitoring' PROVE Known(j)'
    <3>1. j \in Indices /\ j \in monitoring /\ j \in sockets
      BY <1>1, Places
    <3>2. ~Out(j)
      BY <1>2, <1>4, <3>1 DEF OnTheWay
    <3> QED BY <1>4, <1>6, <3>1, <3>2 DEF OnTheWay
  <2>2. ASSUME NEW j \in Indices, DropsOf(j)' # {} PROVE j \notin sockets' /\ j <= opened'
    <3>1. DropsOf(j) # {}
      BY <1>2, <2>2
    <3> QED BY <1>1, <1>4, <3>1 DEF OnTheWay
  <2>3. ASSUME NEW j \in Indices, Known(j)'
        PROVE  j \in monitoring' \/ enabled' = "down" \/ DropsOf(j)' # {}
    <3>1. ~Out(j)
      BY <1>5, <2>3
    <3> QED BY <1>1, <1>4, <1>6, <1>7, <2>3, <3>1 DEF OnTheWay
  <2>4. ASSUME NEW j \in Indices, NEW p \in AddsOf(j)', NEW r \in DropsOf(j)' PROVE p < r
    <3>1. p + 1 \in AddsOf(j) /\ r + 1 \in DropsOf(j) /\ p \in Nat /\ r \in Nat
      BY <1>2
    <3>2. p + 1 < r + 1
      BY <1>4, <3>1 DEF OnTheWay
    <3> QED BY <3>1, <3>2
  <2>5. ASSUME NEW j \in Indices, ~Known(j)' PROVE pipe'[j] = <<>> /\ emitted'[j] = None
    <3>1. CASE Out(j) BY <1>3, <3>1
    <3>2. CASE ~Out(j) BY <1>3, <1>4, <1>6, <2>5, <3>2 DEF OnTheWay
    <3> QED BY <3>1, <3>2
  <2> QED BY <2>1, <2>2, <2>3, <2>4, <2>5 DEF OnTheWay
<1>9. InTurn'
  <2> SUFFICES ASSUME NEW i \in Indices, NEW j \in Indices, i # j, endpoint[i] = endpoint[j],
                      NEW q \in AddsOf(i)',
                      j \in ToSet(monitors') \/ (\E p \in AddsOf(j)' : p < q)
               PROVE  \E r \in DropsOf(j)' : r < q
    BY <1>1 DEF InTurn
  <2>1. ~Out(j)
    BY <1>3, <1>5
  <2>2. q + 1 \in AddsOf(i) /\ q \in Nat \ {0}
    BY <1>2
  <2>3. j \in ToSet(monitors) \/ (\E p \in AddsOf(j) : p < q + 1)
    <3>1. CASE \E p \in AddsOf(j)' : p < q
      <4>1. PICK p \in AddsOf(j)' : p < q
        BY <3>1
      <4>2. p \in Nat /\ p + 1 \in AddsOf(j)
        BY <1>2
      <4>3. p + 1 < q + 1
        BY <2>2, <4>1, <4>2
      <4> QED BY <4>2, <4>3
    <3>2. CASE j \in ToSet(monitors') /\ Here(j)
      <4>1. 1 \in AddsOf(j) /\ 1 < q + 1
        BY <1>2, <2>2, <3>2
      <4> QED BY <4>1
    <3>3. CASE j \in ToSet(monitors') /\ ~Here(j)
      BY <1>3, <2>1, <3>3
    <3> QED BY <3>1, <3>2, <3>3
  <2>4. PICK r \in DropsOf(j) : r < q + 1
    BY <2>2, <2>3 DEF JInv, InTurn
  <2>5. r # 1
    BY <1>2, <2>1
  <2>6. r \in Nat /\ r - 1 \in DropsOf(j)'
    BY <1>2, <2>5
  <2>7. r - 1 < q
    BY <2>2, <2>4, <2>6
  <2> QED BY <2>6, <2>7
<1> QED BY <1>8, <1>9

\* An Add makes the first entry of its endpoint.
LEMMA AddEntryFollows ==
  ASSUME IInv, IInv', JInv, AddEntry
  PROVE  JInv'
<1> DEFINE i == Head(cmds).index
<1>1. /\ cmds # <<>> /\ Head(cmds).op = "Add" /\ cmds' = Tail(cmds)
      /\ monitors' = Append(monitors, i)
      /\ UNCHANGED <<object, pipe, emitted, states>>
  BY DEF AddEntry, Holds, network
<1>2. cmds \in Seq(Command) /\ monitors \in Seq(Indices)
  BY DEF IInv, TypeOK
<1>3. i \in Indices /\ 1 \in AddsOf(i)
  <2>1. Head(cmds) = cmds[1] /\ 1 \in DOMAIN cmds
    BY <1>1, <1>2, Received
  <2>2. 1 \in AddsOf(i)
    BY <1>1, <2>1 DEF AddsOf, IsAdd
  <2> QED BY <2>2, Places
<1>4. ToSet(monitors') = ToSet(monitors) \cup {i}
  <2>1. /\ Len(monitors) \in Nat /\ DOMAIN monitors = 1 .. Len(monitors)
        /\ DOMAIN monitors' = 1 .. Len(monitors) + 1
        /\ \A k \in 1 .. Len(monitors) : monitors'[k] = monitors[k]
        /\ monitors'[Len(monitors) + 1] = i
    <3> HIDE DEF i
    <3> QED BY <1>1, <1>2, <1>3, AppendProperties, LenProperties
  <2> HIDE DEF i
  <2> QED BY <2>1 DEF ToSet
<1>5. OnTheWay' /\ InTurn'
  <2>1. /\ \A j \in Indices : IsAdd(Head(cmds)) /\ Head(cmds).index = j => j \in ToSet(monitors')
        /\ Head(cmds).op # "Remove"
        /\ \A j \in Indices : ~(Head(cmds).op \in {"Add", "Remove"} /\ Head(cmds).index = j) =>
              (j \in ToSet(monitors') <=> j \in ToSet(monitors))
        /\ \A j \in Indices : pipe'[j] = pipe[j] /\ emitted'[j] = emitted[j]
    BY <1>1, <1>4
  <2> QED BY <1>1, <2>1, TakenFollows
<1>6. OneEntryEach'
  <2>1. ASSUME NEW j \in ToSet(monitors), j # i PROVE endpoint[j] # endpoint[i]
    <3>1. j \in Indices
      BY Places
    <3>2. ASSUME endpoint[j] = endpoint[i] PROVE FALSE
      <4>1. PICK r \in DropsOf(j) : r < 1
        BY <1>3, <2>1, <3>1, <3>2 DEF JInv, InTurn
      <4>2. r \in Nat \ {0}
        BY <1>1, <1>2, <3>1, TakenFirst
      <4> QED BY <4>1, <4>2
    <3> QED BY <3>2
  <2> HIDE DEF i
  <2> QED BY <1>1, <1>4, <2>1 DEF JInv, OneEntryEach, object
<1>7. UpToDate'
  BY <1>1, <1>4 DEF JInv, UpToDate, object
<1> QED BY <1>5, <1>6, <1>7 DEF JInv

\* Shutdown leaves entries and states behind as they are.
LEMMA ShutdownFollows ==
  ASSUME IInv, JInv, Shutdown
  PROVE  JInv'
<1>1. /\ cmds # <<>> /\ Head(cmds).op = "Shutdown" /\ cmds' = Tail(cmds)
      /\ UNCHANGED <<object, pipe, emitted, monitors, states>>
  BY DEF Shutdown, Holds, network
<1>2. OnTheWay' /\ InTurn'
  BY <1>1, TakenFollows DEF IsAdd
<1>3. OneEntryEach' /\ UpToDate'
  BY <1>1 DEF JInv, OneEntryEach, UpToDate, object
<1> QED BY <1>2, <1>3 DEF JInv

\* The state forgotten with an entry is of no other entry's endpoint.
LEMMA RemoveEntryFollows ==
  ASSUME IInv, IInv', JInv, RemoveEntry
  PROVE  JInv'
<1>0. PICK i : i = Head(cmds).index
  OBVIOUS
<1> DEFINE positions == {k \in DOMAIN monitors : monitors[k] = i}
<1>1. /\ cmds # <<>> /\ Head(cmds).op = "Remove" /\ cmds' = Tail(cmds)
      /\ UNCHANGED object
  BY DEF RemoveEntry, Holds
<1>2. cmds \in Seq(Command) /\ monitors \in Seq(Indices) /\ IsInjective(monitors)
  BY DEF IInv, TypeOK
<1>3. 1 \in DropsOf(i) /\ i \in Indices
  <2>1. Head(cmds) = cmds[1] /\ 1 \in DOMAIN cmds /\ Head(cmds) \in Command
    BY <1>1, <1>2, Received
  <2>2. 1 \in DropsOf(i)
    BY <1>0, <1>1, <2>1 DEF DropsOf
  <2>3. i \in Indices
    BY <1>0, <1>1, <2>1 DEF Command
  <2> QED BY <2>2, <2>3
<1>4. i \notin monitoring
  BY <1>3, Places DEF JInv, OnTheWay
<1>5. /\ ToSet(monitors') = ToSet(monitors) \ {i}
      /\ \A j \in Indices : j # i => pipe'[j] = pipe[j] /\ emitted'[j] = emitted[j]
      /\ pipe'[i] = <<>> /\ emitted'[i] = None
      /\ states' = states \/ (i \in ToSet(monitors) /\ states' = Forget(endpoint[i]))
  <2>1. CASE positions = {}
    <3>1. UNCHANGED <<monitors, states, pipe, emitted>>
      BY <1>0, <2>1 DEF RemoveEntry
    <3>2. i \notin ToSet(monitors)
      BY <2>1 DEF ToSet
    <3>3. AddsOf(i) = {}
      <4>1. \A p \in AddsOf(i) : p < 1
        BY <1>3 DEF JInv, OnTheWay
      <4>2. \A p \in AddsOf(i) : p \in Nat \ {0}
        BY <1>1, <1>2, <1>3, TakenFirst
      <4> QED BY <4>1, <4>2
    <3>4. pipe[i] = <<>> /\ emitted[i] = None
      BY <1>3, <3>2, <3>3 DEF JInv, OnTheWay, Known
    <3> QED BY <3>1, <3>2, <3>4
  <2>2. CASE positions # {}
    <3>1. /\ monitors' = RemoveAt(monitors, Min(positions))
          /\ states' = Forget(endpoint[i])
          /\ pipe' = [pipe EXCEPT ![i] = <<>>]
          /\ emitted' = [emitted EXCEPT ![i] = None]
      BY <1>0, <2>2 DEF RemoveEntry
    <3>2. positions \in SUBSET Nat
      BY <1>2, LenProperties
    <3>3. Min(positions) \in DOMAIN monitors /\ monitors[Min(positions)] = i
      <4> HIDE DEF positions
      <4>1. Min(positions) \in positions
        BY <2>2, <3>2, LeastNumber
      <4> QED BY <4>1 DEF positions
    <3> HIDE DEF positions
    <3>4. ToSet(monitors') = ToSet(monitors) \ {i}
      BY <1>2, <3>1, <3>3, Dropped
    <3>5. i \in ToSet(monitors)
      BY <3>3 DEF ToSet
    <3> QED BY <1>3, <3>1, <3>4, <3>5 DEF IInv, TypeOK
  <2> QED BY <2>1, <2>2
<1>6. OnTheWay' /\ InTurn'
  <2>1. /\ ~IsAdd(Head(cmds))
        /\ \A j \in Indices : Head(cmds).op = "Remove" /\ Head(cmds).index = j =>
              j \notin ToSet(monitors') /\ pipe'[j] = <<>> /\ emitted'[j] = None
        /\ \A j \in Indices : ~(Head(cmds).op \in {"Add", "Remove"} /\ Head(cmds).index = j) =>
              (j \in ToSet(monitors') <=> j \in ToSet(monitors))
        /\ \A j \in Indices : ~(Head(cmds).op = "Remove" /\ Head(cmds).index = j) =>
              pipe'[j] = pipe[j] /\ emitted'[j] = emitted[j]
    BY <1>0, <1>1, <1>5 DEF IsAdd
  <2> QED BY <1>1, <2>1, TakenFollows
<1>7. UNCHANGED <<endpoint, monitoring>>
  BY <1>1 DEF object
<1>8. OneEntryEach'
  BY <1>5, <1>7 DEF JInv, OneEntryEach
<1>9. UpToDate'
  <2> SUFFICES ASSUME NEW j \in monitoring
               PROVE  /\ \A k \in DOMAIN pipe'[j] : pipe'[j][k] # Stopped
                      /\ pipe'[j] # <<>> => pipe'[j][Len(pipe'[j])] = emitted'[j]
                      /\ pipe'[j] = <<>> /\ emitted'[j] # None =>
                            /\ j \in ToSet(monitors')
                            /\ endpoint[j] \in DOMAIN states' /\ states'[endpoint[j]] = emitted'[j]
    BY <1>7 DEF UpToDate
  <2>1. j # i /\ pipe'[j] = pipe[j] /\ emitted'[j] = emitted[j]
    BY <1>4, <1>5, Places
  <2>2. ASSUME j \in ToSet(monitors), endpoint[j] \in DOMAIN states
        PROVE  /\ j \in ToSet(monitors') /\ endpoint[j] \in DOMAIN states'
               /\ states'[endpoint[j]] = states[endpoint[j]]
    <3>1. CASE states' = states BY <1>5, <2>1, <2>2, <3>1
    <3>2. CASE i \in ToSet(monitors) /\ states' = Forget(endpoint[i])
      <4>1. endpoint[j] # endpoint[i]
        BY <2>1, <2>2, <3>2 DEF JInv, OneEntryEach
      <4> QED BY <1>5, <2>1, <2>2, <3>2, <4>1 DEF Forget
    <3> QED BY <1>5, <3>1, <3>2
  <2> QED BY <2>1, <2>2 DEF JInv, UpToDate
<1> QED BY <1>6, <1>8, <1>9 DEF JInv

\* At first there is nothing to be up to date with.
LEMMA InitJInv == Init => JInv
<1> SUFFICES ASSUME Init PROVE JInv
  OBVIOUS
<1>1. /\ monitoring = {} /\ ToSet(monitors) = {} /\ DOMAIN cmds = {}
      /\ \A i \in Indices : pipe[i] = <<>> /\ emitted[i] = None
  BY DEF Init, ToSet
<1>2. \A i : AddsOf(i) = {} /\ DropsOf(i) = {} /\ ~Known(i)
  BY <1>1 DEF AddsOf, DropsOf, Known
<1>3. OnTheWay /\ InTurn
  BY <1>1, <1>2 DEF OnTheWay, InTurn
<1>4. OneEntryEach /\ UpToDate
  BY <1>1 DEF OneEntryEach, UpToDate
<1> QED BY <1>3, <1>4 DEF JInv

\* One entry each, and up to date, throughout.
LEMMA JInvariant == Spec => []JInv
<1>1. IInv /\ IInv' /\ JInv /\ [Next]_vars => JInv'
  <2>1. ASSUME IInv, IInv', JInv, Next PROVE JInv'
    BY <2>1, ConnectFollows, DisconnectFollows, EnableFollows, DropFollows, ChangeFollows,
       AddEntryFollows, RemoveEntryFollows, ShutdownFollows, PollFollows, ReadFollows DEF Next
  <2>2. ASSUME IInv, JInv, UNCHANGED vars PROVE JInv'
    <3>1. UNCHANGED <<object, cmds, monitors, pipe, emitted, states>>
      BY <2>2 DEF vars, network, thread
    <3>2. UpToDate'
      BY <2>2, <3>1 DEF JInv, UpToDate, object
    <3> QED BY <2>2, <3>1, <3>2, EventsFollow
  <2> QED BY <2>1, <2>2
<1> QED BY <1>1, InitJInv, Invariant, PTL DEF Spec

\* No endpoint ever has two entries, so that a Remove (sockets.rs:354-362), which
\* forgets the state by the endpoint's name, never forgets the next one's.
THEOREM NoTwoEntries == Spec => []OneEntryEach
<1>1. JInv => OneEntryEach
  BY DEF JInv
<1> QED BY JInvariant, <1>1, PTL

\* A thread that has caught up with commands and pipes (sockets.rs:348-395) tells
\* exactly the states last reported.
THEOREM CaughtUpIsExact == Spec => []ExactWhenIdle
<1>1. IInv /\ JInv => ExactWhenIdle
  <2> SUFFICES ASSUME IInv, JInv, Idle
               PROVE  /\ DOMAIN states = {endpoint[i] : i \in Reporting}
                      /\ \A i \in Reporting : states[endpoint[i]] = emitted[i]
    BY DEF ExactWhenIdle
  <2>1. \A i : AddsOf(i) = {} /\ DropsOf(i) = {}
    <3>1. DOMAIN cmds = {}
      BY DEF Idle
    <3> QED BY <3>1 DEF AddsOf, DropsOf
  <2>2. ASSUME NEW i \in Reporting
        PROVE  endpoint[i] \in DOMAIN states /\ states[endpoint[i]] = emitted[i]
    <3>1. i \in monitoring /\ emitted[i] # None
      BY DEF Reporting
    <3>2. i \in ToSet(monitors)
      BY <2>1, <3>1 DEF JInv, OnTheWay, Known
    <3>3. pipe[i] = <<>>
      BY <3>2 DEF Idle
    <3> QED BY <3>1, <3>3 DEF JInv, UpToDate
  <2>3. ASSUME NEW e \in DOMAIN states
        PROVE  \E i \in Reporting : endpoint[i] = e
    <3>1. PICK i \in ToSet(monitors) : endpoint[i] = e /\ emitted[i] # None
      BY DEF IInv, StatesAreCurrent
    <3>2. i \in Indices
      BY <3>1, Places
    <3>3. i \in monitoring
      BY <2>1, <3>1, <3>2 DEF JInv, OnTheWay, Known, Idle
    <3> QED BY <3>1, <3>3 DEF Reporting
  <2> QED BY <2>2, <2>3
<1> QED BY <1>1, JInvariant, Invariant, PTL
================================================================================
