-------------------------- MODULE ChannelCodec_proofs --------------------------
(***************************************************************************)
(* Proofs about ChannelCodec, for any types, shapes and values below the   *)
(* size lz4 takes, and any number of hops: what was sent arrives, and what *)
(* arrived can be sent on.                                                 *)
(*                                                                         *)
(* The bytes on the way are never computed: they are said to begin with    *)
(* those of a sequence of elements (Spells), which padding, cutting off an *)
(* incomplete element and reading in chunks all respect.  Sums and         *)
(* products over sequences, which FlattenSeq and Elements compute by       *)
(* recursive functions, are reasoned about with a smallest counterexample. *)
(***************************************************************************)
EXTENDS ChannelCodec, SequenceTheorems, FiniteSetTheorems, WellFoundedInduction, TLAPS

-----------------------------------------------------------------------------
\* A set of numbers that is not empty has a least one.
LEMMA NatHasLeast ==
  ASSUME NEW S \in SUBSET Nat, S # {}
  PROVE  \E x \in S : \A y \in S : x <= y
<1> DEFINE Less == OpToRel(<, Nat)
<1>1. IsWellFoundedOn(Less, Nat)
  BY NatLessThanWellFounded
<1>2. \A x, y \in Nat : <<x, y>> \in Less <=> x < y
  BY DEF OpToRel
<1> HIDE DEF Less
<1>3. PICK x \in S : \A y \in S : ~(<<y, x>> \in Less)
  BY <1>1, WFMin
<1>4. ASSUME NEW y \in S PROVE x <= y
  <2>1. ~(y < x)
    BY <1>2, <1>3
  <2> QED BY <2>1
<1> QED BY <1>3, <1>4

-----------------------------------------------------------------------------
(* Sequences of elements and the bytes they are made of.                   *)

Sizes == {1, 2, 4, 8}

ElementSeq(n) == Seq([1 .. n -> Nat])

\* The bytes begin with those of the elements in s.
Spells(bytes, s, n) ==
    /\ Len(s) * n <= Len(bytes)
    /\ \A i \in 1 .. Len(s) : \A j \in 1 .. n : bytes[(i - 1) * n + j] = s[i][j]

\* Which element a byte is part of, and where.
LEMMA Position ==
  ASSUME NEW n \in Sizes, NEW k \in Nat \ {0}
  PROVE  /\ ((k - 1) \div n) + 1 \in Nat \ {0} /\ ((k - 1) % n) + 1 \in 1 .. n
         /\ k = (((k - 1) \div n) + 1 - 1) * n + (((k - 1) % n) + 1)
         /\ \A m \in Nat : k <= m * n <=> ((k - 1) \div n) + 1 <= m
<1>1. CASE n = 1
  BY <1>1
<1>2. CASE n = 2
  BY <1>2
<1>3. CASE n = 4
  BY <1>3
<1>4. CASE n = 8
  BY <1>4
<1> QED BY <1>1, <1>2, <1>3, <1>4 DEF Sizes

LEMMA PositionOf ==
  ASSUME NEW n \in Sizes, NEW i \in Nat \ {0}, NEW j \in 1 .. n
  PROVE  /\ (i - 1) * n + j \in Nat \ {0}
         /\ (((i - 1) * n + j - 1) \div n) + 1 = i
         /\ (((i - 1) * n + j - 1) % n) + 1 = j
         /\ \A m \in Nat : i <= m => (i - 1) * n + j <= m * n
<1>1. CASE n = 1
  BY <1>1
<1>2. CASE n = 2
  BY <1>2
<1>3. CASE n = 4
  BY <1>3
<1>4. CASE n = 8
  BY <1>4
<1> QED BY <1>1, <1>2, <1>3, <1>4 DEF Sizes

\* The bytes of the first m elements.
BytesOf(s, n, m) ==
    [k \in 1 .. m * n |-> s[((k - 1) \div n) + 1][((k - 1) % n) + 1]]

LEMMA BytesOfIs ==
  ASSUME NEW n \in Sizes, NEW s \in ElementSeq(n), NEW m \in 0 .. Len(s)
  PROVE  /\ BytesOf(s, n, m) \in Seq(Nat) /\ Len(BytesOf(s, n, m)) = m * n /\ m * n \in Nat
         /\ \A i \in 1 .. m : \A j \in 1 .. n : BytesOf(s, n, m)[(i - 1) * n + j] = s[i][j]
<1>1. m \in Nat /\ n \in Nat /\ m * n \in Nat /\ m <= Len(s) /\ Len(s) \in Nat
  <2>1. n \in Nat
    BY DEF Sizes
  <2> QED BY <2>1 DEF ElementSeq
<1>2. ASSUME NEW k \in 1 .. m * n
      PROVE  s[((k - 1) \div n) + 1][((k - 1) % n) + 1] \in Nat
  <2>1. k \in Nat \ {0} /\ k <= m * n
    BY <1>1
  <2>2. ((k - 1) \div n) + 1 \in 1 .. Len(s) /\ ((k - 1) % n) + 1 \in 1 .. n
    <3>1. ((k - 1) \div n) + 1 \in Nat \ {0} /\ ((k - 1) % n) + 1 \in 1 .. n
          /\ ((k - 1) \div n) + 1 <= m
      BY <1>1, <2>1, Position
    <3> QED BY <1>1, <3>1
  <2>3. \A i \in 1 .. Len(s) : s[i] \in [1 .. n -> Nat]
    BY DEF ElementSeq
  <2>4. s[((k - 1) \div n) + 1] \in [1 .. n -> Nat]
    BY <2>2, <2>3
  <2> QED BY <2>2, <2>4
<1>3. BytesOf(s, n, m) \in Seq(Nat) /\ Len(BytesOf(s, n, m)) = m * n
  BY <1>1, <1>2 DEF BytesOf
<1>4. ASSUME NEW i \in 1 .. m, NEW j \in 1 .. n
      PROVE  BytesOf(s, n, m)[(i - 1) * n + j] = s[i][j]
  <2> DEFINE k == (i - 1) * n + j
  <2>1. /\ k \in Nat \ {0} /\ ((k - 1) \div n) + 1 = i /\ ((k - 1) % n) + 1 = j /\ k <= m * n
    BY <1>1, PositionOf
  <2>2. k \in 1 .. m * n
    BY <1>1, <2>1
  <2> HIDE DEF k
  <2>3. BytesOf(s, n, m)[k] = s[((k - 1) \div n) + 1][((k - 1) % n) + 1]
    BY <2>2 DEF BytesOf
  <2> QED BY <2>1, <2>3 DEF k
<1> QED BY <1>1, <1>3, <1>4

\* What FlattenSeq computes as it goes.
IsFlattening(f, s) ==
    f = [i \in 1 .. Len(s) |-> IF i = 1 THEN s[i] ELSE f[i - 1] \o s[i]]

LEMMA FlattenIs ==
  ASSUME NEW s, Len(s) # 0
  PROVE  FlattenSeq(s) = (CHOOSE f : IsFlattening(f, s))[Len(s)]
BY DEF FlattenSeq, IsFlattening

\* The bytes of one element more.
LEMMA NextElement ==
  ASSUME NEW n \in Sizes, NEW s \in ElementSeq(n), NEW m \in 1 .. Len(s)
  PROVE  /\ m = 1 => BytesOf(s, n, m) = s[m]
         /\ m # 1 => BytesOf(s, n, m) = BytesOf(s, n, m - 1) \o s[m]
<1>1. /\ m \in Nat /\ m - 1 \in Nat /\ m <= Len(s) /\ Len(s) \in Nat /\ n \in Nat \ {0}
      /\ m - 1 \in 0 .. Len(s)
  BY DEF ElementSeq, Sizes
<1>2. s[m] \in [1 .. n -> Nat]
  BY DEF ElementSeq
<1>3. s[m] \in Seq(Nat) /\ Len(s[m]) = n
  BY <1>1, <1>2
<1>4. (m - 1) * n + n = m * n /\ m * n \in Nat /\ (m - 1) * n \in Nat
  BY DEF Sizes
<1>5. ASSUME m = 1 PROVE BytesOf(s, n, m) = s[m]
  <2>1. ASSUME NEW k \in 1 .. n PROVE ((k - 1) \div n) + 1 = 1 /\ ((k - 1) % n) + 1 = k
    BY DEF Sizes
  <2>2. BytesOf(s, n, m) = [k \in 1 .. n |-> s[1][k]]
    <3>1. 1 .. m * n = 1 .. n
      BY <1>1, <1>5
    <3> QED BY <2>1, <3>1 DEF BytesOf
  <2> QED BY <1>2, <1>5, <2>2
<1>6. ASSUME m # 1 PROVE BytesOf(s, n, m) = BytesOf(s, n, m - 1) \o s[m]
  <2> DEFINE b == BytesOf(s, n, m)
             c == BytesOf(s, n, m - 1)
  <2>1. b \in Seq(Nat) /\ Len(b) = m * n
    BY <1>1, BytesOfIs
  <2>2. c \in Seq(Nat) /\ Len(c) = (m - 1) * n
    BY <1>1, BytesOfIs
  <2>3. ASSUME NEW k \in 1 .. m * n
        PROVE  b[k] = IF k <= Len(c) THEN c[k] ELSE s[m][k - Len(c)]
    <3>1. b[k] = s[((k - 1) \div n) + 1][((k - 1) % n) + 1]
      BY DEF BytesOf
    <3>2. CASE k <= Len(c)
      <4>1. k \in 1 .. (m - 1) * n
        BY <1>4, <2>2, <3>2
      <4>2. c[k] = s[((k - 1) \div n) + 1][((k - 1) % n) + 1]
        BY <4>1 DEF BytesOf
      <4> QED BY <3>1, <3>2, <4>2
    <3>3. CASE ~(k <= Len(c))
      <4> DEFINE j == k - Len(c)
      <4>1. j \in 1 .. n /\ k = (m - 1) * n + j
        <5>1. \A x, y \in Nat : k \in 1 .. y /\ x + n = y /\ ~(k <= x)
                               => k - x \in 1 .. n /\ k = x + (k - x)
          BY <1>1
        <5> QED BY <1>4, <2>2, <3>3, <5>1
      <4>2. ((k - 1) \div n) + 1 = m /\ ((k - 1) % n) + 1 = j
        <5> HIDE DEF j
        <5> QED BY <1>1, <4>1, PositionOf
      <4> QED BY <3>1, <3>3, <4>2
    <3> QED BY <3>2, <3>3
  <2> HIDE DEF b, c
  <2>4. c \o s[m] \in Seq(Nat) /\ Len(c \o s[m]) = m * n
    BY <1>3, <1>4, <2>2, ConcatProperties
  <2>5. ASSUME NEW k \in 1 .. m * n
        PROVE  (c \o s[m])[k] = IF k <= Len(c) THEN c[k] ELSE s[m][k - Len(c)]
    <3>1. k \in 1 .. Len(c) + Len(s[m])
      BY <1>3, <1>4, <2>2
    <3> QED BY <1>3, <2>2, <3>1, ConcatProperties
  <2>6. b = c \o s[m]
    BY <1>4, <2>1, <2>3, <2>4, <2>5, SeqEqual
  <2> QED BY <2>6 DEF b, c
<1> QED BY <1>5, <1>6

\* Flattening elements puts their bytes one after the other.
LEMMA Flattened ==
  ASSUME NEW n \in Sizes, NEW s \in ElementSeq(n)
  PROVE  /\ FlattenSeq(s) = BytesOf(s, n, Len(s))
         /\ FlattenSeq(s) \in Seq(Nat) /\ Len(FlattenSeq(s)) = Len(s) * n
         /\ Spells(FlattenSeq(s), s, n)
<1>1. Len(s) \in Nat /\ n \in Nat /\ Len(s) \in 0 .. Len(s)
  BY DEF ElementSeq, Sizes
<1>2. FlattenSeq(s) = BytesOf(s, n, Len(s))
  <2>1. CASE Len(s) = 0
    <3>1. FlattenSeq(s) = s
      BY <2>1 DEF FlattenSeq
    <3>2. s = <<>>
      BY <2>1 DEF ElementSeq
    <3>3. BytesOf(s, n, Len(s)) \in Seq(Nat) /\ Len(BytesOf(s, n, Len(s))) = 0
      BY <1>1, <2>1, BytesOfIs
    <3> QED BY <3>1, <3>2, <3>3
  <2>2. CASE Len(s) # 0
    <3> DEFINE g == [i \in 1 .. Len(s) |-> BytesOf(s, n, i)]
               f == CHOOSE t : IsFlattening(t, s)
    <3>1. IsFlattening(g, s)
      <4>1. ASSUME NEW i \in 1 .. Len(s)
            PROVE  BytesOf(s, n, i) = IF i = 1 THEN s[i] ELSE g[i - 1] \o s[i]
        <5>1. CASE i = 1
          BY <5>1, NextElement
        <5>2. CASE i # 1
          <6>1. i - 1 \in 1 .. Len(s)
            BY <1>1, <5>2
          <6>2. g[i - 1] = BytesOf(s, n, i - 1)
            BY <6>1
          <6> QED BY <5>2, <6>2, NextElement
        <5> QED BY <5>1, <5>2
      <4> QED BY <4>1 DEF IsFlattening
    <3>2. IsFlattening(f, s)
      <4> HIDE DEF g
      <4> QED BY <3>1
    <3> DEFINE bad == {i \in 1 .. Len(s) : f[i] # g[i]}
    <3>3. bad = {}
      <4> SUFFICES ASSUME bad # {} PROVE FALSE
        OBVIOUS
      <4>1. PICK i \in bad : \A j \in bad : i <= j
        <5>1. bad \in SUBSET Nat
          BY <1>1
        <5> HIDE DEF bad
        <5> QED BY <5>1, NatHasLeast
      <4>2. i \in 1 .. Len(s) /\ f[i] # g[i] /\ i \in Nat
        BY <1>1
      <4>3. i - 1 \notin bad
        BY <4>1, <4>2
      <4> HIDE DEF f, g
      <4>4. f[i] = IF i = 1 THEN s[i] ELSE f[i - 1] \o s[i]
        BY <3>2, <4>2 DEF IsFlattening
      <4>5. g[i] = IF i = 1 THEN s[i] ELSE g[i - 1] \o s[i]
        BY <3>1, <4>2 DEF IsFlattening
      <4>6. i # 1 => f[i - 1] = g[i - 1]
        BY <1>1, <4>2, <4>3
      <4> QED BY <4>2, <4>4, <4>5, <4>6
    <3>4. f[Len(s)] = BytesOf(s, n, Len(s))
      <4>1. Len(s) \in 1 .. Len(s) /\ Len(s) \notin bad
        <5> HIDE DEF bad
        <5> QED BY <1>1, <2>2, <3>3
      <4>2. f[Len(s)] = g[Len(s)]
        <5> HIDE DEF f, g
        <5> QED BY <4>1
      <4>3. g[Len(s)] = BytesOf(s, n, Len(s))
        BY <4>1
      <4> QED BY <4>2, <4>3
    <3> QED BY <2>2, <3>4, FlattenIs
  <2> QED BY <2>1, <2>2
<1>3. FlattenSeq(s) \in Seq(Nat) /\ Len(FlattenSeq(s)) = Len(s) * n /\ Len(s) * n \in Nat
  BY <1>1, <1>2, BytesOfIs
<1>4. Spells(FlattenSeq(s), s, n)
  <2>1. \A i \in 1 .. Len(s) : \A j \in 1 .. n :
            BytesOf(s, n, Len(s))[(i - 1) * n + j] = s[i][j]
    BY <1>1, BytesOfIs
  <2> QED BY <1>2, <1>3, <2>1 DEF Spells
<1> QED BY <1>2, <1>3, <1>4

\* The bytes of elements are a prefix of what begins with them.
LEMMA SpelledPrefix ==
  ASSUME NEW n \in Sizes, NEW s \in ElementSeq(n), NEW bytes \in Seq(Nat), Spells(bytes, s, n)
  PROVE  IsPrefix(FlattenSeq(s), bytes)
<1> DEFINE f == FlattenSeq(s)
<1>1. f \in Seq(Nat) /\ Len(f) = Len(s) * n /\ Len(f) <= Len(bytes) /\ Spells(f, s, n)
  BY Flattened DEF Spells
<1>2. Len(f) \in Nat /\ Len(bytes) \in Nat /\ Len(s) \in Nat /\ n \in Nat
  BY <1>1 DEF ElementSeq, Sizes
<1> HIDE DEF f
<1>3. ASSUME NEW k \in 1 .. Len(f) PROVE f[k] = bytes[k]
  <2> DEFINE i == ((k - 1) \div n) + 1
             j == ((k - 1) % n) + 1
  <2>1. i \in Nat \ {0} /\ j \in 1 .. n /\ k = (i - 1) * n + j /\ i <= Len(s)
    BY <1>1, <1>2, Position
  <2>2. i \in 1 .. Len(s)
    BY <1>2, <2>1
  <2> HIDE DEF i, j
  <2>3. f[(i - 1) * n + j] = s[i][j] /\ bytes[(i - 1) * n + j] = s[i][j]
    BY <1>1, <2>1, <2>2 DEF Spells
  <2> QED BY <2>1, <2>3
<1>4. SubSeq(f, 1, Len(f)) = SubSeq(bytes, 1, Len(f))
  BY <1>1, <1>2, <1>3
<1> QED BY <1>1, <1>4 DEF IsPrefix, f

LEMMA SpellsMore ==
  ASSUME NEW n \in Sizes, NEW s \in ElementSeq(n), NEW bytes \in Seq(Nat), NEW more \in Seq(Nat),
         Spells(bytes, s, n)
  PROVE  Spells(bytes \o more, s, n)
<1>1. /\ Len(bytes \o more) = Len(bytes) + Len(more)
      /\ Len(bytes) \in Nat /\ Len(more) \in Nat /\ Len(s) \in Nat /\ n \in Nat /\ Len(s) * n \in Nat
      /\ \A k \in 1 .. Len(bytes) : (bytes \o more)[k] = bytes[k]
  BY ConcatProperties DEF ElementSeq, Sizes
<1>2. ASSUME NEW i \in 1 .. Len(s), NEW j \in 1 .. n
      PROVE  (i - 1) * n + j \in 1 .. Len(bytes)
  <2>1. i \in Nat \ {0} /\ (i - 1) * n + j \in Nat \ {0} /\ (i - 1) * n + j <= Len(s) * n
    <3>1. i \in Nat \ {0} /\ Len(s) \in Nat /\ i <= Len(s)
      BY <1>1
    <3>2. /\ (i - 1) * n + j \in Nat \ {0}
          /\ \A m \in Nat : i <= m => (i - 1) * n + j <= m * n
      BY <3>1, PositionOf
    <3> QED BY <3>1, <3>2
  <2>2. Len(s) * n <= Len(bytes)
    BY DEF Spells
  <2> QED BY <1>1, <2>1, <2>2
<1>3. Len(s) * n <= Len(bytes \o more)
  BY <1>1 DEF Spells
<1>4. \A i \in 1 .. Len(s) : \A j \in 1 .. n : (bytes \o more)[(i - 1) * n + j] = s[i][j]
  BY <1>1, <1>2 DEF Spells
<1> QED BY <1>3, <1>4 DEF Spells

LEMMA SpellsCut ==
  ASSUME NEW n \in Sizes, NEW s \in ElementSeq(n), NEW bytes \in Seq(Nat), Spells(bytes, s, n),
         NEW m \in Nat, Len(s) <= m, m * n <= Len(bytes)
  PROVE  Spells(SubSeq(bytes, 1, m * n), s, n)
<1> DEFINE cut == SubSeq(bytes, 1, m * n)
<1>1. Len(s) \in Nat /\ n \in Nat /\ Len(s) * n \in Nat /\ m * n \in Nat /\ Len(s) * n <= m * n
  BY DEF ElementSeq, Sizes
<1>2. Len(cut) = m * n /\ \A k \in 1 .. m * n : cut[k] = bytes[k]
  BY <1>1
<1> HIDE DEF cut
<1>3. ASSUME NEW i \in 1 .. Len(s), NEW j \in 1 .. n
      PROVE  cut[(i - 1) * n + j] = s[i][j]
  <2>1. (i - 1) * n + j \in Nat \ {0} /\ (i - 1) * n + j <= m * n
    <3>1. i \in Nat \ {0} /\ i <= m
      BY <1>1
    <3> QED BY <3>1, PositionOf
  <2>2. (i - 1) * n + j \in 1 .. m * n
    BY <1>1, <2>1
  <2>3. bytes[(i - 1) * n + j] = s[i][j]
    BY DEF Spells
  <2> QED BY <1>2, <2>2, <2>3
<1>4. Spells(cut, s, n)
  BY <1>1, <1>2, <1>3 DEF Spells
<1> QED BY <1>4 DEF cut

\* Cutting bytes into elements.
LEMMA Chunked ==
  ASSUME NEW n \in Sizes, NEW bytes \in Seq(Nat)
  PROVE  /\ Chunks(bytes, n) \in ElementSeq(n) /\ Len(Chunks(bytes, n)) = Len(bytes) \div n
         /\ Len(bytes) \div n \in Nat /\ (Len(bytes) \div n) * n <= Len(bytes)
         /\ \A m \in Nat : m * n <= Len(bytes) <=> m <= Len(bytes) \div n
         /\ Spells(bytes, Chunks(bytes, n), n)
<1>1. Len(bytes) \in Nat /\ n \in Nat
  BY DEF Sizes
<1>2. /\ Len(bytes) \div n \in Nat /\ (Len(bytes) \div n) * n <= Len(bytes)
      /\ \A m \in Nat : m * n <= Len(bytes) <=> m <= Len(bytes) \div n
  BY <1>1 DEF Sizes
<1> DEFINE count == Len(bytes) \div n
<1>3. ASSUME NEW i \in 1 .. count
      PROVE  /\ SubSeq(bytes, (i - 1) * n + 1, i * n) \in [1 .. n -> Nat]
             /\ \A j \in 1 .. n : SubSeq(bytes, (i - 1) * n + 1, i * n)[j] = bytes[(i - 1) * n + j]
  <2> DEFINE p == (i - 1) * n
  <2>1. i * n = p + n /\ p \in Nat /\ i * n <= Len(bytes) /\ i * n \in Nat
    <3>1. i \in Nat /\ i <= count
      BY <1>2
    <3>2. i * n <= Len(bytes)
      BY <1>2, <3>1
    <3> QED BY <3>1, <3>2 DEF Sizes
  <2> HIDE DEF p
  <2>2. \A j \in 1 .. n : bytes[p + j] \in Nat
    BY <1>1, <2>1
  <2>3. SubSeq(bytes, p + 1, p + n) = [j \in 1 .. n |-> bytes[p + j]]
    BY <1>1, <2>1
  <2> QED BY <2>1, <2>2, <2>3 DEF p
<1>4. Chunks(bytes, n) = [i \in 1 .. count |-> SubSeq(bytes, (i - 1) * n + 1, i * n)]
  BY DEF Chunks
<1> HIDE DEF count
<1>5. Chunks(bytes, n) \in ElementSeq(n) /\ Len(Chunks(bytes, n)) = count
  <2>1. count \in Nat
    BY <1>2 DEF count
  <2>2. \A i \in 1 .. count : SubSeq(bytes, (i - 1) * n + 1, i * n) \in [1 .. n -> Nat]
    BY <1>3
  <2>3. Chunks(bytes, n) \in [1 .. count -> [1 .. n -> Nat]]
    BY <1>4, <2>2
  <2> QED BY <2>1, <2>3 DEF ElementSeq
<1>6. \A i \in 1 .. count : \A j \in 1 .. n : Chunks(bytes, n)[i][j] = bytes[(i - 1) * n + j]
  BY <1>3, <1>4
<1>7. Spells(bytes, Chunks(bytes, n), n)
  BY <1>2, <1>5, <1>6 DEF Spells, count
<1> QED BY <1>2, <1>5, <1>7 DEF count

\* What the bytes begin with is what they are cut into.
LEMMA SpelledChunks ==
  ASSUME NEW n \in Sizes, NEW s \in ElementSeq(n), NEW bytes \in Seq(Nat), Spells(bytes, s, n)
  PROVE  /\ Len(s) <= Len(Chunks(bytes, n))
         /\ \A i \in 1 .. Len(s) : Chunks(bytes, n)[i] = s[i]
<1> DEFINE c == Chunks(bytes, n)
<1>1. Len(s) \in Nat /\ Len(s) * n <= Len(bytes)
  BY DEF ElementSeq, Spells
<1>2. c \in ElementSeq(n) /\ Len(s) <= Len(c) /\ Spells(bytes, c, n) /\ Len(c) \in Nat
  BY <1>1, Chunked
<1> HIDE DEF c
<1>3. ASSUME NEW i \in 1 .. Len(s) PROVE c[i] = s[i]
  <2>1. i \in 1 .. Len(c)
    BY <1>1, <1>2
  <2>2. c[i] \in [1 .. n -> Nat] /\ s[i] \in [1 .. n -> Nat]
    BY <1>2, <2>1 DEF ElementSeq
  <2>3. \A j \in 1 .. n : c[i][j] = s[i][j]
    BY <1>2, <2>1 DEF Spells
  <2>4. c[i] = [j \in 1 .. n |-> c[i][j]] /\ s[i] = [j \in 1 .. n |-> s[i][j]]
    BY <2>2
  <2> QED BY <2>3, <2>4
<1> QED BY <1>2, <1>3 DEF c

\* Bytes one by one.
Singles(bytes) == [i \in DOMAIN bytes |-> <<bytes[i]>>]

LEMMA SingleBytes ==
  ASSUME NEW bytes \in Seq(Nat)
  PROVE  /\ Singles(bytes) \in ElementSeq(1) /\ Len(Singles(bytes)) = Len(bytes)
         /\ FlattenSeq(Singles(bytes)) = bytes
<1> DEFINE s == Singles(bytes)
<1>1. Len(bytes) \in Nat /\ DOMAIN bytes = 1 .. Len(bytes)
  OBVIOUS
<1>2. \A b \in Nat : <<b>> \in [1 .. 1 -> Nat] /\ <<b>>[1] = b
  OBVIOUS
<1>3. s \in [1 .. Len(bytes) -> [1 .. 1 -> Nat]]
  <2>1. \A i \in 1 .. Len(bytes) : bytes[i] \in Nat
    OBVIOUS
  <2> QED BY <1>1, <1>2, <2>1 DEF Singles
<1>4. s \in ElementSeq(1) /\ Len(s) = Len(bytes)
  BY <1>1, <1>3 DEF ElementSeq
<1>5. \A i \in 1 .. Len(bytes) : s[i][1] = bytes[i]
  BY <1>1, <1>2 DEF Singles
<1> HIDE DEF s
<1>6. /\ FlattenSeq(s) \in Seq(Nat) /\ Len(FlattenSeq(s)) = Len(s) * 1 /\ Spells(FlattenSeq(s), s, 1)
  BY <1>4, Flattened DEF Sizes
<1>7. \A i \in 1 .. Len(bytes) : FlattenSeq(s)[(i - 1) * 1 + 1] = s[i][1]
  BY <1>4, <1>6 DEF Spells
<1>8. FlattenSeq(s) = bytes
  <2>1. Len(FlattenSeq(s)) = Len(bytes)
    <3>1. \A k \in Nat : k * 1 = k
      OBVIOUS
    <3> QED BY <1>1, <1>4, <1>6, <3>1
  <2>2. \A i \in 1 .. Len(bytes) : FlattenSeq(s)[i] = bytes[i]
    BY <1>1, <1>5, <1>7
  <2> QED BY <1>6, <2>1, <2>2, SeqEqual
<1> QED BY <1>4, <1>8 DEF s

-----------------------------------------------------------------------------
(* Byte orders.                                                            *)

LEMMA Turned ==
  ASSUME NEW n \in Sizes, NEW e \in [1 .. n -> Nat]
  PROVE  /\ Reverse(e) \in [1 .. n -> Nat]
         /\ Reverse(Reverse(e)) = e
         /\ n = 1 => Reverse(e) = e
<1>1. n \in Nat /\ e \in Seq(Nat) /\ Len(e) = n
  BY DEF Sizes
<1>2. Reverse(e) = [i \in 1 .. n |-> e[n - i + 1]]
  BY <1>1 DEF Reverse
<1>3. \A i \in 1 .. n : n - i + 1 \in 1 .. n /\ n - (n - i + 1) + 1 = i
  BY <1>1
<1>4. Reverse(e) \in [1 .. n -> Nat]
  BY <1>2, <1>3
<1>5. Reverse(e) \in Seq(Nat) /\ Len(Reverse(e)) = n
  BY <1>1, <1>4
<1>6. Reverse(Reverse(e)) = [i \in 1 .. n |-> Reverse(e)[n - i + 1]]
  BY <1>5 DEF Reverse
<1>7. Reverse(Reverse(e)) = e
  BY <1>2, <1>3, <1>6
<1>8. n = 1 => Reverse(e) = e
  BY <1>2, <1>3
<1> QED BY <1>4, <1>7, <1>8

LEMMA OrderedTwice ==
  ASSUME NEW n \in Sizes, NEW e \in [1 .. n -> Nat], NEW ch, ch.little \in BOOLEAN
  PROVE  /\ Ordered(ch, e) \in [1 .. n -> Nat]
         /\ Ordered(ch, Ordered(ch, e)) = e
         /\ ch.little \/ n = 1 => Ordered(ch, e) = e
         /\ ~ch.little => Ordered(ch, e) = Reverse(e)
<1>1. CASE ch.little = TRUE
  BY <1>1, Zenon DEF Ordered
<1>2. CASE ch.little = FALSE
  <2>1. \A x : Ordered(ch, x) = Reverse(x)
    BY <1>2, Zenon DEF Ordered
  <2> QED BY <1>2, <2>1, Turned
<1> QED BY <1>1, <1>2

-----------------------------------------------------------------------------
(* Sizes.                                                                  *)

LEMMA SizeOf ==
  ASSUME NEW kind \in DOMAIN ElementSizes
  PROVE  /\ ElementSize(kind) \in Sizes /\ ElementSize(kind) \in Nat
         /\ kind \in {"bool", "string"} => ElementSize(kind) = 1
BY DEF ElementSize, ElementSizes, Sizes

LEMMA Lz4LimitIs == Lz4Limit \in Nat /\ \A n \in Sizes : 1 * n < Lz4Limit
BY SMT DEF Lz4Limit, Sizes

\* The number of elements, as FoldLeft multiplies the dimensions.
Rightmost(T) == CHOOSE x \in T : \A y \in T : x >= y

IsProduct(g, shape, S) ==
    g = [T \in SUBSET S |->
            IF T = {} THEN 1 ELSE g[T \ {Rightmost(T)}] * shape[Rightmost(T)]]

LEMMA ElementsIs ==
  ASSUME NEW shape
  PROVE  Elements(shape) = (CHOOSE g : IsProduct(g, shape, DOMAIN shape))[DOMAIN shape]
BY DEF Elements, FoldLeft, MapThenFoldSet, IsProduct, Rightmost, Max

LEMMA RightmostIs ==
  ASSUME NEW n \in Nat, NEW T \in SUBSET (1 .. n), T # {}
  PROVE  /\ Rightmost(T) \in T
         /\ n \in T => Rightmost(T) = n
<1> DEFINE far == {n - x : x \in T}
<1>1. far \in SUBSET Nat /\ far # {}
  <2>1. \A x \in T : n - x \in Nat
    OBVIOUS
  <2> QED BY <2>1
<1>2. PICK d \in far : \A y \in far : d <= y
  <2> HIDE DEF far
  <2> QED BY <1>1, NatHasLeast
<1>3. PICK x \in T : d = n - x
  BY <1>2
<1>4. ASSUME NEW y \in T PROVE x >= y
  <2>1. n - x <= n - y
    BY <1>2, <1>3
  <2>2. x \in Nat /\ y \in Nat
    OBVIOUS
  <2> QED BY <2>1, <2>2
<1>5. Rightmost(T) \in T /\ \A y \in T : Rightmost(T) >= y
  BY <1>4 DEF Rightmost
<1>6. n \in T => Rightmost(T) = n
  <2>1. Rightmost(T) \in 1 .. n
    BY <1>5
  <2> QED BY <1>5, <2>1
<1> QED BY <1>5, <1>6

\* The product of the first n dimensions exists for every n.
LEMMA ProductExists ==
  ASSUME NEW shape, NEW m \in Nat
  PROVE  \E g : IsProduct(g, shape, 1 .. m)
<1> DEFINE bad == {n \in Nat : ~\E g : IsProduct(g, shape, 1 .. n)}
<1> SUFFICES ASSUME bad # {} PROVE FALSE
  OBVIOUS
<1>1. PICK n \in bad : \A k \in bad : n <= k
  <2>1. bad \in SUBSET Nat
    OBVIOUS
  <2> HIDE DEF bad
  <2> QED BY <2>1, NatHasLeast
<1>2. n \in Nat /\ ~\E g : IsProduct(g, shape, 1 .. n)
  OBVIOUS
<1>3. CASE n = 0
  <2> DEFINE g == [T \in SUBSET {} |-> 1]
  <2>1. 1 .. n = {}
    BY <1>3
  <2>2. \A T \in SUBSET {} : T = {}
    OBVIOUS
  <2>3. IsProduct(g, shape, 1 .. n)
    BY <2>1, <2>2 DEF IsProduct
  <2> HIDE DEF g
  <2> QED BY <1>2, <2>3
<1>4. CASE n # 0
  <2>1. n - 1 \in Nat /\ n - 1 \notin bad
    BY <1>1, <1>2, <1>4
  <2>2. PICK h : IsProduct(h, shape, 1 .. n - 1)
    BY <2>1
  <2> DEFINE g == [T \in SUBSET (1 .. n) |->
                      IF n \in T THEN h[T \ {n}] * shape[n] ELSE h[T]]
  <2>3. ASSUME NEW T \in SUBSET (1 .. n)
        PROVE  g[T] = IF T = {} THEN 1 ELSE g[T \ {Rightmost(T)}] * shape[Rightmost(T)]
    <3>1. g[T] = IF n \in T THEN h[T \ {n}] * shape[n] ELSE h[T]
      OBVIOUS
    <3>2. ASSUME n \in T PROVE Rightmost(T) = n /\ g[T \ {n}] = h[T \ {n}]
      <4>1. Rightmost(T) = n
        BY <1>2, <3>2, RightmostIs
      <4>2. T \ {n} \in SUBSET (1 .. n) /\ n \notin T \ {n}
        OBVIOUS
      <4> QED BY <4>1, <4>2
    <3>3. CASE n \in T
      BY <3>1, <3>2, <3>3
    <3>4. CASE n \notin T
      <4>1. T \in SUBSET (1 .. n - 1)
        BY <1>2, <3>4
      <4>2. h[T] = IF T = {} THEN 1 ELSE h[T \ {Rightmost(T)}] * shape[Rightmost(T)]
        BY <2>2, <4>1 DEF IsProduct
      <4>3. T \ {Rightmost(T)} \in SUBSET (1 .. n) /\ n \notin T \ {Rightmost(T)}
        BY <3>4
      <4>4. g[T \ {Rightmost(T)}] = h[T \ {Rightmost(T)}]
        BY <4>3
      <4> HIDE DEF g
      <4> QED BY <3>1, <3>4, <4>2, <4>4
    <3> QED BY <3>3, <3>4
  <2>4. g = [T \in SUBSET (1 .. n) |-> g[T]]
    OBVIOUS
  <2> HIDE DEF g
  <2>5. IsProduct(g, shape, 1 .. n)
    BY <2>3, <2>4 DEF IsProduct
  <2> QED BY <1>2, <2>5
<1> QED BY <1>3, <1>4

\* There is at least one element, one only without dimensions or with one of 1,
\* and at least as many as the first dimension says.
LEMMA ElementsOfShape ==
  ASSUME NEW shape \in Seq(Nat \ {0})
  PROVE  /\ Elements(shape) \in Nat \ {0}
         /\ shape \in {<<>>, <<1>>} => Elements(shape) = 1
         /\ shape # <<>> => Elements(shape) >= shape[1]
<1> DEFINE g == CHOOSE f : IsProduct(f, shape, 1 .. Len(shape))
           prefix(n) == 1 .. n
<1>1. Len(shape) \in Nat /\ DOMAIN shape = 1 .. Len(shape)
  OBVIOUS
<1>2. Elements(shape) = g[prefix(Len(shape))]
  BY <1>1, ElementsIs
<1>3. IsProduct(g, shape, 1 .. Len(shape))
  BY <1>1, ProductExists
<1> HIDE DEF g
<1>4. ASSUME NEW n \in 0 .. Len(shape)
      PROVE  g[prefix(n)] = IF n = 0 THEN 1 ELSE g[prefix(n - 1)] * shape[n]
  <2>1. n \in Nat /\ prefix(n) \in SUBSET (1 .. Len(shape))
    BY <1>1
  <2>2. g[prefix(n)] = IF prefix(n) = {} THEN 1
                       ELSE g[prefix(n) \ {Rightmost(prefix(n))}] * shape[Rightmost(prefix(n))]
    <3> HIDE DEF prefix
    <3> QED BY <1>3, <2>1 DEF IsProduct
  <2>3. CASE n = 0
    <3>1. prefix(n) = {}
      BY <2>3
    <3> HIDE DEF prefix
    <3> QED BY <2>2, <2>3, <3>1
  <2>4. CASE n # 0
    <3>1. prefix(n) # {} /\ n \in prefix(n)
      BY <2>1, <2>4
    <3>2. Rightmost(prefix(n)) = n
      BY <2>1, <3>1, RightmostIs
    <3>3. prefix(n) \ {n} = prefix(n - 1)
      BY <2>1, <2>4
    <3> HIDE DEF prefix
    <3> QED BY <2>2, <2>4, <3>1, <3>2, <3>3
  <2> QED BY <2>3, <2>4
<1> HIDE DEF prefix
<1> DEFINE bad == {n \in 0 .. Len(shape) : g[prefix(n)] \notin Nat \ {0}}
<1>5. bad = {}
  <2> SUFFICES ASSUME bad # {} PROVE FALSE
    OBVIOUS
  <2>1. PICK n \in bad : \A k \in bad : n <= k
    <3>1. bad \in SUBSET Nat
      BY <1>1
    <3> HIDE DEF bad
    <3> QED BY <3>1, NatHasLeast
  <2>2. n \in 0 .. Len(shape) /\ g[prefix(n)] \notin Nat \ {0} /\ n \in Nat
    BY <1>1
  <2>3. n # 0
    BY <1>4, <2>2
  <2>4. n - 1 \notin bad /\ n - 1 \in 0 .. Len(shape)
    BY <1>1, <2>1, <2>2, <2>3
  <2>5. g[prefix(n - 1)] \in Nat \ {0} /\ shape[n] \in Nat \ {0}
    BY <1>1, <2>2, <2>3, <2>4
  <2>6. \A x, y \in Nat \ {0} : x * y \in Nat \ {0}
    OBVIOUS
  <2> QED BY <1>4, <2>2, <2>3, <2>5, <2>6
<1>6. Elements(shape) \in Nat \ {0}
  <2>1. Len(shape) \in 0 .. Len(shape)
    BY <1>1
  <2> QED BY <1>2, <1>5, <2>1
<1>7. shape = <<>> => Elements(shape) = 1
  <2>1. shape = <<>> => Len(shape) = 0 /\ 0 \in 0 .. Len(shape)
    OBVIOUS
  <2> QED BY <1>2, <1>4, <2>1
<1>8. shape = <<1>> => Elements(shape) = 1
  <2> HAVE shape = <<1>>
  <2>1. Len(shape) = 1 /\ shape[1] = 1 /\ 0 \in 0 .. Len(shape) /\ 1 \in 0 .. Len(shape)
    OBVIOUS
  <2>2. g[prefix(0)] = 1
    BY <1>4, <2>1
  <2>3. g[prefix(1)] = g[prefix(1 - 1)] * shape[1]
    BY <1>4, <2>1
  <2>4. 1 - 1 = 0 /\ 1 * 1 = 1
    OBVIOUS
  <2> QED BY <1>2, <2>1, <2>2, <2>3, <2>4
<1> DEFINE small == {n \in 1 .. Len(shape) : ~(g[prefix(n)] >= shape[1])}
<1>9. small = {}
  <2> SUFFICES ASSUME small # {} PROVE FALSE
    OBVIOUS
  <2>1. PICK n \in small : \A k \in small : n <= k
    <3>1. small \in SUBSET Nat
      BY <1>1
    <3> HIDE DEF small
    <3> QED BY <3>1, NatHasLeast
  <2>2. n \in 1 .. Len(shape) /\ ~(g[prefix(n)] >= shape[1]) /\ n \in Nat
    BY <1>1
  <2>3. n # 0 /\ n \in 0 .. Len(shape) /\ 0 \in 0 .. Len(shape) /\ 1 \in 1 .. Len(shape)
    BY <1>1, <2>2
  <2>4. shape[n] \in Nat \ {0} /\ shape[1] \in Nat \ {0}
    BY <1>1, <2>2, <2>3
  <2>5. n # 1
    <3> SUFFICES ASSUME n = 1 PROVE FALSE
      OBVIOUS
    <3>1. g[prefix(0)] = 1 /\ 1 - 1 = 0
      BY <1>4, <2>3
    <3>2. g[prefix(1)] = 1 * shape[1]
      BY <1>4, <2>3, <3>1
    <3> QED BY <2>2, <2>4, <3>2
  <2>6. n - 1 \in 1 .. Len(shape) /\ n - 1 \in 0 .. Len(shape) /\ ~(n <= n - 1)
    BY <1>1, <2>2, <2>5
  <2>7. g[prefix(n - 1)] >= shape[1]
    <3>1. n - 1 \notin small
      BY <2>1, <2>6
    <3> QED BY <2>6, <3>1
  <2>8. g[prefix(n - 1)] \in Nat \ {0}
    BY <1>5, <2>6
  <2>9. \A x, y, z \in Nat \ {0} : x >= z => x * y >= z
    OBVIOUS
  <2>10. g[prefix(n)] = g[prefix(n - 1)] * shape[n]
    BY <1>4, <2>3
  <2> HIDE DEF small, prefix
  <2> QED BY <2>2, <2>4, <2>7, <2>8, <2>9, <2>10
<1>10. shape # <<>> => Elements(shape) >= shape[1]
  <2> HAVE shape # <<>>
  <2>1. Len(shape) \in 1 .. Len(shape)
    BY <1>1
  <2>2. Len(shape) \notin small
    BY <1>9
  <2> HIDE DEF prefix
  <2> QED BY <1>2, <2>1, <2>2
<1> QED BY <1>6, <1>7, <1>8, <1>10

-----------------------------------------------------------------------------
(* Strings and buffers.                                                    *)

IsText(r, bytes) ==
    /\ r \in ElementSeq(1) /\ Len(r) <= Len(bytes)
    /\ \A i \in 1 .. Len(r) : r[i] = <<bytes[i]>> /\ bytes[i] # 0
    /\ Len(r) < Len(bytes) => bytes[Len(r) + 1] = 0

\* A string ends before its first NUL.
LEMMA StringIsText ==
  ASSUME NEW bytes \in Seq(Nat)
  PROVE  IsText(ReadString(bytes), bytes)
<1> DEFINE nuls == {i \in DOMAIN bytes : bytes[i] = 0}
           first == CHOOSE i \in nuls : \A j \in nuls : i <= j
           n == IF nuls = {} THEN Len(bytes) ELSE first - 1
           r == [i \in 1 .. n |-> <<bytes[i]>>]
<1>1. ReadString(bytes) = r
  BY DEF ReadString
<1>2. /\ DOMAIN bytes = 1 .. Len(bytes) /\ Len(bytes) \in Nat
      /\ \A i \in 1 .. Len(bytes) : bytes[i] \in Nat
  OBVIOUS
<1>3. nuls # {} => first \in nuls /\ \A j \in nuls : first <= j
  <2>1. nuls \in SUBSET Nat
    BY <1>2
  <2> HIDE DEF nuls
  <2>2. nuls # {} => \E i \in nuls : \A j \in nuls : i <= j
    BY <2>1, NatHasLeast
  <2> QED BY <2>2
<1> HIDE DEF first
<1>4. /\ n \in 0 .. Len(bytes)
      /\ \A i \in 1 .. n : bytes[i] # 0
      /\ n < Len(bytes) => bytes[n + 1] = 0
  <2>1. CASE nuls = {}
    BY <1>2, <2>1
  <2>2. CASE nuls # {}
    <3>1. first \in 1 .. Len(bytes) /\ bytes[first] = 0 /\ \A j \in nuls : first <= j
      BY <1>2, <1>3, <2>2
    <3>2. n = first - 1
      BY <2>2
    <3>3. \A i \in 1 .. n : bytes[i] # 0
      <4> SUFFICES ASSUME NEW i \in 1 .. n, bytes[i] = 0 PROVE FALSE
        OBVIOUS
      <4>1. i \in nuls
        BY <1>2, <3>1, <3>2
      <4> QED BY <3>1, <3>2, <4>1
    <3> QED BY <1>2, <3>1, <3>2, <3>3
  <2> QED BY <2>1, <2>2
<1> HIDE DEF n
<1>5. \A b \in Nat : <<b>> \in [1 .. 1 -> Nat]
  OBVIOUS
<1>6. r \in [1 .. n -> [1 .. 1 -> Nat]] /\ n \in Nat
  BY <1>2, <1>4, <1>5
<1>7. r \in ElementSeq(1) /\ Len(r) = n
  BY <1>6 DEF ElementSeq
<1>8. \A i \in 1 .. n : r[i] = <<bytes[i]>>
  OBVIOUS
<1> HIDE DEF r
<1> QED BY <1>1, <1>4, <1>7, <1>8 DEF IsText

LEMMA TextIsUnique ==
  ASSUME NEW bytes \in Seq(Nat), NEW r, NEW t, IsText(r, bytes), IsText(t, bytes)
  PROVE  r = t
<1>1. /\ Len(r) \in Nat /\ Len(t) \in Nat /\ Len(bytes) \in Nat
      /\ Len(r) <= Len(bytes) /\ Len(t) <= Len(bytes)
  BY DEF IsText, ElementSeq
<1>2. Len(r) = Len(t)
  BY <1>1 DEF IsText
<1>3. \A i \in 1 .. Len(r) : r[i] = t[i]
  BY <1>2 DEF IsText
<1>4. r \in Seq([1 .. 1 -> Nat]) /\ t \in Seq([1 .. 1 -> Nat])
  BY DEF IsText, ElementSeq
<1> QED BY <1>2, <1>3, <1>4, SeqEqual

\* NULs behind a string change nothing, and neither does leaving out what is
\* behind its first NUL.
LEMMA StringPadded ==
  ASSUME NEW bytes \in Seq(Nat), NEW zeros \in Seq(Nat), \A i \in 1 .. Len(zeros) : zeros[i] = 0
  PROVE  ReadString(bytes \o zeros) = ReadString(bytes)
<1> DEFINE r == ReadString(bytes)
           all == bytes \o zeros
<1>1. IsText(r, bytes)
  BY StringIsText
<1>2. /\ all \in Seq(Nat) /\ Len(all) = Len(bytes) + Len(zeros)
      /\ \A i \in 1 .. Len(bytes) : all[i] = bytes[i]
      /\ \A i \in 1 .. Len(zeros) : all[Len(bytes) + i] = 0
      /\ Len(bytes) \in Nat /\ Len(zeros) \in Nat
  <2>1. /\ all \in Seq(Nat) /\ Len(all) = Len(bytes) + Len(zeros)
        /\ \A i \in 1 .. Len(bytes) + Len(zeros) :
              all[i] = IF i <= Len(bytes) THEN bytes[i] ELSE zeros[i - Len(bytes)]
        /\ Len(bytes) \in Nat /\ Len(zeros) \in Nat
    BY ConcatProperties
  <2> HIDE DEF all
  <2>2. \A i \in 1 .. Len(bytes) : all[i] = bytes[i]
    BY <2>1
  <2>3. \A i \in 1 .. Len(zeros) : all[Len(bytes) + i] = 0
    <3> TAKE i \in 1 .. Len(zeros)
    <3>1. Len(bytes) + i \in 1 .. Len(bytes) + Len(zeros) /\ ~(Len(bytes) + i <= Len(bytes))
          /\ Len(bytes) + i - Len(bytes) = i
      BY <2>1
    <3>2. all[Len(bytes) + i] = zeros[Len(bytes) + i - Len(bytes)]
      BY <2>1, <3>1
    <3> QED BY <3>1, <3>2
  <2> QED BY <2>1, <2>2, <2>3
<1> HIDE DEF r, all
<1>3. Len(r) \in Nat /\ Len(r) <= Len(bytes)
  BY <1>1 DEF IsText, ElementSeq
<1>4. Len(r) < Len(all) => all[Len(r) + 1] = 0
  <2>1. CASE Len(r) < Len(bytes)
    <3>1. Len(r) + 1 \in 1 .. Len(bytes)
      BY <1>2, <1>3, <2>1
    <3> QED BY <1>1, <1>2, <2>1, <3>1 DEF IsText
  <2>2. CASE Len(r) = Len(bytes)
    BY <1>2, <1>3, <2>2
  <2> QED BY <1>2, <1>3, <2>1, <2>2
<1>5. IsText(r, all)
  BY <1>1, <1>2, <1>3, <1>4 DEF IsText
<1> QED BY <1>2, <1>5, StringIsText, TextIsUnique DEF r, all

LEMMA StringAgain ==
  ASSUME NEW bytes \in Seq(Nat)
  PROVE  /\ ReadString(bytes) \in ElementSeq(1)
         /\ Len(ReadString(bytes)) \in Nat /\ Len(ReadString(bytes)) <= Len(bytes)
         /\ ReadString(FlattenSeq(ReadString(bytes))) = ReadString(bytes)
         /\ Spells(bytes, ReadString(bytes), 1)
<1> DEFINE r == ReadString(bytes)
<1>1. IsText(r, bytes)
  BY StringIsText
<1> HIDE DEF r
<1>2. r \in ElementSeq(1) /\ Len(r) <= Len(bytes) /\ Len(r) \in Nat /\ Len(r) * 1 = Len(r)
  BY <1>1 DEF IsText, ElementSeq
<1>3. \A i \in 1 .. Len(r) : r[i][1] = bytes[i] /\ bytes[i] # 0 /\ r[i] = <<bytes[i]>>
  BY <1>1 DEF IsText
<1>4. \A i \in 1 .. Len(r) : (i - 1) * 1 + 1 = i
  BY <1>2
<1>5. Spells(bytes, r, 1)
  <2>1. \A i \in 1 .. Len(r) : \A j \in 1 .. 1 : bytes[(i - 1) * 1 + j] = r[i][j]
    BY <1>3, <1>4
  <2> QED BY <1>2, <2>1 DEF Spells
<1> DEFINE f == FlattenSeq(r)
<1>6. f \in Seq(Nat) /\ Len(f) = Len(r) /\ Spells(f, r, 1)
  BY <1>2, Flattened DEF Sizes
<1> HIDE DEF f
<1>7. \A i \in 1 .. Len(r) : f[i] = bytes[i]
  <2>1. \A i \in 1 .. Len(r) : f[(i - 1) * 1 + 1] = r[i][1]
    BY <1>6 DEF Spells
  <2> QED BY <1>3, <1>4, <2>1
<1>8. IsText(r, f)
  BY <1>2, <1>3, <1>6, <1>7 DEF IsText
<1>9. ReadString(f) = r
  BY <1>6, <1>8, StringIsText, TextIsUnique
<1> QED BY <1>2, <1>5, <1>9 DEF r, f

\* What is written is followed by zeros up to the channel's size.
LEMMA Buffered ==
  ASSUME NEW ch, Size(ch) \in Nat, NEW bytes \in Seq(Nat)
  PROVE  \E zeros \in Seq(Nat) :
            /\ Buffer(ch, bytes) = bytes \o zeros
            /\ \A i \in 1 .. Len(zeros) : zeros[i] = 0
            /\ Buffer(ch, bytes) \in Seq(Nat)
            /\ Len(Buffer(ch, bytes)) = Len(bytes) + Len(zeros)
            /\ Len(zeros) = IF Size(ch) > Len(bytes) THEN Size(ch) - Len(bytes) ELSE 0
<1> DEFINE m == IF Size(ch) > Len(bytes) THEN Size(ch) - Len(bytes) ELSE 0
           zeros == [i \in 1 .. m |-> 0]
<1>1. m \in Nat /\ 1 .. Size(ch) - Len(bytes) = 1 .. m
  OBVIOUS
<1>2. Buffer(ch, bytes) = bytes \o zeros
  <2>1. [i \in 1 .. Size(ch) - Len(bytes) |-> 0] = zeros
    BY <1>1
  <2> QED BY <2>1 DEF Buffer
<1>3. zeros \in Seq(Nat) /\ Len(zeros) = m /\ \A i \in 1 .. Len(zeros) : zeros[i] = 0
  <2> HIDE DEF m
  <2> QED BY <1>1
<1> HIDE DEF zeros
<1>4. bytes \o zeros \in Seq(Nat) /\ Len(bytes \o zeros) = Len(bytes) + Len(zeros)
  BY <1>3, ConcatProperties
<1> QED BY <1>2, <1>3, <1>4

-----------------------------------------------------------------------------
(* Channels, as they are announced and made again.                         *)

Compressions == {"none", "lz4", "bitshuffle_lz4"}

AnyShape == Shapes \cup {<<1>>}

IsChannel(ch) ==
    /\ ch.kind \in Kinds /\ ch.shape \in AnyShape /\ ch.little \in BOOLEAN
    /\ ch.compression \in Compressions /\ ch.raw \in BOOLEAN

LEMMA ChannelIs ==
  ASSUME NEW ch, IsChannel(ch)
  PROVE  /\ ElementSize(ch.kind) \in Sizes /\ ElementSize(ch.kind) \in Nat
         /\ ch.kind \in {"bool", "string"} => ElementSize(ch.kind) = 1
         /\ ch.shape \in Seq(Nat \ {0})
         /\ Elements(ch.shape) \in Nat \ {0}
         /\ Size(ch) = Elements(ch.shape) * ElementSize(ch.kind) /\ Size(ch) \in Nat
         /\ Size(ch) < Lz4Limit
<1>1. /\ ElementSize(ch.kind) \in Sizes /\ ElementSize(ch.kind) \in Nat
      /\ ch.kind \in {"bool", "string"} => ElementSize(ch.kind) = 1
  BY KindsAssumption, SizeOf DEF IsChannel
<1>2. ch.shape \in Seq(Nat \ {0})
  <2>1. <<1>> \in Seq(Nat \ {0})
    OBVIOUS
  <2> QED BY <2>1, ShapesAssumption DEF IsChannel, AnyShape
<1>3. Elements(ch.shape) \in Nat \ {0}
  BY <1>2, ElementsOfShape
<1>4. Size(ch) = Elements(ch.shape) * ElementSize(ch.kind) /\ Size(ch) \in Nat
  BY <1>1, <1>3 DEF Size
<1>5. Elements(ch.shape) * ElementSize(ch.kind) < Lz4Limit
  <2>1. CASE ch.shape \in Shapes
    BY <2>1, SizesAssumption DEF IsChannel
  <2>2. CASE ch.shape = <<1>>
    <3>1. Elements(ch.shape) = 1
      BY <1>2, <2>2, ElementsOfShape
    <3> QED BY <1>1, <3>1, Lz4LimitIs
  <2> QED BY <2>1, <2>2 DEF IsChannel, AnyShape
<1> QED BY <1>1, <1>2, <1>3, <1>4, <1>5

\* The channel parse_channel makes of what was announced is of the same type,
\* byte order and compression, and has as many elements.
LEMMA ParsedChannel ==
  ASSUME NEW ch, IsChannel(ch), NEW raw \in BOOLEAN
  PROVE  LET new == ParseChannel(Metadata(ch), raw)
         IN  /\ IsChannel(new)
             /\ new.kind = ch.kind /\ new.little = ch.little
             /\ new.compression = ch.compression /\ new.raw = raw
             /\ IsArray(new.shape) = IsArray(ch.shape)
             /\ Elements(new.shape) = Elements(ch.shape) /\ Size(new) = Size(ch)
<1> DEFINE new == ParseChannel(Metadata(ch), raw)
<1>1. /\ new.kind = ch.kind /\ new.compression = ch.compression /\ new.raw = raw
      /\ new.shape = IF ch.shape = <<>> THEN <<1>> ELSE ch.shape
  BY DEF ParseChannel, Metadata
<1>2. new.little = ch.little
  <2>1. CASE ch.little = TRUE
    <3>1. Metadata(ch).encoding = "little"
      BY <2>1 DEF Metadata
    <3>2. new.little = ("little" \notin {">", "big"})
      BY <3>1 DEF ParseChannel
    <3> QED BY <2>1, <3>2
  <2>2. CASE ch.little = FALSE
    <3>1. Metadata(ch).encoding = "big"
      BY <2>2 DEF Metadata
    <3>2. new.little = ("big" \notin {">", "big"})
      BY <3>1 DEF ParseChannel
    <3> QED BY <2>2, <3>2
  <2> QED BY <2>1, <2>2 DEF IsChannel
<1> HIDE DEF new
<1>3. IsChannel(new)
  BY <1>1, <1>2 DEF IsChannel, AnyShape
<1>4. Elements(new.shape) = Elements(ch.shape)
  <2>1. <<>> \in Seq(Nat \ {0}) /\ <<1>> \in Seq(Nat \ {0})
    OBVIOUS
  <2> QED BY <1>1, <2>1, ElementsOfShape
<1>5. IsArray(new.shape) = IsArray(ch.shape)
  <2>1. ~IsArray(<<>>) /\ ~IsArray(<<1>>)
    BY DEF IsArray
  <2>2. CASE ch.shape = <<>>
    <3>1. IsArray(new.shape) = IsArray(<<1>>) /\ IsArray(ch.shape) = IsArray(<<>>)
      BY <1>1, <2>2
    <3> QED BY <2>1, <3>1 DEF IsArray
  <2>3. CASE ch.shape # <<>>
    BY <1>1, <2>3
  <2> QED BY <2>2, <2>3
<1>6. Size(new) = Size(ch)
  BY <1>1, <1>4 DEF Size
<1> QED BY <1>1, <1>2, <1>3, <1>4, <1>5, <1>6 DEF new

-----------------------------------------------------------------------------
(* Compression frames.                                                     *)

LEMMA LengthFits ==
  ASSUME NEW bytes \in Seq(Nat), Len(bytes) < Lz4Limit
  PROVE  /\ LengthBytes(Len(bytes)) \in [1 .. 4 -> Nat]
         /\ Lz4Fits(LengthBytes(Len(bytes)), bytes)
<1> DEFINE n == Len(bytes)
           b == LengthBytes(n)
<1>1. n \in Nat
  OBVIOUS
<1>2. /\ n % 256 \in Nat /\ (n \div 256) % 256 \in Nat /\ (n \div 65536) % 256 \in Nat
      /\ n \div 16777216 \in Nat
  BY <1>1, SMT
<1>3. b = <<n % 256, (n \div 256) % 256, (n \div 65536) % 256, n \div 16777216>>
  BY SMT DEF LengthBytes
<1>4. /\ b[1] = n % 256 /\ b[2] = (n \div 256) % 256 /\ b[3] = (n \div 65536) % 256
      /\ b[4] = n \div 16777216
  BY <1>3, SMT
<1>5. b \in [1 .. 4 -> Nat]
  BY <1>2, <1>3, SMT
<1> HIDE DEF n, b
<1>6. n < Lz4Limit
  BY DEF n
<1>7. /\ n \div 16777216 < 126
      /\ n \div 16777216 > 0 \/ (n \div 65536) % 256 > 0
            \/ (n % 256) + 256 * ((n \div 256) % 256) >= n
  BY <1>1, <1>6, SMT DEF Lz4Limit
<1>8. Lz4Fits(b, bytes)
  BY <1>4, <1>7, SMT DEF Lz4Fits, n
<1> QED BY <1>5, <1>8 DEF n, b

\* What comes out of a frame made for a channel of the same type, byte order
\* and compression: all bytes, or for a bitshuffle those of all elements.
LEMMA Decompressed ==
  ASSUME NEW ch, IsChannel(ch), NEW new, IsChannel(new), new.kind = ch.kind, new.little = ch.little,
         new.compression = ch.compression, NEW bytes \in Seq(Nat), Len(bytes) < Lz4Limit
  PROVE  LET n == ElementSize(ch.kind)
         IN  /\ Decompresses(new, Data(ch, bytes))
             /\ Decompress(new, Data(ch, bytes)) \in
                   {bytes, SubSeq(bytes, 1, (Len(bytes) \div n) * n)}
<1> DEFINE n == ElementSize(ch.kind)
           count == Len(bytes) \div n
<1>1. n \in Sizes /\ ElementSize(new.kind) = n /\ Len(bytes) \in Nat
  BY ChannelIs
<1>2. CASE ch.compression = "none"
  <2>1. Data(ch, bytes) = bytes
    BY <1>2 DEF Data
  <2>2. Decompresses(new, bytes) /\ Decompress(new, bytes) = bytes
    BY <1>2 DEF Decompresses, Decompress
  <2> QED BY <2>1, <2>2
<1>3. CASE ch.compression = "lz4"
  <2> DEFINE data == [header |-> Ordered(ch, LengthBytes(Len(bytes))), blob |-> [of |-> bytes]]
  <2>1. Data(ch, bytes) = data
    BY <1>3 DEF Data, CompressLz4
  <2>2. data.header = Ordered(ch, LengthBytes(Len(bytes))) /\ data.blob.of = bytes
    OBVIOUS
  <2>3. Ordered(new, Ordered(ch, LengthBytes(Len(bytes)))) = LengthBytes(Len(bytes))
    <3>1. Ordered(new, Ordered(ch, LengthBytes(Len(bytes))))
             = Ordered(ch, Ordered(ch, LengthBytes(Len(bytes))))
      BY DEF Ordered
    <3>2. 4 \in Sizes
      BY DEF Sizes
    <3>3. LengthBytes(Len(bytes)) \in [1 .. 4 -> Nat] /\ ch.little \in BOOLEAN
      BY LengthFits DEF IsChannel
    <3>4. \A e \in [1 .. 4 -> Nat] : Ordered(ch, Ordered(ch, e)) = e
      <4>1. \A m \in Sizes : \A e \in [1 .. m -> Nat] : Ordered(ch, Ordered(ch, e)) = e
        <5> TAKE m \in Sizes
        <5> TAKE e \in [1 .. m -> Nat]
        <5> QED BY <3>3, OrderedTwice
      <4>2. PICK m \in Sizes : m = 4
        BY <3>2
      <4>3. \A e \in [1 .. m -> Nat] : Ordered(ch, Ordered(ch, e)) = e
        BY <4>1
      <4> QED BY <4>2, <4>3
    <3> QED BY <3>1, <3>3, <3>4
  <2> HIDE DEF data
  <2>4. Decompresses(new, data)
    <3>1. Decompresses(new, data) = Lz4Fits(Ordered(new, data.header), data.blob.of)
      BY <1>3 DEF Decompresses
    <3> QED BY <2>2, <2>3, <3>1, LengthFits
  <2>5. Decompress(new, data) = bytes
    BY <1>3, <2>2 DEF Decompress
  <2> QED BY <2>1, <2>4, <2>5
<1>4. CASE ch.compression = "bitshuffle_lz4"
  <2> DEFINE data == CompressBitshuffle(ch, bytes)
  <2>1. Data(ch, bytes) = data
    BY <1>4 DEF Data
  <2>2. /\ data.size = count * n /\ data.block = BlockSize(n) * n
        /\ data.blob.of = SubSeq(bytes, 1, count * n)
        /\ data.blob.size = n /\ data.blob.block = BlockSize(n)
    BY DEF CompressBitshuffle
  <2> HIDE DEF data
  <2>3. count \in Nat /\ count * n \in Nat /\ count * n <= Len(bytes)
    <3> HIDE DEF n
    <3>1. count \in Nat /\ count * n <= Len(bytes)
      BY <1>1, Chunked
    <3>2. \A x \in Nat, y \in Sizes : x * y \in Nat
      BY DEF Sizes
    <3> HIDE DEF count
    <3> QED BY <1>1, <3>1, <3>2
  <2>4. (count * n) \div n = count
    <3> HIDE DEF count, n
    <3> QED BY <1>1, <2>3 DEF Sizes
  <2>5. Len(SubSeq(bytes, 1, count * n)) = count * n
    <3> HIDE DEF count, n
    <3> QED BY <1>1, <2>3
  <2>6. BlockSize(n) \in Nat /\ (BlockSize(n) * n) \div n = BlockSize(n)
    <3> HIDE DEF n
    <3>1. BlockSize(1) = 8192 /\ BlockSize(2) = 4096 /\ BlockSize(4) = 2048 /\ BlockSize(8) = 1024
      BY DEF BlockSize
    <3> QED BY <1>1, <3>1 DEF Sizes
  <2>7. Decompresses(new, data)
    <3> HIDE DEF count, n
    <3>1. Decompresses(new, data) =
             (/\ data.size \div n = Len(data.blob.of) \div data.blob.size
              /\ n = data.blob.size
              /\ data.block \div n = data.blob.block)
      BY <1>1, <1>4 DEF Decompresses
    <3>2. data.size \div n = count
      BY <2>2, <2>4, Zenon
    <3>3. Len(data.blob.of) \div data.blob.size = count
      BY <2>2, <2>4, <2>5, Zenon
    <3>4. data.block \div n = data.blob.block /\ n = data.blob.size
      BY <2>2, <2>6, Zenon
    <3> QED BY <3>1, <3>2, <3>3, <3>4, Zenon
  <2>8. Decompress(new, data) = SubSeq(bytes, 1, count * n)
    BY <1>4, <2>2 DEF Decompress
  <2> QED BY <2>1, <2>7, <2>8
<1> QED BY <1>2, <1>3, <1>4 DEF IsChannel, Compressions

-----------------------------------------------------------------------------
(* Values.                                                                 *)

\* What a value of a type looks like that was offered or read.
IsValue(v, kind) ==
    /\ v = [kind |-> kind, array |-> v.array, elements |-> v.elements]
    /\ v.array \in BOOLEAN
    /\ v.elements \in ElementSeq(ElementSize(kind))
    /\ Len(v.elements) * ElementSize(kind) < Lz4Limit
    /\ kind = "string" => ~v.array
    /\ kind # "string" /\ ~v.array => Len(v.elements) = 1
    /\ kind = "bool" => \A i \in 1 .. Len(v.elements) : v.elements[i][1] \in {0, 1}

LEMMA OfferedIsValue ==
  ASSUME NEW kind \in Kinds, NEW v \in Values(kind)
  PROVE  IsValue(v, kind)
<1> DEFINE n == ElementSize(kind)
<1>1. n \in Sizes /\ n \in Nat /\ (kind = "bool" => n = 1)
  BY KindsAssumption, SizeOf
<1>2. \A e \in ElementsOf(kind) :
         e \in [1 .. n -> Nat] /\ (kind = "bool" => e[1] \in {0, 1})
  <2> TAKE e \in ElementsOf(kind)
  <2>1. PICK b \in (IF kind = "bool" THEN {0, 1} ELSE Bytes) : e = Element(kind, b)
    BY DEF ElementsOf
  <2>2. b \in Nat /\ (kind = "bool" => b \in {0, 1})
    BY <2>1, BytesAssumption
  <2>3. e = [i \in 1 .. n |-> (b + i - 1) % 256]
    BY <2>1 DEF Element
  <2> HIDE DEF n
  <2>4. \A i \in 1 .. n : (b + i - 1) % 256 \in Nat
    BY <1>1, <2>2
  <2>5. kind = "bool" => e[1] \in {0, 1}
    <3> SUFFICES ASSUME kind = "bool" PROVE e[1] \in {0, 1}
      OBVIOUS
    <3>1. 1 \in 1 .. n
      BY <1>1 DEF Sizes
    <3>2. e[1] = (b + 1 - 1) % 256
      BY <2>3, <3>1
    <3> QED BY <2>2, <3>2
  <2> QED BY <2>3, <2>4, <2>5
<1>3. \A m \in Lengths \cup LongLengths : m \in Nat /\ m * n < Lz4Limit
  BY LengthsAssumption, SizesAssumption
<1>4. 1 * n < Lz4Limit
  BY <1>1, Lz4LimitIs
<1> DEFINE IsList(s, m) == s \in [1 .. m -> ElementsOf(kind)] /\ m \in Nat /\ m * n < Lz4Limit
<1>5. \A s \in Lists(kind) : \E m : IsList(s, m)
  <2> TAKE s \in Lists(kind)
  <2> DEFINE short == UNION {[1 .. m -> ElementsOf(kind)] : m \in Lengths}
             long == {[i \in 1 .. m |-> e] : m \in LongLengths, e \in ElementsOf(kind)}
  <2>1. s \in short \/ s \in long
    BY DEF Lists
  <2>2. CASE s \in short
    <3>1. PICK m \in Lengths : s \in [1 .. m -> ElementsOf(kind)]
      BY <2>2
    <3> QED BY <1>3, <3>1
  <2>3. CASE s \in long
    <3>1. PICK m \in LongLengths, e \in ElementsOf(kind) : s = [i \in 1 .. m |-> e]
      BY <2>3
    <3> QED BY <1>3, <3>1
  <2> QED BY <2>1, <2>2, <2>3
<1>6. \A e \in ElementsOf(kind) : IsList(<<e>>, 1)
  BY <1>4
<1>7. /\ v = [kind |-> kind, array |-> v.array, elements |-> v.elements] /\ v.array \in BOOLEAN
      /\ kind = "string" => ~v.array
      /\ kind = "string" \/ v.array => v.elements \in Lists(kind)
      /\ kind # "string" /\ ~v.array => v.elements \in {<<e>> : e \in ElementsOf(kind)}
  BY DEF Values
<1>8. PICK m : IsList(v.elements, m) /\ (kind # "string" /\ ~v.array => m = 1)
  <2>1. CASE kind # "string" /\ ~v.array
    <3>1. PICK e \in ElementsOf(kind) : v.elements = <<e>>
      BY <1>7, <2>1
    <3>2. IsList(v.elements, 1)
      BY <1>6, <3>1
    <3> HIDE DEF IsList
    <3> QED BY <3>2
  <2>2. CASE kind = "string" \/ v.array
    <3> HIDE DEF IsList
    <3> QED BY <1>5, <1>7, <2>2
  <2> QED BY <1>7, <2>1, <2>2
<1>9. v.elements \in Seq(ElementsOf(kind)) /\ Len(v.elements) = m
  BY <1>8
<1>10. v.elements \in ElementSeq(n)
  BY <1>2, <1>8 DEF ElementSeq
<1>11. kind = "bool" => \A i \in 1 .. Len(v.elements) : v.elements[i][1] \in {0, 1}
  BY <1>2, <1>9
<1> QED BY <1>7, <1>8, <1>9, <1>10, <1>11 DEF IsValue

\* A value of bytes, as a raw reception makes.
AsBytes(bytes) == [kind |-> "uint8", array |-> TRUE, elements |-> Singles(bytes)]

\* The elements of a value as they go over the wire.
OnWire(ch, elements) == [i \in DOMAIN elements |-> Ordered(ch, elements[i])]

LEMMA OnWireIs ==
  ASSUME NEW ch, IsChannel(ch), NEW s \in ElementSeq(ElementSize(ch.kind))
  PROVE  /\ OnWire(ch, s) \in ElementSeq(ElementSize(ch.kind)) /\ Len(OnWire(ch, s)) = Len(s)
         /\ Len(s) \in Nat
         /\ \A i \in 1 .. Len(s) : /\ OnWire(ch, s)[i] = Ordered(ch, s[i])
                                   /\ s[i] \in [1 .. ElementSize(ch.kind) -> Nat]
         /\ ch.little \/ ElementSize(ch.kind) = 1 => OnWire(ch, s) = s
<1> DEFINE n == ElementSize(ch.kind)
<1>1. n \in Sizes /\ ch.little \in BOOLEAN
  BY ChannelIs DEF IsChannel
<1>2. s \in [1 .. Len(s) -> [1 .. n -> Nat]] /\ Len(s) \in Nat /\ DOMAIN s = 1 .. Len(s)
  BY DEF ElementSeq
<1>3. OnWire(ch, s) = [i \in 1 .. Len(s) |-> Ordered(ch, s[i])]
  BY <1>2 DEF OnWire
<1> HIDE DEF n
<1>4. \A i \in 1 .. Len(s) : /\ s[i] \in [1 .. n -> Nat]
                             /\ Ordered(ch, s[i]) \in [1 .. n -> Nat]
                             /\ ch.little \/ n = 1 => Ordered(ch, s[i]) = s[i]
  BY <1>1, <1>2, OrderedTwice
<1>5. OnWire(ch, s) \in [1 .. Len(s) -> [1 .. n -> Nat]]
  BY <1>3, <1>4
<1>6. OnWire(ch, s) \in ElementSeq(n) /\ Len(OnWire(ch, s)) = Len(s)
  BY <1>2, <1>5 DEF ElementSeq
<1>7. ASSUME ch.little \/ n = 1 PROVE OnWire(ch, s) = s
  BY <1>2, <1>3, <1>4, <1>7
<1> QED BY <1>2, <1>3, <1>4, <1>6, <1>7 DEF n

\* Whatever the channel writes of a value it accepts is its elements in order.
LEMMA WriteIs ==
  ASSUME NEW ch, IsChannel(ch), NEW v, IsValue(v, ch.kind), Accepts(ch, v)
  PROVE  Write(ch, v) = FlattenSeq(OnWire(ch, v.elements))
<1> DEFINE n == ElementSize(ch.kind)
           s == v.elements
<1>1. n \in Sizes /\ n \in Nat /\ s \in ElementSeq(n)
  BY ChannelIs DEF IsValue
<1>2. CASE Codec(ch) = "raw"
  <2>1. ch.little \/ n = 1
    BY <1>2 DEF Codec
  <2>2. OnWire(ch, s) = s
    BY <1>1, <2>1, OnWireIs
  <2>3. Write(ch, v) = FlattenSeq(s)
    BY <1>2 DEF Write, ToBytes
  <2> QED BY <2>2, <2>3
<1>3. CASE Codec(ch) = "swapped"
  <2> DEFINE chunks == Chunks(FlattenSeq(s), n)
  <2>1. Write(ch, v) = FlattenSeq([i \in DOMAIN chunks |-> Reverse(chunks[i])])
    BY <1>3 DEF Write, ToBytes
  <2>2. ~ch.little
    BY <1>3 DEF Codec
  <2>3. chunks = s
    <3> HIDE DEF n
    <3>1. FlattenSeq(s) \in Seq(Nat) /\ Len(FlattenSeq(s)) = Len(s) * n /\ Spells(FlattenSeq(s), s, n)
      BY <1>1, Flattened
    <3>2. /\ chunks \in ElementSeq(n) /\ Len(chunks) = Len(FlattenSeq(s)) \div n
          /\ \A i \in 1 .. Len(s) : chunks[i] = s[i]
      BY <1>1, <3>1, Chunked, SpelledChunks
    <3>3. Len(s) \in Nat /\ (Len(s) * n) \div n = Len(s)
      <4>1. Len(s) \in Nat
        BY <1>1 DEF ElementSeq
      <4>2. \A k \in Nat : (k * n) \div n = k
        BY <1>1 DEF Sizes
      <4> QED BY <4>1, <4>2
    <3> HIDE DEF chunks, s
    <3>4. chunks \in Seq([1 .. n -> Nat]) /\ s \in Seq([1 .. n -> Nat]) /\ Len(s) = Len(chunks)
      BY <1>1, <3>1, <3>2, <3>3 DEF ElementSeq
    <3> QED BY <3>2, <3>4, SeqEqual
  <2>4. [i \in DOMAIN s |-> Reverse(s[i])] = OnWire(ch, s)
    <3>1. \A x : Ordered(ch, x) = Reverse(x)
      BY <2>2 DEF Ordered
    <3> QED BY <3>1 DEF OnWire
  <2> HIDE DEF chunks
  <2> QED BY <2>1, <2>3, <2>4
<1>4. CASE Codec(ch) \notin {"raw", "swapped"}
  BY <1>4 DEF Write, OnWire
<1> QED BY <1>2, <1>3, <1>4

-----------------------------------------------------------------------------
(* What is carried of a value, and the bytes that carry it.                *)

\* The first count elements of what is to arrive, as the channel has them.
Part(ch, v, count) ==
    IF ch.kind = "string"
    THEN [kind |-> "string", array |-> FALSE, elements |-> ReadString(ToBytes(v))]
    ELSE [kind |-> ch.kind, array |-> IsArray(ch.shape),
          elements |-> [i \in 1 .. count |->
                            IF i <= Len(v.elements) THEN v.elements[i]
                            ELSE [j \in 1 .. ElementSize(ch.kind) |-> 0]]]

\* How many a receiver that is not raw reads, and what it has then.
ReadCount(ch) == IF IsArray(ch.shape) THEN Elements(ch.shape) ELSE 1

Kept(ch, v) == Part(ch, v, ReadCount(ch))

LEMMA ReadCountIs ==
  ASSUME NEW ch, IsChannel(ch)
  PROVE  /\ ReadCount(ch) \in 1 .. Elements(ch.shape) /\ Elements(ch.shape) \in 1 .. Elements(ch.shape)
         /\ ReadCount(ch) \in Nat /\ Elements(ch.shape) \in Nat
         /\ ~OneRow(ch.shape) => /\ ReadCount(ch) = Elements(ch.shape)
                                 /\ IsArray(ch.shape) = (Elements(ch.shape) > 1)
         /\ OneRow(ch.shape) => ReadCount(ch) = 1 /\ IsArray(ch.shape) = FALSE
<1>1. ch.shape \in Seq(Nat \ {0}) /\ Elements(ch.shape) \in Nat \ {0}
  BY ChannelIs
<1>2. /\ ch.shape = <<>> => Elements(ch.shape) = 1
      /\ ch.shape # <<>> => Elements(ch.shape) >= ch.shape[1] /\ ch.shape[1] \in Nat \ {0}
  BY <1>1, ElementsOfShape
<1>3. CASE IsArray(ch.shape)
  <2>1. ch.shape # <<>> /\ ch.shape[1] > 1
    BY <1>3 DEF IsArray
  <2>2. ~OneRow(ch.shape) /\ Elements(ch.shape) > 1
    BY <1>1, <1>2, <2>1 DEF OneRow
  <2>3. ReadCount(ch) = Elements(ch.shape)
    BY <1>3 DEF ReadCount
  <2>4. IsArray(ch.shape) = (Elements(ch.shape) > 1)
    BY <1>3, <2>2 DEF IsArray
  <2> QED BY <1>1, <2>2, <2>3, <2>4
<1>4. CASE ~IsArray(ch.shape)
  <2>1. ReadCount(ch) = 1
    BY <1>4 DEF ReadCount
  <2>2. ~OneRow(ch.shape) => Elements(ch.shape) = 1
    BY <1>1, <1>2, <1>4 DEF IsArray, OneRow
  <2>3. IsArray(ch.shape) = FALSE
    BY <1>4 DEF IsArray
  <2>4. ~OneRow(ch.shape) => IsArray(ch.shape) = (Elements(ch.shape) > 1)
    <3> SUFFICES ASSUME ~OneRow(ch.shape) PROVE IsArray(ch.shape) = (Elements(ch.shape) > 1)
      OBVIOUS
    <3>1. (Elements(ch.shape) > 1) = FALSE
      BY <2>2
    <3> QED BY <2>3, <3>1, Zenon
  <2> QED BY <1>1, <2>1, <2>2, <2>3, <2>4
<1> QED BY <1>3, <1>4

IsPart(ch, v, count, w) ==
    /\ w.kind = ch.kind
    /\ w = [kind |-> w.kind, array |-> w.array, elements |-> w.elements]
    /\ w.elements \in ElementSeq(ElementSize(ch.kind)) /\ Len(w.elements) \in Nat
    /\ ch.kind = "string" =>
          ~w.array /\ w.elements = ReadString(ToBytes(v)) /\ Len(w.elements) <= Len(v.elements)
    /\ ch.kind # "string" =>
          /\ w.array = IsArray(ch.shape)
          /\ Len(w.elements) = count /\ count \in Nat \ {0}
          /\ count * ElementSize(ch.kind) \in Nat /\ count * ElementSize(ch.kind) <= Size(ch)
          /\ \A i \in 1 .. count : i <= Len(v.elements) => w.elements[i] = v.elements[i]
          /\ \A i \in 1 .. count :
                i > Len(v.elements) => w.elements[i] = [j \in 1 .. ElementSize(ch.kind) |-> 0]

LEMMA PartIs ==
  ASSUME NEW ch, IsChannel(ch), NEW v, IsValue(v, ch.kind),
         NEW count \in 1 .. Elements(ch.shape)
  PROVE  IsPart(ch, v, count, Part(ch, v, count))
<1> DEFINE n == ElementSize(ch.kind)
           w == Part(ch, v, count)
           zero == [i \in 1 .. n |-> 0]
<1>1. n \in Sizes /\ n \in Nat /\ v.elements \in ElementSeq(n) /\ Len(v.elements) \in Nat
  BY ChannelIs DEF IsValue, ElementSeq
<1>2. CASE ch.kind = "string"
  <2>3. w = [kind |-> ch.kind, array |-> FALSE, elements |-> ReadString(ToBytes(v))]
    BY <1>2 DEF Part
  <2>4. n = 1
    BY <1>2, ChannelIs
  <2>5. ToBytes(v) \in Seq(Nat) /\ Len(ToBytes(v)) = Len(v.elements) * n
    BY <1>1, Flattened DEF ToBytes
  <2>6. /\ ReadString(ToBytes(v)) \in ElementSeq(1)
        /\ Len(ReadString(ToBytes(v))) \in Nat
        /\ Len(ReadString(ToBytes(v))) <= Len(ToBytes(v))
    BY <2>5, StringAgain
  <2>7. w.kind = ch.kind /\ ~w.array /\ w.elements = ReadString(ToBytes(v))
    BY <2>3
  <2>9. w = [kind |-> w.kind, array |-> w.array, elements |-> w.elements]
    BY <2>3
  <2> HIDE DEF w, n
  <2>8. Len(w.elements) <= Len(v.elements)
    <3>1. Len(v.elements) * 1 = Len(v.elements)
      BY <1>1
    <3> QED BY <2>4, <2>5, <2>6, <2>7, <3>1
  <2> QED BY <1>2, <2>4, <2>6, <2>7, <2>8, <2>9 DEF IsPart, w, n
<1>3. CASE ch.kind # "string"
  <2> DEFINE fit == [i \in 1 .. count |-> IF i <= Len(v.elements) THEN v.elements[i] ELSE zero]
  <2>1. w = [kind |-> ch.kind, array |-> IsArray(ch.shape), elements |-> fit]
    BY <1>3 DEF Part
  <2>2. w.kind = ch.kind /\ w.array = IsArray(ch.shape) /\ w.elements = fit
    BY <2>1
  <2>3. count \in Nat \ {0} /\ count <= Elements(ch.shape) /\ Elements(ch.shape) \in Nat
    BY ChannelIs
  <2>4. count * n \in Nat /\ count * n <= Size(ch)
    <3>1. Size(ch) = Elements(ch.shape) * n
      BY ChannelIs
    <3>2. \A a, b \in Nat : a <= b => a * n \in Nat /\ a * n <= b * n
      BY <1>1 DEF Sizes
    <3> HIDE DEF n
    <3> QED BY <2>3, <3>1, <3>2
  <2>5. fit \in [1 .. count -> [1 .. n -> Nat]]
    <3>1. zero \in [1 .. n -> Nat]
      OBVIOUS
    <3>2. \A i \in 1 .. count : i <= Len(v.elements) => v.elements[i] \in [1 .. n -> Nat]
      BY <1>1, <2>3 DEF ElementSeq
    <3> HIDE DEF n, zero
    <3> QED BY <3>1, <3>2
  <2>6. /\ \A i \in 1 .. count : i <= Len(v.elements) => fit[i] = v.elements[i]
        /\ \A i \in 1 .. count : i > Len(v.elements) => fit[i] = zero
    <3> HIDE DEF n, zero
    <3>1. \A i \in 1 .. count : i > Len(v.elements) => ~(i <= Len(v.elements))
      BY <1>1, <2>3
    <3> QED BY <3>1
  <2> HIDE DEF fit, n, zero
  <2>7. fit \in ElementSeq(n) /\ Len(fit) = count
    BY <2>3, <2>5 DEF ElementSeq
  <2> HIDE DEF w
  <2>8. w = [kind |-> w.kind, array |-> w.array, elements |-> w.elements]
    BY <2>1, <2>2
  <2> QED BY <1>3, <2>2, <2>3, <2>4, <2>6, <2>7, <2>8 DEF IsPart, n, w, zero
<1> QED BY <1>2, <1>3

LEMMA KeptIs ==
  ASSUME NEW ch, IsChannel(ch), NEW v, IsValue(v, ch.kind)
  PROVE  IsPart(ch, v, ReadCount(ch), Kept(ch, v))
BY PartIs, ReadCountIs DEF Kept

\* The bytes begin with the first count elements of what is to arrive of v.
Carries(ch, bytes, v, count) ==
    /\ Spells(bytes, OnWire(ch, Part(ch, v, count).elements), ElementSize(ch.kind))
    /\ ch.kind = "string" => ReadString(bytes) = Part(ch, v, count).elements

LEMMA ZeroOrdered ==
  ASSUME NEW ch, ch.little \in BOOLEAN, NEW n \in Sizes
  PROVE  Ordered(ch, [i \in 1 .. n |-> 0]) = [i \in 1 .. n |-> 0]
<1> DEFINE zero == [i \in 1 .. n |-> 0]
<1>1. n \in Nat /\ zero \in [1 .. n -> Nat] /\ Len(zero) = n
  BY DEF Sizes
<1>2. Reverse(zero) = [i \in 1 .. n |-> zero[n - i + 1]]
  BY <1>1 DEF Reverse
<1>3. \A i \in 1 .. n : n - i + 1 \in 1 .. n
  BY <1>1
<1>4. Reverse(zero) = zero
  BY <1>2, <1>3
<1> QED BY <1>4 DEF Ordered

\* The bytes sent of a value that the channel accepts.
LEMMA Sent ==
  ASSUME NEW ch, IsChannel(ch), NEW v, IsValue(v, ch.kind), Accepts(ch, v),
         NEW count \in 1 .. Elements(ch.shape)
  PROVE  LET bytes == Buffer(ch, Write(ch, v))
         IN  /\ bytes \in Seq(Nat) /\ Len(bytes) >= Size(ch) /\ Len(bytes) < Lz4Limit
             /\ Carries(ch, bytes, v, count)
<1> DEFINE n == ElementSize(ch.kind)
           s == OnWire(ch, v.elements)
           f == Write(ch, v)
           bytes == Buffer(ch, f)
           w == Part(ch, v, count).elements
<1>10. IsPart(ch, v, count, Part(ch, v, count))
  BY PartIs
<1>1. /\ n \in Sizes /\ n \in Nat /\ v.elements \in ElementSeq(n) /\ ch.little \in BOOLEAN
      /\ Size(ch) \in Nat /\ Size(ch) < Lz4Limit /\ Lz4Limit \in Nat
      /\ Len(v.elements) * n < Lz4Limit
  BY ChannelIs, Lz4LimitIs DEF IsValue, IsChannel
<1>2. /\ s \in ElementSeq(n) /\ Len(s) = Len(v.elements) /\ Len(s) \in Nat
      /\ \A i \in 1 .. Len(s) : s[i] = Ordered(ch, v.elements[i])
      /\ n = 1 => s = v.elements
  BY <1>1, OnWireIs
<1>3. f = FlattenSeq(s)
  BY WriteIs
<1> HIDE DEF n, s, f
<1>4. f \in Seq(Nat) /\ Len(f) = Len(s) * n /\ Spells(f, s, n) /\ Len(f) \in Nat
  <2>1. f \in Seq(Nat) /\ Len(f) = Len(s) * n /\ Spells(f, s, n)
    BY <1>1, <1>2, <1>3, Flattened
  <2>2. Len(f) \in Nat
    BY <2>1
  <2> QED BY <2>1, <2>2
<1>5. PICK zeros \in Seq(Nat) :
         /\ bytes = f \o zeros
         /\ \A i \in 1 .. Len(zeros) : zeros[i] = 0
         /\ bytes \in Seq(Nat) /\ Len(bytes) = Len(f) + Len(zeros)
         /\ Len(zeros) = IF Size(ch) > Len(f) THEN Size(ch) - Len(f) ELSE 0
  BY <1>1, <1>4, Buffered
<1> HIDE DEF bytes
<1>6. /\ Len(zeros) \in Nat /\ Len(bytes) \in Nat
      /\ Len(bytes) >= Size(ch) /\ Len(bytes) >= Len(f) /\ Len(bytes) < Lz4Limit
  <2>1. Len(zeros) \in Nat /\ Len(f) < Lz4Limit
    BY <1>1, <1>2, <1>4
  <2>2. Len(bytes) \in Nat
    BY <1>5
  <2>3. \A a, b, c, size, limit \in Nat :
           c = a + b /\ b = (IF size > a THEN size - a ELSE 0) /\ a < limit /\ size < limit
           => c >= size /\ c >= a /\ c < limit
    OBVIOUS
  <2> QED BY <1>1, <1>4, <1>5, <2>1, <2>2, <2>3
<1>7. Spells(bytes, s, n)
  BY <1>1, <1>2, <1>4, <1>5, SpellsMore
<1>8. CASE ch.kind = "string"
  <2>1. n = 1 /\ w = ReadString(ToBytes(v)) /\ w \in ElementSeq(n)
    <3>1. n = 1
      BY <1>8, ChannelIs DEF n
    <3>2. w = ReadString(ToBytes(v)) /\ w \in ElementSeq(ElementSize(ch.kind))
      BY <1>8, <1>10 DEF IsPart
    <3> QED BY <3>1, <3>2 DEF n
  <2>2. ToBytes(v) = f
    BY <1>2, <1>3, <2>1 DEF ToBytes
  <2>3. ReadString(bytes) = w
    BY <1>4, <1>5, <2>1, <2>2, StringPadded
  <2>4. Spells(bytes, w, 1)
    BY <1>5, <2>3, StringAgain
  <2>5. OnWire(ch, w) = w
    BY <2>1, OnWireIs DEF n
  <2> HIDE DEF w
  <2> QED BY <1>5, <1>6, <2>1, <2>3, <2>4, <2>5 DEF Carries, w, n, bytes, f
<1>9. CASE ch.kind # "string"
  <2> DEFINE wire == OnWire(ch, w)
             zero == [i \in 1 .. n |-> 0]
  <2>1. /\ w \in ElementSeq(n) /\ Len(w) = count /\ count \in Nat /\ count * n \in Nat /\ count * n <= Size(ch)
        /\ \A i \in 1 .. count : i <= Len(v.elements) => w[i] = v.elements[i]
        /\ \A i \in 1 .. count : i > Len(v.elements) => w[i] = zero
    BY <1>9, <1>10 DEF IsPart, n
  <2> HIDE DEF w
  <2>2. /\ wire \in ElementSeq(n) /\ Len(wire) = count
        /\ \A i \in 1 .. count : wire[i] = Ordered(ch, w[i])
    <3>1. w \in ElementSeq(ElementSize(ch.kind))
      BY <2>1 DEF n
    <3>2. /\ OnWire(ch, w) \in ElementSeq(ElementSize(ch.kind)) /\ Len(OnWire(ch, w)) = Len(w)
          /\ \A i \in 1 .. Len(w) : OnWire(ch, w)[i] = Ordered(ch, w[i])
      BY <3>1, OnWireIs
    <3> QED BY <2>1, <3>2 DEF n
  <2>3. ASSUME NEW i \in 1 .. count, NEW j \in 1 .. n
        PROVE  bytes[(i - 1) * n + j] = wire[i][j]
    <3>1. i \in Nat \ {0} /\ Len(v.elements) \in Nat
      BY <1>2, <2>1
    <3>2. CASE i <= Len(v.elements)
      <4>1. i \in 1 .. Len(s) /\ wire[i] = s[i]
        BY <1>2, <2>1, <2>2, <3>1, <3>2
      <4> QED BY <1>7, <4>1 DEF Spells
    <3>3. CASE i > Len(v.elements)
      <4> DEFINE k == (i - 1) * n + j
      <4>1. wire[i] = zero
        <5>1. w[i] = zero
          BY <2>1, <3>3
        <5>2. Ordered(ch, zero) = zero
          BY <1>1, ZeroOrdered
        <5> QED BY <2>2, <5>1, <5>2
      <4>2. k \in Nat /\ k <= count * n /\ k > Len(f)
        <5>1. k \in Nat \ {0} /\ k <= count * n
          <6>1. count \in Nat /\ i <= count
            BY <2>1
          <6>2. k \in Nat \ {0} /\ \A m \in Nat : i <= m => k <= m * n
            BY <1>1, <3>1, PositionOf
          <6> HIDE DEF k
          <6> QED BY <6>1, <6>2
        <5>2. \A m \in Nat : m < i => m * n <= (i - 1) * n
          BY <1>1, <3>1 DEF Sizes
        <5>3. Len(f) <= (i - 1) * n /\ (i - 1) * n \in Nat
          <6>1. Len(s) \in Nat /\ Len(s) < i /\ Len(f) = Len(s) * n
            BY <1>2, <1>4, <3>1, <3>3
          <6>2. (i - 1) * n \in Nat
            BY <1>1, <3>1 DEF Sizes
          <6>3. Len(s) * n <= (i - 1) * n
            BY <5>2, <6>1
          <6> QED BY <6>1, <6>2, <6>3
        <5>4. j \in Nat /\ j >= 1
          BY <1>1
        <5> QED BY <1>4, <5>1, <5>3, <5>4
      <4> HIDE DEF k
      <4>3. k - Len(f) \in 1 .. Len(zeros) /\ k \in 1 .. Len(f) + Len(zeros) /\ ~(k <= Len(f))
        <5>1. k <= Len(bytes)
          <6>1. count * n \in Nat /\ count * n <= Size(ch) /\ Size(ch) \in Nat
            BY <1>1, <2>1
          <6> QED BY <1>6, <4>2, <6>1
        <5>2. /\ k \in Nat /\ Len(f) \in Nat /\ Len(zeros) \in Nat
              /\ k > Len(f) /\ k <= Len(f) + Len(zeros)
          BY <1>4, <1>5, <1>6, <4>2, <5>1
        <5> HIDE DEF n, s, f, w, bytes
        <5> QED BY <5>2
      <4>4. bytes[k] = zeros[k - Len(f)]
        BY <1>4, <1>5, <4>3, ConcatProperties
      <4>5. bytes[k] = 0
        BY <1>5, <4>3, <4>4
      <4> QED BY <4>1, <4>5 DEF k
    <3> QED BY <2>1, <3>1, <3>2, <3>3
  <2>4. count * n <= Len(bytes)
    BY <1>1, <1>6, <2>1
  <2>5. Spells(bytes, wire, n)
    BY <2>2, <2>3, <2>4 DEF Spells
  <2> QED BY <1>5, <1>6, <1>9, <2>5 DEF Carries, w, n, bytes, f
<1> QED BY <1>8, <1>9

-----------------------------------------------------------------------------
(* What is received.                                                       *)

\* What is kept of a value is a value of its type, and carries over whole.
LEMMA KeptIsValue ==
  ASSUME NEW ch, IsChannel(ch), NEW v, IsValue(v, ch.kind)
  PROVE  IsValue(Kept(ch, v), ch.kind)
<1> DEFINE n == ElementSize(ch.kind)
           w == Kept(ch, v)
<1>1. /\ n \in Sizes /\ n \in Nat /\ v.elements \in ElementSeq(n) /\ Len(v.elements) \in Nat
      /\ Len(v.elements) * n < Lz4Limit /\ Size(ch) \in Nat /\ Size(ch) < Lz4Limit
      /\ Lz4Limit \in Nat /\ (ch.kind = "bool" => n = 1)
  BY ChannelIs, Lz4LimitIs DEF IsValue, ElementSeq
<1>2. /\ w.kind = ch.kind
      /\ w = [kind |-> w.kind, array |-> w.array, elements |-> w.elements]
      /\ w.elements \in ElementSeq(n) /\ Len(w.elements) \in Nat
  BY KeptIs DEF IsPart
<1>3. CASE ch.kind = "string"
  <2>1. ~w.array /\ w.array \in BOOLEAN /\ Len(w.elements) <= Len(v.elements)
    <3>1. w.array = FALSE
      BY <1>3 DEF Kept, Part
    <3>2. Len(w.elements) <= Len(v.elements)
      BY <1>3, KeptIs DEF IsPart
    <3> QED BY <3>1, <3>2
  <2>2. n = 1
    BY <1>3, ChannelIs
  <2> HIDE DEF w
  <2>3. Len(w.elements) * n < Lz4Limit
    <3>1. \A x \in Nat : x * 1 = x
      OBVIOUS
    <3>2. Len(w.elements) * n = Len(w.elements) /\ Len(v.elements) * n = Len(v.elements)
      BY <1>1, <1>2, <2>2, <3>1
    <3>3. Len(w.elements) <= Len(v.elements)
      BY <2>1
    <3> HIDE DEF n
    <3>4. \A x, y, z \in Nat : x <= y /\ y < z => x < z
      OBVIOUS
    <3>5. Len(v.elements) \in Nat /\ Len(v.elements) < Lz4Limit /\ Lz4Limit \in Nat
      BY <1>1, <3>2
    <3>6. Len(w.elements) < Lz4Limit
      BY <1>2, <3>3, <3>4, <3>5
    <3> QED BY <3>2, <3>6
  <2> QED BY <1>2, <1>3, <2>1, <2>3 DEF IsValue, w, n
<1>4. CASE ch.kind # "string"
  <2> DEFINE count == ReadCount(ch)
             zero == [i \in 1 .. n |-> 0]
  <2>1. /\ w.array = IsArray(ch.shape)
        /\ Len(w.elements) = count /\ count \in Nat \ {0}
        /\ count * n \in Nat /\ count * n <= Size(ch)
        /\ \A i \in 1 .. count : i <= Len(v.elements) => w.elements[i] = v.elements[i]
        /\ \A i \in 1 .. count : i > Len(v.elements) => w.elements[i] = zero
    BY <1>4, KeptIs DEF IsPart
  <2>2. w.array \in BOOLEAN
    BY <2>1 DEF IsArray
  <2>3. ~w.array => Len(w.elements) = 1
    BY <2>1 DEF ReadCount
  <2> HIDE DEF w, n, count
  <2>4. count * n < Lz4Limit
    BY <1>1, <2>1
  <2>5. ASSUME ch.kind = "bool", NEW i \in 1 .. Len(w.elements)
        PROVE  w.elements[i][1] \in {0, 1}
    <3>1. i \in Nat \ {0} /\ i \in 1 .. count
      BY <1>2, <2>1, <2>5
    <3>2. CASE i <= Len(v.elements)
      <4>1. w.elements[i] = v.elements[i] /\ i \in 1 .. Len(v.elements)
        BY <1>1, <2>1, <3>1, <3>2
      <4> QED BY <2>5, <4>1 DEF IsValue
    <3>3. CASE i > Len(v.elements)
      <4>1. w.elements[i] = zero /\ 1 \in 1 .. n
        BY <1>1, <2>1, <2>5, <3>1, <3>3
      <4>2. zero[1] = 0
        BY <4>1
      <4> QED BY <4>1, <4>2
    <3> QED BY <1>1, <3>1, <3>2, <3>3
  <2> QED BY <1>2, <1>4, <2>1, <2>2, <2>3, <2>4, <2>5 DEF IsValue, w, n
<1> QED BY <1>3, <1>4

LEMMA KeptAgain ==
  ASSUME NEW ch, IsChannel(ch), NEW v, IsValue(v, ch.kind)
  PROVE  Kept(ch, Kept(ch, v)) = Kept(ch, v)
<1> DEFINE n == ElementSize(ch.kind)
           w == Kept(ch, v)
           x == Kept(ch, w)
<1>1. IsValue(w, ch.kind)
  BY KeptIsValue
<1>2. /\ w.kind = ch.kind /\ w = [kind |-> w.kind, array |-> w.array, elements |-> w.elements]
      /\ w.elements \in ElementSeq(n) /\ Len(w.elements) \in Nat
  BY KeptIs DEF IsPart
<1>3. /\ x.kind = ch.kind /\ x = [kind |-> x.kind, array |-> x.array, elements |-> x.elements]
      /\ x.elements \in ElementSeq(n) /\ Len(x.elements) \in Nat
  BY <1>1, KeptIs DEF IsPart
<1>4. CASE ch.kind = "string"
  <2>1. w = [kind |-> "string", array |-> FALSE, elements |-> ReadString(ToBytes(v))]
    BY <1>4 DEF Kept, Part
  <2>2. x = [kind |-> "string", array |-> FALSE, elements |-> ReadString(ToBytes(w))]
    BY <1>4 DEF Kept, Part
  <2>3. ToBytes(v) \in Seq(Nat)
    BY ChannelIs, Flattened DEF IsValue, ToBytes
  <2>4. ToBytes(w) = FlattenSeq(ReadString(ToBytes(v)))
    BY <2>1 DEF ToBytes
  <2>5. ReadString(ToBytes(w)) = ReadString(ToBytes(v))
    BY <2>3, <2>4, StringAgain
  <2> QED BY <2>1, <2>2, <2>5
<1>5. CASE ch.kind # "string"
  <2> DEFINE count == ReadCount(ch)
  <2>1. w.array = IsArray(ch.shape) /\ Len(w.elements) = count /\ count \in Nat
    BY <1>5, KeptIs DEF IsPart
  <2>2. /\ x.array = IsArray(ch.shape) /\ Len(x.elements) = count
        /\ \A i \in 1 .. count : i <= Len(w.elements) => x.elements[i] = w.elements[i]
    <3>1. PICK y : y = w
      OBVIOUS
    <3>2. IsValue(y, ch.kind) /\ x = Kept(ch, y)
      BY <1>1, <3>1
    <3> HIDE DEF w, x
    <3>3. /\ Kept(ch, y).array = IsArray(ch.shape) /\ Len(Kept(ch, y).elements) = count
          /\ \A i \in 1 .. count :
                i <= Len(y.elements) => Kept(ch, y).elements[i] = y.elements[i]
      BY <1>5, <3>2, KeptIs DEF IsPart
    <3> QED BY <3>1, <3>2, <3>3
  <2> HIDE DEF w, x, count, n
  <2>3. \A i \in 1 .. count : x.elements[i] = w.elements[i]
    BY <2>1, <2>2
  <2>4. /\ x.elements = [i \in 1 .. count |-> x.elements[i]]
        /\ w.elements = [i \in 1 .. count |-> w.elements[i]]
    BY <1>2, <1>3, <2>1, <2>2 DEF ElementSeq
  <2>5. x.elements = w.elements
    BY <2>3, <2>4
  <2> QED BY <1>2, <1>3, <2>1, <2>2, <2>5 DEF x, w
<1> QED BY <1>4, <1>5

\* Channels of the same type, byte order and number of elements carry the same.
LEMMA SameCarried ==
  ASSUME NEW ch, NEW new, new.kind = ch.kind, new.little = ch.little,
         IsArray(new.shape) = IsArray(ch.shape), Elements(new.shape) = Elements(ch.shape), NEW v
  PROVE  /\ Kept(new, v) = Kept(ch, v) /\ ReadCount(new) = ReadCount(ch)
         /\ \A bytes, count : Carries(new, bytes, v, count) = Carries(ch, bytes, v, count)
<1>1. \A count : Part(new, v, count) = Part(ch, v, count)
  BY DEF Part
<1>3. ReadCount(new) = ReadCount(ch)
  BY DEF ReadCount
<1>4. Kept(new, v) = Kept(ch, v)
  BY <1>1, <1>3 DEF Kept
<1>2. \A s : OnWire(new, s) = OnWire(ch, s)
  BY DEF OnWire, Ordered
<1> QED BY <1>1, <1>2, <1>3, <1>4 DEF Carries

\* Bytes that carry many elements carry fewer.
LEMMA CarriesLess ==
  ASSUME NEW ch, IsChannel(ch), NEW v, IsValue(v, ch.kind), NEW bytes \in Seq(Nat),
         NEW many \in 1 .. Elements(ch.shape), NEW few \in 1 .. many, Carries(ch, bytes, v, many)
  PROVE  Carries(ch, bytes, v, few)
<1> DEFINE n == ElementSize(ch.kind)
           s == OnWire(ch, Part(ch, v, many).elements)
           t == OnWire(ch, Part(ch, v, few).elements)
<1>1. CASE ch.kind = "string"
  <2>1. Part(ch, v, few) = Part(ch, v, many)
    BY <1>1 DEF Part
  <2> QED BY <2>1 DEF Carries
<1>2. CASE ch.kind # "string"
  <2>1. Elements(ch.shape) \in Nat /\ n \in Sizes /\ few \in 1 .. Elements(ch.shape)
        /\ many \in Nat /\ few \in Nat /\ few <= many
    BY ChannelIs
  <2>2. /\ Part(ch, v, many).elements \in ElementSeq(n) /\ Len(Part(ch, v, many).elements) = many
        /\ Part(ch, v, few).elements \in ElementSeq(n) /\ Len(Part(ch, v, few).elements) = few
    <3>1. /\ IsPart(ch, v, many, Part(ch, v, many)) /\ IsPart(ch, v, few, Part(ch, v, few))
      BY <2>1, PartIs
    <3> QED BY <1>2, <3>1 DEF IsPart
  <2>3. \A i \in 1 .. few : Part(ch, v, few).elements[i] = Part(ch, v, many).elements[i]
    <3>1. \A i \in 1 .. few : i \in 1 .. many
      BY <2>1
    <3> QED BY <1>2, <3>1 DEF Part
  <2>4. /\ Len(s) = many /\ \A i \in 1 .. many : s[i] = Ordered(ch, Part(ch, v, many).elements[i])
        /\ Len(t) = few /\ \A i \in 1 .. few : t[i] = Ordered(ch, Part(ch, v, few).elements[i])
    BY <2>2, OnWireIs
  <2> HIDE DEF n, s, t
  <2>5. Spells(bytes, s, n)
    BY DEF Carries, s, n
  <2>6. \A i \in 1 .. few : t[i] = s[i] /\ i \in 1 .. many
    BY <2>1, <2>3, <2>4
  <2>7. Len(t) * n <= Len(bytes)
    <3>1. Len(s) * n <= Len(bytes)
      BY <2>5 DEF Spells
    <3>2. few * n <= many * n /\ few * n \in Nat /\ many * n \in Nat
      BY <2>1 DEF Sizes
    <3>3. many * n <= Len(bytes)
      BY <2>4, <3>1
    <3> DEFINE f == few * n
               m == many * n
    <3>4. f \in Nat /\ m \in Nat /\ f <= m /\ m <= Len(bytes)
      BY <3>2, <3>3
    <3> HIDE DEF f, m
    <3>5. f <= Len(bytes)
      BY <3>4
    <3> QED BY <2>4, <3>5 DEF f
  <2>8. Spells(bytes, t, n)
    BY <2>4, <2>5, <2>6, <2>7 DEF Spells
  <2> QED BY <1>2, <2>8 DEF Carries, t, n
<1> QED BY <1>1, <1>2

\* What a receiver that is not raw reads: a value that it could send on, and
\* what is kept of a value if the bytes begin with that.
LEMMA ReadIs ==
  ASSUME NEW ch, IsChannel(ch), ch.raw = FALSE, NEW bytes \in Seq(Nat),
         Len(bytes) >= Size(ch), Len(bytes) < Lz4Limit
  PROVE  LET r == Read(ch, bytes)
         IN  /\ r # Unreadable /\ IsValue(r, ch.kind) /\ Accepts(ch, r)
             /\ \A v : IsValue(v, ch.kind) /\ Carries(ch, bytes, v, ReadCount(ch)) => r = Kept(ch, v)
<1> DEFINE n == ElementSize(ch.kind)
           r == Read(ch, bytes)
           chunks == Chunks(bytes, n)
           count == ReadCount(ch)
<1>1. /\ n \in Sizes /\ n \in Nat /\ ch.little \in BOOLEAN
      /\ Size(ch) \in Nat /\ Size(ch) < Lz4Limit /\ Lz4Limit \in Nat
      /\ Len(bytes) \in Nat
      /\ ch.kind \in {"bool", "string"} => n = 1
  BY ChannelIs, Lz4LimitIs DEF IsChannel
<1>4. \A e \in [1 .. n -> Nat] : /\ Ordered(ch, e) \in [1 .. n -> Nat]
                                 /\ Ordered(ch, Ordered(ch, e)) = e
                                 /\ n = 1 => Ordered(ch, e) = e
  <2> HIDE DEF n
  <2> QED BY <1>1, OrderedTwice
<1>2. CASE ch.kind = "string"
  <2>1. r = [kind |-> "string", array |-> FALSE, elements |-> ReadString(bytes)]
    BY <1>2 DEF Read
  <2>2. r.kind = "string" /\ r.array = FALSE /\ r.elements = ReadString(bytes)
    BY <2>1
  <2>3. /\ r.elements \in ElementSeq(1) /\ Len(r.elements) \in Nat
        /\ Len(r.elements) <= Len(bytes)
    BY <2>2, StringAgain
  <2>4. n = 1
    BY <1>1, <1>2
  <2> HIDE DEF r
  <2>5. Len(r.elements) * n < Lz4Limit
    <3> HIDE DEF n
    <3>1. \A x, y, z \in Nat : x <= y /\ y < z => x * 1 < z
      OBVIOUS
    <3> QED BY <1>1, <2>3, <2>4, <3>1
  <2>6. IsValue(r, ch.kind)
    BY <1>2, <2>1, <2>2, <2>3, <2>4, <2>5 DEF IsValue, n
  <2>7. Accepts(ch, r)
    <3>1. Codec(ch) = "scalar"
      BY <1>2 DEF Codec
    <3> QED BY <1>2, <2>2, <3>1 DEF Accepts
  <2>8. ASSUME NEW v, Carries(ch, bytes, v, ReadCount(ch)) PROVE r = Kept(ch, v)
    <3>1. Kept(ch, v) = [kind |-> "string", array |-> FALSE, elements |-> ReadString(ToBytes(v))]
      BY <1>2 DEF Kept, Part
    <3>2. ReadString(bytes) = Kept(ch, v).elements
      BY <1>2, <2>8 DEF Carries, Kept
    <3>3. ReadString(bytes) = ReadString(ToBytes(v))
      BY <3>1, <3>2
    <3> QED BY <2>1, <3>1, <3>3
  <2>9. r # Unreadable
    BY <2>2 DEF Unreadable
  <2> QED BY <2>6, <2>7, <2>8, <2>9 DEF r
<1>3. CASE ch.kind # "string"
  <2>1. Codec(ch) = IF IsArray(ch.shape) THEN "array" ELSE "scalar"
    BY <1>3 DEF Codec
  <2>2. /\ chunks \in ElementSeq(n) /\ Len(chunks) \in Nat
        /\ \A m \in Nat : m * n <= Len(bytes) <=> m <= Len(chunks)
    BY <1>1, Chunked
  <2>3. count \in Nat \ {0} /\ count * n \in Nat /\ count * n <= Size(ch)
    <3>1. count \in Nat \ {0} /\ count <= Elements(ch.shape) /\ Elements(ch.shape) \in Nat
      <4>1. count \in 1 .. Elements(ch.shape) /\ Elements(ch.shape) \in Nat
        BY ReadCountIs, Zenon
      <4> HIDE DEF count
      <4> QED BY <4>1
    <3>2. Size(ch) = Elements(ch.shape) * n
      BY ChannelIs
    <3>3. \A a, b \in Nat : a <= b => a * n \in Nat /\ a * n <= b * n
      BY <1>1 DEF Sizes
    <3> HIDE DEF n, count
    <3> QED BY <3>1, <3>2, <3>3
  <2>4. count <= Len(chunks) /\ count * n < Lz4Limit
    <3> HIDE DEF n, count, chunks
    <3>1. count * n <= Len(bytes) /\ count * n < Lz4Limit
      BY <1>1, <2>3
    <3> QED BY <2>2, <2>3, <3>1
  <2> DEFINE elements == [i \in 1 .. count |-> ReadElement(ch, chunks[i])]
  <2>5. r = [kind |-> ch.kind, array |-> IsArray(ch.shape), elements |-> elements]
    <3>1. ~(Len(chunks) < count)
      BY <2>2, <2>3, <2>4
    <3>2. (Codec(ch) = "array") = IsArray(ch.shape)
      BY <2>1 DEF IsArray
    <3>3. (IF Codec(ch) = "array" THEN Elements(ch.shape) ELSE 1) = count
      BY <2>1 DEF ReadCount
    <3> QED BY <1>3, <3>1, <3>2, <3>3 DEF Read
  <2>6. r.kind = ch.kind /\ r.array = IsArray(ch.shape) /\ r.elements = elements
    BY <2>5
  <2>7. r.array \in BOOLEAN
    BY <2>6 DEF IsArray
  <2>8. \A i \in 1 .. count : chunks[i] \in [1 .. n -> Nat]
    <3> HIDE DEF n, count, chunks
    <3>1. \A i \in 1 .. count : i \in 1 .. Len(chunks)
      BY <2>2, <2>3, <2>4
    <3> QED BY <2>2, <3>1 DEF ElementSeq
  <2>9. ASSUME NEW i \in 1 .. count
        PROVE  /\ elements[i] \in [1 .. n -> Nat]
               /\ ch.kind = "bool" => elements[i][1] \in {0, 1}
               /\ ch.kind # "bool" => elements[i] = Ordered(ch, chunks[i])
    <3>1. CASE ch.kind = "bool"
      <4>1. elements[i] = <<IF chunks[i][1] # 0 THEN 1 ELSE 0>>
        BY <3>1 DEF ReadElement
      <4>2. n = 1
        BY <1>1, <3>1
      <4> HIDE DEF elements, n
      <4> QED BY <3>1, <4>1, <4>2
    <3>2. CASE ch.kind # "bool"
      <4>1. elements[i] = Ordered(ch, chunks[i])
        BY <3>2 DEF ReadElement
      <4> HIDE DEF elements, n
      <4> QED BY <1>4, <2>8, <3>2, <4>1
    <3> QED BY <3>1, <3>2
  <2>10. elements \in ElementSeq(n) /\ Len(elements) = count
    <3>1. elements \in [1 .. count -> [1 .. n -> Nat]]
      <4>1. \A i \in 1 .. count : ReadElement(ch, chunks[i]) \in [1 .. n -> Nat]
        BY <2>9
      <4> HIDE DEF n, count, chunks
      <4> QED BY <4>1
    <3> HIDE DEF elements, n, count
    <3> QED BY <2>3, <3>1 DEF ElementSeq
  <2> HIDE DEF r, elements
  <2>11. ~r.array => Len(r.elements) = 1
    BY <2>6, <2>10 DEF ReadCount
  <2>12. IsValue(r, ch.kind)
    <3>1. r = [kind |-> ch.kind, array |-> r.array, elements |-> r.elements]
      BY <2>5, <2>6
    <3>2. r.elements \in ElementSeq(n) /\ Len(r.elements) * n < Lz4Limit
      BY <2>4, <2>6, <2>10
    <3>3. ch.kind = "bool" => \A i \in 1 .. Len(r.elements) : r.elements[i][1] \in {0, 1}
      BY <2>6, <2>9, <2>10
    <3> QED BY <1>3, <2>7, <2>11, <3>1, <3>2, <3>3 DEF IsValue, n
  <2>13. Accepts(ch, r)
    <3>1. CASE IsArray(ch.shape)
      BY <2>1, <2>6, <3>1 DEF Accepts
    <3>2. CASE ~IsArray(ch.shape)
      BY <2>1, <2>6, <3>2 DEF Accepts
    <3> QED BY <3>1, <3>2
  <2>14. r # Unreadable
    <3>1. "unreadable" \notin DOMAIN ElementSizes
      BY DEF ElementSizes
    <3>2. ch.kind \in DOMAIN ElementSizes
      BY KindsAssumption DEF IsChannel
    <3> QED BY <2>6, <3>1, <3>2 DEF Unreadable
  <2>15. ASSUME NEW v, IsValue(v, ch.kind), Carries(ch, bytes, v, ReadCount(ch))
         PROVE  r = Kept(ch, v)
    <3> DEFINE w == Kept(ch, v).elements
               wire == OnWire(ch, w)
    <3>1. /\ Kept(ch, v) = [kind |-> ch.kind, array |-> IsArray(ch.shape), elements |-> w]
          /\ w \in ElementSeq(n) /\ Len(w) = count
      <4>1. /\ Kept(ch, v).kind = ch.kind /\ Kept(ch, v).array = IsArray(ch.shape)
            /\ Kept(ch, v) = [kind |-> Kept(ch, v).kind, array |-> Kept(ch, v).array,
                                elements |-> Kept(ch, v).elements]
            /\ w \in ElementSeq(n) /\ Len(w) = count
        BY <1>3, <2>15, KeptIs DEF IsPart
      <4> QED BY <4>1
    <3>2. ch.kind = "bool" => \A i \in 1 .. Len(w) : w[i][1] \in {0, 1}
      BY <2>15, KeptIsValue DEF IsValue
    <3>3. Spells(bytes, wire, n)
      BY <2>15 DEF Carries, Kept
    <3> HIDE DEF w
    <3>4. /\ wire \in ElementSeq(n) /\ Len(wire) = count
          /\ \A i \in 1 .. count : wire[i] = Ordered(ch, w[i]) /\ w[i] \in [1 .. n -> Nat]
      BY <3>1, OnWireIs DEF n
    <3> HIDE DEF wire, n, count, chunks
    <3>5. \A i \in 1 .. count : chunks[i] = Ordered(ch, w[i])
      BY <1>1, <3>3, <3>4, SpelledChunks DEF chunks
    <3>6. ASSUME NEW i \in 1 .. count PROVE elements[i] = w[i]
      <4>1. CASE ch.kind = "bool"
        <5>1. chunks[i] = w[i] /\ n = 1 /\ w[i] \in [1 .. 1 -> Nat] /\ w[i][1] \in {0, 1}
          <6>1. n = 1
            BY <1>1, <4>1
          <6>2. chunks[i] = w[i]
            BY <1>4, <3>4, <3>5, <6>1
          <6>3. w[i][1] \in {0, 1}
            BY <3>1, <3>2, <4>1
          <6> QED BY <3>4, <6>1, <6>2, <6>3
        <5>2. elements[i] = <<IF w[i][1] # 0 THEN 1 ELSE 0>>
          BY <4>1, <5>1 DEF ReadElement, elements
        <5>3. w[i] = <<w[i][1]>>
          BY <5>1
        <5> QED BY <5>1, <5>2, <5>3
      <4>2. CASE ch.kind # "bool"
        <5>1. elements[i] = Ordered(ch, chunks[i])
          BY <2>9, <4>2
        <5> QED BY <1>4, <3>4, <3>5, <5>1
      <4> QED BY <4>1, <4>2
    <3>7. elements = [i \in 1 .. count |-> elements[i]] /\ w = [i \in 1 .. count |-> w[i]]
      BY <2>10, <3>1 DEF ElementSeq
    <3>8. elements = w
      BY <3>6, <3>7
    <3> QED BY <2>5, <3>1, <3>8
  <2> QED BY <2>12, <2>13, <2>14, <2>15 DEF r
<1> QED BY <1>2, <1>3

-----------------------------------------------------------------------------
(* The bytes on their way.                                                 *)

\* The bytes sent of a message received raw: those received, turned around
\* when elements of several bytes are sent as big-endian.
LEMMA SentRaw ==
  ASSUME NEW ch, IsChannel(ch), ch.raw = TRUE, ch.kind # "string",
         NEW b \in Seq(Nat), Len(b) >= Size(ch), Len(b) < Lz4Limit
  PROVE  LET v == AsBytes(b)
             bytes == Buffer(ch, Write(ch, v))
         IN  /\ Accepts(ch, v)
             /\ bytes \in Seq(Nat) /\ Len(bytes) >= Size(ch) /\ Len(bytes) < Lz4Limit
             /\ ch.little \/ ElementSize(ch.kind) = 1 => bytes = b
<1> DEFINE n == ElementSize(ch.kind)
           v == AsBytes(b)
           f == Write(ch, v)
           bytes == Buffer(ch, f)
           plain == ch.little \/ n = 1
<1>1. /\ n \in Sizes /\ n \in Nat /\ ch.little \in BOOLEAN
      /\ Size(ch) = Elements(ch.shape) * n /\ Elements(ch.shape) \in Nat
      /\ Size(ch) \in Nat /\ Lz4Limit \in Nat /\ Len(b) \in Nat
  BY ChannelIs, Lz4LimitIs DEF IsChannel
<1>2. Codec(ch) = IF plain THEN "raw" ELSE "swapped"
  BY DEF Codec
<1>3. Accepts(ch, v)
  <2>1. Codec(ch) # "scalar" /\ Codec(ch) # "array"
    BY <1>2
  <2> HIDE DEF v
  <2> QED BY <2>1 DEF Accepts
<1>4. ToBytes(v) = b
  <2>1. v.elements = Singles(b)
    BY DEF AsBytes
  <2> QED BY <2>1, SingleBytes DEF ToBytes
<1> HIDE DEF v
<1>5. plain => f = b
  BY <1>2, <1>4 DEF Write
<1>6. f \in Seq(Nat) /\ Len(f) \in Nat /\ Len(f) >= Size(ch) /\ Len(f) <= Len(b)
  <2>1. CASE plain
    <3>1. f = b
      BY <1>5, <2>1
    <3> HIDE DEF f
    <3> QED BY <1>1, <3>1
  <2>2. CASE ~plain
    <3> DEFINE chunks == Chunks(b, n)
               turned == [i \in DOMAIN chunks |-> Reverse(chunks[i])]
    <3>1. f = FlattenSeq(turned)
      BY <1>2, <1>4, <2>2 DEF Write
    <3>2. /\ chunks \in ElementSeq(n) /\ Len(chunks) = Len(b) \div n /\ Len(b) \div n \in Nat
          /\ (Len(b) \div n) * n <= Len(b)
          /\ \A m \in Nat : m * n <= Len(b) <=> m <= Len(b) \div n
      BY <1>1, Chunked
    <3> HIDE DEF f, chunks, n
    <3>3. turned \in ElementSeq(n) /\ Len(turned) = Len(chunks)
      <4>1. chunks \in [1 .. Len(chunks) -> [1 .. n -> Nat]] /\ DOMAIN chunks = 1 .. Len(chunks)
        BY <3>2 DEF ElementSeq
      <4>2. \A i \in 1 .. Len(chunks) : Reverse(chunks[i]) \in [1 .. n -> Nat]
        BY <1>1, <4>1, Turned
      <4>3. turned \in [1 .. Len(chunks) -> [1 .. n -> Nat]]
        BY <4>1, <4>2
      <4>4. Len(chunks) \in Nat
        BY <3>2
      <4> HIDE DEF turned
      <4> QED BY <4>3, <4>4 DEF ElementSeq
    <3> HIDE DEF turned
    <3>4. f \in Seq(Nat) /\ Len(f) = Len(turned) * n
      BY <1>1, <3>1, <3>3, Flattened
    <3>5. Len(f) = (Len(b) \div n) * n
      BY <3>2, <3>3, <3>4
    <3>6. Elements(ch.shape) <= Len(b) \div n
      BY <1>1, <3>2
    <3>7. \A x, y \in Nat : x <= y => x * n <= y * n
      BY <1>1 DEF Sizes
    <3>8. Len(f) >= Size(ch)
      <4>1. Elements(ch.shape) * n <= (Len(b) \div n) * n
        BY <1>1, <3>2, <3>6, <3>7
      <4> QED BY <1>1, <3>5, <4>1
    <3> QED BY <3>2, <3>4, <3>5, <3>8
  <2> QED BY <2>1, <2>2
<1> HIDE DEF f, plain, n
<1>7. PICK zeros \in Seq(Nat) :
         /\ bytes = f \o zeros
         /\ bytes \in Seq(Nat) /\ Len(bytes) = Len(f) + Len(zeros)
         /\ Len(zeros) = IF Size(ch) > Len(f) THEN Size(ch) - Len(f) ELSE 0
  BY <1>1, <1>6, Buffered
<1>8. Len(zeros) = 0 /\ zeros = <<>>
  BY <1>1, <1>6, <1>7
<1>9. bytes = f
  BY <1>6, <1>7, <1>8
<1> HIDE DEF bytes
<1>10. Len(f) < Lz4Limit
  BY <1>1, <1>6
<1> QED BY <1>3, <1>5, <1>6, <1>9, <1>10 DEF bytes, f, v, plain, n

\* A decompressed bitshuffle has lost the bytes of an incomplete element, none
\* of which the value needs.
LEMMA Arrived ==
  ASSUME NEW ch, IsChannel(ch), NEW new, IsChannel(new), new.kind = ch.kind, new.little = ch.little,
         new.compression = ch.compression,
         NEW b \in Seq(Nat), Len(b) >= Size(ch), Len(b) < Lz4Limit
  PROVE  LET bytes == Decompress(new, Data(ch, b))
         IN  /\ Decompresses(new, Data(ch, b))
             /\ bytes \in Seq(Nat) /\ Len(bytes) >= Size(ch) /\ Len(bytes) < Lz4Limit
             /\ \A v : \A count \in 1 .. Elements(ch.shape) :
                   IsValue(v, ch.kind) /\ Carries(ch, b, v, count) => Carries(ch, bytes, v, count)
<1> DEFINE n == ElementSize(ch.kind)
           bytes == Decompress(new, Data(ch, b))
           m == Len(b) \div n
           cut == SubSeq(b, 1, m * n)
<1>1. /\ n \in Sizes /\ n \in Nat /\ (ch.kind = "string" => n = 1)
      /\ Size(ch) = Elements(ch.shape) * n /\ Elements(ch.shape) \in Nat
      /\ Size(ch) \in Nat /\ Lz4Limit \in Nat /\ Len(b) \in Nat
  BY ChannelIs, Lz4LimitIs
<1>2. Decompresses(new, Data(ch, b)) /\ bytes \in {b, cut}
  BY Decompressed
<1> HIDE DEF bytes
<1>3. CASE bytes = b
  BY <1>2, <1>3 DEF bytes
<1>4. CASE bytes = cut
  <2>1. /\ m \in Nat /\ m * n <= Len(b) /\ m * n \in Nat
        /\ \A x \in Nat : x * n <= Len(b) <=> x <= m
    <3>1. m \in Nat /\ m * n <= Len(b) /\ \A x \in Nat : x * n <= Len(b) <=> x <= m
      BY <1>1, Chunked
    <3> HIDE DEF m, n
    <3> QED BY <1>1, <3>1
  <2> HIDE DEF m
  <2>2. cut \in Seq(Nat) /\ Len(cut) = m * n
    <3> HIDE DEF n
    <3>1. \A k \in Nat : k <= Len(b) => SubSeq(b, 1, k) \in Seq(Nat) /\ Len(SubSeq(b, 1, k)) = k
      OBVIOUS
    <3> QED BY <2>1, <3>1
  <2>3. Len(cut) >= Size(ch) /\ Len(cut) < Lz4Limit
    <3> HIDE DEF n, cut
    <3>1. Elements(ch.shape) <= m
      BY <1>1, <2>1
    <3>2. \A x, y \in Nat : x <= y => x * n <= y * n
      BY <1>1 DEF Sizes
    <3>3. Elements(ch.shape) * n <= m * n
      BY <1>1, <2>1, <3>1, <3>2
    <3> QED BY <1>1, <2>1, <2>2, <3>3
  <2>4. ASSUME NEW v, NEW count \in 1 .. Elements(ch.shape), IsValue(v, ch.kind), Carries(ch, b, v, count)
        PROVE  Carries(ch, cut, v, count)
    <3> DEFINE s == OnWire(ch, Part(ch, v, count).elements)
    <3>1. s \in ElementSeq(n) /\ Len(s) \in Nat
      <4>1. Part(ch, v, count).elements \in ElementSeq(n)
        BY <2>4, PartIs DEF IsPart
      <4> QED BY <4>1, OnWireIs
    <3>2. Spells(b, s, n) /\ (ch.kind = "string" => ReadString(b) = Part(ch, v, count).elements)
      BY <2>4 DEF Carries
    <3> HIDE DEF s, n
    <3>3. Len(s) <= m
      BY <2>1, <3>1, <3>2 DEF Spells
    <3>4. Spells(cut, s, n)
      BY <1>1, <2>1, <3>1, <3>2, <3>3, SpellsCut
    <3>5. ch.kind = "string" => cut = b
      <4> SUFFICES ASSUME ch.kind = "string" PROVE cut = b
        OBVIOUS
      <4>1. n = 1
        BY <1>1
      <4>2. Len(b) \div 1 = Len(b) /\ Len(b) * 1 = Len(b)
        BY <1>1
      <4>3. m * n = Len(b)
        BY <4>1, <4>2 DEF m
      <4> QED BY <4>3
    <3> HIDE DEF cut
    <3> QED BY <3>2, <3>4, <3>5 DEF Carries, s, n
  <2> QED BY <1>2, <1>4, <2>2, <2>3, <2>4 DEF bytes
<1> QED BY <1>2, <1>3, <1>4

-----------------------------------------------------------------------------
(* The value's way.                                                        *)

\* What is held or sent after the first reception carries the value offered,
\* unless it was turned around twice.
LongEnough(bytes) == Len(bytes) >= Size(channel) /\ Len(bytes) < Lz4Limit

\* All elements, or those that a receiver has read that is not raw: of every
\* hop before this one it is known by rawRelays whether it was raw.
CountAt(hop) == IF rawRelays < hop THEN ReadCount(channel) ELSE Elements(channel.shape)

OriginalIn(bytes, count) == ~TurnedTwice => Carries(channel, bytes, original, count)

HeldRaw == \E bytes \in Seq(Nat) :
    value = AsBytes(bytes) /\ LongEnough(bytes) /\ OriginalIn(bytes, CountAt(hops - 1))

HeldRead ==
    /\ IsValue(value, channel.kind) /\ Accepts(channel, value)
    /\ ~TurnedTwice => value = Kept(channel, original)

IsFrame(bytes) == frame = [metadata |-> Metadata(channel), data |-> Data(channel, bytes)]

FrameOK == \E bytes \in Seq(Nat) :
    IsFrame(bytes) /\ LongEnough(bytes) /\ OriginalIn(bytes, CountAt(hops))

TypeOK ==
    /\ state \in {"held", "sent", "refused"}
    /\ IsChannel(channel) /\ IsValue(original, channel.kind)
    /\ hops \in Nat /\ rawRelays \in Nat

FirstHop == hops = 0 => rawRelays = 0 /\ value = original

IInv ==
    /\ TypeOK
    /\ FirstHop
    /\ state = "held" /\ hops > 0 => rawRelays <= hops - 1
    /\ state = "sent" => rawRelays <= hops
    /\ state = "held" /\ hops > 0 => IF channel.raw THEN HeldRaw ELSE HeldRead
    /\ state = "sent" => FrameOK
    /\ state = "refused" /\ hops > 0 => channel.raw /\ channel.kind = "string"

LEMMA InitIInv == Init => IInv
<1> SUFFICES ASSUME Init PROVE IInv
  OBVIOUS
<1>1. IsChannel(channel) /\ channel.kind \in Kinds
  BY DEF Init, Channels, IsChannel, AnyShape, Compressions
<1>2. IsValue(original, channel.kind)
  BY <1>1, OfferedIsValue DEF Init
<1> QED BY <1>1, <1>2 DEF Init, IInv, TypeOK, FirstHop

\* How many elements they carry: one step later rawRelays tells.
CountSent ==
    IF hops > 0 /\ (~channel.raw \/ rawRelays < hops - 1) THEN ReadCount(channel)
    ELSE Elements(channel.shape)

\* The bytes that are sent.
LEMMA SentBytes ==
  ASSUME IInv, state = "held", Accepts(channel, value)
  PROVE  LET bytes == Buffer(channel, Write(channel, value))
             relayed == hops > 0 /\ channel.raw
         IN  /\ bytes \in Seq(Nat) /\ LongEnough(bytes)
             /\ ~TurnedTwice /\ (relayed => channel.little \/ ElementSize(channel.kind) = 1)
                   => Carries(channel, bytes, original, CountSent)
<1> DEFINE bytes == Buffer(channel, Write(channel, value))
<1>1. IsChannel(channel) /\ IsValue(original, channel.kind) /\ hops \in Nat /\ channel.raw \in BOOLEAN
  BY DEF IInv, TypeOK, IsChannel
<1>2. CASE hops = 0
  <2>1. value = original
    BY <1>2 DEF IInv, FirstHop
  <2>2. CountSent = Elements(channel.shape) /\ CountSent \in 1 .. Elements(channel.shape)
    <3>1. CountSent = Elements(channel.shape)
      BY <1>2 DEF CountSent
    <3> QED BY <1>1, <3>1, ReadCountIs
  <2> QED BY <1>1, <2>1, <2>2, Sent DEF LongEnough
<1>3. CASE hops > 0 /\ channel.raw = FALSE
  <2>1. HeldRead
    BY <1>3 DEF IInv
  <2>5. ReadCount(channel) \in 1 .. Elements(channel.shape) /\ CountSent = ReadCount(channel)
    BY <1>1, <1>3, ReadCountIs DEF CountSent
  <2>2. bytes \in Seq(Nat) /\ LongEnough(bytes) /\ Carries(channel, bytes, value, ReadCount(channel))
    BY <1>1, <2>1, <2>5, Sent DEF HeldRead, LongEnough
  <2> HIDE DEF bytes
  <2>3. ASSUME ~TurnedTwice PROVE Carries(channel, bytes, original, CountSent)
    <3>1. value = Kept(channel, original)
      BY <2>1, <2>3 DEF HeldRead
    <3>2. Kept(channel, value) = Kept(channel, original)
      BY <1>1, <3>1, KeptAgain
    <3>3. Part(channel, value, ReadCount(channel)) = Part(channel, original, ReadCount(channel))
      BY <3>2 DEF Kept
    <3> QED BY <2>2, <2>5, <3>3 DEF Carries
  <2> QED BY <2>2, <2>3 DEF bytes
<1>4. CASE hops > 0 /\ channel.raw = TRUE
  <2>1. PICK b \in Seq(Nat) : value = AsBytes(b) /\ LongEnough(b)
                                /\ OriginalIn(b, CountAt(hops - 1))
    BY <1>4 DEF IInv, HeldRaw
  <2>2. channel.kind # "string"
    <3> SUFFICES ASSUME channel.kind = "string" PROVE FALSE
      OBVIOUS
    <3>1. Codec(channel) = "scalar"
      BY DEF Codec
    <3>2. value.kind = "string"
      BY <3>1 DEF Accepts
    <3>3. value.kind = "uint8"
      BY <2>1 DEF AsBytes
    <3> QED BY <3>2, <3>3
  <2>3. /\ bytes \in Seq(Nat) /\ LongEnough(bytes)
        /\ channel.little \/ ElementSize(channel.kind) = 1 => bytes = b
    BY <1>1, <1>4, <2>1, <2>2, SentRaw DEF LongEnough
  <2> HIDE DEF bytes
  <2>4. ASSUME ~TurnedTwice, channel.little \/ ElementSize(channel.kind) = 1
        PROVE  Carries(channel, bytes, original, CountSent)
    <3>1. CountSent = CountAt(hops - 1)
      BY <1>4 DEF CountSent, CountAt
    <3> QED BY <2>1, <2>3, <2>4, <3>1 DEF OriginalIn
  <2> QED BY <1>4, <2>3, <2>4 DEF bytes
<1>5. hops = 0 \/ (hops > 0 /\ channel.raw = FALSE) \/ (hops > 0 /\ channel.raw = TRUE)
  BY <1>1
<1> QED BY <1>2, <1>3, <1>4, <1>5, Zenon

LEMMA SendIInv == IInv /\ Send => IInv'
<1> SUFFICES ASSUME IInv, Send PROVE IInv'
  OBVIOUS
<1> DEFINE bytes == Buffer(channel, Write(channel, value))
           relayed == hops > 0 /\ channel.raw
<1>1. /\ state = "held" /\ channel' = channel /\ value' = value /\ hops' = hops
      /\ original' = original
      /\ rawRelays' = IF relayed THEN rawRelays + 1 ELSE rawRelays
      /\ state' = IF Accepts(channel, value) THEN "sent" ELSE "refused"
  BY DEF Send
<1>2. /\ IsChannel(channel) /\ IsValue(original, channel.kind) /\ hops \in Nat /\ rawRelays \in Nat
      /\ channel.raw \in BOOLEAN /\ channel.little \in BOOLEAN
  BY DEF IInv, TypeOK, IsChannel
<1>3. TypeOK'
  <2>1. rawRelays' \in Nat
    BY <1>1, <1>2
  <2>2. state' \in {"held", "sent", "refused"}
    BY <1>1
  <2> QED BY <1>1, <1>2, <2>1, <2>2, Zenon DEF TypeOK
<1>4. FirstHop'
  <2> SUFFICES ASSUME hops' = 0 PROVE (rawRelays = 0 /\ value = original)'
    BY DEF FirstHop
  <2>1. rawRelays' = rawRelays
    BY <1>1
  <2> QED BY <1>1, <2>1 DEF IInv, FirstHop
<1>8. (state = "held" /\ hops > 0 => rawRelays <= hops - 1)'
  BY <1>1
<1>9. (state = "sent" => rawRelays <= hops)'
  <2>1. /\ hops = 0 => rawRelays = 0
        /\ hops > 0 => rawRelays <= hops - 1
    BY <1>1 DEF IInv, FirstHop
  <2> QED BY <1>1, <1>2, <2>1
<1>5. (state = "held" /\ hops > 0 => IF channel.raw THEN HeldRaw ELSE HeldRead)'
  BY <1>1
<1>6. ASSUME state' = "sent" PROVE FrameOK'
  <2>1. Accepts(channel, value)
    BY <1>1, <1>6
  <2>2. frame' = [metadata |-> Metadata(channel), data |-> Data(channel, bytes)]
    BY <2>1 DEF Send
  <2>3. /\ bytes \in Seq(Nat) /\ LongEnough(bytes)
        /\ ~TurnedTwice /\ (relayed => channel.little \/ ElementSize(channel.kind) = 1)
              => Carries(channel, bytes, original, CountSent)
    BY <1>1, <2>1, SentBytes
  <2> HIDE DEF bytes
  <2>4. PICK b : b = bytes
    OBVIOUS
  <2>5. IsFrame(b)' /\ LongEnough(b)'
    BY <1>1, <2>2, <2>3, <2>4 DEF IsFrame, LongEnough
  <2>7. CountAt(hops)' = CountSent
    <3>1. hops = 0 => rawRelays = 0
      BY DEF IInv, FirstHop
    <3>2. hops > 0 => rawRelays <= hops - 1
      BY <1>1 DEF IInv
    <3>3. rawRelays' < hops <=> hops > 0 /\ (~channel.raw \/ rawRelays < hops - 1)
      BY <1>1, <1>2, <3>1, <3>2
    <3>4. ReadCount(channel)' = ReadCount(channel) /\ Elements(channel.shape)' = Elements(channel.shape)
      BY <1>1, Zenon
    <3> QED BY <1>1, <3>3, <3>4, Zenon DEF CountAt, CountSent
  <2>6. OriginalIn(b, CountAt(hops))'
    <3>8. PICK c : c = CountSent
      OBVIOUS
    <3> SUFFICES ASSUME ~TurnedTwice' PROVE Carries(channel, b, original, c)'
      BY <2>7, <3>8 DEF OriginalIn
    <3>1. ~(rawRelays' > 0 /\ ~channel.little /\ ElementSize(channel.kind) > 1)
      BY <1>1 DEF TurnedTwice
    <3>2. rawRelays > 0 => rawRelays' > 0
      BY <1>1, <1>2
    <3>3. relayed => rawRelays' > 0
      BY <1>1, <1>2
    <3>4. ElementSize(channel.kind) > 1 \/ ElementSize(channel.kind) = 1
      <4>1. ElementSize(channel.kind) \in Sizes
        BY <1>2, ChannelIs
      <4> QED BY <4>1 DEF Sizes
    <3>5. ~TurnedTwice
      BY <3>1, <3>2 DEF TurnedTwice
    <3>6. relayed => channel.little \/ ElementSize(channel.kind) = 1
      BY <3>1, <3>3, <3>4
    <3>7. Carries(channel, b, original, c)
      BY <2>3, <2>4, <3>5, <3>6, <3>8
    <3> QED BY <1>1, <3>7 DEF Carries, OnWire
  <2> QED BY <2>3, <2>4, <2>5, <2>6 DEF FrameOK
<1>7. ASSUME state' = "refused", hops' > 0 PROVE (channel.raw /\ channel.kind = "string")'
  <2>1. ~Accepts(channel, value) /\ hops > 0
    BY <1>1, <1>7
  <2>2. CASE channel.raw = FALSE
    BY <1>1, <2>1, <2>2 DEF IInv, HeldRead
  <2>3. CASE channel.raw = TRUE
    <3>1. CASE channel.kind = "string"
      BY <1>1, <2>3, <3>1
    <3>2. CASE channel.kind # "string"
      <4>1. Codec(channel) # "scalar" /\ Codec(channel) # "array"
        BY <2>3, <3>2 DEF Codec
      <4> QED BY <2>1, <4>1 DEF Accepts
    <3> QED BY <3>1, <3>2
  <2> QED BY <1>2, <2>2, <2>3
<1> QED BY <1>3, <1>4, <1>5, <1>6, <1>7, <1>8, <1>9 DEF IInv

LEMMA ReceiveIInv == ASSUME NEW raw \in BOOLEAN PROVE IInv /\ Receive(raw) => IInv'
<1> SUFFICES ASSUME IInv, Receive(raw) PROVE IInv'
  OBVIOUS
<1>1. PICK new : new = channel'
  OBVIOUS
<1>2. /\ state = "sent" /\ new = ParseChannel(frame.metadata, raw)
      /\ hops' = hops + 1 /\ original' = original /\ rawRelays' = rawRelays
  BY <1>1 DEF Receive
<1>3. /\ IsChannel(channel) /\ IsValue(original, channel.kind) /\ hops \in Nat /\ rawRelays \in Nat
  BY DEF IInv, TypeOK
<1>4. PICK b \in Seq(Nat) : IsFrame(b) /\ LongEnough(b) /\ OriginalIn(b, CountAt(hops))
  BY <1>2 DEF IInv, FrameOK
<1>22. PICK count : count = CountAt(hops)
  OBVIOUS
<1>23. /\ count \in 1 .. Elements(channel.shape)
       /\ count \in {ReadCount(channel), Elements(channel.shape)}
  BY <1>3, <1>22, ReadCountIs DEF CountAt
<1>5. frame.metadata = Metadata(channel) /\ frame.data = Data(channel, b)
  BY <1>4 DEF IsFrame
<1>6. /\ IsChannel(new) /\ new.kind = channel.kind /\ new.little = channel.little
      /\ new.compression = channel.compression /\ new.raw = raw
      /\ IsArray(new.shape) = IsArray(channel.shape)
      /\ Elements(new.shape) = Elements(channel.shape) /\ Size(new) = Size(channel)
  <2>1. new = ParseChannel(Metadata(channel), raw)
    BY <1>2, <1>5
  <2> QED BY <1>3, <2>1, ParsedChannel
<1> DEFINE bytes == Decompress(new, frame.data)
           read == IF raw THEN AsBytes(bytes) ELSE Read(new, bytes)
<1>7. /\ Decompresses(new, frame.data)
      /\ bytes \in Seq(Nat) /\ Len(bytes) >= Size(new) /\ Len(bytes) < Lz4Limit
      /\ \A v : IsValue(v, channel.kind) /\ Carries(channel, b, v, count)
                => Carries(channel, bytes, v, count)
  BY <1>3, <1>4, <1>5, <1>6, <1>23, Arrived DEF LongEnough
<1>8. IF read = Unreadable THEN state' = "panic" ELSE state' = "held" /\ value' = read
  BY <1>1, <1>7 DEF Receive, AsBytes, Singles
<1>9. PICK c : c = bytes
  OBVIOUS
<1>10. PICK r : r = read
  OBVIOUS
<1>11. r = IF raw THEN AsBytes(c) ELSE Read(new, c)
  BY <1>9, <1>10
<1>12. /\ c \in Seq(Nat) /\ Len(c) >= Size(new) /\ Len(c) < Lz4Limit
       /\ \A v : IsValue(v, channel.kind) /\ Carries(channel, b, v, count)
                => Carries(channel, c, v, count)
  BY <1>7, <1>9
<1>13. IF r = Unreadable THEN state' = "panic" ELSE state' = "held" /\ value' = r
  BY <1>8, <1>10
<1> HIDE DEF bytes, read
<1>14. TurnedTwice' = TurnedTwice
  BY <1>1, <1>2, <1>6 DEF TurnedTwice
<1>15. ~TurnedTwice => Carries(new, c, original, count)
  <2>1. ~TurnedTwice => Carries(channel, c, original, count)
    BY <1>3, <1>4, <1>12, <1>22 DEF OriginalIn
  <2> QED BY <1>6, <2>1, SameCarried
<1>24. CountAt(hops - 1)' = count
  <2>1. ReadCount(new) = ReadCount(channel)
    BY <1>6, SameCarried
  <2>2. rawRelays' = rawRelays /\ hops' - 1 = hops
    BY <1>2, <1>3
  <2> QED BY <1>1, <1>6, <1>22, <2>1, <2>2 DEF CountAt
<1>16. IsValue(original, new.kind)
  BY <1>3, <1>6
<1>17. state' = "held" /\ IF raw THEN HeldRaw' ELSE HeldRead'
  <2>1. CASE raw = TRUE
    <3>1. r = AsBytes(c)
      BY <1>11, <2>1
    <3>2. r # Unreadable
      BY <3>1 DEF AsBytes, Unreadable
    <3>3. state' = "held" /\ value' = AsBytes(c)
      BY <1>13, <3>1, <3>2
    <3>4. LongEnough(c)'
      BY <1>1, <1>12 DEF LongEnough
    <3>5. OriginalIn(c, CountAt(hops - 1))'
      BY <1>1, <1>2, <1>14, <1>15, <1>24 DEF OriginalIn
    <3> QED BY <1>12, <2>1, <3>3, <3>4, <3>5 DEF HeldRaw
  <2>2. CASE raw = FALSE
    <3>1. r = Read(new, c)
      BY <1>11, <2>2
    <3>2. /\ r # Unreadable /\ IsValue(r, new.kind) /\ Accepts(new, r)
          /\ Carries(new, c, original, ReadCount(new)) => r = Kept(new, original)
      BY <1>6, <1>12, <1>16, <2>2, <3>1, ReadIs
    <3>6. Carries(new, c, original, count) => Carries(new, c, original, ReadCount(new))
      <4>1. /\ ReadCount(new) \in 1 .. Elements(new.shape) /\ count \in 1 .. Elements(new.shape)
            /\ count \in {ReadCount(new), Elements(new.shape)}
            /\ ReadCount(new) \in Nat /\ Elements(new.shape) \in Nat
        BY <1>6, <1>23, SameCarried, ReadCountIs
      <4>2. ReadCount(new) \in 1 .. count
        BY <4>1
      <4> QED BY <1>6, <1>12, <1>16, <4>1, <4>2, CarriesLess
    <3>3. state' = "held" /\ value' = r
      BY <1>13, <3>2
    <3>4. IsValue(value, channel.kind)' /\ Accepts(channel, value)'
      BY <1>1, <3>2, <3>3
    <3>5. TurnedTwice' \/ (value = Kept(channel, original))'
      <4>1. TurnedTwice' \/ value' = Kept(new, original)
        BY <1>14, <1>15, <3>2, <3>3, <3>6
      <4> QED BY <1>1, <1>2, <4>1
    <3> QED BY <2>2, <3>3, <3>4, <3>5 DEF HeldRead
  <2> QED BY <2>1, <2>2
<1>18. TypeOK'
  <2>1. hops' \in Nat
    BY <1>2, <1>3
  <2> QED BY <1>1, <1>2, <1>3, <1>6, <1>16, <1>17, <2>1 DEF TypeOK
<1>19. FirstHop'
  <2>1. hops' # 0
    BY <1>2, <1>3
  <2> QED BY <2>1 DEF FirstHop
<1>20. (IF channel.raw THEN HeldRaw ELSE HeldRead)'
  <2>1. channel'.raw = raw
    BY <1>1, <1>6
  <2> QED BY <1>17, <2>1
<1>21. state' # "sent" /\ state' # "refused"
  BY <1>17
<1>25. (state = "held" /\ hops > 0 => rawRelays <= hops - 1)'
  <2>1. rawRelays <= hops
    <3>1. CASE state = "sent"
      BY <1>3, <3>1 DEF IInv
    <3> QED BY <1>2, <3>1
  <2> QED BY <1>2, <1>3, <2>1
<1> QED BY <1>18, <1>19, <1>20, <1>21, <1>25 DEF IInv

LEMMA Invariant == Spec => []IInv
<1>1. IInv /\ [Next]_vars => IInv'
  <2> SUFFICES ASSUME IInv, [Next]_vars PROVE IInv'
    OBVIOUS
  <2>1. CASE Send
    BY <2>1, SendIInv
  <2>2. ASSUME NEW raw \in BOOLEAN, Receive(raw) PROVE IInv'
    BY <2>2, ReceiveIInv
  <2>3. CASE UNCHANGED vars
    <3>1. /\ state' = state /\ channel' = channel /\ value' = value /\ frame' = frame
          /\ hops' = hops /\ original' = original /\ rawRelays' = rawRelays
      BY <2>3 DEF vars
    <3>2. TypeOK'
      BY <3>1, Zenon DEF IInv, TypeOK
    <3>3. FirstHop'
      BY <3>1, Zenon DEF IInv, FirstHop
    <3>4. TurnedTwice' = TurnedTwice
      BY <3>1, Zenon DEF TurnedTwice
    <3>9. CountAt(hops)' = CountAt(hops) /\ CountAt(hops - 1)' = CountAt(hops - 1)
      BY <3>1, Zenon DEF CountAt
    <3>5. \A b : /\ LongEnough(b)' = LongEnough(b) /\ IsFrame(b)' = IsFrame(b)
                 /\ OriginalIn(b, CountAt(hops))' = OriginalIn(b, CountAt(hops))
                 /\ OriginalIn(b, CountAt(hops - 1))' = OriginalIn(b, CountAt(hops - 1))
      <4> TAKE b
      <4>1. \A count : (~TurnedTwice => Carries(channel, b, original, count))' =
                         (~TurnedTwice => Carries(channel, b, original, count))
        BY <3>1, <3>4 DEF Carries, OnWire
      <4>2. /\ OriginalIn(b, CountAt(hops))' = OriginalIn(b, CountAt(hops))
            /\ OriginalIn(b, CountAt(hops - 1))' = OriginalIn(b, CountAt(hops - 1))
        BY <3>9, <4>1 DEF OriginalIn
      <4> QED BY <3>1, <4>2 DEF LongEnough, IsFrame
    <3>6. HeldRaw' = HeldRaw
      BY <3>1, <3>5 DEF HeldRaw
    <3>7. HeldRead' = HeldRead
      BY <3>1, <3>4 DEF HeldRead
    <3>8. FrameOK' = FrameOK
      BY <3>5 DEF FrameOK
    <3> QED BY <3>1, <3>2, <3>3, <3>6, <3>7, <3>8, Zenon DEF IInv
  <2> QED BY <2>1, <2>2, <2>3 DEF Next
<1> QED BY InitIInv, <1>1, PTL DEF Spec

-----------------------------------------------------------------------------
(* The theorems.                                                           *)

\* Whatever the types, the shapes, the byte order, the compression and the
\* number of hops, serialize_channel and parse_channel_data deliver what was
\* sent, as many elements as the shape has, to receivers raw or not; but for
\* big-endian elements of several bytes that were relayed raw, and for the
\* images of one row once a receiver not raw has read them, of which the first
\* element arrives.  Shapes have no dimension 0.
THEOREM ValuesArrive == Spec => []Delivered
<1>1. IInv => Delivered
  <2> DEFINE whole == Fitted(channel, original)
             sent == IF Cropped THEN [whole EXCEPT !.array = FALSE, !.elements = <<@[1]>>]
                     ELSE whole
             wire == OnWire(channel, sent.elements)
             count == IF Cropped THEN 1 ELSE Elements(channel.shape)
  <2> SUFFICES ASSUME IInv, state = "held", hops > 0, ~TurnedTwice
               PROVE  IF channel.raw THEN IsPrefix(FlattenSeq(wire), ToBytes(value))
                      ELSE value = sent
    BY DEF Delivered, OnWire
  <2>1. IsChannel(channel) /\ IsValue(original, channel.kind) /\ channel.raw \in BOOLEAN
    BY DEF IInv, TypeOK, IsChannel
  <2>4. count \in 1 .. Elements(channel.shape)
    <3>1. Elements(channel.shape) \in Nat \ {0}
      BY <2>1, ChannelIs
    <3> QED BY <3>1
  <2>5. /\ Cropped => ReadCount(channel) = count /\ IsArray(channel.shape) = FALSE
        /\ ~Cropped /\ OneRow(channel.shape) /\ channel.kind # "string" =>
              channel.raw /\ ~(rawRelays < hops - 1)
        /\ ~Cropped /\ ~OneRow(channel.shape) =>
              ReadCount(channel) = count /\ IsArray(channel.shape) = (Elements(channel.shape) > 1)
    <3>1. Cropped => OneRow(channel.shape)
      BY DEF Cropped
    <3>2. ~Cropped /\ OneRow(channel.shape) /\ channel.kind # "string" =>
             channel.raw /\ ~(rawRelays < hops - 1)
      BY DEF Cropped, ReadTyped
    <3> QED BY <2>1, <3>1, <3>2, ReadCountIs
  <2>6. sent.elements = Part(channel, original, count).elements
    <3>1. CASE channel.kind = "string"
      BY <3>1 DEF Fitted, Part, Cropped
    <3>2. CASE channel.kind # "string" /\ ~Cropped
      BY <3>2 DEF Fitted, Part
    <3>3. CASE channel.kind # "string" /\ Cropped
      <4>1. 1 \in 1 .. Elements(channel.shape)
        BY <2>4, <3>3
      <4>2. sent.elements = <<whole.elements[1]>>
        BY <3>3 DEF Fitted
      <4>3. whole.elements[1] = IF 1 <= Len(original.elements) THEN original.elements[1]
                                ELSE [j \in 1 .. ElementSize(channel.kind) |-> 0]
        BY <3>3, <4>1 DEF Fitted
      <4>4. Part(channel, original, 1).elements = <<whole.elements[1]>>
        <5>1. Part(channel, original, 1).elements =
                 [i \in 1 .. 1 |-> IF i <= Len(original.elements) THEN original.elements[i]
                                  ELSE [j \in 1 .. ElementSize(channel.kind) |-> 0]]
          BY <3>3 DEF Part
        <5> HIDE DEF whole
        <5>2. PICK e : e = whole.elements[1]
          OBVIOUS
        <5>3. \A i \in 1 .. 1 : i = 1
          OBVIOUS
        <5>4. \A i \in 1 .. 1 : (IF i <= Len(original.elements) THEN original.elements[i]
                                ELSE [j \in 1 .. ElementSize(channel.kind) |-> 0]) = e
          BY <4>3, <5>2, <5>3, Zenon
        <5>5. Part(channel, original, 1).elements = [i \in 1 .. 1 |-> e]
          BY <5>1, <5>4
        <5>6. [i \in 1 .. 1 |-> e] = <<e>>
          OBVIOUS
        <5> QED BY <5>2, <5>5, <5>6
      <4> QED BY <3>3, <4>2, <4>4
    <3> QED BY <3>1, <3>2, <3>3
  <2>2. CASE ~channel.raw
    <3>1. value = Part(channel, original, ReadCount(channel))
      BY <2>2 DEF IInv, HeldRead, Kept
    <3>2. Part(channel, original, ReadCount(channel)) = sent
      <4>1. CASE channel.kind = "string"
        BY <4>1 DEF Fitted, Part, Cropped
      <4>2. CASE channel.kind # "string"
        <5>1. /\ ReadCount(channel) = count
              /\ IsArray(channel.shape) = IF Cropped THEN FALSE ELSE Elements(channel.shape) > 1
          BY <2>2, <2>5, <4>2
        <5>2. sent = [kind |-> channel.kind,
                      array |-> IF Cropped THEN FALSE ELSE Elements(channel.shape) > 1,
                      elements |-> sent.elements]
          BY <4>2 DEF Fitted
        <5>3. Part(channel, original, count) =
                 [kind |-> channel.kind, array |-> IsArray(channel.shape),
                  elements |-> Part(channel, original, count).elements]
          BY <4>2 DEF Part
        <5> HIDE DEF sent, count
        <5> QED BY <2>6, <5>1, <5>2, <5>3
      <4> QED BY <4>1, <4>2
    <3> QED BY <2>2, <3>1, <3>2
  <2>3. CASE channel.raw
    <3>1. PICK bytes \in Seq(Nat) :
             value = AsBytes(bytes) /\ Carries(channel, bytes, original, CountAt(hops - 1))
      BY <2>3 DEF IInv, HeldRaw, OriginalIn
    <3>2. ToBytes(value) = bytes
      <4>1. value.elements = Singles(bytes)
        BY <3>1 DEF AsBytes
      <4> QED BY <4>1, SingleBytes DEF ToBytes
    <3>6. Carries(channel, bytes, original, count)
      <4>1. CASE channel.kind = "string"
        <5>1. Part(channel, original, count) = Part(channel, original, CountAt(hops - 1))
          BY <4>1 DEF Part
        <5> QED BY <3>1, <5>1 DEF Carries
      <4>2. CASE channel.kind # "string"
        <5>1. /\ CountAt(hops - 1) \in {ReadCount(channel), Elements(channel.shape)}
              /\ ~(rawRelays < hops - 1) => CountAt(hops - 1) = Elements(channel.shape)
          BY DEF CountAt
        <5>2. CountAt(hops - 1) = count \/ CountAt(hops - 1) = Elements(channel.shape)
          BY <2>5, <4>2, <5>1
        <5>3. PICK many : many = CountAt(hops - 1)
          OBVIOUS
        <5>4. Elements(channel.shape) \in Nat /\ many \in 1 .. Elements(channel.shape)
          BY <2>1, <2>4, <5>2, <5>3, ReadCountIs
        <5>5. count \in 1 .. many
          <6> HIDE DEF count
          <6> QED BY <2>4, <5>2, <5>3, <5>4
        <5> HIDE DEF count
        <5> QED BY <2>1, <3>1, <5>3, <5>4, <5>5, CarriesLess
      <4> QED BY <4>1, <4>2
    <3>3. wire \in ElementSeq(ElementSize(channel.kind)) /\ ElementSize(channel.kind) \in Sizes
      <4>1. sent.elements \in ElementSeq(ElementSize(channel.kind))
        <5> HIDE DEF sent, count
        <5>1. IsPart(channel, original, count, Part(channel, original, count))
          BY <2>1, <2>4, PartIs
        <5> QED BY <2>6, <5>1 DEF IsPart
      <4> HIDE DEF sent
      <4> QED BY <2>1, <4>1, OnWireIs, ChannelIs
    <3>4. Spells(bytes, wire, ElementSize(channel.kind))
      <4> HIDE DEF sent, count
      <4> QED BY <2>6, <3>6 DEF Carries
    <3> HIDE DEF wire
    <3>5. IsPrefix(FlattenSeq(wire), ToBytes(value))
      BY <3>2, <3>3, <3>4, SpelledPrefix
    <3> QED BY <2>3, <3>5
  <2> QED BY <2>1, <2>2, <2>3
<1> QED BY <1>1, Invariant, PTL

\* What serialize_channel made, parse_channel_data reads without an error or a
\* panic, and a value received can be sent on, however often; but for a string
\* received raw.  No shape has a dimension 0, with which an empty raw value
\* would make the receiver panic (ShapesAssumption).
THEOREM ValuesCanBeSentOn == Spec => []Relayable
<1>1. IInv => Relayable
  BY DEF IInv, TypeOK, Relayable
<1> QED BY <1>1, Invariant, PTL

================================================================================
