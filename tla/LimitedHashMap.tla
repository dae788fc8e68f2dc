---------------------------- MODULE LimitedHashMap ----------------------------
(***************************************************************************)
(* LimitedHashMap<K, V> of utils.rs, "Ordered HashMap with a maximum size",*)
(* as operators on a record: the map, a function on the keys present; the  *)
(* order in which they were last updated, oldest first; the maximum size;  *)
(* and whether the HashMap has allocated, which is all is_void can see.    *)
(***************************************************************************)
EXTENDS Integers, Sequences, FiniteSets

\* A map with these contents and this maximum.
Holding(map, order, max_size, allocated) ==
    [map |-> map, order |-> order, max_size |-> max_size, allocated |-> allocated]

\* Mutation: one entry fewer than asked for.
NewMapShort(n) == Holding(<<>>, <<>>, n - 1, n > 0)

\* LimitedHashMap::new.  HashMap::with_capacity(0) allocates nothing.
NewMap(n) == Holding(<<>>, <<>>, n, n > 0)

\* LimitedHashMap::void.
VoidMap == Holding(<<>>, <<>>, 1, FALSE)

IsVoid(m) == ~m.allocated /\ m.max_size = 1

KeysOf(m) == DOMAIN m.map

\* f with key mapped to value, and f without the keys in S.
With(f, key, value) ==
    [k \in DOMAIN f \cup {key} |-> IF k = key THEN value ELSE f[k]]

Without(f, S) == [k \in DOMAIN f \ S |-> f[k]]

Occurs(order, key) == \E i \in 1 .. Len(order) : order[i] = key

\* retain(|k| k != key): the order has no duplicates, so that takes out one
\* element at most and closes the gap.
Forget(order, key) ==
    IF Occurs(order, key)
    THEN LET p == CHOOSE i \in 1 .. Len(order) : order[i] = key
         IN  [i \in 1 .. Len(order) - 1 |-> IF i < p THEN order[i] ELSE order[i + 1]]
    ELSE order

\* Mutation: the order of a key already present is not refreshed.
RefreshNot(m, key) ==
    IF key \in KeysOf(m) THEN m.order ELSE Append(m.order, key)

\* The order after an update of key, before any eviction.
Refresh(m, key) ==
    Append(IF key \in KeysOf(m) THEN Forget(m.order, key) ELSE m.order, key)

\* Mutation: the entry evicted is the one just inserted.
InsertEvictingNewest(m, key, value) ==
    LET map == With(m.map, key, value)
        order == Refresh(m, key)
    IN  IF Cardinality(DOMAIN map) > m.max_size
        THEN Holding(Without(map, {key}), SubSeq(order, 1, Len(order) - 1),
                     m.max_size, TRUE)
        ELSE Holding(map, order, m.max_size, TRUE)

Insert(m, key, value) ==
    LET map == With(m.map, key, value)
        order == Refresh(m, key)
    IN  IF Cardinality(DOMAIN map) > m.max_size
        THEN Holding(Without(map, {Head(order)}), Tail(order), m.max_size, TRUE)
        ELSE Holding(map, order, m.max_size, TRUE)

\* Mutation: a removed key stays in the order.
RemoveUnordered(m, key) ==
    Holding(Without(m.map, {key}), m.order, m.max_size, m.allocated)

Remove(m, key) ==
    Holding(Without(m.map, {key}),
            IF key \in KeysOf(m) THEN Forget(m.order, key) ELSE m.order,
            m.max_size, m.allocated)

\* set_max_size: while the map is too large the oldest entry goes.  Each
\* iteration takes one key out of both, so the surplus is the number of them.
SetMaxSize(m, n) ==
    LET surplus == Cardinality(KeysOf(m)) - n
    IN  IF surplus > 0
        THEN Holding(Without(m.map, {m.order[i] : i \in 1 .. surplus}),
                     SubSeq(m.order, surplus + 1, Len(m.order)), n, m.allocated)
        ELSE Holding(m.map, m.order, n, m.allocated)

-----------------------------------------------------------------------------
(* What the three fields promise each other.                               *)

NoDuplicates(order) ==
    \A i, j \in 1 .. Len(order) : order[i] = order[j] => i = j

Listed(order) == {order[i] : i \in 1 .. Len(order)}

\* The order lists every key of the map exactly once.  Were it to miss one,
\* set_max_size's loop would not end.
OrderMatchesKeys(m) == NoDuplicates(m.order) /\ KeysOf(m) = Listed(m.order)

WithinMaxSize(m) == Len(m.order) <= m.max_size

=============================================================================
