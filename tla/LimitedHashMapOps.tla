-------------------------- MODULE LimitedHashMapOps ---------------------------
(***************************************************************************)
(* A LimitedHashMap under every sequence of the calls its &mut self        *)
(* interface allows, with a history of the updates to compare it with.     *)
(***************************************************************************)
EXTENDS LimitedHashMap

CONSTANTS
    Keys, Values,
    MaxSizes,      \* the maximum sizes asked for
    MaxUpdates     \* bound: number of inserts

ASSUME KeysAssumption == IsFiniteSet(Keys) /\ MaxUpdates \in Nat
ASSUME MaxSizesAssumption == MaxSizes \subseteq Nat

VARIABLES
    lhm,           \* the LimitedHashMap
    updated,       \* history: when each key was last inserted, 0 if it is not in
    content,       \* history: the value last inserted for each key
    clock          \* history: number of inserts

mapVars == <<lhm, updated, content, clock>>

Maps ==
    [map : UNION {[S -> Values] : S \in SUBSET Keys}, order : Seq(Keys),
     max_size : Nat, allocated : BOOLEAN]

MapTypeOK ==
    /\ lhm \in Maps
    /\ updated \in [Keys -> 0 .. MaxUpdates]
    /\ content \in [Keys -> Values]
    /\ clock \in 0 .. MaxUpdates

MapInit ==
    /\ \E n \in MaxSizes : lhm \in {NewMap(n), VoidMap}
    /\ updated = [k \in Keys |-> 0]
    /\ content \in [Keys -> Values]
    /\ clock = 0

InsertKey(k, v) ==
    /\ clock < MaxUpdates
    /\ clock' = clock + 1
    /\ lhm' = Insert(lhm, k, v)
    /\ updated' = [updated EXCEPT ![k] = clock + 1]
    /\ content' = [content EXCEPT ![k] = v]

RemoveKey(k) ==
    /\ lhm' = Remove(lhm, k)
    /\ updated' = [updated EXCEPT ![k] = 0]
    /\ UNCHANGED <<content, clock>>

Resize(n) ==
    /\ lhm' = SetMaxSize(lhm, n)
    /\ UNCHANGED <<updated, content, clock>>

MapNext ==
    \/ \E k \in Keys, v \in Values : InsertKey(k, v)
    \/ \E k \in Keys : RemoveKey(k)
    \/ \E n \in MaxSizes : Resize(n)

MapSpec == MapInit /\ [][MapNext]_mapVars

-----------------------------------------------------------------------------

\* The map and its order agree and stay within the maximum, after any sequence
\* of inserts, removals and changes of the maximum.
WellFormed == OrderMatchesKeys(lhm) /\ WithinMaxSize(lhm)

\* "Drops the oldest updated entry if size exceeds max_size" (utils.rs:46):
\* whatever is present was updated later than whatever was dropped, and has
\* the value last inserted.
KeepsNewest ==
    \A k \in KeysOf(lhm) :
        /\ lhm.map[k] = content[k]
        /\ updated[k] > 0
        /\ \A d \in Keys \ KeysOf(lhm) : updated[d] < updated[k]

\* keys() lists the keys from the one updated longest ago to the latest.
OrderIsByUpdate ==
    \A i, j \in 1 .. Len(lhm.order) :
        i < j => updated[lhm.order[i]] < updated[lhm.order[j]]

=============================================================================
