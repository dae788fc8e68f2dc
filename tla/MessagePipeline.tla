--------------------------- MODULE MessagePipeline ----------------------------
(***************************************************************************)
(* What a Receiver object does with each message it has read: `receive`,   *)
(* `process` and `check_message` (receiver.rs) and the use parse_message   *)
(* (message.rs) makes of the cache of data headers, a LimitedHashMap; the  *)
(* statistics they keep; and the calls that resize that cache, change the  *)
(* checks or forget an endpoint between two messages.                      *)
(*                                                                         *)
(* A message is an ID, the hash of its data header and the first thing     *)
(* that is wrong with it.  A cached header is the hash it was stored with. *)
(* One object is followed; Fork replaces it with the one listen_task makes,*)
(* once the listener before has ended: two listeners at a time are not     *)
(* looked at here.                                                         *)
(*                                                                         *)
(* The statistics are behind a lock that is taken for each number counted. *)
(* What receive counts of a message is so a step for each number, among    *)
(* which the owner of a forked listener may reset them all.                *)
(***************************************************************************)
EXTENDS LimitedHashMap, FiniteSetsExt

CONSTANTS
    Endpoints,
    HeadersOf,     \* the hashes of the data headers each source sends
    Ids,           \* pulse IDs
    Faults,        \* what may be wrong with a message, a subset of AllFaults
    Masks,         \* the masks enable_check and disable_check are called with
    Operations,    \* the operations the application uses
    Now, IdRange,  \* current_id, and VALID_ID_RANGE
    MaxReceives,   \* bound: messages and socket errors read
    MaxCalls       \* bound: calls of the application between them

None == "none"

\* The bits of the check masks.  CHECK_ID_RANGE = 3 is bits 0 and 1, the very
\* bits of CHECK_ID_POSITIVE = 1 and CHECK_ID_MONOTONIC = 2.
CHECK_ID_POSITIVE == {0}
CHECK_ID_MONOTONIC == {1}
CHECK_ID_RANGE == {0, 1}
CHECK_ID_PAST_RANGE == {2}
CHECK_ALL == {0, 1, 2}

\* What becomes of a message with each fault, unless a check rejects it.
Outcome ==
    [none       |-> "Messages",          \* a channel that does not decompress is None
     early      |-> "ParsingError",      \* too few parts, or no usable main header
     value      |-> "Panic",             \* unwrap on a malformed global_timestamp or
                                         \* a channel value that cannot be read
     compressed |-> "DecompressionError", \* the data header does not decompress
     json       |-> "ParsingError",      \* ... or is not JSON
     channels   |-> "Panic",             \* unwrap on a malformed channel in it
     late       |-> "ParsingError"]      \* wrong number of parts, no ID, wrong htype

AllFaults == DOMAIN Outcome

\* The faults of the data header, which is only looked at when not cached.
HeaderFaults == {"compressed", "json", "channels"}

ErrorKinds ==
    {"RepeatedId", "NonPositiveId", "DecreasingId", "OutOfRangeId",
     "ParsingError", "DecompressionError"}

Kinds == ErrorKinds \cup {"Messages", "Errors", "SocketError", "HeaderChange"}

Hashes == UNION {HeadersOf[e] : e \in Endpoints}

Message(e) == [id : Ids, hash : HeadersOf[e], fault : Faults]

ASSUME EndpointsAssumption ==
    IsFiniteSet(Endpoints) /\ None \notin Endpoints /\ "" \notin Endpoints
ASSUME HeadersAssumption == Hashes \cap Endpoints = {} /\ None \notin Hashes
ASSUME IdsAssumption == Ids \subseteq Nat /\ Now \in Nat /\ IdRange \in Nat
ASSUME OptionsAssumption ==
    Faults \subseteq AllFaults /\ Masks \subseteq SUBSET CHECK_ALL
ASSUME BoundsAssumption == MaxReceives \in Nat /\ MaxCalls \in Nat

VARIABLES
    shared,        \* ConnectionMode::Shared rather than Individual
    endpoints,     \* the endpoints listed
    connected,     \* whether their sockets are open
    header_buffer, \* the data headers cached
    id_buffer,     \* the ID to be exceeded, for the endpoints that have one
    check_mask,    \* the bits enabled
    clock,         \* whether ID_T0 was initialized, so that current_id is Ok
    messages, errors, \* Stats.counter_messages and counter_error
    diagnostics,   \* Stats.diagnostics: counts by endpoint and kind
    counting,      \* what receive counts next, and of which endpoint
    forked,        \* the object is that of a listener
    split,         \* history: the latest reset fell among the counts of a message
    alive,         \* no receive has panicked
    returned,      \* the outcome of the latest receive
    latest,        \* history: the hash last parsed of each key headers are cached under
    crowded,       \* history: there have been more such keys than endpoints
    checked,       \* history: the ID last delivered of each, MONOTONIC enabled
    receives, calls \* bound counters

object == <<header_buffer, id_buffer, check_mask, alive, returned, latest, checked>>
stats == <<messages, errors, diagnostics, counting, split>>
vars == <<shared, crowded, endpoints, connected, clock, forked, object, stats, receives, calls>>

TypeOK ==
    /\ endpoints \subseteq Endpoints /\ connected \in BOOLEAN
    /\ header_buffer.map \in UNION {[S -> Hashes] : S \in SUBSET (Endpoints \cup Hashes)}
    /\ header_buffer.order \in Seq(Endpoints \cup Hashes)
    /\ header_buffer.max_size \in 1 .. Cardinality(Endpoints)
    /\ id_buffer \in UNION {[S -> Ids] : S \in SUBSET Endpoints}
    /\ check_mask \subseteq CHECK_ALL
    /\ clock \in BOOLEAN /\ alive \in BOOLEAN
    /\ messages \in 0 .. MaxReceives /\ errors \in 0 .. MaxReceives
    /\ DOMAIN diagnostics \subseteq Endpoints \cup {""}
    /\ \A e \in DOMAIN diagnostics : diagnostics[e] \in [Kinds -> 0 .. MaxReceives]
    /\ counting.endpoint \in Endpoints \cup {""}
    /\ counting.next \in {"Errors", "Messages", "counter_error", "counter_messages", "done"}
    /\ forked \in BOOLEAN /\ split \in BOOLEAN
    /\ shared \in BOOLEAN /\ crowded \in BOOLEAN
    /\ latest \in UNION {[S -> Hashes] : S \in SUBSET (Endpoints \cup Hashes)}
    /\ checked \in [Endpoints -> Ids \cup {-1}]
    /\ receives \in 0 .. MaxReceives /\ calls \in 0 .. MaxCalls

Unchecked == [e \in Endpoints |-> -1]

\* Nothing is left to count.
Done == [endpoint |-> "", next |-> "done"]

\* Receiver::new.
Init ==
    /\ shared \in BOOLEAN
    /\ endpoints \in SUBSET Endpoints
    /\ connected = FALSE
    /\ header_buffer = VoidMap
    /\ id_buffer = <<>>
    /\ check_mask = CHECK_ALL
    /\ alive = TRUE
    /\ returned = None
    /\ latest = <<>> /\ crowded = FALSE
    /\ checked = Unchecked
    /\ clock \in BOOLEAN
    /\ messages = 0 /\ errors = 0 /\ diagnostics = <<>>
    /\ counting = Done /\ forked = FALSE /\ split = FALSE
    /\ receives = 0 /\ calls = 0

-----------------------------------------------------------------------------
(* parse_message and check_message.                                        *)

\* The key a header is cached under: the endpoint's name, or its own hash when
\* the endpoint is not known, the socket being shared.
Key(e, hash) == IF shared THEN hash ELSE e

Cached(e, hash) ==
    Key(e, hash) \in KeysOf(header_buffer) /\ header_buffer.map[Key(e, hash)] = hash

ParseOutcome(e, m) ==
    IF m.fault \in HeaderFaults /\ Cached(e, m.hash) THEN "Messages" ELSE Outcome[m.fault]

OutOfRange(id) ==
    \/ id > Now + IdRange
    \/ CHECK_ID_PAST_RANGE \subseteq check_mask /\ id < Now - IdRange

\* check_mask & check != 0
Enabled(check) == check_mask \cap check # {}

\* Mutation: a repeated ID passes.
CheckOutcomeRepeated(e, id) ==
    IF Enabled(CHECK_ID_POSITIVE) /\ id <= 0 THEN "NonPositiveId"
    ELSE IF Enabled(CHECK_ID_RANGE) /\ clock /\ OutOfRange(id) THEN "OutOfRangeId"
    ELSE IF Enabled(CHECK_ID_MONOTONIC) /\ e \in DOMAIN id_buffer /\ id_buffer[e] > id
         THEN "DecreasingId"
    ELSE "Messages"

\* check_message: the first check that fails, in the order of the code.  In a
\* shared socket the endpoint is unknown and id_buffer stays empty.
CheckOutcome(e, id) ==
    IF Enabled(CHECK_ID_POSITIVE) /\ id <= 0 THEN "NonPositiveId"
    ELSE IF Enabled(CHECK_ID_RANGE) /\ clock /\ OutOfRange(id) THEN "OutOfRangeId"
    ELSE IF Enabled(CHECK_ID_MONOTONIC) /\ e \in DOMAIN id_buffer /\ id_buffer[e] > id
         THEN "DecreasingId"
    ELSE IF Enabled(CHECK_ID_MONOTONIC) /\ e \in DOMAIN id_buffer /\ id_buffer[e] = id
         THEN "RepeatedId"
    ELSE "Messages"

\* Mutation: the ID is remembered of every message latest, rejected or not.
RememberAll(e, id, verdict) ==
    IF Enabled(CHECK_ID_MONOTONIC) /\ ~shared THEN With(id_buffer, e, id) ELSE id_buffer

\* The ID becomes the one to exceed, once every check has passed.
Remember(e, id, verdict) ==
    IF verdict = "Messages" /\ Enabled(CHECK_ID_MONOTONIC) /\ ~shared
    THEN With(id_buffer, e, id) ELSE id_buffer

-----------------------------------------------------------------------------
(* Statistics.                                                             *)

NoCounts == [k \in Kinds |-> 0]

\* increse_stats; "" stands for an unknown endpoint.
Count(e, kind) ==
    LET ep == IF shared THEN "" ELSE e
        old == IF ep \in DOMAIN diagnostics THEN diagnostics[ep] ELSE NoCounts
    IN  With(diagnostics, ep, [old EXCEPT ![kind] = @ + 1])

\* The order of what is counted of a message: of a failed one the reason, then
\* the error; of a delivered one the change of its header, then the message.
After(what) ==
    CASE what \in ErrorKinds         -> "counter_error"
      [] what = "counter_error"      -> "Errors"
      [] what = "HeaderChange"       -> "counter_messages"
      [] what = "counter_messages"   -> "Messages"
      [] OTHER                       -> "done"

\* One number counted, under a write lock of its own.
Increase(e, what) ==
    /\ messages' = IF what = "counter_messages" THEN messages + 1 ELSE messages
    /\ errors' = IF what = "counter_error" THEN errors + 1 ELSE errors
    /\ diagnostics' = IF what \in Kinds THEN Count(e, what) ELSE diagnostics
    /\ counting' = IF After(what) = "done" THEN Done
                   ELSE [endpoint |-> e, next |-> After(what)]
    /\ UNCHANGED split

-----------------------------------------------------------------------------
(* receive.                                                                *)

\* A message m of e: parsed, checked, and the first number of it counted; what
\* precedes that lock touches the object alone.  Its header is cached as soon as
\* the message is well formed, before its ID is checked.
Receive(e, m) ==
    LET outcome == ParseOutcome(e, m)
        wellFormed == outcome = "Messages"
        changed == wellFormed /\ ~Cached(e, m.hash)
        verdict == IF wellFormed THEN CheckOutcome(e, m.id) ELSE outcome
        delivered == verdict = "Messages"
    IN  /\ header_buffer' = IF changed THEN Insert(header_buffer, Key(e, m.hash), m.hash)
                            ELSE header_buffer
        /\ id_buffer' = IF wellFormed THEN Remember(e, m.id, verdict) ELSE id_buffer
        /\ alive' = (verdict # "Panic")
        /\ IF verdict = "Panic" THEN UNCHANGED stats
           ELSE Increase(e, IF ~delivered THEN verdict
                            ELSE IF changed THEN "HeaderChange" ELSE "counter_messages")
        /\ returned' = [endpoint |-> e, id |-> m.id, hash |-> m.hash, changed |-> changed,
                        verdict |-> verdict]
        /\ latest' = IF wellFormed THEN With(latest, Key(e, m.hash), m.hash) ELSE latest
        /\ checked' = IF delivered /\ Enabled(CHECK_ID_MONOTONIC)
                      THEN [checked EXCEPT ![e] = m.id] ELSE checked
        /\ UNCHANGED check_mask

\* The socket fails: a diagnostic, but not an error of the statistics.
SocketError(e) ==
    /\ Increase(e, "SocketError")
    /\ returned' = [endpoint |-> e, id |-> 0, hash |-> None, changed |-> FALSE,
                    verdict |-> "SocketError"]
    /\ UNCHANGED <<header_buffer, id_buffer, check_mask, alive, latest, checked>>

Read(e) ==
    /\ alive /\ connected /\ e \in endpoints
    /\ counting = Done
    /\ receives < MaxReceives
    /\ receives' = receives + 1
    /\ \/ \E m \in Message(e) : Receive(e, m)
       \/ "socketError" \in Operations /\ SocketError(e)
    /\ UNCHANGED <<endpoints, connected, clock, forked, calls>>

\* receive goes on to the next number.
CountNext ==
    /\ counting # Done
    /\ Increase(counting.endpoint, counting.next)
    /\ UNCHANGED <<endpoints, connected, clock, forked, object, receives, calls>>

-----------------------------------------------------------------------------
(* The calls between two messages.                                         *)

\* Mutation: the cache keeps the size it had first.
SizedOnce(n) == IF IsVoid(header_buffer) THEN NewMap(n) ELSE header_buffer

\* set_header_buffer_size.
Sized(n) == IF IsVoid(header_buffer) THEN NewMap(n) ELSE SetMaxSize(header_buffer, n)

\* connect: every endpoint connected sizes the cache for the whole list.
Connect ==
    /\ connected' = TRUE
    /\ header_buffer' = IF connected \/ endpoints = {} THEN header_buffer
                        ELSE Sized(Cardinality(endpoints))
    /\ UNCHANGED <<endpoints, clock, forked, id_buffer, check_mask, alive, returned, latest,
                   checked, stats>>

Disconnect ==
    /\ connected' = FALSE
    /\ UNCHANGED <<endpoints, clock, forked, object, stats>>

AddEndpoint(e) ==
    /\ endpoints' = endpoints \cup {e}
    /\ header_buffer' = IF connected THEN Sized(Cardinality(endpoints \cup {e}))
                        ELSE header_buffer
    /\ UNCHANGED <<connected, clock, forked, id_buffer, check_mask, alive, returned, latest,
                   checked, stats>>

\* remove_endpoint: the endpoint's counts go; the header and the ID kept of it
\* do not.
RemoveEndpoint(e) ==
    /\ endpoints' = endpoints \ {e}
    /\ diagnostics' = Without(diagnostics, {e})
    /\ UNCHANGED <<connected, clock, forked, object, messages, errors, counting, split>>

\* The checks are those of the application's own object: a listener's are out of
\* its reach.
EnableCheck(mask) ==
    /\ ~forked
    /\ check_mask' = check_mask \cup mask
    /\ UNCHANGED <<endpoints, connected, clock, forked, header_buffer, id_buffer, alive,
                   returned, latest, checked, stats>>

DisableCheck(mask) ==
    /\ ~forked
    /\ check_mask' = check_mask \ mask
    /\ UNCHANGED <<endpoints, connected, clock, forked, header_buffer, id_buffer, alive,
                   returned, latest, checked, stats>>

\* Mutation: the endpoints' counts outlive the totals.
ResetTotals ==
    /\ messages' = 0 /\ errors' = 0
    /\ split' = (counting # Done)
    /\ UNCHANGED <<diagnostics, counting>>

\* reset_counters, called by the application and when listen begins: one lock,
\* and all numbers.
ResetCounters ==
    /\ messages' = 0 /\ errors' = 0 /\ diagnostics' = <<>>
    /\ split' = (counting # Done)
    /\ UNCHANGED counting

\* The owner of a listener shares its statistics, and resets them at any time;
\* an object that is not forked has one thread.
Reset ==
    /\ forked \/ counting = Done
    /\ ResetCounters
    /\ UNCHANGED <<endpoints, connected, clock, forked, object>>

\* init_id_t0.
InitT0 ==
    /\ ~clock
    /\ clock' = TRUE
    /\ UNCHANGED <<endpoints, connected, forked, object, stats>>

\* A listener is forked: listen_task makes a Receiver of its own, which shares
\* the list and the statistics, and listen resets those and connects.  The
\* checks enabled on the owner's object are not handed on.
Fork ==
    /\ counting = Done
    /\ forked' = TRUE
    /\ header_buffer' = VoidMap
    /\ id_buffer' = <<>>
    /\ check_mask' = CHECK_ALL
    /\ alive' = TRUE
    /\ returned' = None
    /\ latest' = <<>>
    /\ checked' = Unchecked
    /\ connected' = FALSE
    /\ ResetCounters
    /\ UNCHANGED <<endpoints, clock>>

\* Between two messages: the thread of the object runs its calls, or the
\* commands the owner of a listener sends it.
Idle == alive /\ counting = Done

Call ==
    /\ calls < MaxCalls
    /\ calls' = calls + 1
    /\ \/ Idle /\ "disconnect" \in Operations /\ Disconnect
       \/ Idle /\ "add" \in Operations /\ \E e \in Endpoints : AddEndpoint(e)
       \/ Idle /\ "remove" \in Operations /\ \E e \in Endpoints : RemoveEndpoint(e)
       \/ Idle /\ \E mask \in Masks : EnableCheck(mask) \/ DisableCheck(mask)
       \/ "reset" \in Operations /\ Reset
       \/ "initT0" \in Operations /\ InitT0
       \/ "fork" \in Operations /\ Fork
    /\ UNCHANGED receives

\* What no step changes, and the history every step keeps up.
Observe ==
    /\ UNCHANGED shared
    /\ crowded' = (crowded \/ Cardinality(DOMAIN latest') > Cardinality(endpoints'))

Next ==
    \/ \E e \in Endpoints : Read(e) /\ Observe
    \/ CountNext /\ Observe
    \/ Idle /\ ~connected /\ Connect /\ UNCHANGED <<receives, calls>> /\ Observe
    \/ Call /\ Observe

Spec == Init /\ [][Next]_vars

-----------------------------------------------------------------------------
(* Properties.                                                             *)

Received == receives' > receives

Judged == Received /\ returned'.verdict \notin {"Panic", "SocketError", "ParsingError",
                                                "DecompressionError"}

\* While the check is enabled an endpoint's IDs are delivered in increasing
\* order, whatever was delivered or rejected in between with the check off
\* (receiver.rs:404-416).
IncreasingWhileChecked ==
    [][Received /\ returned'.verdict = "Messages" /\ Enabled(CHECK_ID_MONOTONIC) /\ ~shared
       => returned'.id > checked[returned'.endpoint]]_vars

\* An ID is refused as decreasing or repeated only against one that was
\* delivered: a rejected message, however large its ID, shuts nothing out.
RefusedOnlyAgainstDelivered ==
    [][Received /\ returned'.verdict \in {"DecreasingId", "RepeatedId"}
       => returned'.id <= checked[returned'.endpoint]]_vars

\* A changed header is never missed: a message whose header is not reported as
\* changed has the one last parsed from its endpoint (Individual), or one seen
\* before (Shared).  Nor is a change invented, as long as the endpoints listed
\* were never fewer than the keys headers are cached under: the cache, sized
\* for the list, never loses the header of one endpoint to another.
ChangeIsExact ==
    [][Judged =>
          LET key == Key(returned'.endpoint, returned'.hash)
              known == key \in DOMAIN latest /\ latest[key] = returned'.hash
          IN  /\ returned'.changed \/ known
              /\ returned'.changed => ~known \/ crowded]_vars

\* Every error of an endpoint has one reason, no header of it changed without a
\* message, and the totals cover what the endpoints still listed count, whatever
\* was removed or reset meanwhile.  Exactly so between two messages; by one less
\* while a message is being counted, and, until the next reset, after one that
\* fell among the counts of a message: nothing is counted twice or lost beyond it.
StatsAddUp ==
    LET Total(kind) == SumFunction([e \in DOMAIN diagnostics |-> diagnostics[e][kind]])
        due == IF counting # Done THEN 1 ELSE 0
        stray == IF split THEN 1 ELSE 0
    IN  /\ \A e \in DOMAIN diagnostics :
              /\ diagnostics[e]["Errors"] - SumFunctionOnSet(diagnostics[e], ErrorKinds)
                    \in -due .. stray
              /\ diagnostics[e]["HeaderChange"] <= diagnostics[e]["Messages"] + due
        /\ Total("Messages") <= messages + stray
        /\ Total("Errors") <= errors + stray

=============================================================================
