-------------------------------- MODULE Sender --------------------------------
(***************************************************************************)
(* A Sender (sender.rs) and the multipart messages it makes: a main header *)
(* with the ID and the hash of the data header, the data header, and for   *)
(* each channel that has data a value and a time.                          *)
(*                                                                         *)
(* The socket takes frames one by one and passes on a message with the     *)
(* first frame that is not marked SNDMORE, so that what a failed send      *)
(* leaves behind begins the next message.  A layout is a list of channels, *)
(* and stands for the data header made of it as well as for its hash.      *)
(*                                                                         *)
(* Left out: timestamps, compression, sends that block, and start and      *)
(* stop, which bind and unbind the socket and act on nothing else.         *)
(***************************************************************************)
EXTENDS Integers, Sequences, FiniteSetsExt

CONSTANTS
    Layouts,      \* lists of channels
    Width,        \* the number of channels of each
    StartId,      \* start_id of new
    ExplicitIds,  \* IDs the application gives of its own
    MaxSends      \* bound: sends and forwards

ID_SIMULATED == 0
None == "none"

\* What the application may give for a channel: nothing, a value of the
\* channel's type, or one that does not serialize.
Datum == {None, "good", "bad"}
Data(layout) == [1 .. Width[layout] -> Datum]

ASSUME LayoutsAssumption == None \notin Layouts /\ Width \in [Layouts -> Nat]
ASSUME IdsAssumption == StartId \in Nat /\ ExplicitIds \subseteq Nat \ {0}
ASSUME BoundsAssumption == MaxSends \in Nat

VARIABLES
    announced,    \* the layout of data_header and of the hash in main_header
    pulse_id,
    unfinished,   \* frames taken by the socket that end no message yet
    returned,     \* what the latest send or forward returned
    arrived,      \* the latest message that arrived at a receiver
    last,         \* history: ID of the latest message, and whether simulated
    lowered,      \* history: an explicit ID was not above all IDs before it
    sends         \* bound counter

vars == <<announced, pulse_id, unfinished, returned, arrived, last, lowered, sends>>

Frames ==
    [part : {"main"}, send : 1 .. MaxSends, layout : Layouts \cup {None}, id : Nat,
     simulated : BOOLEAN, stale : BOOLEAN, whole : BOOLEAN]
    \cup [part : {"header"}, send : 1 .. MaxSends, layout : Layouts \cup {None}]
    \cup [part : {"value", "time"}, send : 1 .. MaxSends, layout : Layouts, index : Nat]
    \cup [part : {"foreign"}, send : 1 .. MaxSends]

TypeOK ==
    /\ announced \in Layouts \cup {None}
    /\ pulse_id \in Nat
    /\ unfinished \in Seq(Frames) /\ arrived \in Seq(Frames)
    /\ returned \in {None, "ok", "err"}
    /\ last \in [id : Nat \cup {-1}, simulated : BOOLEAN]
    /\ lowered \in BOOLEAN
    /\ sends \in 0 .. MaxSends

\* new.
Init ==
    /\ announced = None
    /\ pulse_id = StartId
    /\ unfinished = <<>>
    /\ returned = None
    /\ arrived = <<>>
    /\ last = [id |-> -1, simulated |-> TRUE]
    /\ lowered = FALSE
    /\ sends = 0

-----------------------------------------------------------------------------
(* The frames of a message.                                                *)

Given(layout, data) == {i \in 1 .. Width[layout] : data[i] # None}

\* Mutation: channels without data are counted, too.
EndsAfterAll(layout, data, k) == k >= Width[layout]

\* The time of the k-th channel sent is the last frame (valid_channels).
Ends(layout, data, k) == k >= Cardinality(Given(layout, data))

\* The channels sent: those that have data, up to the first that does not
\* serialize.
Sent(layout, data) == {i \in Given(layout, data) : \A j \in 1 .. i : data[j] # "bad"}

Fails(layout, data) == \E i \in 1 .. Width[layout] : data[i] = "bad"

Kth(S, k) == CHOOSE i \in S : Cardinality({j \in S : j <= i}) = k

\* A value and a time for each channel sent, in their order.
Pieces(layout, data) ==
    [p \in 1 .. 2 * Cardinality(Sent(layout, data)) |->
        LET k == (p + 1) \div 2
        IN  [frame |-> [part |-> IF p % 2 = 1 THEN "value" ELSE "time", send |-> sends + 1,
                        layout |-> layout, index |-> Kth(Sent(layout, data), k)],
             more |-> p % 2 = 1 \/ ~Ends(layout, data, k)]]

\* The socket takes frames: the messages they complete, the first of which was
\* perhaps begun before, and what they leave behind.
Taken(pieces) ==
    LET ends == {k \in DOMAIN pieces : ~pieces[k].more}
        From(k) == Max({j \in ends : j < k} \cup {0}) + 1
        Upto(k) == (IF From(k) = 1 THEN unfinished ELSE <<>>)
                   \o [i \in 1 .. k - From(k) + 1 |-> pieces[From(k) + i - 1].frame]
    IN  [done |-> {Upto(k) : k \in ends},
         rest |-> IF Len(pieces) \in ends THEN <<>> ELSE Upto(Len(pieces))]

\* A message arrives, or is lost for want of a receiver or of room at one.
Arrive(done) ==
    \/ UNCHANGED <<arrived, last>>
    \/ \E m \in done :
       /\ arrived' = m
       /\ last' = IF m[1].part = "main" THEN [id |-> m[1].id, simulated |-> m[1].simulated]
                  ELSE last

\* A socket without room refuses the first frame of a message, not the others.
Refused ==
    /\ unfinished = <<>>
    /\ returned' = "err"
    /\ UNCHANGED <<unfinished, arrived, last>>

Transmit(pieces, fails) ==
    LET taken == Taken(pieces)
    IN  /\ unfinished' = taken.rest
        /\ Arrive(taken.done)
        /\ returned' = IF fails THEN "err" ELSE "ok"

-----------------------------------------------------------------------------
(* The calls.                                                              *)

\* The ID in the main header.
UsedId(id) == IF id = ID_SIMULATED THEN pulse_id ELSE id

\* Mutation: an explicit ID does not set the one to go on from.
UpdateMainHeaderAside(id) ==
    pulse_id' = IF id = ID_SIMULATED THEN pulse_id + 1 ELSE pulse_id

\* update_main_header: a simulated ID is pulse_id, which then goes on; one that
\* is given becomes pulse_id, and the next simulated ID.
UpdateMainHeader(id) ==
    pulse_id' = IF id = ID_SIMULATED THEN pulse_id + 1 ELSE id

\* send, with the data header as it is then.
SendWith(header, stale, id, layout, data) ==
    LET main == [part |-> "main", send |-> sends + 1, layout |-> header,
                 id |-> UsedId(id),
                 simulated |-> id = ID_SIMULATED, stale |-> stale,
                 whole |-> \A i \in 1 .. Width[layout] : data[i] = "good"]
        dh == [part |-> "header", send |-> sends + 1, layout |-> header]
    IN  IF Width[layout] = 0
        THEN returned' = "err" /\ UNCHANGED <<pulse_id, unfinished, arrived, last, lowered>>
        ELSE /\ UpdateMainHeader(id)
             /\ lowered' = (lowered \/ (id # ID_SIMULATED /\ pulse_id > id))
             /\ \/ Refused
                \/ Transmit(<<[frame |-> main, more |-> TRUE],
                              [frame |-> dh,
                               more |-> Given(layout, data) # {}]>>
                            \o Pieces(layout, data),
                            Fails(layout, data))

Sending == sends < MaxSends /\ sends' = sends + 1

CreateDataHeader(layout) ==
    /\ announced' = layout
    /\ UNCHANGED <<pulse_id, unfinished, returned, arrived, last, lowered, sends>>

\* The channels need not be those of the data header.
Send(id, layout, data) ==
    /\ Sending
    /\ SendWith(announced, announced # layout, id, layout, data)
    /\ UNCHANGED announced

\* Mutation: the data header is made once only.
SendMessageOnce(id, layout, data, create) ==
    LET header == IF announced = None THEN layout ELSE announced
    IN  /\ Sending
        /\ announced' = header
        /\ SendWith(header, ~create /\ header # layout, id, layout, data)

\* send_message makes the data header if told to or if there is none.
SendMessage(id, layout, data, create) ==
    LET header == IF create \/ announced = None THEN layout ELSE announced
    IN  /\ Sending
        /\ announced' = header
        /\ SendWith(header, ~create /\ header # layout, id, layout, data)

\* forward: parts received elsewhere, as they are.
Forward(n) ==
    /\ Sending
    /\ \/ Refused
       \/ Transmit([k \in 1 .. n |-> [frame |-> [part |-> "foreign", send |-> sends + 1],
                                      more |-> k < n]], FALSE)
    /\ UNCHANGED <<announced, pulse_id, lowered>>

Next ==
    \/ \E layout \in Layouts : CreateDataHeader(layout)
    \/ \E layout \in Layouts : \E data \in Data(layout), id \in ExplicitIds \cup {ID_SIMULATED} :
          \/ Send(id, layout, data)
          \/ \E create \in BOOLEAN : SendMessage(id, layout, data, create)
    \/ \E n \in 1 .. 2 : Forward(n)

Spec == Init /\ [][Next]_vars

-----------------------------------------------------------------------------
(* Properties, some of them of what a receiver makes of a message.         *)

Own(m) == m # <<>> /\ m[1].part = "main"

\* The number of parts is what parse_message compares (message.rs:418).
Accepts(m) == m[1].layout # None /\ Len(m) - 2 = 2 * Width[m[1].layout]

Torn(m) == \E i \in 1 .. Len(m) : m[i].send # m[1].send

\* Header, and for each channel its value and its time.
Genuine(m) ==
    /\ m[2].part = "header" /\ m[2].layout = m[1].layout
    /\ \A i \in 1 .. Width[m[1].layout] :
          /\ m[2 * i + 1] = [part |-> "value", send |-> m[1].send, layout |-> m[1].layout,
                             index |-> i]
          /\ m[2 * i + 2] = [part |-> "time", send |-> m[1].send, layout |-> m[1].layout,
                             index |-> i]

\* A send that returns Ok leaves no message unfinished on the socket, whatever
\* failed before it and whichever channels have data: the frame without SNDMORE
\* is picked right in every case (sender.rs:131-140).
NothingLeftBehind == returned = "ok" => unfinished = <<>>

\* What a receiver accepts is what one send was given, channel by channel,
\* except a message begun by a send that failed midway, or one of other
\* channels than the data header, which the application did not want renewed.
AcceptedIsGenuine ==
    Own(arrived) /\ Accepts(arrived)
    => Torn(arrived) \/ arrived[1].stale \/ Genuine(arrived)

\* A message in which every channel has data gets through, with the same two
\* exceptions and once there is a data header.
WholeIsAccepted ==
    Own(arrived) /\ arrived[1].whole
    => Torn(arrived) \/ arrived[1].stale \/ arrived[1].layout = None \/ Accepts(arrived)

\* The IDs that arrive increase although sends fail and messages are lost, as
\* the receiver's check demands (receiver.rs:404-416), unless the application
\* goes back; an ID given explicitly may be repeated by the next message.
IdsIncrease ==
    [][Own(arrived') /\ arrived' # arrived /\ ~lowered'
       => last'.id > last.id \/ (last'.id = last.id /\ ~last.simulated)]_vars

=============================================================================
