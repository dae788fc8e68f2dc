----------------------------- MODULE ChannelCodec -----------------------------
(***************************************************************************)
(* What becomes of the value of one channel on its way: the channel that   *)
(* channel::new makes (channel.rs), serialize_channel and                  *)
(* parse_channel_data (message.rs), the readers and writers of typed       *)
(* scalars and arrays, the frames of compression.rs, and the metadata by   *)
(* which the receiver makes the channel again.  A message received can be  *)
(* sent on (send_message, as a receiver's forwarder does), so a value may  *)
(* take several hops, and each receiver may be raw or not.                 *)
(*                                                                         *)
(* An element is the sequence of its bytes, the least significant first:   *)
(* what a little-endian host has in memory and to_ne_bytes returns.  A     *)
(* value is a kind, a form and its elements; a string is a scalar whose    *)
(* elements are its bytes.  An absent shape and an empty one, which the    *)
(* code treats alike, are both <<>>.  Text is UTF-8, and the frames a      *)
(* receiver reads were made by serialize_channel: what malformed ones do   *)
(* is part of MessagePipeline.  Timestamps are left out.                   *)
(***************************************************************************)
EXTENDS Integers, SequencesExt

CONSTANTS
    Kinds,     \* the channel types used
    Shapes,    \* the shapes used
    Bytes,     \* the bytes values are made of
    Lengths,   \* lengths of the arrays and strings offered
    LongLengths, \* and of those whose elements are all the same
    MaxHops    \* bound: receivers the value passes through

ASSUME ShapesAssumption == \A s \in Shapes : s \in Seq(Nat \ {0})
ASSUME BytesAssumption == Bytes \subseteq 0 .. 255
ASSUME LengthsAssumption == Lengths \cup LongLengths \subseteq Nat
ASSUME HopsAssumption == MaxHops \in Nat

VARIABLES
    state,     \* "held", "sent", "refused", "missing" or "panic"
    channel,   \* the channel of the message that holds the value
    value,     \* the value held
    frame,     \* what was sent: the channel's metadata and data
    hops,      \* number of receptions
    original,  \* history: the value first offered
    rawRelays  \* history: how often the value was sent after a raw reception

vars == <<state, channel, value, frame, hops, original, rawRelays>>

-----------------------------------------------------------------------------
(* Channels.                                                               *)

ElementSizes ==
    [bool |-> 1, string |-> 1, int8 |-> 1, uint8 |-> 1, int16 |-> 2, uint16 |-> 2,
     int32 |-> 4, uint32 |-> 4, int64 |-> 8, uint64 |-> 8, float32 |-> 4, float64 |-> 8]

ElementSize(kind) == ElementSizes[kind]

ASSUME KindsAssumption == Kinds \subseteq DOMAIN ElementSizes

\* elements: the product of the dimensions, 1 without any.
Elements(shape) == FoldLeft(LAMBDA n, d : n * d, 1, shape)

Size(ch) == Elements(ch.shape) * ElementSize(ch.kind)

\* 0x7E000000, the first length that lz4 does not take.
Lz4Limit == 126 * 16777216

\* Channels and values are smaller than that.  The number of elements, a u32,
\* does not wrap then.
ASSUME SizesAssumption ==
    \A k \in Kinds, n \in {Elements(s) : s \in Shapes} \cup Lengths \cup LongLengths :
        n * ElementSize(k) < Lz4Limit

\* is_array looks at the first dimension only: an image of one row is a scalar.
IsArray(shape) == shape # <<>> /\ shape[1] > 1

\* channel::new: which of ChannelRaw, ChannelScalar and ChannelArray it makes,
\* "swapped" being the raw one that turns multi-byte elements around.
Codec(ch) ==
    IF ch.raw /\ ch.kind # "string"
    THEN IF ch.little \/ ElementSize(ch.kind) = 1 THEN "raw" ELSE "swapped"
    ELSE IF IsArray(ch.shape) /\ ch.kind # "string" THEN "array" ELSE "scalar"

\* The arguments of new.
Channels ==
    [kind : Kinds, shape : Shapes, little : BOOLEAN,
     compression : {"none", "lz4", "bitshuffle_lz4"}, raw : BOOLEAN]

\* Mutation: the byte order is not announced.
Unordered(ch) ==
    [shape |-> ch.shape, type |-> ch.kind, encoding |-> "little", compression |-> ch.compression]

Metadata(ch) ==
    [shape |-> IF ch.shape = <<>> THEN <<1>> ELSE ch.shape, type |-> ch.kind,
     encoding |-> IF ch.little THEN "little" ELSE "big", compression |-> ch.compression]

\* parse_channel.
ParseChannel(metadata, raw) ==
    [kind |-> metadata.type, shape |-> metadata.shape,
     little |-> metadata.encoding \notin {">", "big"},
     compression |-> metadata.compression, raw |-> raw]

-----------------------------------------------------------------------------
(* Writing and reading.                                                    *)

\* to_bytes, and as_bytes of an array of bytes.
ToBytes(v) == FlattenSeq(v.elements)

\* chunks_exact: an incomplete last chunk is dropped.
Chunks(bytes, size) ==
    [i \in 1 .. Len(bytes) \div size |-> SubSeq(bytes, (i - 1) * size + 1, i * size)]

\* An element as it goes over the wire, and back.
Ordered(ch, element) == IF ch.little THEN element ELSE Reverse(element)

\* write takes the value's variant for the channel's, unless it writes raw.
Accepts(ch, v) ==
    CASE Codec(ch) = "scalar" -> v.kind = ch.kind /\ ~v.array
      [] Codec(ch) = "array"  -> v.kind = ch.kind /\ v.array
      [] OTHER                -> TRUE

Write(ch, v) ==
    CASE Codec(ch) = "raw" -> ToBytes(v)
      [] Codec(ch) = "swapped" ->
            LET chunks == Chunks(ToBytes(v), ElementSize(ch.kind))
            IN  FlattenSeq([i \in DOMAIN chunks |-> Reverse(chunks[i])])
      [] OTHER -> FlattenSeq([i \in DOMAIN v.elements |-> Ordered(ch, v.elements[i])])

\* Mutation: the buffer has the size of what is written.
Unpadded(ch, bytes) == bytes

\* The buffer has the channel's size and grows with what is written to it.
Buffer(ch, bytes) == bytes \o [i \in 1 .. Size(ch) - Len(bytes) |-> 0]

Unreadable == [kind |-> "unreadable", array |-> FALSE, elements |-> <<>>]

\* READER_STRING: up to the first NUL.
ReadString(bytes) ==
    LET nuls == {i \in DOMAIN bytes : bytes[i] = 0}
        n == IF nuls = {} THEN Len(bytes) ELSE (CHOOSE i \in nuls : \A j \in nuls : i <= j) - 1
    IN  [i \in 1 .. n |-> <<bytes[i]>>]

ReadElement(ch, chunk) ==
    IF ch.kind = "bool" THEN <<IF chunk[1] # 0 THEN 1 ELSE 0>> ELSE Ordered(ch, chunk)

\* read: too few bytes are an error, what is behind the elements is not read.
Read(ch, bytes) ==
    LET chunks == Chunks(bytes, ElementSize(ch.kind))
        count == IF Codec(ch) = "array" THEN Elements(ch.shape) ELSE 1
    IN  IF ch.kind = "string"
        THEN [kind |-> "string", array |-> FALSE, elements |-> ReadString(bytes)]
        ELSE IF Len(chunks) < count THEN Unreadable
        ELSE [kind |-> ch.kind, array |-> Codec(ch) = "array",
              elements |-> [i \in 1 .. count |-> ReadElement(ch, chunks[i])]]

-----------------------------------------------------------------------------
(* Compression frames.  What the libraries make of the bytes is opaque: it  *)
(* can be undone with the same parameters.                                 *)

\* The four bytes of a length, the least significant first.
LengthBytes(n) == <<n % 256, (n \div 256) % 256, (n \div 65536) % 256, n \div 16777216>>

CompressLz4(ch, bytes) ==
    [header |-> Ordered(ch, LengthBytes(Len(bytes))), blob |-> [of |-> bytes]]

\* lz4's decompress refuses a length that is negative or over 0x7E000000, and
\* one that is too small for the data.
Lz4Fits(length, bytes) ==
    /\ length[4] < 126
    /\ length[4] > 0 \/ length[3] > 0 \/ length[1] + 256 * length[2] >= Len(bytes)

\* Elements per block of a bitshuffle, which is a multiple of eight.
BlockSize(size) ==
    LET target == ((8192 \div size) \div 8) * 8 IN IF target < 128 THEN 128 ELSE target

CompressBitshuffle(ch, bytes) ==
    LET size == ElementSize(ch.kind)
        count == Len(bytes) \div size
    IN  [size |-> count * size, block |-> BlockSize(size) * size,
         blob |-> [of |-> SubSeq(bytes, 1, count * size), size |-> size, block |-> BlockSize(size)]]

Data(ch, bytes) ==
    CASE ch.compression = "none"           -> bytes
      [] ch.compression = "lz4"            -> CompressLz4(ch, bytes)
      [] ch.compression = "bitshuffle_lz4" -> CompressBitshuffle(ch, bytes)

\* The libraries accept what was made with the same parameters.
Decompresses(ch, data) ==
    LET size == ElementSize(ch.kind) IN
    CASE ch.compression = "none" -> TRUE
      [] ch.compression = "lz4"  -> Lz4Fits(Ordered(ch, data.header), data.blob.of)
      [] ch.compression = "bitshuffle_lz4" ->
            /\ data.size \div size = Len(data.blob.of) \div data.blob.size
            /\ size = data.blob.size
            /\ data.block \div size = data.blob.block

Decompress(ch, data) ==
    IF ch.compression = "none" THEN data ELSE data.blob.of

-----------------------------------------------------------------------------
(* The value's way.                                                        *)

\* Elements whose bytes all differ.
Element(kind, byte) == [i \in 1 .. ElementSize(kind) |-> (byte + i - 1) % 256]

ElementsOf(kind) == {Element(kind, b) : b \in IF kind = "bool" THEN {0, 1} ELSE Bytes}

\* Short sequences of any elements, long ones of one.
Lists(kind) ==
    (UNION {[1 .. n -> ElementsOf(kind)] : n \in Lengths})
        \cup {[i \in 1 .. n |-> e] : n \in LongLengths, e \in ElementsOf(kind)}

Values(kind) ==
    IF kind = "string" THEN [kind : {kind}, array : {FALSE}, elements : Lists(kind)]
    ELSE [kind : {kind}, array : {FALSE}, elements : {<<e>> : e \in ElementsOf(kind)}]
            \cup [kind : {kind}, array : {TRUE}, elements : Lists(kind)]

Init ==
    /\ state = "held"
    /\ channel \in Channels
    /\ value \in Values(channel.kind)
    /\ original = value
    /\ frame = <<>>
    /\ hops = 0
    /\ rawRelays = 0

\* serialize_channel, with the channel's entry of the data header; the bytes
\* of a value that its channel does not take are never sent.
Send ==
    /\ state = "held" /\ hops < MaxHops
    /\ state' = IF Accepts(channel, value) THEN "sent" ELSE "refused"
    /\ frame' = IF Accepts(channel, value)
                THEN [metadata |-> Metadata(channel),
                      data |-> Data(channel, Buffer(channel, Write(channel, value)))]
                ELSE frame
    /\ rawRelays' = IF hops > 0 /\ channel.raw THEN rawRelays + 1 ELSE rawRelays
    /\ UNCHANGED <<channel, value, hops, original>>

\* parse_channel and parse_channel_data.  A raw receiver takes the bytes as
\* they are and does not use the channel's reader.
Receive(raw) ==
    /\ state = "sent"
    /\ channel' = ParseChannel(frame.metadata, raw)
    /\ hops' = hops + 1
    /\ LET bytes == Decompress(channel', frame.data)
           read == IF raw THEN [kind |-> "uint8", array |-> TRUE,
                                elements |-> [i \in DOMAIN bytes |-> <<bytes[i]>>]]
                   ELSE Read(channel', bytes)
       IN  IF ~Decompresses(channel', frame.data) THEN state' = "missing" /\ UNCHANGED value
           ELSE IF read = Unreadable THEN state' = "panic" /\ UNCHANGED value
           ELSE state' = "held" /\ value' = read
    /\ UNCHANGED <<frame, original, rawRelays>>

Next == Send \/ \E raw \in BOOLEAN : Receive(raw)

Spec == Init /\ [][Next]_vars

-----------------------------------------------------------------------------
(* Properties.                                                             *)

\* What is to arrive of a value: a string up to its first NUL, of the others as
\* many elements as the shape has, zero where there are too few; an array when
\* those are several.
Fitted(ch, v) ==
    IF ch.kind = "string"
    THEN [kind |-> "string", array |-> FALSE, elements |-> ReadString(ToBytes(v))]
    ELSE LET given == v.elements
             zero == [i \in 1 .. ElementSize(ch.kind) |-> 0]
         IN  [kind |-> ch.kind, array |-> Elements(ch.shape) > 1,
              elements |-> [i \in 1 .. Elements(ch.shape) |->
                                IF i <= Len(given) THEN given[i] ELSE zero]]

\* Sending elements of several bytes as big-endian turns them around; a
\* message received raw has them in that order already.
TurnedTwice == rawRelays > 0 /\ ~channel.little /\ ElementSize(channel.kind) > 1

\* A receiver that is not raw has read the value: the last one, or one whose
\* reception the value was not sent on raw after.
ReadTyped == ~channel.raw \/ rawRelays < hops - 1

\* An image of one row, several elements that is_array takes for a scalar.  The
\* comment at is_array justifies that of arrays of size 1 only.
OneRow(shape) == shape # <<>> /\ shape[1] = 1 /\ Elements(shape) > 1

\* Its elements but the first are lost as soon as a receiver that is not raw
\* reads it.
Cropped == OneRow(channel.shape) /\ channel.kind # "string" /\ ReadTyped

\* "assert_eq!(&value, &ret)" (tests.rs:868): whatever the type, the byte order,
\* the compression and the number of hops, raw ones included, a receiver has
\* the value that was sent, with as many elements as the shape has; a raw one
\* has its bytes, as they are on the wire and with those that pad it to the
\* channel's size.  Two exceptions: big-endian elements of several bytes that
\* were relayed raw; and the images of one row that a receiver not raw has read,
\* of which the first element arrives, as a scalar.  Shapes have no dimension 0.
Delivered ==
    state = "held" /\ hops > 0 /\ ~TurnedTwice =>
        LET whole == Fitted(channel, original)
            sent == IF Cropped THEN [whole EXCEPT !.array = FALSE, !.elements = <<@[1]>>]
                    ELSE whole
            wire == [i \in DOMAIN sent.elements |-> Ordered(channel, sent.elements[i])]
        IN  IF channel.raw THEN IsPrefix(FlattenSeq(wire), ToBytes(value)) ELSE value = sent

\* What serialize_channel made is read without an error or a panic, which would
\* lose the value or end the listener thread, and a value received can be
\* sent on; but for a string received raw, which is no string any more.  That
\* rests on shapes without a dimension 0 (ShapesAssumption): channel::new takes
\* one, and an empty value sent raw then makes the receiver panic that reads it.
Relayable ==
    /\ state \notin {"missing", "panic"}
    /\ state = "refused" /\ hops > 0 => channel.raw /\ channel.kind = "string"

=============================================================================
