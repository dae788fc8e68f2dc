---------------------------- MODULE MCChannelCodec ----------------------------
(***************************************************************************)
(* Instances of ChannelCodec: what a cfg cannot write.                     *)
(***************************************************************************)
EXTENDS ChannelCodec

\* None, one element, rows and columns, an image, and an array whose bytes are
\* so many that their number differs in sign with its byte order.
ShapesUsed == {<<>>, <<1>>, <<2>>, <<1, 2>>, <<2, 1>>, <<2, 2>>, <<64>>}
=============================================================================
