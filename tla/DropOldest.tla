----------------------------- MODULE DropOldest ------------------------------
(***************************************************************************)
(* What a buffered receiver promises its reader, whatever the mechanism:   *)
(* messages are numbered as they arrive, a window of the newest ones is    *)
(* retained, the reader takes the oldest retained message, and a message   *)
(* is lost only when a new one arrives at a full window, which is counted. *)
(***************************************************************************)
EXTENDS Integers

CONSTANT Capacity   \* how many messages are retained, at least 1

VARIABLES
    oldest,   \* messages up to this one have left the window
    newest,   \* messages up to this one have arrived
    lost,     \* how many left the window unread
    read      \* the message read last, 0 if none

channel == <<oldest, newest, lost, read>>

Empty == oldest = 0 /\ newest = 0 /\ lost = 0 /\ read = 0

Arrive ==
    /\ newest' = newest + 1
    /\ UNCHANGED read
    /\ \/ /\ newest - oldest < Capacity
          /\ UNCHANGED <<oldest, lost>>
       \/ /\ newest - oldest = Capacity
          /\ oldest' = oldest + 1
          /\ lost' = lost + 1

Read ==
    /\ oldest < newest
    /\ oldest' = oldest + 1
    /\ read' = oldest'
    /\ UNCHANGED <<newest, lost>>

Channel == Empty /\ [][Arrive \/ Read]_channel

=============================================================================
