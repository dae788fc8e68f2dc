--------------------------- MODULE MCAsyncDelivery ---------------------------
(***************************************************************************)
(* Instances of AsyncDelivery: what a cfg cannot write.                    *)
(***************************************************************************)
EXTENDS AsyncDelivery

CONSTANTS e1, e2, e3

\* The first receiver has two endpoints.
ServesTwo == [e \in Endpoints |-> IF e = e3 THEN 2 ELSE 1]

\* Three messages of e1: one awaited, one in the channel, one in hand.
Read == [e \in Endpoints |-> IF e = e1 THEN 3 ELSE 1]
=============================================================================
