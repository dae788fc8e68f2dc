------------------------------- MODULE MCSender -------------------------------
(* An instance of Sender for TLC: two lists of two channels, one of one.   *)
EXTENDS Sender

CONSTANTS two, other, one

Wide == {two, other, one}

Widths == [layout \in Wide |-> IF layout = one THEN 1 ELSE 2]

=============================================================================
