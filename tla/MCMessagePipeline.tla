-------------------------- MODULE MCMessagePipeline ---------------------------
(* Instances of MessagePipeline for TLC: which headers the sources send.   *)
EXTENDS MessagePipeline

CONSTANTS h1, h2

\* Sources that change between two headers.
Changing == [e \in Endpoints |-> {h1, h2}]

\* The outcome of the latest receive is looked at by the properties of a step
\* alone, and no action depends on it.
Outlook ==
    <<shared, crowded, endpoints, connected, clock, forked, header_buffer, id_buffer, check_mask,
      alive, latest, checked, stats, receives, calls>>

=============================================================================
