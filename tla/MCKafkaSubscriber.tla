------------------------- MODULE MCKafkaSubscriber -------------------------
(* Instances of KafkaSubscriber for TLC. *)
EXTENDS KafkaSubscriber

CONSTANTS c1, c2, e1, e2

MCBatch == <<e1, e2>>

Deployed(d, b, i, k1, k2) ==
  [dedup |-> d, before |-> b, informed |-> i,
   kind |-> [e \in Events |-> IF e = e1 THEN k1 ELSE k2]]

\* With a deduplicator and an error function; with nothing, as by default; with
\* a before function; and with events that nobody handles or that do not decode
SomeDeployments ==
  {Deployed(TRUE, FALSE, TRUE, "handled", "handled"),
   Deployed(FALSE, FALSE, FALSE, "handled", "handled"),
   Deployed(FALSE, TRUE, FALSE, "undecodable", "handled"),
   Deployed(TRUE, TRUE, TRUE, "unmatched", "undecodable")}
=============================================================================
