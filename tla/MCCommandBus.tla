---------------------------- MODULE MCCommandBus ----------------------------
(* Instances of CommandBus for TLC. *)
EXTENDS CommandBus

CONSTANTS p, q, v1, v2
=============================================================================
