------------------------- MODULE MCPostgresStorage -------------------------
(* Instances of PostgresStorage for TLC. *)
EXTENDS PostgresStorage, TLC

CONSTANTS c1, c2, c3

Symmetric == Permutations(Clients)
=============================================================================
