----------------------------- MODULE MCMutator -----------------------------
(* Instances of Mutator for TLC. *)
EXTENDS Mutator, TLC

CONSTANTS d1, d2, d3, s1, s2

\* The ways a controller may be registered
Creates == [create |-> TRUE, drop |-> FALSE]
Updates == [create |-> FALSE, drop |-> FALSE]
Closes  == [create |-> FALSE, drop |-> TRUE]

MCLifecycle == {Creates, Updates, Closes}
MCKeeps     == {Creates, Updates}
MCUpdates   == {Updates}
MCCreates   == {Creates}

\* The targets an event controller may pick
MCOne  == {<<s1>>}
MCMany == {<<s1, s2>>, <<s2, s1>>}

Symmetric == Permutations(Deliveries)
=============================================================================
