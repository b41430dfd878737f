--------------------------- MODULE MCRedisStorage ---------------------------
(* Instances of RedisStorage for TLC. *)
EXTENDS RedisStorage, TLC

CONSTANTS c1, c2, c3

\* The concurrency test of the repository: nothing fails
MCTest == [creators |-> {}, preloaded |-> TRUE, faults |-> {}, rounds |-> 3, changes |-> 1]

\* Two clients create the stream while a third waits for it
MCCreation == [creators |-> {c1, c2}, preloaded |-> FALSE, faults |-> {"connection"},
               rounds |-> 2, changes |-> 2]

\* Everybody loads the stream; everything may fail
MCUpdates == [creators |-> {}, preloaded |-> TRUE, faults |-> {"connection", "get"},
              rounds |-> 2, changes |-> 1]

MCDeployments == {MCTest, MCCreation, MCUpdates}

\* A client creates a stream that exists; a GET may fail
MCBlindCreation == {[creators |-> {c1}, preloaded |-> TRUE, faults |-> {"get"},
                     rounds |-> 2, changes |-> 1]}
=============================================================================
