--------------------------- MODULE EventSourcing ---------------------------
(***************************************************************************)
(* What the mutator promises its users, whatever the interleaving of the   *)
(* calls: every stream is an append-only log of events numbered 1, 2, ...; *)
(* a call appends all its events at once, at the end; the feed that        *)
(* subscribers see takes events from the logs, each at most once.          *)
(***************************************************************************)
EXTENDS Integers, Sequences

CONSTANTS
  IDs,      \* the streams
  Causes,   \* the calls
  MaxBatch  \* bound: events appended at once

VARIABLES
  log,   \* the events of all the streams
  feed   \* the events passed on to subscribers, in order

\* n is the length of the log of stream id
EndsAt(id, n) ==
  /\ \A e \in log : e.streamID = id => e.version <= n
  /\ n = 0 \/ \E e \in log : e.streamID = id /\ e.version = n

Batch(id, c, n, k) == {[streamID |-> id, version |-> v, cause |-> c] : v \in n+1..n+k}

Append1(id, c) ==
  \E n \in {0} \union {e.version : e \in log}, k \in 1..MaxBatch :
    /\ EndsAt(id, n)
    /\ log' = log \union Batch(id, c, n, k)
    /\ UNCHANGED feed

PassOn ==
  \E e \in log \ {feed[i] : i \in DOMAIN feed} :
    /\ feed' = Append(feed, e)
    /\ UNCHANGED log

Init == log = {} /\ feed = <<>>

Next == PassOn \/ \E id \in IDs, c \in Causes : Append1(id, c)

Spec == Init /\ [][Next]_<<log, feed>>
=============================================================================
