--------------------------- MODULE EventDelivery ---------------------------
(***************************************************************************)
(* What an event bus promises about each lane of events: a stream of the   *)
(* in-process bus, the partition of a topic of Kafka.                      *)
(*                                                                         *)
(* The bus comes to a conclusion on the events of a lane one after the     *)
(* other, in the order in which it accepted them, whoever publishes,       *)
(* handles, fails, is closed or replaced meanwhile.  None is passed over,  *)
(* once the place that the bus has reached on a lane is recorded; until    *)
(* then, a subscriber that joins may skip what the lane has.  An event may *)
(* be handled again later.                                                 *)
(***************************************************************************)
EXTENDS Integers, Sequences

CONSTANTS Lanes, Events

VARIABLES
  log,      \* the events of each lane, in the order of their acceptance
  done,     \* how many of them are concluded: the first ones
  recorded  \* whether the place reached on each lane is recorded

Init ==
  /\ log = [k \in Lanes |-> <<>>]
  /\ done = [k \in Lanes |-> 0]
  /\ recorded \in [Lanes -> BOOLEAN]

Accept(k) ==
  /\ log'[k] # log[k]
  /\ \E e \in Events : log' = [log EXCEPT ![k] = Append(@, e)]

Conclude(k) ==
  /\ done[k] < Len(log[k])
  /\ done' = [done EXCEPT ![k] = @ + 1]

Skip(k) ==
  /\ ~recorded[k]
  /\ done' = [done EXCEPT ![k] = Len(log[k])]

Record(k) ==
  /\ ~recorded[k]
  /\ recorded' = [recorded EXCEPT ![k] = TRUE]

Next ==
  \E k \in Lanes :
    \/ Accept(k) /\ UNCHANGED <<done, recorded>>
    \/ (Conclude(k) \/ Skip(k)) /\ UNCHANGED <<log, recorded>>
    \/ Record(k) /\ UNCHANGED <<log, done>>

Spec == Init /\ [][Next]_<<log, done, recorded>>
=============================================================================
