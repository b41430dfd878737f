-------------------------- MODULE KafkaListenState --------------------------
(***************************************************************************)
(* The state of the life of one subscriber of pkg/eventbus/kafka, whose    *)
(* steps are in KafkaListen, and what must hold of it.                     *)
(***************************************************************************)
EXTENDS Integers

VARIABLES
  listener,   \* where Listen is: "called", "running", "waiting", "returned"
  result,     \* what it has returned
  waitsOn,    \* the channel it receives from, once waiting
  ready,      \* the channel in s.ready: they are numbered as they are made
  shut,       \* the channels that are closed
  member,     \* where the goroutine is
  calls,      \* the setup, cleanup or exit functions that have been called
  sessions,   \* the sessions that were set up
  cancelled,  \* whether the context of Listen is
  closed,     \* whether Close has closed the consumer group
  panic,      \* what the goroutine panicked at: "none", "close" or "send"
  unheard     \* history: an error of Consume came before Listen waited for it

\* What Listen returns is true, though it may read s.ready sessions late: nil
\* only after a session was set up, and an error only when nothing consumes any
\* more.  Setup never closes a channel twice; the process dies only of an error
\* after Setup, which is sent on the channel that Setup has closed.
ListenTellsTheTruth ==
  /\ result = "nil" => sessions > 0
  /\ result = "error" => member \in {"none", "leaving", "gone"}
  /\ panic # "close"
  /\ panic = "send" => sessions > 0 /\ member \in {"leaving", "gone"}
=============================================================================
