--------------------------- MODULE CommandService ---------------------------
(***************************************************************************)
(* What a caller may rely on when it sends commands to a mutator in        *)
(* another process, whichever command bus carries them.                    *)
(*                                                                         *)
(* A call takes effect at most once, between being made and being          *)
(* answered with a reply; a reply carries the position in the log at which *)
(* that very call took effect.  A call that is answered without a reply    *)
(* may have taken effect, may still do so, or never will.                  *)
(***************************************************************************)
EXTENDS Integers, Sequences

CONSTANT Calls

VARIABLES
  made,     \* the calls made
  log,      \* the calls that took effect, in order
  answer,   \* what each call was answered: "none", "reply" or "failure"
  version   \* the version a reply carries, 0 for none

vars == <<made, log, answer, version>>

TookEffect(k) == \E i \in DOMAIN log : log[i] = k

Init ==
  /\ made = {} /\ log = <<>>
  /\ answer = [k \in Calls |-> "none"] /\ version = [k \in Calls |-> 0]

Make(k) ==
  /\ k \notin made
  /\ made' = made \union {k}
  /\ UNCHANGED <<log, version>>
  /\ answer' \in {answer, [answer EXCEPT ![k] = "failure"]}

TakeEffect(k) ==
  /\ k \in made /\ ~TookEffect(k)
  /\ answer[k] # "reply"
  /\ log' = Append(log, k)
  /\ UNCHANGED <<made, answer, version>>

Reply(k) ==
  /\ k \in made /\ answer[k] = "none"
  /\ answer' = [answer EXCEPT ![k] = "reply"]
  /\ \E i \in DOMAIN log :
       log[i] = k /\ version' = [version EXCEPT ![k] = i]
  /\ UNCHANGED <<made, log>>

Fail(k) ==
  /\ k \in made /\ answer[k] = "none"
  /\ answer' = [answer EXCEPT ![k] = "failure"]
  /\ UNCHANGED <<made, log, version>>

Next == \E k \in Calls : Make(k) \/ TakeEffect(k) \/ Reply(k) \/ Fail(k)

Spec == Init /\ [][Next]_vars
=============================================================================
