----------------------------- MODULE KafkaListen -----------------------------
(***************************************************************************)
(* The life of one subscriber of pkg/eventbus/kafka: Listen, the goroutine *)
(* it starts, which calls Consume for one session after the other, and the *)
(* channel s.ready over which the goroutine tells Listen that it may       *)
(* return.  What the sessions do with messages is in KafkaSubscriber.      *)
(*                                                                         *)
(*   joining -> setup -> session -> cleanup -> ended -> joining ...        *)
(*      failed (an error of Consume) -> leaving -> gone                    *)
(*                                                                         *)
(* Listen reads the field s.ready whenever it gets there: the goroutine    *)
(* may be sessions ahead by then, on another channel.  Consume, which      *)
(* calls Setup and Cleanup, is external.                                   *)
(***************************************************************************)
EXTENDS KafkaListenState

CONSTANTS
  SetupFuncs, CleanupFuncs, ExitFuncs,  \* how many functions the options have added
  MaxSessions                           \* bound: sessions of the subscriber

ASSUME ConstantsAssumption ==
  /\ SetupFuncs \in Nat /\ CleanupFuncs \in Nat /\ ExitFuncs \in Nat
  /\ MaxSessions \in Nat

listening == <<listener, result, waitsOn>>
channels == <<ready, shut>>
outside == <<cancelled, closed>>

vars == <<listening, channels, member, calls, sessions, outside, panic, unheard>>

\* A panic ends the process, after the deferred exit functions.
Alive == ~(panic # "none" /\ member = "gone")

Return(r) ==
  /\ listener' = "returned"
  /\ result' = r

\* The member calls the next of its functions, which are n.
CallNext(n, at, then) ==
  /\ member = at
  /\ IF calls < n THEN calls' = calls + 1 /\ UNCHANGED member
                  ELSE calls' = 0 /\ member' = then

-----------------------------------------------------------------------------
(***************************************************************************)
(* Listen and Close.                                                       *)
(***************************************************************************)
NewConsumerGroup ==
  /\ listener = "called"
  /\ listener' = "running" /\ member' = "joining"
  /\ UNCHANGED <<result, waitsOn, channels, calls, sessions, outside, panic, unheard>>

NewConsumerGroupFails ==
  /\ listener = "called"
  /\ Return("error")
  /\ UNCHANGED <<waitsOn, channels, member, calls, sessions, outside, panic, unheard>>

ReadReady ==
  /\ Alive /\ listener = "running"
  /\ listener' = "waiting" /\ waitsOn' = ready
  /\ UNCHANGED <<result, channels, member, calls, sessions, outside, panic, unheard>>

ReceiveClosed ==
  /\ Alive /\ listener = "waiting" /\ waitsOn \in shut
  /\ Return("nil")
  /\ UNCHANGED <<waitsOn, channels, member, calls, sessions, outside, panic, unheard>>

Cancel ==
  /\ Alive /\ ~cancelled
  /\ cancelled' = TRUE
  /\ UNCHANGED <<listening, channels, member, calls, sessions, closed, panic, unheard>>

\* Before Listen has made the consumer group, Close does nothing.
Close ==
  /\ Alive /\ ~closed
  /\ closed' = (member # "none")
  /\ UNCHANGED <<listening, channels, member, calls, sessions, cancelled, panic, unheard>>

-----------------------------------------------------------------------------
(***************************************************************************)
(* The goroutine.                                                          *)
(***************************************************************************)
JoinFails ==
  /\ member = "joining"
  /\ member' = "failed"
  /\ UNCHANGED <<listening, channels, calls, sessions, outside, panic, unheard>>

\* Mutant: Listen is not told
SetupQuietly ==
  /\ member = "joining" /\ ~closed /\ sessions < MaxSessions
  /\ sessions' = sessions + 1
  /\ member' = "setup"
  /\ UNCHANGED <<listening, channels, calls, outside, panic, unheard>>

\* Closing a channel again would panic.
Setup ==
  /\ member = "joining" /\ ~closed /\ sessions < MaxSessions
  /\ sessions' = sessions + 1
  /\ IF ready \in shut
     THEN member' = "leaving" /\ panic' = "close" /\ UNCHANGED shut
     ELSE member' = "setup" /\ shut' = shut \union {ready} /\ UNCHANGED panic
  /\ UNCHANGED <<listening, ready, calls, outside, unheard>>

CallSetupFunc ==
  /\ CallNext(SetupFuncs, "setup", "session")
  /\ UNCHANGED <<listening, channels, sessions, outside, panic, unheard>>

\* A rebalance, the context or Close
SessionEnds ==
  /\ member = "session"
  /\ member' = "cleanup"
  /\ UNCHANGED <<listening, channels, calls, sessions, outside, panic, unheard>>

CallCleanupFunc ==
  /\ CallNext(CleanupFuncs, "cleanup", "ended")
  /\ UNCHANGED <<listening, channels, sessions, outside, panic, unheard>>

\* The error of a setup or cleanup function is Consume's.
FuncFails ==
  /\ member \in {"setup", "cleanup"} /\ calls > 0
  /\ member' = "failed" /\ calls' = 0
  /\ UNCHANGED <<listening, channels, sessions, outside, panic, unheard>>

\* Consume fails in the end, over the offsets for instance.
ReleaseFails ==
  /\ member = "ended"
  /\ member' = "failed"
  /\ UNCHANGED <<listening, channels, calls, sessions, outside, panic, unheard>>

\* Mutant: the channel of the session before is kept
NextConsumeSameChannel ==
  /\ member = "ended"
  /\ member' = IF cancelled THEN "leaving" ELSE "joining"
  /\ UNCHANGED <<listening, channels, calls, sessions, outside, panic, unheard>>

NextConsume ==
  /\ member = "ended"
  /\ IF cancelled THEN member' = "leaving" /\ UNCHANGED ready
                  ELSE member' = "joining" /\ ready' = ready + 1
  /\ UNCHANGED <<listening, shut, calls, sessions, outside, panic, unheard>>

\* The send of the error is tried once.  After Setup it panics; else Listen
\* gets the error if it waits on that very channel.
OfferError ==
  /\ member = "failed"
  /\ member' = "leaving"
  /\ panic' = IF ready \in shut THEN "send" ELSE panic
  /\ IF ready \notin shut /\ listener = "waiting" /\ waitsOn = ready
     THEN Return("error") /\ UNCHANGED unheard
     ELSE unheard' = (ready \notin shut /\ result = "none") /\ UNCHANGED <<listener, result>>
  /\ UNCHANGED <<waitsOn, channels, calls, sessions, outside>>

CallExitFunc ==
  /\ CallNext(ExitFuncs, "leaving", "gone")
  /\ UNCHANGED <<listening, channels, sessions, outside, panic, unheard>>

-----------------------------------------------------------------------------
Init ==
  /\ listener = "called" /\ result = "none" /\ waitsOn = 0
  /\ ready = 1 /\ shut = {}
  /\ member = "none" /\ calls = 0 /\ sessions = 0
  /\ cancelled = FALSE /\ closed = FALSE
  /\ panic = "none" /\ unheard = FALSE

Listen == NewConsumerGroup \/ NewConsumerGroupFails \/ ReadReady \/ ReceiveClosed

Goroutine ==
  \/ JoinFails \/ Setup \/ CallSetupFunc \/ FuncFails
  \/ CallCleanupFunc \/ ReleaseFails \/ NextConsume \/ OfferError \/ CallExitFunc

Next == Listen \/ Cancel \/ Close \/ Goroutine \/ SessionEnds

Spec == Init /\ [][Next]_vars

\* Both goroutines run, and joining the group ends in one way or the other.
\* Nobody has to cancel or close, and a session need not end.
FairSpec == Spec /\ WF_vars(Listen) /\ WF_vars(Goroutine)

-----------------------------------------------------------------------------
TypeOK ==
  /\ listener \in {"called", "running", "waiting", "returned"}
  /\ result \in {"none", "nil", "error"}
  /\ waitsOn \in Nat /\ ready \in Nat \ {0} /\ shut \subseteq 1..ready
  /\ member \in {"none", "joining", "setup", "session", "cleanup", "ended", "failed", "leaving",
                 "gone"}
  /\ calls \in Nat /\ sessions \in 0..MaxSessions
  /\ cancelled \in BOOLEAN /\ closed \in BOOLEAN /\ unheard \in BOOLEAN
  /\ panic \in {"none", "close", "send"}

\* Listen returns, unless the process dies before, or its one chance to hear of
\* an error passed before it waited: then it waits for ever, for a goroutine
\* that is gone.
ListenReturns == <>(listener = "returned" \/ unheard \/ ~Alive)
=============================================================================
