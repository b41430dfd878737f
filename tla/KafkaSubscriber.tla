-------------------------- MODULE KafkaSubscriber --------------------------
(***************************************************************************)
(* The Kafka publisher and subscriber of pkg/eventbus/kafka.               *)
(*                                                                         *)
(* The events of a stream have the same key and so one partition; the      *)
(* module keeps one partition and the consumers of a group that compete    *)
(* for it.  A message is an index of the log.  The broker and the client   *)
(* library are external: the broker gives the partition to one member,     *)
(* takes it away from a member it believes dead, which may go on working   *)
(* and no longer commits, and hands it on from the committed offset.       *)
(*                                                                         *)
(* ConsumeClaim handles the messages in order.  A message is marked when   *)
(* it needs no handling, was visited, or was handled and its visit         *)
(* recorded; on any error it is left unmarked and the loop goes on with    *)
(* the next one.  The error functions hear of the error, if the subscriber *)
(* was given any; by default it has none, and nobody does.                 *)
(***************************************************************************)
EXTENDS Integers, Sequences, SequencesExt

CONSTANTS
  Consumers,     \* the members of the group, one subscriber each
  NoOne,         \* the owner of a partition that nobody owns
  Events,
  Batch,         \* the events of a Publish call, in order
  Deployments,   \* records [dedup, before, informed, kind], see the variables
  HandlerCount,  \* the handlers that match an event
  MaxLog,        \* bound: messages of the partition
  MaxRestarts    \* bound: sessions that end

Handlers == 1..HandlerCount

NoOffset == -1

ASSUME ConstantsAssumption ==
  /\ NoOne \notin Consumers
  /\ Batch \in Seq(Events)
  /\ Deployments \subseteq
       [dedup : BOOLEAN, before : BOOLEAN, informed : BOOLEAN,
        kind : [Events -> {"handled", "unmatched", "undecodable"}]]
  /\ HandlerCount \in Nat \ {0}
  /\ MaxLog \in Nat /\ MaxRestarts \in Nat

VARIABLES
  dedup,      \* whether there is a deduplicator
  before,     \* whether there is a before function that refuses and marks
  informed,   \* whether there is an error function
  kind,       \* what the subscriber can make of each event
  log,        \* the partition
  committed,  \* the messages of the group's committed offset
  owner,      \* the member that has the partition, for the broker
  restarts,   \* the sessions that have ended
  connected,  \* whether the publisher is connected
  outgoing,   \* what Publish still has to send
  answer,     \* what Publish returned: "sent" and "unsent" are nil
  pc,         \* "out", "ready", "visit", "handling", "undoing", "recording", "gone"
  position,   \* the messages the claim is done with
  marked,     \* the messages the session has marked, 0 for none
  current,    \* the handler being called
  visited,    \* the events the deduplicator has recorded
  effects,    \* history: the handlers whose effect on an event is in place
  times,      \* history: how often all handlers of an event have succeeded
  settled,    \* history: the messages that were handled or needed no handling
  failed,     \* history: the messages that were given up after an error
  reported,   \* history: the messages that the error functions heard of an error for
  refused,    \* history: the messages that a before function has marked
  jumped,     \* history: the messages a session without an offset started after
  overlapped, \* history: the events that two members worked on at a time
  unrecorded  \* history: the events handled without recording the visit

setup == <<dedup, before, informed, kind>>
publisher == <<connected, outgoing, answer>>
group == <<committed, owner, restarts>>
work == <<pc, position, marked, current>>
outcome == <<settled, failed, reported, refused, jumped>>
handling == <<effects, times, overlapped, unrecorded>>
history == <<outcome, handling>>

vars == <<setup, log, publisher, group, work, visited, history>>

-----------------------------------------------------------------------------
(***************************************************************************)
(* Publisher.                                                              *)
(***************************************************************************)
Connect ==
  /\ ~connected
  /\ connected' = TRUE
  /\ UNCHANGED <<setup, log, outgoing, answer, group, work, visited, history>>

\* Publish of a publisher that is not connected returns nil.
PublishUnconnected ==
  /\ ~connected /\ answer = "none"
  /\ outgoing' = <<>>
  /\ answer' = "unsent"
  /\ UNCHANGED <<setup, log, connected, group, work, visited, history>>

\* An event that does not encode keeps the whole batch back.
EncodeFails ==
  /\ connected /\ answer = "none" /\ outgoing = Batch
  /\ outgoing' = <<>>
  /\ answer' = "error"
  /\ UNCHANGED <<setup, log, connected, group, work, visited, history>>

\* SendMessages: the broker appends the message, or answers nothing in all
\* retries, which leaves the others of the batch alone.
Send ==
  /\ connected /\ outgoing # <<>> /\ Len(log) < MaxLog
  /\ log' = Append(log, Head(outgoing))
  /\ outgoing' = Tail(outgoing)
  /\ answer' = IF Tail(outgoing) = <<>> /\ answer = "none" THEN "sent" ELSE answer
  /\ UNCHANGED <<setup, connected, group, work, visited, history>>

\* Mutant: without the error
SendFailsSilently ==
  /\ connected /\ outgoing # <<>>
  /\ outgoing' = Tail(outgoing)
  /\ answer' = IF Tail(outgoing) = <<>> THEN "sent" ELSE answer
  /\ UNCHANGED <<setup, log, connected, group, work, visited, history>>

SendFails ==
  /\ connected /\ outgoing # <<>>
  /\ outgoing' = Tail(outgoing)
  /\ answer' = "error"
  /\ UNCHANGED <<setup, log, connected, group, work, visited, history>>

\* A lost acknowledgement: the producer, which is not idempotent, retries.
SendAgain ==
  /\ outgoing # <<>> /\ log # <<>> /\ Len(log) + Len(outgoing) < MaxLog
  /\ log' = Append(log, Last(log))
  /\ UNCHANGED <<setup, publisher, group, work, visited, history>>

-----------------------------------------------------------------------------
(***************************************************************************)
(* The group: sessions begin and end.                                      *)
(***************************************************************************)
\* A claim starts at the committed offset, else at the newest message.
Claim(c) ==
  /\ pc[c] = "out" /\ owner = NoOne
  /\ owner' = c
  /\ pc' = [pc EXCEPT ![c] = "ready"]
  /\ position' = [position EXCEPT ![c] = IF committed = NoOffset THEN Len(log) ELSE committed]
  /\ jumped' = IF committed = NoOffset THEN Len(log) ELSE jumped
  /\ UNCHANGED <<setup, log, publisher, committed, restarts, marked, current, visited, handling,
                 settled, failed, reported, refused>>

\* What the member knew of its claim goes with the session.
Leave(c) ==
  /\ pc' = [pc EXCEPT ![c] = "out"]
  /\ position' = [position EXCEPT ![c] = 0]
  /\ marked' = [marked EXCEPT ![c] = 0]
  /\ current' = [current EXCEPT ![c] = 1]

Committed(c) == IF marked[c] > committed THEN marked[c] ELSE committed

\* The client library commits what is marked, from time to time.
Commit(c) ==
  /\ owner = c /\ marked[c] > 0
  /\ committed' = Committed(c)
  /\ UNCHANGED <<setup, log, publisher, owner, restarts, work, visited, history>>

\* A session that ends between two messages commits what is marked.
Release(c) ==
  /\ owner = c /\ pc[c] = "ready" /\ restarts < MaxRestarts
  /\ committed' = IF marked[c] > 0 THEN Committed(c) ELSE committed
  /\ owner' = NoOne
  /\ restarts' = restarts + 1
  /\ Leave(c)
  /\ UNCHANGED <<setup, log, publisher, visited, history>>

\* The broker gives a member up, whatever it is doing.
Evict(c) ==
  /\ owner = c /\ restarts < MaxRestarts
  /\ owner' = NoOne
  /\ restarts' = restarts + 1
  /\ UNCHANGED <<setup, log, publisher, committed, work, visited, history>>

\* A member that was given up finds its claim closed.
Expire(c) ==
  /\ owner # c /\ pc[c] = "ready"
  /\ Leave(c)
  /\ UNCHANGED <<setup, log, publisher, group, visited, history>>

\* The process of a member dies and is started again.
Crash(c) ==
  /\ pc[c] \notin {"out", "gone"} /\ restarts < MaxRestarts
  /\ owner' = IF owner = c THEN NoOne ELSE owner
  /\ restarts' = restarts + 1
  /\ Leave(c)
  /\ unrecorded' = IF pc[c] = "recording" THEN unrecorded \union {log[position[c] + 1]}
                   ELSE unrecorded
  /\ UNCHANGED <<setup, log, publisher, committed, visited, effects, times, outcome, overlapped>>

\* Consume returns an error, or the context is cancelled: the goroutine of
\* Listen returns and the subscriber consumes no more.
ConsumeEnds(c) ==
  /\ pc[c] = "out"
  /\ pc' = [pc EXCEPT ![c] = "gone"]
  /\ UNCHANGED <<setup, log, publisher, group, position, marked, current, visited, history>>

-----------------------------------------------------------------------------
(***************************************************************************)
(* ConsumeClaim, for one message after the other.                          *)
(***************************************************************************)
Message(c) == position[c] + 1

EventOf(c) == log[Message(c)]

\* Without the two headers, or without a handler that matches
Unmatched(e) == kind[e] = "unmatched"

Undecodable(e) == kind[e] = "undecodable"

\* Mutant: the offset after the next message's
MarkNext(c) == marked' = [marked EXCEPT ![c] = Message(c) + 1]

Mark(c) == marked' = [marked EXCEPT ![c] = Message(c)]

\* The loop goes on, or ends when the claim is closed.
NextMessage(c) ==
  /\ position' = [position EXCEPT ![c] = @ + 1]
  /\ pc' = [pc EXCEPT ![c] = "ready"]

\* Nothing is left to do with the message.
Settle(c) ==
  /\ Mark(c)
  /\ NextMessage(c)
  /\ settled' = settled \union {Message(c)}
  /\ UNCHANGED <<failed, reported, refused, jumped>>

\* errorHandle: without an error function nobody hears of the error.
ErrorHandle(c) == reported' = IF informed THEN reported \union {Message(c)} ELSE reported

\* The message of an error is not marked, and the loop goes on.
GiveUp(c) ==
  /\ NextMessage(c)
  /\ failed' = failed \union {Message(c)}
  /\ UNCHANGED <<settled, jumped>>

\* The before functions: what they refuse goes on all the same, and is marked
\* at once if they say so.
CallBeforeFuncs(c) ==
  \/ UNCHANGED <<marked, refused>>
  \/ before /\ Mark(c) /\ refused' = refused \union {Message(c)}

\* Mutant: marked when it arrives, not when it is handled
ReceiveAndMark(c) ==
  /\ pc[c] = "ready" /\ Message(c) <= Len(log)
  /\ ~Unmatched(EventOf(c)) /\ ~Undecodable(EventOf(c))
  /\ Mark(c)
  /\ pc' = [pc EXCEPT ![c] = "visit"]
  /\ UNCHANGED <<setup, log, publisher, group, position, current, visited, handling, outcome>>

Receive(c) ==
  /\ pc[c] = "ready" /\ Message(c) <= Len(log)
  /\ ~Unmatched(EventOf(c)) /\ ~Undecodable(EventOf(c))
  /\ CallBeforeFuncs(c)
  /\ pc' = [pc EXCEPT ![c] = "visit"]
  /\ UNCHANGED <<setup, log, publisher, group, position, current, visited, handling, settled,
                 failed, reported, jumped>>

SkipUnmatched(c) ==
  /\ pc[c] = "ready" /\ Message(c) <= Len(log)
  /\ Unmatched(EventOf(c))
  /\ Settle(c)
  /\ UNCHANGED <<setup, log, publisher, group, current, visited, handling>>

DecodeFails(c) ==
  /\ pc[c] = "ready" /\ Message(c) <= Len(log)
  /\ Undecodable(EventOf(c))
  /\ CallBeforeFuncs(c)
  /\ ErrorHandle(c) /\ GiveUp(c)
  /\ UNCHANGED <<setup, log, publisher, group, current, visited, handling>>

HasVisitFails(c) ==
  /\ dedup /\ pc[c] = "visit"
  /\ ErrorHandle(c) /\ GiveUp(c)
  /\ UNCHANGED <<setup, log, publisher, group, marked, refused, current, visited, handling>>

SkipVisited(c) ==
  /\ pc[c] = "visit" /\ EventOf(c) \in visited
  /\ Settle(c)
  /\ UNCHANGED <<setup, log, publisher, group, current, visited, handling>>

Working(c, e) == pc[c] \in {"handling", "undoing", "recording"} /\ EventOf(c) = e

\* Mutant: the result of HasVisit is ignored
BeginAgain(c) ==
  /\ pc[c] = "visit"
  /\ pc' = [pc EXCEPT ![c] = "handling"]
  /\ current' = [current EXCEPT ![c] = 1]
  /\ overlapped' = IF \E o \in Consumers \ {c} : Working(o, EventOf(c))
                   THEN overlapped \union {EventOf(c)} ELSE overlapped
  /\ UNCHANGED <<setup, log, publisher, group, position, marked, visited, effects, times, outcome,
                 unrecorded>>

Begin(c) ==
  /\ pc[c] = "visit" /\ EventOf(c) \notin visited
  /\ pc' = [pc EXCEPT ![c] = "handling"]
  /\ current' = [current EXCEPT ![c] = 1]
  /\ overlapped' = IF \E o \in Consumers \ {c} : Working(o, EventOf(c))
                   THEN overlapped \union {EventOf(c)} ELSE overlapped
  /\ UNCHANGED <<setup, log, publisher, group, position, marked, visited, effects, times, outcome,
                 unrecorded>>

HandleSucceeds(c) ==
  /\ pc[c] = "handling"
  /\ effects' = [effects EXCEPT ![EventOf(c)] = @ \union {current[c]}]
  /\ IF current[c] < HandlerCount
     THEN current' = [current EXCEPT ![c] = @ + 1] /\ UNCHANGED <<pc, times>>
     ELSE /\ pc' = [pc EXCEPT ![c] = "recording"]
          /\ times' = [times EXCEPT ![EventOf(c)] = @ + 1]
          /\ current' = [current EXCEPT ![c] = 1]
  /\ UNCHANGED <<setup, log, publisher, group, position, marked, visited, outcome, overlapped,
                 unrecorded>>

\* A handler that fails may have had its effect.  The error is reported at once.
HandleFails(c) ==
  /\ pc[c] = "handling"
  /\ \/ effects' = [effects EXCEPT ![EventOf(c)] = @ \union {current[c]}]
     \/ UNCHANGED effects
  /\ pc' = [pc EXCEPT ![c] = "undoing"]
  /\ ErrorHandle(c)
  /\ UNCHANGED <<setup, log, publisher, group, position, marked, current, visited, times, settled,
                 failed, refused, jumped, overlapped, unrecorded>>

\* Rollback is called on the failing handler, then down to the first one, and
\* goes on whatever it returns: its error is reported too, for the same message.
Undo(c) ==
  /\ pc[c] = "undoing"
  /\ \/ effects' = [effects EXCEPT ![EventOf(c)] = @ \ {current[c]}]
     \/ UNCHANGED effects
  /\ IF current[c] > 1
     THEN current' = [current EXCEPT ![c] = @ - 1] /\ UNCHANGED <<pc, position, marked, outcome>>
     ELSE GiveUp(c) /\ UNCHANGED <<current, marked, reported, refused>>
  /\ UNCHANGED <<setup, log, publisher, group, visited, times, overlapped, unrecorded>>

\* Mutant: recorded before the handlers have succeeded
RecordAlways(c) ==
  /\ pc[c] \in {"recording", "undoing"}
  /\ visited' = IF dedup THEN visited \union {EventOf(c)} ELSE visited
  /\ Settle(c)
  /\ UNCHANGED <<setup, log, publisher, group, current, handling>>

Record(c) ==
  /\ pc[c] = "recording"
  /\ visited' = IF dedup THEN visited \union {EventOf(c)} ELSE visited
  /\ Settle(c)
  /\ UNCHANGED <<setup, log, publisher, group, current, handling>>

\* The event is handled, and would be again.
RecordFails(c) ==
  /\ dedup /\ pc[c] = "recording"
  /\ unrecorded' = unrecorded \union {EventOf(c)}
  /\ ErrorHandle(c) /\ GiveUp(c)
  /\ UNCHANGED <<setup, log, publisher, group, marked, refused, current, visited, effects, times,
                 overlapped>>

-----------------------------------------------------------------------------
Init ==
  /\ \E d \in Deployments :
       dedup = d.dedup /\ before = d.before /\ informed = d.informed /\ kind = d.kind
  /\ log = <<>> /\ committed = NoOffset /\ owner = NoOne /\ restarts = 0
  /\ connected = FALSE /\ outgoing = Batch /\ answer = "none"
  /\ pc = [c \in Consumers |-> "out"]
  /\ position = [c \in Consumers |-> 0]
  /\ marked = [c \in Consumers |-> 0]
  /\ current = [c \in Consumers |-> 1]
  /\ visited = {}
  /\ effects = [e \in Events |-> {}]
  /\ times = [e \in Events |-> 0]
  /\ settled = {} /\ failed = {} /\ reported = {} /\ refused = {} /\ jumped = 0
  /\ overlapped = {} /\ unrecorded = {}

Publish == PublishUnconnected \/ EncodeFails \/ Send \/ SendFails

ConsumeClaim(c) ==
  \/ Receive(c) \/ SkipUnmatched(c) \/ DecodeFails(c)
  \/ HasVisitFails(c) \/ SkipVisited(c) \/ Begin(c)
  \/ HandleSucceeds(c) \/ HandleFails(c) \/ Undo(c) \/ Record(c) \/ RecordFails(c)

Session(c) ==
  Claim(c) \/ Commit(c) \/ Release(c) \/ Evict(c) \/ Expire(c) \/ Crash(c) \/ ConsumeEnds(c)

Next ==
  \/ Connect \/ Publish \/ SendAgain
  \/ \E c \in Consumers : Session(c) \/ ConsumeClaim(c)

Spec == Init /\ [][Next]_vars

\* The publisher runs, the broker gives a free partition to some member, and a
\* member goes through its messages.  Nothing has to fail, be given up or commit.
FairSpec ==
  /\ Spec
  /\ WF_vars(Publish)
  /\ WF_vars(\E c \in Consumers : Claim(c))
  /\ \A c \in Consumers : WF_vars(ConsumeClaim(c) \/ Expire(c))

-----------------------------------------------------------------------------
TypeOK ==
  /\ [dedup |-> dedup, before |-> before, informed |-> informed, kind |-> kind] \in Deployments
  /\ log \in Seq(Events) /\ Len(log) <= MaxLog
  /\ committed \in Nat \union {NoOffset}
  /\ owner \in Consumers \union {NoOne} /\ restarts \in 0..MaxRestarts
  /\ connected \in BOOLEAN /\ outgoing \in Seq(Events)
  /\ answer \in {"none", "sent", "unsent", "error"}
  /\ pc \in [Consumers -> {"out", "ready", "visit", "handling", "undoing", "recording", "gone"}]
  /\ position \in [Consumers -> Nat]
  /\ marked \in [Consumers -> Nat]
  /\ current \in [Consumers -> Handlers]
  /\ visited \subseteq Events
  /\ effects \in [Events -> SUBSET Handlers]
  /\ times \in [Events -> Nat]
  /\ settled \subseteq Nat /\ failed \subseteq Nat /\ reported \subseteq Nat /\ refused \subseteq Nat
  /\ jumped \in Nat
  /\ overlapped \subseteq Events /\ unrecorded \subseteq Events
  /\ \A c \in Consumers :
       /\ position[c] <= Len(log)
       /\ pc[c] \notin {"out", "ready", "gone"} => Message(c) <= Len(log)

\* A message that was given up after an error, which the error functions have
\* heard of if there are any
Failed(m) == m \in failed /\ (informed => m \in reported)

\* What became of a message is known: it was handled or needed no handling,
\* failed, was refused and marked by a before function, which asks for that, or
\* is older than a session of the group that found no committed offset.
Accounted(m) == m \in settled \union refused \/ Failed(m) \/ m <= jumped

\* The group passes over a message only because of an error of its own: whoever
\* crashes, is given up or repeats messages, all below the committed offset,
\* which are not delivered again, and all before one that was concluded, are
\* accounted for.  A subscriber that was given an error function has reported
\* each failure; without one, the default, nobody hears of what failed.
OnlyFailuresArePassedOver ==
  /\ \A m \in 1..committed : Accounted(m)
  /\ \A n \in settled \union failed : \A m \in 1..n : Accounted(m)

\* With a deduplicator an event is handled once, though its message is
\* delivered again or is in the log twice, unless two members worked on it at a
\* time or its visit could not be recorded.
HandledOnce ==
  dedup => \A e \in Events \ (overlapped \union unrecorded) : times[e] <= 1

\* The effects of an event recorded as visited, which no delivery will handle
\* again, are in place, unless two members worked on it at a time: the one may
\* undo what the other has recorded.
VisitedIsHandled == \A e \in visited \ overlapped : effects[e] = Handlers

\* What the publisher reports as sent reaches the log, and all messages of the
\* log are accounted for in the end, as long as some member consumes.
EventsArrive ==
  <>(\/ \A c \in Consumers : pc[c] = "gone"
     \/ /\ outgoing = <<>>
        /\ answer = "sent" => \A i \in DOMAIN Batch : \E m \in DOMAIN log : log[m] = Batch[i]
        /\ \A m \in DOMAIN log : Accounted(m))

-----------------------------------------------------------------------------
\* The last message that is concluded: handled, failed, refused or skipped
LastConcluded == Max({jumped} \union settled \union failed \union refused)

Promise == INSTANCE EventDelivery WITH
  Lanes    <- {"partition"},
  log      <- [k \in {"partition"} |-> log],
  done     <- [k \in {"partition"} |-> LastConcluded],
  recorded <- [k \in {"partition"} |-> committed # NoOffset]

\* The group's members conclude, for the first time, one message after the other
\* in the order of the log, though they take the partition from one another,
\* repeat messages and may work at the same time; only a session that finds no
\* committed offset skips to the end of the log, and once there is one, none does.
ImplementsDelivery == Promise!Spec
=============================================================================
