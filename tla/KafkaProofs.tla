---------------------------- MODULE KafkaProofs ----------------------------
(***************************************************************************)
(* Theorems about the Kafka publisher and subscriber, for any members of   *)
(* the group, events, handlers and deployments, and whatever fails; and,   *)
(* at the end, about what Listen returns.                                  *)
(***************************************************************************)
EXTENDS KafkaSubscriber, KafkaListenState, WellFoundedInduction, TLAPS

-----------------------------------------------------------------------------
(***************************************************************************)
(* Types.  A session starts at the committed offset, so that the offset and*)
(* what may become one must not go past the end of the log.                *)
(***************************************************************************)
PCs == {"out", "ready", "visit", "handling", "undoing", "recording", "gone"}

\* The members that have no message in hand
Idle == {"out", "ready", "gone"}

WorkType ==
  /\ pc \in [Consumers -> PCs]
  /\ position \in [Consumers -> Nat]
  /\ marked \in [Consumers -> Nat]
  /\ current \in [Consumers -> Handlers]

InLog(c) ==
  /\ position[c] <= Len(log) /\ marked[c] <= Len(log)
  /\ pc[c] \notin Idle => Message(c) <= Len(log)

GroupType ==
  /\ committed \in Nat \union {NoOffset} /\ committed <= Len(log)
  /\ owner \in Consumers \union {NoOne} /\ restarts \in 0..MaxRestarts

HistoryType ==
  /\ visited \subseteq Events
  /\ effects \in [Events -> SUBSET Handlers]
  /\ times \in [Events -> Nat]
  /\ settled \subseteq Nat /\ failed \subseteq Nat /\ reported \subseteq Nat /\ refused \subseteq Nat
  /\ jumped \in Nat
  /\ overlapped \subseteq Events /\ unrecorded \subseteq Events

SetupType == [dedup |-> dedup, before |-> before, informed |-> informed, kind |-> kind] \in Deployments

LogType == log \in Seq(Events) /\ Len(log) <= MaxLog

PublisherType ==
  /\ connected \in BOOLEAN /\ outgoing \in Seq(Events)
  /\ answer \in {"none", "sent", "unsent", "error"}

TypeInv ==
  /\ SetupType /\ LogType /\ PublisherType /\ GroupType /\ WorkType /\ HistoryType
  /\ \A c \in Consumers : InLog(c)

LEMMA TypeInvTypes == TypeInv => TypeOK
  BY DEF TypeInv, TypeOK, SetupType, LogType, PublisherType, GroupType, WorkType, HistoryType,
         InLog, PCs, Idle

\* What an element appended to the log leaves alone
LEMMA LogGrows ==
  ASSUME NEW l \in Seq(Events), NEW e \in Events
  PROVE  /\ Append(l, e) \in Seq(Events) /\ Len(Append(l, e)) = Len(l) + 1 /\ Len(l) \in Nat
         /\ \A i \in 1..Len(l) : Append(l, e)[i] = l[i]
  OBVIOUS

\* A message in hand is in the log.
LEMMA InHand ==
  ASSUME TypeInv, NEW c \in Consumers, pc[c] \notin Idle
  PROVE  /\ Message(c) \in 1..Len(log) /\ Message(c) = position[c] + 1 /\ position[c] \in Nat
         /\ EventOf(c) \in Events
<1>1. Message(c) = position[c] + 1 /\ position[c] \in Nat /\ Len(log) \in Nat
  BY DEF TypeInv, LogType, WorkType, Message
<1>2. Message(c) \in 1..Len(log)
  BY <1>1 DEF TypeInv, InLog
<1> QED
  BY <1>1, <1>2 DEF TypeInv, LogType, EventOf

LEMMA TypeInit == Init => TypeInv
<1> SUFFICES ASSUME Init PROVE TypeInv
  OBVIOUS
<1>1. SetupType
  <2>1. PICK d \in Deployments : /\ dedup = d.dedup /\ before = d.before
                                 /\ informed = d.informed /\ kind = d.kind
    BY DEF Init
  <2>2. d = [dedup |-> d.dedup, before |-> d.before, informed |-> d.informed, kind |-> d.kind]
    BY <2>1, ConstantsAssumption
  <2> QED
    BY <2>1, <2>2 DEF SetupType
<1>5. LogType /\ PublisherType
  <2>1. log = <<>> /\ connected \in BOOLEAN /\ outgoing = Batch /\ answer = "none"
    BY DEF Init
  <2>2. Batch \in Seq(Events) /\ MaxLog \in Nat
    BY ConstantsAssumption
  <2> QED
    BY <2>1, <2>2 DEF LogType, PublisherType
<1>2. GroupType
  BY ConstantsAssumption DEF Init, GroupType, NoOffset
<1>3. WorkType /\ HistoryType
  BY ConstantsAssumption DEF Init, WorkType, HistoryType, Handlers, PCs
<1>4. \A c \in Consumers : InLog(c)
  BY <1>3 DEF Init, InLog, Idle, Message
<1> QED
  BY <1>1, <1>2, <1>3, <1>4, <1>5 DEF TypeInv

\* The publisher leaves the members alone, and the log only grows.
LEMMA TypePublisher ==
  ASSUME TypeInv, Connect \/ Publish \/ SendAgain
  PROVE  TypeInv'
<1> USE DEF TypeInv
<1>1. UNCHANGED <<setup, group, work, visited, history>>
  BY DEF Connect, Publish, PublishUnconnected, EncodeFails, Send, SendFails, SendAgain
<1>2. log' = log \/ \E e \in Events : log' = Append(log, e)
  <2>1. CASE Send
    <3>1. outgoing # <<>> /\ log' = Append(log, Head(outgoing))
      BY <2>1 DEF Send
    <3> QED
      BY <3>1 DEF PublisherType
  <2>2. CASE SendAgain
    <3>1. log # <<>> /\ log' = Append(log, log[Len(log)])
      BY <2>2 DEF SendAgain, Last
    <3> QED
      BY <3>1 DEF LogType
  <2> QED
    BY <2>1, <2>2 DEF Connect, Publish, PublishUnconnected, EncodeFails, SendFails, publisher
<1>3. log' \in Seq(Events) /\ Len(log') \in Nat /\ Len(log) \in Nat /\ Len(log') >= Len(log)
  <2>1. CASE log' = log
    BY <2>1 DEF LogType
  <2>2. ASSUME NEW e \in Events, log' = Append(log, e)
        PROVE  log' \in Seq(Events) /\ Len(log') \in Nat /\ Len(log) \in Nat /\ Len(log') >= Len(log)
    BY <2>2 DEF LogType
  <2> QED
    BY <1>2, <2>1, <2>2
<1>4. Len(log') <= MaxLog
  <2>1. CASE Send
    BY <2>1, <1>3, ConstantsAssumption DEF Send, LogType
  <2>2. CASE SendAgain
    BY <2>2, <1>3, ConstantsAssumption DEF SendAgain, LogType, PublisherType
  <2>3. CASE log' = log
    BY <2>3 DEF LogType
  <2> QED
    BY <2>1, <2>2, <2>3 DEF Connect, Publish, PublishUnconnected, EncodeFails, SendFails
<1>5. PublisherType'
  <2>1. connected' \in BOOLEAN
    BY DEF PublisherType, Connect, Publish, PublishUnconnected, EncodeFails, Send, SendFails,
       SendAgain, publisher
  <2>3. answer' \in {"none", "sent", "unsent", "error"}
    BY DEF PublisherType, Connect, Publish, PublishUnconnected, EncodeFails, Send, SendFails,
       SendAgain, publisher
  <2>2. outgoing' \in Seq(Events)
    <3>1. outgoing' \in {outgoing, <<>>} \/ (outgoing # <<>> /\ outgoing' = Tail(outgoing))
      BY DEF Connect, Publish, PublishUnconnected, EncodeFails, Send, SendFails, SendAgain,
         publisher
    <3>2. outgoing \in Seq(Events) /\ <<>> \in Seq(Events)
      BY DEF PublisherType
    <3>3. outgoing # <<>> => Tail(outgoing) \in Seq(Events)
      BY <3>2
    <3> QED
      BY <3>1, <3>2, <3>3
  <2> QED
    BY <2>1, <2>2, <2>3 DEF PublisherType
<1>8. SetupType' /\ LogType'
  BY <1>1, <1>3, <1>4 DEF SetupType, LogType, setup
<1>6. GroupType' /\ WorkType' /\ HistoryType'
  BY <1>1, <1>3 DEF group, work, history, outcome, handling, GroupType, WorkType, HistoryType,
                    NoOffset
<1>7. \A c \in Consumers : InLog(c)'
  BY <1>1, <1>3 DEF work, InLog, WorkType, Message
<1> QED
  BY <1>5, <1>6, <1>7, <1>8

LEMMA TypeSession ==
  ASSUME TypeInv, NEW c \in Consumers, Session(c)
  PROVE  TypeInv'
<1> USE DEF TypeInv
<1>0. /\ 1 \in Handlers /\ Handlers = 1..HandlerCount /\ HandlerCount \in Nat /\ MaxRestarts \in Nat
      /\ Len(log) \in Nat /\ Message(c) \in Nat /\ Message(c) = position[c] + 1
      /\ pc[c] \notin Idle => EventOf(c) \in Events
      /\ SetupType' /\ LogType' /\ PublisherType' /\ log' = log
  <2>1. UNCHANGED <<setup, log, publisher>>
    BY DEF Session, Claim, Commit, Release, Evict, Expire, Crash, ConsumeEnds
  <2>2. SetupType' /\ LogType' /\ PublisherType'
    BY <2>1 DEF SetupType, LogType, PublisherType, setup, publisher
  <2>3. Len(log) \in Nat /\ Message(c) \in Nat /\ Message(c) = position[c] + 1
    BY DEF LogType, WorkType, Message
  <2>4. pc[c] \notin Idle => EventOf(c) \in Events
    BY InHand
  <2> QED
    BY <2>1, <2>2, <2>3, <2>4, ConstantsAssumption DEF Handlers
<1>1. CASE Claim(c)
  <2>1. WorkType'
    BY <1>0, <1>1 DEF Claim, WorkType, GroupType, PCs, work, NoOffset
  <2>2. \A o \in Consumers : InLog(o)'
    BY <1>0, <1>1 DEF Claim, WorkType, GroupType, InLog, Idle, PCs, work, NoOffset, Message
  <2>3. GroupType'
    BY <1>0, <1>1 DEF Claim, WorkType, GroupType, InLog, group, NoOffset
  <2>4. HistoryType'
    BY <1>0, <1>1 DEF Claim, HistoryType, WorkType, history, outcome, handling, NoOffset
  <2> QED
    BY <1>0, <2>1, <2>2, <2>3, <2>4
<1>2. CASE Commit(c)
  <2>1. WorkType'
    BY <1>0, <1>2 DEF Commit, WorkType, PCs, work, Committed
  <2>2. \A o \in Consumers : InLog(o)'
    BY <1>0, <1>2 DEF Commit, WorkType, GroupType, InLog, Idle, PCs, work, Committed, Message
  <2>3. GroupType'
    BY <1>0, <1>2 DEF Commit, WorkType, GroupType, InLog, group, Committed, Message
  <2>4. HistoryType'
    BY <1>0, <1>2 DEF Commit, HistoryType, WorkType, history, outcome, handling, Committed
  <2> QED
    BY <1>0, <2>1, <2>2, <2>3, <2>4
<1>3. CASE Release(c)
  <2>1. WorkType'
    BY <1>0, <1>3 DEF Release, WorkType, PCs, work, Leave, Committed
  <2>2. \A o \in Consumers : InLog(o)'
    BY <1>0, <1>3 DEF Release, WorkType, GroupType, InLog, Idle, PCs, work, Leave, Committed,
       Message
  <2>3. GroupType'
    BY <1>0, <1>3 DEF Release, WorkType, GroupType, InLog, group, Leave, Committed, Message
  <2>4. HistoryType'
    BY <1>0, <1>3 DEF Release, HistoryType, WorkType, history, outcome, handling, Leave, Committed
  <2> QED
    BY <1>0, <2>1, <2>2, <2>3, <2>4
<1>4. CASE Evict(c)
  <2>1. WorkType'
    BY <1>0, <1>4 DEF Evict, WorkType, PCs, work
  <2>2. \A o \in Consumers : InLog(o)'
    BY <1>0, <1>4 DEF Evict, WorkType, GroupType, InLog, Idle, PCs, work, Message
  <2>3. GroupType'
    BY <1>0, <1>4 DEF Evict, WorkType, GroupType, InLog, group
  <2>4. HistoryType'
    BY <1>0, <1>4 DEF Evict, HistoryType, WorkType, history, outcome, handling
  <2> QED
    BY <1>0, <2>1, <2>2, <2>3, <2>4
<1>5. CASE Expire(c)
  <2>1. WorkType'
    BY <1>0, <1>5 DEF Expire, WorkType, PCs, work, Leave
  <2>2. \A o \in Consumers : InLog(o)'
    BY <1>0, <1>5 DEF Expire, WorkType, GroupType, InLog, Idle, PCs, work, Leave, Message
  <2>3. GroupType'
    BY <1>0, <1>5 DEF Expire, WorkType, GroupType, InLog, group, Leave
  <2>4. HistoryType'
    BY <1>0, <1>5 DEF Expire, HistoryType, WorkType, history, outcome, handling, Leave
  <2> QED
    BY <1>0, <2>1, <2>2, <2>3, <2>4
<1>6. CASE Crash(c)
  <2>1. WorkType'
    BY <1>0, <1>6 DEF Crash, WorkType, PCs, work, Leave
  <2>2. \A o \in Consumers : InLog(o)'
    BY <1>0, <1>6 DEF Crash, WorkType, GroupType, InLog, Idle, PCs, work, Leave, Message
  <2>3. GroupType'
    BY <1>0, <1>6 DEF Crash, WorkType, GroupType, InLog, group
  <2>4. HistoryType'
    BY <1>0, <1>6 DEF Crash, HistoryType, WorkType, history, outcome, handling, EventOf, Message,
       LogType, InLog, Idle
  <2> QED
    BY <1>0, <2>1, <2>2, <2>3, <2>4
<1>7. CASE ConsumeEnds(c)
  <2>1. WorkType'
    BY <1>0, <1>7 DEF ConsumeEnds, WorkType, PCs, work
  <2>2. \A o \in Consumers : InLog(o)'
    BY <1>0, <1>7 DEF ConsumeEnds, WorkType, GroupType, InLog, Idle, PCs, work, Message
  <2>3. GroupType'
    BY <1>0, <1>7 DEF ConsumeEnds, WorkType, GroupType, InLog, group
  <2>4. HistoryType'
    BY <1>0, <1>7 DEF ConsumeEnds, HistoryType, WorkType, history, outcome, handling
  <2> QED
    BY <1>0, <2>1, <2>2, <2>3, <2>4
<1> QED
  BY <1>1, <1>2, <1>3, <1>4, <1>5, <1>6, <1>7 DEF Session

LEMMA TypeConsumeClaim ==
  ASSUME TypeInv, NEW c \in Consumers, ConsumeClaim(c)
  PROVE  TypeInv'
<1> USE DEF TypeInv
<1>0. /\ 1 \in Handlers /\ Handlers = 1..HandlerCount /\ HandlerCount \in Nat /\ MaxRestarts \in Nat
      /\ Len(log) \in Nat /\ Message(c) \in Nat /\ Message(c) = position[c] + 1
      /\ pc[c] \notin Idle => EventOf(c) \in Events
      /\ SetupType' /\ LogType' /\ PublisherType' /\ log' = log
  <2>1. UNCHANGED <<setup, log, publisher>>
    BY DEF ConsumeClaim, Receive, SkipUnmatched, DecodeFails, HasVisitFails, SkipVisited, Begin,
       HandleSucceeds, HandleFails, Undo, Record, RecordFails
  <2>2. SetupType' /\ LogType' /\ PublisherType'
    BY <2>1 DEF SetupType, LogType, PublisherType, setup, publisher
  <2>3. Len(log) \in Nat /\ Message(c) \in Nat /\ Message(c) = position[c] + 1
    BY DEF LogType, WorkType, Message
  <2>4. pc[c] \notin Idle => EventOf(c) \in Events
    BY InHand
  <2> QED
    BY <2>1, <2>2, <2>3, <2>4, ConstantsAssumption DEF Handlers
<1>1. CASE Receive(c)
  <2>0. /\ pc[c] = "ready" /\ Message(c) <= Len(log) /\ pc' = [pc EXCEPT ![c] = "visit"]
        /\ (UNCHANGED <<marked, refused>> \/ (Mark(c) /\ refused' = refused \union {Message(c)}))
        /\ UNCHANGED <<group, position, current, visited, handling, settled, failed, reported, jumped>>
    BY <1>1 DEF Receive, CallBeforeFuncs
  <2>1. WorkType'
    BY <1>0, <2>0 DEF WorkType, PCs, work, Mark
  <2>2. \A o \in Consumers : InLog(o)'
    BY <1>0, <2>0 DEF WorkType, GroupType, InLog, Idle, PCs, work, Mark, Message
  <2>3. GroupType'
    BY <1>0, <2>0 DEF WorkType, GroupType, InLog, group, Mark
  <2>4. HistoryType'
    BY <1>0, <2>0 DEF HistoryType, WorkType, history, outcome, handling, Mark
  <2> QED
    BY <1>0, <2>1, <2>2, <2>3, <2>4
<1>2. CASE SkipUnmatched(c)
  <2>1. WorkType'
    BY <1>0, <1>2 DEF SkipUnmatched, WorkType, PCs, work, Settle, Mark, NextMessage
  <2>2. \A o \in Consumers : InLog(o)'
    BY <1>0, <1>2 DEF SkipUnmatched, WorkType, GroupType, InLog, Idle, PCs, work, Settle, Mark,
       NextMessage, Message
  <2>3. GroupType'
    BY <1>0, <1>2 DEF SkipUnmatched, WorkType, GroupType, InLog, group, Settle, Mark, NextMessage
  <2>4. HistoryType'
    BY <1>0, <1>2 DEF SkipUnmatched, HistoryType, WorkType, history, outcome, handling, Settle,
       Mark, NextMessage
  <2> QED
    BY <1>0, <2>1, <2>2, <2>3, <2>4
<1>3. CASE DecodeFails(c)
  <2>0. /\ pc[c] = "ready" /\ Message(c) <= Len(log) /\ ErrorHandle(c) /\ GiveUp(c)
        /\ (UNCHANGED <<marked, refused>> \/ (Mark(c) /\ refused' = refused \union {Message(c)}))
        /\ UNCHANGED <<group, current, visited, handling>>
    BY <1>3 DEF DecodeFails, CallBeforeFuncs
  <2>1. WorkType'
    BY <1>0, <2>0 DEF WorkType, PCs, work, GiveUp, NextMessage, Mark
  <2>2. \A o \in Consumers : InLog(o)'
    BY <1>0, <2>0 DEF WorkType, GroupType, InLog, Idle, PCs, work, GiveUp, NextMessage, Mark,
       Message
  <2>3. GroupType'
    BY <1>0, <2>0 DEF WorkType, GroupType, InLog, group, GiveUp, NextMessage, Mark
  <2>4. HistoryType'
    BY <1>0, <2>0 DEF HistoryType, WorkType, history, outcome, handling, GiveUp, ErrorHandle,
       NextMessage, Mark
  <2> QED
    BY <1>0, <2>1, <2>2, <2>3, <2>4
<1>4. CASE HasVisitFails(c)
  <2>0. /\ pc[c] = "visit" /\ ErrorHandle(c) /\ GiveUp(c)
        /\ UNCHANGED <<group, marked, refused, current, visited, handling>>
    BY <1>4 DEF HasVisitFails
  <2>1. WorkType'
    BY <1>0, <2>0 DEF WorkType, PCs, work, GiveUp, NextMessage
  <2>2. \A o \in Consumers : InLog(o)'
    BY <1>0, <2>0 DEF WorkType, GroupType, InLog, Idle, PCs, work, GiveUp, NextMessage, Message
  <2>3. GroupType'
    BY <1>0, <2>0 DEF WorkType, GroupType, InLog, group, GiveUp, NextMessage
  <2>4. HistoryType'
    BY <1>0, <2>0 DEF HistoryType, WorkType, history, outcome, handling, GiveUp, ErrorHandle,
       NextMessage
  <2> QED
    BY <1>0, <2>1, <2>2, <2>3, <2>4
<1>5. CASE SkipVisited(c)
  <2>1. WorkType'
    BY <1>0, <1>5 DEF SkipVisited, WorkType, PCs, work, Settle, Mark, NextMessage
  <2>2. \A o \in Consumers : InLog(o)'
    BY <1>0, <1>5 DEF SkipVisited, WorkType, GroupType, InLog, Idle, PCs, work, Settle, Mark,
       NextMessage, Message
  <2>3. GroupType'
    BY <1>0, <1>5 DEF SkipVisited, WorkType, GroupType, InLog, group, Settle, Mark, NextMessage
  <2>4. HistoryType'
    BY <1>0, <1>5 DEF SkipVisited, HistoryType, WorkType, history, outcome, handling, Settle, Mark,
       NextMessage
  <2> QED
    BY <1>0, <2>1, <2>2, <2>3, <2>4
<1>6. CASE Begin(c)
  <2>1. WorkType'
    BY <1>0, <1>6 DEF Begin, WorkType, PCs, work
  <2>2. \A o \in Consumers : InLog(o)'
    BY <1>0, <1>6 DEF Begin, WorkType, GroupType, InLog, Idle, PCs, work, Message
  <2>3. GroupType'
    BY <1>0, <1>6 DEF Begin, WorkType, GroupType, InLog, group
  <2>4. HistoryType'
    <3>1. /\ overlapped' \in {overlapped, overlapped \union {EventOf(c)}} /\ EventOf(c) \in Events
          /\ UNCHANGED <<visited, effects, times, outcome, unrecorded>>
      BY <1>0, <1>6 DEF Begin, Idle
    <3> QED
      BY <3>1 DEF HistoryType, outcome
  <2> QED
    BY <1>0, <2>1, <2>2, <2>3, <2>4
<1>7. CASE HandleSucceeds(c)
  <2>1. /\ pc[c] = "handling" /\ current[c] \in Handlers /\ EventOf(c) \in Events
        /\ effects' = [effects EXCEPT ![EventOf(c)] = @ \union {current[c]}]
        /\ UNCHANGED <<group, position, marked, visited, outcome, overlapped, unrecorded>>
    BY <1>0, <1>7 DEF HandleSucceeds, WorkType, Idle
  <2>2. CASE current[c] < HandlerCount
    <3>1. current' = [current EXCEPT ![c] = @ + 1] /\ UNCHANGED <<pc, times>>
      BY <1>7, <2>2 DEF HandleSucceeds
    <3>2. WorkType' /\ GroupType' /\ \A o \in Consumers : InLog(o)'
      BY <1>0, <2>1, <2>2, <3>1 DEF WorkType, GroupType, InLog, Message, group
    <3>3. HistoryType'
      BY <1>0, <2>1, <3>1 DEF HistoryType, outcome
    <3> QED
      BY <1>0, <3>2, <3>3
  <2>3. CASE ~(current[c] < HandlerCount)
    <3>1. /\ pc' = [pc EXCEPT ![c] = "recording"]
          /\ times' = [times EXCEPT ![EventOf(c)] = @ + 1]
          /\ current' = [current EXCEPT ![c] = 1]
      BY <1>7, <2>3 DEF HandleSucceeds
    <3>2. WorkType' /\ GroupType' /\ \A o \in Consumers : InLog(o)'
      BY <1>0, <2>1, <3>1 DEF WorkType, GroupType, InLog, Message, group, PCs, Idle
    <3>3. HistoryType'
      BY <1>0, <2>1, <3>1 DEF HistoryType, outcome
    <3> QED
      BY <1>0, <3>2, <3>3
  <2> QED
    BY <2>2, <2>3
<1>8. CASE HandleFails(c)
  <2>1. WorkType'
    BY <1>0, <1>8 DEF HandleFails, WorkType, PCs, work, Handlers
  <2>2. \A o \in Consumers : InLog(o)'
    BY <1>0, <1>8 DEF HandleFails, WorkType, GroupType, InLog, Idle, PCs, work, Message
  <2>3. GroupType'
    BY <1>0, <1>8 DEF HandleFails, WorkType, GroupType, InLog, group
  <2>4. HistoryType'
    <3>1. Message(c) \in Nat /\ EventOf(c) \in Events /\ current[c] \in Handlers
      BY <1>0, <1>8 DEF HandleFails, WorkType, Message, Idle
    <3>2. /\ reported' \in {reported, reported \union {Message(c)}}
          /\ effects' \in {effects, [effects EXCEPT ![EventOf(c)] = @ \union {current[c]}]}
          /\ UNCHANGED <<visited, times, settled, failed, refused, jumped, overlapped, unrecorded>>
      BY <1>8 DEF HandleFails, ErrorHandle
    <3> QED
      BY <1>0, <3>1, <3>2 DEF HistoryType
  <2> QED
    BY <1>0, <2>1, <2>2, <2>3, <2>4
<1>9. CASE Undo(c)
  <2>1. /\ pc[c] = "undoing" /\ current[c] \in Handlers /\ EventOf(c) \in Events
        /\ effects' = [effects EXCEPT ![EventOf(c)] = @ \ {current[c]}] \/ effects' = effects
        /\ UNCHANGED <<group, visited, times, overlapped, unrecorded>>
    BY <1>0, <1>9 DEF Undo, WorkType, Idle
  <2>2. CASE current[c] > 1
    <3>1. current' = [current EXCEPT ![c] = @ - 1] /\ UNCHANGED <<pc, position, marked, outcome>>
      BY <1>9, <2>2 DEF Undo
    <3>2. WorkType' /\ GroupType' /\ \A o \in Consumers : InLog(o)'
      BY <1>0, <2>1, <2>2, <3>1 DEF WorkType, GroupType, InLog, Message, group
    <3>3. HistoryType'
      BY <1>0, <2>1, <3>1 DEF HistoryType, outcome
    <3> QED
      BY <1>0, <3>2, <3>3
  <2>3. CASE ~(current[c] > 1)
    <3>1. GiveUp(c) /\ UNCHANGED <<current, marked, reported, refused>>
      BY <1>9, <2>3 DEF Undo
    <3>2. WorkType' /\ GroupType' /\ \A o \in Consumers : InLog(o)'
      BY <1>0, <2>1, <3>1 DEF WorkType, GroupType, InLog, Message, group, PCs, Idle, GiveUp,
                              NextMessage
    <3>3. HistoryType'
      BY <1>0, <2>1, <3>1 DEF HistoryType, GiveUp
    <3> QED
      BY <1>0, <3>2, <3>3
  <2> QED
    BY <2>2, <2>3
<1>10. CASE Record(c)
  <2>0. /\ pc[c] = "recording" /\ visited' \in {visited, visited \union {EventOf(c)}}
        /\ Settle(c) /\ UNCHANGED <<group, current, handling>>
    BY <1>10 DEF Record
  <2>1. WorkType'
    BY <1>0, <2>0 DEF WorkType, PCs, work, Settle, Mark, NextMessage
  <2>2. \A o \in Consumers : InLog(o)'
    BY <1>0, <2>0 DEF WorkType, GroupType, InLog, Idle, PCs, work, Settle, Mark, NextMessage,
       Message
  <2>3. GroupType'
    BY <1>0, <2>0 DEF WorkType, GroupType, InLog, group, Settle, Mark, NextMessage
  <2>4. HistoryType'
    BY <1>0, <2>0 DEF HistoryType, WorkType, history, outcome, handling, Settle, Mark, NextMessage,
       Idle
  <2> QED
    BY <1>0, <2>1, <2>2, <2>3, <2>4
<1>11. CASE RecordFails(c)
  <2>0. /\ pc[c] = "recording" /\ unrecorded' = unrecorded \union {EventOf(c)}
        /\ ErrorHandle(c) /\ GiveUp(c)
        /\ UNCHANGED <<group, marked, refused, current, visited, effects, times, overlapped>>
    BY <1>11 DEF RecordFails
  <2>1. WorkType'
    BY <1>0, <2>0 DEF WorkType, PCs, work, GiveUp, NextMessage
  <2>2. \A o \in Consumers : InLog(o)'
    BY <1>0, <2>0 DEF WorkType, GroupType, InLog, Idle, PCs, work, GiveUp, NextMessage, Message
  <2>3. GroupType'
    BY <1>0, <2>0 DEF WorkType, GroupType, InLog, group, GiveUp, NextMessage
  <2>4. HistoryType'
    BY <1>0, <2>0 DEF HistoryType, WorkType, history, outcome, handling, GiveUp, ErrorHandle,
       NextMessage, Idle
  <2> QED
    BY <1>0, <2>1, <2>2, <2>3, <2>4
<1> QED
  BY <1>1, <1>2, <1>3, <1>4, <1>5, <1>6, <1>7, <1>8, <1>9, <1>10, <1>11 DEF ConsumeClaim

LEMMA TypeStep ==
  ASSUME TypeInv, [Next]_vars
  PROVE  TypeInv'
<1>1. CASE UNCHANGED vars
  BY <1>1 DEF vars, setup, publisher, group, work, history, outcome, handling, TypeInv, SetupType,
              LogType, PublisherType, GroupType, WorkType, HistoryType, InLog, Message
<1> QED
  BY <1>1, TypePublisher, TypeSession, TypeConsumeClaim DEF Next

\* The publisher, the group and its members keep to their types: no member is
\* ever past the end of the log, and no offset either.
THEOREM TypeCorrect == Spec => []TypeOK
<1>1. Init => TypeInv
  BY TypeInit
<1>2. TypeInv /\ [Next]_vars => TypeInv'
  BY TypeStep
<1> QED
  BY <1>1, <1>2, TypeInvTypes, PTL DEF Spec

-----------------------------------------------------------------------------
(***************************************************************************)
(* Only failures are passed over.  The property is about the committed     *)
(* offset and about messages that became something; what it rests on is    *)
(* that every member, wherever its session started, has all messages it is *)
(* past accounted for, and all those up to the one it has marked.  That a  *)
(* failure was reported rests on the report coming before the rollbacks.   *)
(***************************************************************************)
HeardInv ==
  informed => /\ failed \subseteq reported
              /\ \A c \in Consumers : pc[c] = "undoing" => Message(c) \in reported

\* What an error function has heard of stays heard of.
LEMMA ReportsStay ==
  ASSUME [Next]_vars
  PROVE  informed' = informed /\ reported \subseteq reported'
<1>1. CASE Connect \/ Publish \/ SendAgain
  BY <1>1 DEF Connect, Publish, PublishUnconnected, EncodeFails, Send, SendFails, SendAgain, setup,
     history, outcome
<1>2. ASSUME NEW c \in Consumers, Session(c)
      PROVE  informed' = informed /\ reported \subseteq reported'
  BY <1>2 DEF Session, Claim, Commit, Release, Evict, Expire, Crash, ConsumeEnds, setup, history,
     outcome
<1>3. ASSUME NEW c \in Consumers, ConsumeClaim(c)
      PROVE  informed' = informed /\ reported \subseteq reported'
  <2>1. informed' = informed
    BY <1>3 DEF ConsumeClaim, Receive, SkipUnmatched, DecodeFails, HasVisitFails, SkipVisited,
       Begin, HandleSucceeds, HandleFails, Undo, Record, RecordFails, setup
  <2>2. reported' = reported \/ ErrorHandle(c)
    BY <1>3 DEF ConsumeClaim, Receive, SkipUnmatched, DecodeFails, HasVisitFails, SkipVisited,
       Begin, HandleSucceeds, HandleFails, Undo, Record, RecordFails, Settle, outcome
  <2> QED
    BY <2>1, <2>2 DEF ErrorHandle
<1>4. CASE UNCHANGED vars
  BY <1>4 DEF vars, setup, history, outcome
<1> QED
  BY <1>1, <1>2, <1>3, <1>4 DEF Next

LEMMA HeardInit == Init => HeardInv
  BY DEF Init, HeardInv

LEMMA HeardStep ==
  ASSUME TypeInv, HeardInv, [Next]_vars
  PROVE  HeardInv'
<1>0. informed' = informed /\ reported \subseteq reported'
  BY ReportsStay
<1> SUFFICES ASSUME informed
             PROVE  /\ failed' \subseteq reported'
                    /\ \A o \in Consumers : pc'[o] = "undoing" => Message(o)' \in reported'
  BY <1>0 DEF HeardInv
<1>1. /\ failed \subseteq reported
      /\ \A o \in Consumers : pc[o] = "undoing" => Message(o) \in reported
  BY DEF HeardInv
<1>2. ASSUME failed' = failed,
             \A o \in Consumers :
               pc'[o] = "undoing" => pc[o] = "undoing" /\ position'[o] = position[o]
      PROVE  /\ failed' \subseteq reported'
             /\ \A o \in Consumers : pc'[o] = "undoing" => Message(o)' \in reported'
  BY <1>0, <1>1, <1>2 DEF Message
<1>3. CASE Connect \/ Publish \/ SendAgain
  <2>1. UNCHANGED <<work, history>>
    BY <1>3 DEF Connect, Publish, PublishUnconnected, EncodeFails, Send, SendFails, SendAgain
  <2> QED
    BY <1>2, <2>1 DEF work, history, outcome
<1>4. ASSUME NEW c \in Consumers, Session(c)
      PROVE  /\ failed' \subseteq reported'
             /\ \A o \in Consumers : pc'[o] = "undoing" => Message(o)' \in reported'
  <2>1. failed' = failed
    BY <1>4 DEF Session, Claim, Commit, Release, Evict, Expire, Crash, ConsumeEnds, history, outcome
  <2>2. \A o \in Consumers :
          pc'[o] = "undoing" => pc[o] = "undoing" /\ position'[o] = position[o]
    BY <1>4 DEF Session, Claim, Commit, Release, Evict, Expire, Crash, ConsumeEnds, Leave, work,
       TypeInv, WorkType
  <2> QED
    BY <1>2, <2>1, <2>2
<1>5. ASSUME NEW c \in Consumers, GiveUp(c), Message(c) \in reported'
      PROVE  /\ failed' \subseteq reported'
             /\ \A o \in Consumers : pc'[o] = "undoing" => Message(o)' \in reported'
  <2>1. failed' = failed \union {Message(c)}
    BY <1>5 DEF GiveUp
  <2>2. \A o \in Consumers :
          pc'[o] = "undoing" => pc[o] = "undoing" /\ position'[o] = position[o]
    BY <1>5 DEF GiveUp, NextMessage, TypeInv, WorkType
  <2> QED
    BY <1>0, <1>1, <1>5, <2>1, <2>2 DEF Message
<1>6. ASSUME NEW c \in Consumers, DecodeFails(c) \/ HasVisitFails(c) \/ RecordFails(c)
      PROVE  /\ failed' \subseteq reported'
             /\ \A o \in Consumers : pc'[o] = "undoing" => Message(o)' \in reported'
  <2>1. GiveUp(c) /\ ErrorHandle(c)
    BY <1>6 DEF DecodeFails, HasVisitFails, RecordFails
  <2> QED
    BY <1>5, <2>1 DEF ErrorHandle
<1>7. ASSUME NEW c \in Consumers, HandleFails(c)
      PROVE  /\ failed' \subseteq reported'
             /\ \A o \in Consumers : pc'[o] = "undoing" => Message(o)' \in reported'
  <2>1. /\ reported' = reported \union {Message(c)} /\ failed' = failed /\ position' = position
        /\ pc' = [pc EXCEPT ![c] = "undoing"]
    BY <1>7 DEF HandleFails, ErrorHandle
  <2> QED
    BY <1>1, <2>1 DEF Message, TypeInv, WorkType
<1>8. ASSUME NEW c \in Consumers, Undo(c)
      PROVE  /\ failed' \subseteq reported'
             /\ \A o \in Consumers : pc'[o] = "undoing" => Message(o)' \in reported'
  <2>1. CASE GiveUp(c)
    BY <1>0, <1>1, <1>5, <1>8, <2>1 DEF Undo
  <2>2. CASE UNCHANGED <<pc, position, marked, outcome>>
    BY <1>2, <2>2 DEF outcome
  <2> QED
    BY <1>8, <2>1, <2>2 DEF Undo
<1>9. ASSUME NEW c \in Consumers,
             \/ Receive(c) \/ SkipUnmatched(c) \/ SkipVisited(c) \/ Begin(c)
             \/ HandleSucceeds(c) \/ Record(c)
      PROVE  /\ failed' \subseteq reported'
             /\ \A o \in Consumers : pc'[o] = "undoing" => Message(o)' \in reported'
  <2>1. failed' = failed
    BY <1>9 DEF Receive, SkipUnmatched, SkipVisited, Begin, HandleSucceeds, Record, Settle, outcome
  <2>2. \A o \in Consumers :
          pc'[o] = "undoing" => pc[o] = "undoing" /\ position'[o] = position[o]
    BY <1>9 DEF Receive, SkipUnmatched, SkipVisited, Begin, HandleSucceeds, Record, Settle,
       NextMessage, TypeInv, WorkType
  <2> QED
    BY <1>2, <2>1, <2>2
<1>10. CASE UNCHANGED vars
  BY <1>2, <1>10 DEF vars, work, history, outcome
<1> QED
  BY <1>3, <1>4, <1>6, <1>7, <1>8, <1>9, <1>10 DEF Next, ConsumeClaim

AllUpTo(n) == \A m \in 1..n : Accounted(m)

LossInv ==
  /\ jumped <= Len(log)
  /\ AllUpTo(committed)
  /\ \A c \in Consumers : AllUpTo(position[c]) /\ AllUpTo(marked[c])
  /\ \A n \in settled \union failed : AllUpTo(n)

\* No offset moves past a message but by one, with the message accounted for,
\* or to where there was an offset before.
LEMMA LossKept ==
  ASSUME TypeInv, TypeInv', LossInv, HeardInv',
         informed' = informed, reported \subseteq reported',
         settled \subseteq settled', failed \subseteq failed', refused \subseteq refused',
         jumped <= jumped', jumped' <= Len(log'),
         committed' = committed \/ \E o \in Consumers : committed' = marked[o],
         \A o \in Consumers :
           \/ position'[o] \in {0, position[o], committed, jumped'}
           \/ \E m \in Nat : m = Message(o) /\ position'[o] = m /\ Accounted(m)',
         \A o \in Consumers :
           \/ marked'[o] \in {0, marked[o]}
           \/ \E m \in Nat : m = Message(o) /\ marked'[o] = m /\ Accounted(m)',
         \A n \in settled' \union failed' :
           n \in settled \union failed \/ \E o \in Consumers : n = Message(o)
  PROVE  LossInv'
<1> USE DEF TypeInv, HistoryType
<1>1. \A m \in Nat : Accounted(m) => Accounted(m)'
  BY DEF Accounted, Failed
<1>2. ASSUME NEW n \in Int, AllUpTo(n) PROVE \A m \in 1..n : Accounted(m)'
  BY <1>1, <1>2 DEF AllUpTo
<1>3. \A m \in 1..jumped' : Accounted(m)'
  BY DEF Accounted
<1>4. ASSUME NEW o \in Consumers, NEW n \in Nat, n = Message(o), Accounted(n)'
      PROVE  \A m \in 1..n : Accounted(m)'
  <2>1. n = position[o] + 1 /\ position[o] \in Nat /\ AllUpTo(position[o])
    BY <1>4 DEF Message, WorkType, LossInv
  <2>2. \A m \in 1..position[o] : Accounted(m)'
    BY <2>1, <1>2
  <2> QED
    BY <1>4, <2>1, <2>2
<1>5. AllUpTo(committed)'
  <2>1. \A m \in 1..committed' : Accounted(m)'
    BY <1>2 DEF LossInv, GroupType, WorkType, NoOffset
  <2> QED
    BY <2>1 DEF AllUpTo
<1>6. ASSUME NEW o \in Consumers PROVE AllUpTo(position[o])'
  <2>1. CASE position'[o] \in {0, position[o], committed}
    <3>1. \A m \in 1..position'[o] : Accounted(m)'
      BY <1>2, <2>1 DEF LossInv, GroupType, WorkType, NoOffset
    <3> QED
      BY <3>1 DEF AllUpTo
  <2>2. CASE position'[o] = jumped'
    BY <1>3, <2>2 DEF AllUpTo
  <2>3. CASE \E m \in Nat : m = Message(o) /\ position'[o] = m /\ Accounted(m)'
    BY <1>4, <2>3 DEF AllUpTo
  <2> QED
    BY <2>1, <2>2, <2>3
<1>7. ASSUME NEW o \in Consumers PROVE AllUpTo(marked[o])'
  <2>1. CASE marked'[o] \in {0, marked[o]}
    <3>1. \A m \in 1..marked'[o] : Accounted(m)'
      BY <1>2, <2>1 DEF LossInv, WorkType
    <3> QED
      BY <3>1 DEF AllUpTo
  <2>2. CASE \E m \in Nat : m = Message(o) /\ marked'[o] = m /\ Accounted(m)'
    BY <1>4, <2>2 DEF AllUpTo
  <2> QED
    BY <2>1, <2>2
<1>8. ASSUME NEW n \in settled' \union failed' PROVE \A m \in 1..n : Accounted(m)'
  <2>1. n \in Nat /\ Accounted(n)'
    BY DEF Accounted, Failed, HeardInv
  <2> QED
    BY <1>2, <1>4, <2>1 DEF LossInv
<1> QED
  BY <1>5, <1>6, <1>7, <1>8 DEF LossInv, AllUpTo

LEMMA LossInit == Init => LossInv
  BY DEF Init, LossInv, AllUpTo, NoOffset

\* Only sessions that begin and messages that are done with move an offset.
LEMMA LossStep ==
  ASSUME TypeInv, TypeInv', LossInv, HeardInv', [Next]_vars
  PROVE  LossInv'
<1> informed' = informed /\ reported \subseteq reported'
  BY ReportsStay
<1>0. /\ jumped \in Nat /\ jumped <= Len(log) /\ Len(log) \in Nat /\ Len(log') \in Nat
      /\ \A c \in Consumers : Message(c) \in Nat
  BY DEF TypeInv, HistoryType, LogType, LossInv, Message, WorkType
<1>1. CASE Connect \/ Publish \/ SendAgain
  <2>1. UNCHANGED <<group, work, history>>
    BY <1>1 DEF Connect, Publish, PublishUnconnected, EncodeFails, Send, SendFails, SendAgain
  <2>2. Len(log') >= Len(log)
    <3>1. log' = log \/ \E e : log' = Append(log, e)
      BY <1>1 DEF Connect, Publish, PublishUnconnected, EncodeFails, Send, SendFails, SendAgain,
                  publisher
    <3> QED
      BY <1>0, <3>1 DEF TypeInv, LogType
  <2> QED
    BY <1>0, <2>1, <2>2, LossKept DEF group, work, history, outcome
<1>2. ASSUME NEW c \in Consumers, Claim(c)
      PROVE  LossInv'
  <2>1. /\ jumped' \in {jumped, Len(log)} /\ log' = log
        /\ UNCHANGED <<committed, marked, settled, failed, refused>>
    BY <1>2 DEF Claim
  <2>2. \A o \in Consumers : position'[o] \in {0, position[o], committed, jumped'}
    BY <1>2 DEF Claim, TypeInv, WorkType
  <2> QED
    BY <1>0, <2>1, <2>2, LossKept
<1>3. ASSUME NEW c \in Consumers, Commit(c) \/ Release(c)
      PROVE  LossInv'
  <2>1. /\ log' = log /\ UNCHANGED outcome /\ committed' \in {committed, marked[c]}
        /\ \A o \in Consumers : position'[o] \in {0, position[o]} /\ marked'[o] \in {0, marked[o]}
    BY <1>3 DEF Commit, Release, Leave, Committed, work, history, TypeInv, WorkType
  <2> QED
    BY <1>0, <2>1, LossKept DEF outcome
<1>4. ASSUME NEW c \in Consumers, Evict(c) \/ Expire(c) \/ Crash(c) \/ ConsumeEnds(c)
      PROVE  LossInv'
  <2>1. /\ log' = log /\ UNCHANGED outcome /\ committed' = committed
        /\ \A o \in Consumers : position'[o] \in {0, position[o]} /\ marked'[o] \in {0, marked[o]}
    BY <1>4 DEF Evict, Expire, Crash, ConsumeEnds, Leave, work, history, group, TypeInv, WorkType
  <2> QED
    BY <1>0, <2>1, LossKept DEF outcome
<1>5. ASSUME NEW c \in Consumers, Receive(c)
      PROVE  LossInv'
  <2>1. UNCHANGED <<marked, refused>> \/ (Mark(c) /\ refused' = refused \union {Message(c)})
    BY <1>5 DEF Receive, CallBeforeFuncs
  <2>2. log' = log /\ UNCHANGED <<committed, position, settled, failed, jumped>>
    BY <1>5 DEF Receive, group
  <2>3. \A o \in Consumers :
           \/ marked'[o] \in {0, marked[o]}
           \/ \E m \in Nat : m = Message(o) /\ marked'[o] = m /\ Accounted(m)'
    BY <1>0, <2>1 DEF Mark, Accounted, TypeInv, WorkType
  <2>4. refused \subseteq refused'
    BY <2>1
  <2> QED
    BY <1>0, <2>2, <2>3, <2>4, LossKept
<1>6. ASSUME NEW c \in Consumers, NextMessage(c), marked' = marked \/ Mark(c),
             log' = log, committed' = committed, jumped' = jumped,
             settled \subseteq settled', failed \subseteq failed', refused \subseteq refused',
             Message(c) \in settled' \union failed',
             settled' \union failed' \subseteq settled \union failed \union {Message(c)}
      PROVE  LossInv'
  <2>1. \A m \in Nat : m = Message(c) => Accounted(m)'
    BY <1>6 DEF Accounted, Failed, HeardInv
  <2>2. \A o \in Consumers : \/ position'[o] = position[o]
                             \/ o = c /\ position'[o] = Message(o)
    BY <1>6 DEF NextMessage, Message, TypeInv, WorkType
  <2>3. \A o \in Consumers : marked'[o] = marked[o] \/ (o = c /\ marked'[o] = Message(o))
    BY <1>6 DEF Mark, TypeInv, WorkType
  <2>4. \A o \in Consumers :
          \/ position'[o] \in {0, position[o], committed, jumped'}
          \/ \E m \in Nat : m = Message(o) /\ position'[o] = m /\ Accounted(m)'
    BY <1>0, <2>1, <2>2
  <2>5. \A o \in Consumers :
          \/ marked'[o] \in {0, marked[o]}
          \/ \E m \in Nat : m = Message(o) /\ marked'[o] = m /\ Accounted(m)'
    BY <1>0, <2>1, <2>3
  <2>6. \A n \in settled' \union failed' :
          n \in settled \union failed \/ \E o \in Consumers : n = Message(o)
    BY <1>6
  <2> QED
    BY <1>0, <1>6, <2>4, <2>5, <2>6, LossKept
<1>7. ASSUME NEW c \in Consumers, SkipUnmatched(c) \/ SkipVisited(c) \/ Record(c)
      PROVE  LossInv'
  <2>1. Settle(c) /\ log' = log /\ committed' = committed
    BY <1>7 DEF SkipUnmatched, SkipVisited, Record, group
  <2> QED
    BY <1>6, <2>1 DEF Settle
<1>8. ASSUME NEW c \in Consumers, GiveUp(c), log' = log, committed' = committed,
             UNCHANGED <<marked, refused>> \/ (Mark(c) /\ refused' = refused \union {Message(c)})
      PROVE  LossInv'
  <2>1. /\ NextMessage(c) /\ failed' = failed \union {Message(c)}
        /\ settled' = settled /\ jumped' = jumped
    BY <1>8 DEF GiveUp
  <2>2. refused \subseteq refused' /\ (marked' = marked \/ Mark(c))
    BY <1>8
  <2> QED
    BY <1>6, <1>8, <2>1, <2>2
<1>9. ASSUME NEW c \in Consumers, DecodeFails(c) \/ HasVisitFails(c) \/ RecordFails(c)
      PROVE  LossInv'
  <2>1. /\ GiveUp(c) /\ log' = log /\ committed' = committed
        /\ UNCHANGED <<marked, refused>> \/ (Mark(c) /\ refused' = refused \union {Message(c)})
    BY <1>9 DEF DecodeFails, HasVisitFails, RecordFails, CallBeforeFuncs, group
  <2> QED
    BY <1>8, <2>1
<1>10. ASSUME NEW c \in Consumers, Undo(c)
       PROVE  LossInv'
  <2>1. CASE GiveUp(c) /\ UNCHANGED <<marked, refused>>
    BY <1>8, <1>10, <2>1 DEF Undo, group
  <2>2. CASE UNCHANGED <<position, marked, outcome>>
    BY <1>0, <1>10, <2>2, LossKept DEF Undo, group, outcome
  <2> QED
    BY <1>10, <2>1, <2>2 DEF Undo
<1>11. ASSUME NEW c \in Consumers, Begin(c) \/ HandleSucceeds(c) \/ HandleFails(c)
       PROVE  LossInv'
  <2>1. UNCHANGED <<log, committed, position, marked, settled, failed, refused, jumped>>
    BY <1>11 DEF Begin, HandleSucceeds, HandleFails, group, outcome
  <2> QED
    BY <1>0, <2>1, LossKept
<1>12. CASE UNCHANGED vars
  <2>1. UNCHANGED <<log, committed, position, marked, outcome>>
    BY <1>12 DEF vars, group, work, history
  <2> QED
    BY <1>0, <2>1, LossKept DEF outcome
<1> QED
  BY <1>1, <1>2, <1>3, <1>4, <1>5, <1>7, <1>9, <1>10, <1>11, <1>12 DEF Next, Session, ConsumeClaim

\* Whoever crashes, is given up or repeats messages: a message below the
\* committed offset, or before one that was concluded, is passed over only if it
\* failed (ConsumeClaim's marks against the messages it leaves unmarked), and if
\* there is an error function, that one has heard of it (errorHandle).
THEOREM OnlyFailedMessagesArePassedOver == Spec => []OnlyFailuresArePassedOver
<1>1. Init => TypeInv /\ HeardInv /\ LossInv
  BY TypeInit, HeardInit, LossInit
<1>2. TypeInv /\ HeardInv /\ LossInv /\ [Next]_vars => TypeInv' /\ HeardInv' /\ LossInv'
  BY TypeStep, HeardStep, LossStep
<1>3. LossInv => OnlyFailuresArePassedOver
  BY DEF LossInv, OnlyFailuresArePassedOver, AllUpTo
<1> QED
  BY <1>1, <1>2, <1>3, PTL DEF Spec

-----------------------------------------------------------------------------
(***************************************************************************)
(* The refinement of EventDelivery.  A step concludes nothing, or skips to *)
(* the end of the log, or concludes the message that some member has in    *)
(* hand; that one is the next after the last that was concluded, or was    *)
(* concluded before, since whatever the member is past is accounted for.   *)
(***************************************************************************)
Conclusions == {jumped} \union settled \union failed \union refused

DeliveryInv == \A m \in Conclusions : m \in 0..Len(log)

LEMMA HasMax ==
  ASSUME NEW n \in Nat, NEW S \in SUBSET (0..n), S # {}
  PROVE  /\ Max(S) \in S /\ \A m \in S : m <= Max(S)
         /\ \A x \in S : (\A m \in S : m <= x) => Max(S) = x
<1>0. \A y \in S : y \in Nat /\ y <= n
  OBVIOUS
<1>1. \E x \in S : \A y \in S : x >= y
  <2> DEFINE bounds == {b \in Nat : \A y \in S : y <= b}
  <2>1. bounds \in SUBSET Nat /\ n \in bounds
    BY <1>0
  <2>2. PICK b \in bounds : \A d \in bounds : <<d, b>> \notin OpToRel(<, Nat)
    BY <2>1, NatLessThanWellFounded, WFMin, Zenon
  <2>3. b \in Nat /\ (\A y \in S : y <= b) /\ \A d \in bounds : ~(d < b)
    BY <2>1, <2>2, Zenon DEF OpToRel
  <2>4. b \in S
    <3> SUFFICES ASSUME b \notin S PROVE FALSE
      OBVIOUS
    <3>1. \A y \in S : y \in Nat /\ y < b
      BY <1>0, <2>3
    <3>2. PICK z \in S : z \in Nat /\ z < b
      BY <3>1
    <3>3. b - 1 \in Nat
      BY <2>3, <3>2
    <3>4. ASSUME NEW y \in S PROVE y <= b - 1
      BY <2>3, <3>1
    <3>5. b - 1 \in bounds /\ b - 1 < b
      BY <2>3, <3>3, <3>4
    <3> QED
      BY <2>3, <3>5
  <2> QED
    BY <1>0, <2>3, <2>4
<1>2. Max(S) \in S /\ \A m \in S : Max(S) >= m
  BY <1>1 DEF Max
<1>3. Max(S) \in Nat /\ \A m \in S : m <= Max(S)
  BY <1>0, <1>2
<1>4. ASSUME NEW x \in S, \A m \in S : m <= x PROVE Max(S) = x
  <2>1. Max(S) <= x /\ x <= Max(S) /\ x \in Nat
    BY <1>0, <1>2, <1>3, <1>4
  <2> QED
    BY <1>3, <2>1
<1> QED
  BY <1>2, <1>3, <1>4

LEMMA LastOfConclusions ==
  ASSUME TypeInv, DeliveryInv
  PROVE  /\ LastConcluded \in Conclusions /\ LastConcluded \in 0..Len(log)
         /\ \A m \in Conclusions : m <= LastConcluded
<1>1. Len(log) \in Nat /\ Conclusions \in SUBSET (0..Len(log)) /\ Conclusions # {}
  BY DEF TypeInv, LogType, DeliveryInv, Conclusions
<1> QED
  BY <1>1, HasMax DEF LastConcluded, Conclusions

LEMMA NewLastConclusion ==
  ASSUME TypeInv', DeliveryInv', NEW n \in Conclusions', \A m \in Conclusions' : m <= n
  PROVE  LastConcluded' = n
<1>1. Len(log') \in Nat /\ Conclusions' \in SUBSET (0..Len(log')) /\ Conclusions' # {}
  BY DEF TypeInv, LogType, DeliveryInv, Conclusions
<1>2. LastConcluded' = Max(Conclusions')
  BY DEF LastConcluded, Conclusions
<1> QED
  BY <1>1, <1>2, HasMax

\* A member is past nothing that comes after the last conclusion.
LEMMA NextToConclude ==
  ASSUME TypeInv, LossInv, DeliveryInv, NEW c \in Consumers
  PROVE  Message(c) \in Nat /\ Message(c) <= LastConcluded + 1
<1>1. position[c] \in Nat /\ AllUpTo(position[c]) /\ Message(c) = position[c] + 1
  BY DEF TypeInv, WorkType, LossInv, Message
<1>2. LastConcluded \in Nat /\ \A m \in Conclusions : m <= LastConcluded
  BY LastOfConclusions
<1>3. jumped \in Conclusions /\ jumped \in Nat
  BY DEF Conclusions, TypeInv, HistoryType
<1>4. CASE position[c] = 0
  BY <1>1, <1>2, <1>4
<1>5. CASE position[c] # 0
  <2>1. Accounted(position[c])
    BY <1>1, <1>5 DEF AllUpTo
  <2>2. position[c] \in Conclusions \/ position[c] <= jumped
    BY <2>1 DEF Accounted, Failed, Conclusions
  <2> QED
    BY <1>1, <1>2, <1>3, <2>2
<1> QED
  BY <1>4, <1>5

\* How a step may change the conclusions
HasOffset == committed # NoOffset

Concludes(c) ==
  /\ log' = log /\ jumped' = jumped /\ Message(c) <= Len(log) /\ committed' = committed
  /\ Conclusions \subseteq Conclusions' /\ Conclusions' \subseteq Conclusions \union {Message(c)}

ConcludesNothing ==
  /\ UNCHANGED <<settled, failed, refused, jumped>>
  /\ \/ log' = log /\ (HasOffset => HasOffset')
     \/ committed' = committed /\ \E e \in Events : log' = Append(log, e)

Skips ==
  /\ log' = log /\ committed = NoOffset /\ committed' = committed
  /\ UNCHANGED <<settled, failed, refused>> /\ jumped' = Len(log)

LEMMA ConclusionOfStep ==
  ASSUME TypeInv, [Next]_vars
  PROVE  ConcludesNothing \/ Skips \/ \E c \in Consumers : Concludes(c)
<1>1. CASE Connect \/ Publish \/ SendAgain
  <2>1. UNCHANGED outcome /\ committed' = committed
    BY <1>1 DEF Connect, Publish, PublishUnconnected, EncodeFails, Send, SendFails, SendAgain,
       history, group
  <2>2. outgoing # <<>> => Head(outgoing) \in Events
    BY DEF TypeInv, PublisherType
  <2>3. log # <<>> => Last(log) \in Events
    BY DEF TypeInv, LogType, Last
  <2>4. log' = log \/ \E e \in Events : log' = Append(log, e)
    BY <1>1, <2>2, <2>3 DEF Connect, Publish, PublishUnconnected, EncodeFails, Send, SendFails,
       SendAgain
  <2> QED
    BY <2>1, <2>4 DEF ConcludesNothing, HasOffset, outcome
<1>2. ASSUME NEW c \in Consumers, Session(c)
      PROVE  ConcludesNothing \/ Skips
  <2>1. log' = log /\ UNCHANGED <<settled, failed, refused>>
    BY <1>2 DEF Session, Claim, Commit, Release, Evict, Expire, Crash, ConsumeEnds, history, outcome
  <2>2. CASE Claim(c)
    BY <2>1, <2>2 DEF Claim, ConcludesNothing, Skips, HasOffset, outcome
  <2>3. CASE ~Claim(c)
    <3>1. jumped' = jumped
      BY <1>2, <2>3 DEF Session, Commit, Release, Evict, Expire, Crash, ConsumeEnds, history,
         outcome
    <3>2. committed' = committed \/ (marked[c] > 0 /\ committed' = Committed(c))
      BY <1>2, <2>3 DEF Session, Commit, Release, Evict, Expire, Crash, ConsumeEnds, group
    <3>3. marked[c] > 0 => Committed(c) # NoOffset
      <4>1. marked[c] \in Nat /\ committed \in Nat \union {NoOffset}
        BY DEF TypeInv, WorkType, GroupType
      <4> QED
        BY <4>1 DEF Committed, NoOffset
    <3>4. HasOffset => HasOffset'
      BY <3>2, <3>3 DEF HasOffset
    <3> QED
      BY <2>1, <3>1, <3>4 DEF ConcludesNothing, outcome
  <2> QED
    BY <2>2, <2>3
<1>3. ASSUME NEW c \in Consumers, ConsumeClaim(c)
      PROVE  ConcludesNothing \/ Concludes(c)
  <2>1. log' = log /\ jumped' = jumped /\ committed' = committed
    BY <1>3 DEF ConsumeClaim, Receive, SkipUnmatched, DecodeFails, HasVisitFails, SkipVisited, Begin,
       HandleSucceeds, HandleFails, Undo, Record, RecordFails, Settle, GiveUp, outcome, group
  <2>2. Message(c) <= Len(log)
    <3>1. CASE pc[c] \notin Idle
      BY <3>1 DEF TypeInv, InLog
    <3>2. CASE pc[c] \in Idle
      BY <1>3, <3>2 DEF Idle, ConsumeClaim, Receive, SkipUnmatched, DecodeFails, HasVisitFails,
         SkipVisited, Begin, HandleSucceeds, HandleFails, Undo, Record, RecordFails
    <3> QED
      BY <3>1, <3>2
  <2>3. /\ settled \subseteq settled' /\ settled' \subseteq settled \union {Message(c)}
        /\ failed \subseteq failed' /\ failed' \subseteq failed \union {Message(c)}
        /\ refused \subseteq refused' /\ refused' \subseteq refused \union {Message(c)}
    <3>1. CASE Receive(c) \/ DecodeFails(c)
      BY <3>1 DEF Receive, DecodeFails, CallBeforeFuncs, GiveUp
    <3>2. CASE SkipUnmatched(c) \/ SkipVisited(c) \/ Record(c)
      BY <3>2 DEF SkipUnmatched, SkipVisited, Record, Settle
    <3>3. CASE HasVisitFails(c) \/ RecordFails(c) \/ Undo(c)
      BY <3>3 DEF HasVisitFails, RecordFails, Undo, GiveUp, outcome
    <3>4. CASE Begin(c) \/ HandleSucceeds(c) \/ HandleFails(c)
      BY <3>4 DEF Begin, HandleSucceeds, HandleFails, outcome
    <3> QED
      BY <1>3, <3>1, <3>2, <3>3, <3>4 DEF ConsumeClaim
  <2> QED
    BY <2>1, <2>2, <2>3 DEF Concludes, Conclusions
<1>4. CASE UNCHANGED vars
  BY <1>4 DEF vars, ConcludesNothing, HasOffset, history, outcome, group
<1> QED
  BY <1>1, <1>2, <1>3, <1>4 DEF Next

LEMMA DeliveryStep ==
  ASSUME TypeInv, TypeInv', DeliveryInv, [Next]_vars
  PROVE  DeliveryInv'
<1>0. Len(log) \in Nat /\ log \in Seq(Events) /\ \A c \in Consumers : Message(c) \in Nat
  BY DEF TypeInv, LogType, WorkType, Message
<1>1. CASE ConcludesNothing
  <2>1. Len(log') \in Nat /\ Len(log) <= Len(log')
    BY <1>0, <1>1, LogGrows DEF ConcludesNothing
  <2>2. Conclusions' = Conclusions
    BY <1>1 DEF ConcludesNothing, outcome, Conclusions
  <2> QED
    BY <1>0, <2>1, <2>2 DEF DeliveryInv
<1>2. CASE Skips
  BY <1>0, <1>2 DEF Skips, DeliveryInv, Conclusions
<1>3. ASSUME NEW c \in Consumers, Concludes(c) PROVE DeliveryInv'
  BY <1>0, <1>3 DEF Concludes, DeliveryInv
<1> QED
  BY <1>1, <1>2, <1>3, ConclusionOfStep

\* The step of the abstract bus that a step of the group or the publisher is
LEMMA DeliveryMakes ==
  ASSUME TypeInv, TypeInv', LossInv, DeliveryInv, DeliveryInv', [Next]_vars
  PROVE  \/ Promise!Next
         \/ log' = log /\ LastConcluded' = LastConcluded /\ (HasOffset' <=> HasOffset)
<1> DEFINE lane == "partition"
           Log == [k \in {lane} |-> log]
           Upto == [k \in {lane} |-> LastConcluded]
           Place == [k \in {lane} |-> committed # NoOffset]
<1>0. /\ Len(log) \in Nat /\ log \in Seq(Events) /\ \A c \in Consumers : Message(c) \in Nat
      /\ LastConcluded \in Nat
  BY LastOfConclusions DEF TypeInv, LogType, WorkType, Message
<1>1. CASE ConcludesNothing
  <2>1. LastConcluded' = LastConcluded
    BY <1>1 DEF ConcludesNothing, outcome, LastConcluded
  <2>2. ASSUME NEW e \in Events, log' = Append(log, e), committed' = committed
        PROVE  Promise!Next
    <3>1. log' # log
      BY <1>0, <2>2, LogGrows
    <3>2. Log' = [Log EXCEPT ![lane] = Append(@, e)] /\ Log'[lane] # Log[lane]
      BY <2>2, <3>1
    <3>3. Promise!Accept(lane)
      BY <3>2 DEF Promise!Accept
    <3>4. Upto' = Upto /\ Place' = Place
      BY <2>1, <2>2
    <3> QED
      BY <3>3, <3>4 DEF Promise!Next
  <2>3. ASSUME log' = log, ~HasOffset, HasOffset' PROVE Promise!Next
    <3>1. ~Place[lane] /\ Place' = [Place EXCEPT ![lane] = TRUE]
      BY <2>3 DEF HasOffset
    <3>2. Upto' = Upto /\ Log' = Log
      BY <2>1, <2>3
    <3> QED
      BY <3>1, <3>2 DEF Promise!Next, Promise!Record
  <2> QED
    BY <1>1, <2>1, <2>2, <2>3 DEF ConcludesNothing
<1>2. CASE Skips
  <2>1. LastConcluded' = Len(log)
    <3>1. Len(log) \in Conclusions' /\ \A m \in Conclusions' : m <= Len(log)
      BY <1>0, <1>2 DEF Skips, Conclusions, DeliveryInv
    <3> QED
      BY <3>1, NewLastConclusion
  <2>2. /\ Upto' = [Upto EXCEPT ![lane] = Len(Log[lane])] /\ Log' = Log
        /\ ~Place[lane] /\ Place' = Place
    BY <1>2, <2>1 DEF Skips
  <2> QED
    BY <2>2 DEF Promise!Next, Promise!Skip
<1>3. ASSUME NEW c \in Consumers, Concludes(c)
      PROVE  \/ Promise!Next
             \/ log' = log /\ LastConcluded' = LastConcluded /\ (HasOffset' <=> HasOffset)
  <2>1. /\ Message(c) <= LastConcluded + 1 /\ Message(c) <= Len(log)
        /\ log' = log /\ committed' = committed
    BY <1>3, NextToConclude DEF Concludes
  <2>2. /\ LastConcluded \in Conclusions /\ \A m \in Conclusions : m \in Nat /\ m <= LastConcluded
        /\ \A n \in Conclusions' : (\A m \in Conclusions' : m <= n) => LastConcluded' = n
    <3>1. LastConcluded \in Conclusions /\ \A m \in Conclusions : m <= LastConcluded
      BY LastOfConclusions
    <3>2. \A n \in Conclusions' : (\A m \in Conclusions' : m <= n) => LastConcluded' = n
      BY NewLastConclusion
    <3> QED
      BY <1>0, <3>1, <3>2 DEF DeliveryInv
  <2>3. CASE LastConcluded' = LastConcluded
    BY <2>1, <2>3 DEF HasOffset
  <2>4. CASE Message(c) \in Conclusions' /\ LastConcluded < Message(c)
    <3>1. Message(c) = LastConcluded + 1
      BY <1>0, <2>1, <2>4
    <3>2. \A m \in Conclusions' : m <= Message(c)
      BY <1>0, <1>3, <2>2, <2>4 DEF Concludes
    <3>3. LastConcluded' = LastConcluded + 1 /\ LastConcluded < Len(log)
      BY <1>0, <2>1, <2>2, <2>4, <3>1, <3>2
    <3>4. /\ Upto' = [Upto EXCEPT ![lane] = @ + 1] /\ Upto[lane] < Len(Log[lane])
          /\ Log' = Log /\ Place' = Place
      BY <2>1, <3>3
    <3> QED
      BY <3>4 DEF Promise!Next, Promise!Conclude
  <2>5. CASE ~(Message(c) \in Conclusions' /\ LastConcluded < Message(c))
    <3>1. LastConcluded \in Conclusions' /\ \A m \in Conclusions' : m <= LastConcluded
      BY <1>0, <1>3, <2>2, <2>5 DEF Concludes
    <3>2. LastConcluded' = LastConcluded
      BY <2>2, <3>1
    <3> QED
      BY <2>3, <3>2
  <2> QED
    BY <2>4, <2>5
<1> QED
  BY <1>1, <1>2, <1>3, ConclusionOfStep

\* Publisher and group implement a bus that concludes the events of its lane in
\* the order in which it accepted them, whatever members fail or are replaced.
THEOREM SubscriberImplementsDelivery == Spec => ImplementsDelivery
<1>1. Init => Promise!Init /\ TypeInv /\ HeardInv /\ LossInv /\ DeliveryInv
  <2> SUFFICES ASSUME Init PROVE Promise!Init /\ TypeInv /\ HeardInv /\ LossInv /\ DeliveryInv
    OBVIOUS
  <2>1. TypeInv /\ HeardInv /\ LossInv
    BY TypeInit, HeardInit, LossInit
  <2>2. Conclusions = {0} /\ log = <<>>
    BY DEF Init, Conclusions
  <2>3. DeliveryInv
    BY <2>2 DEF DeliveryInv
  <2>4. LastConcluded = 0
    BY <2>1, <2>2, <2>3, LastOfConclusions
  <2> QED
    BY <2>1, <2>2, <2>3, <2>4 DEF Promise!Init
<1>2. TypeInv /\ HeardInv /\ LossInv /\ DeliveryInv /\ [Next]_vars
        => (TypeInv /\ HeardInv /\ LossInv /\ DeliveryInv)'
  BY TypeStep, HeardStep, LossStep, DeliveryStep
<1>3. ASSUME TypeInv, TypeInv', LossInv, DeliveryInv, DeliveryInv', [Next]_vars
      PROVE  [Promise!Next]_<<[k \in {"partition"} |-> log],
                              [k \in {"partition"} |-> LastConcluded],
                              [k \in {"partition"} |-> committed # NoOffset]>>
  BY <1>3, DeliveryMakes DEF HasOffset
<1> QED
  BY <1>1, <1>2, <1>3, PTL DEF Spec, ImplementsDelivery, Promise!Spec

-----------------------------------------------------------------------------
(***************************************************************************)
(* What was recorded as visited is in effect, and handled once.  As long as*)
(* no two members have worked on an event at a time, whoever works on it   *)
(* is alone with it, it is not recorded yet, and its effects are those of  *)
(* the handlers called so far.                                             *)
(***************************************************************************)
AtWork == {"handling", "undoing", "recording"}

Undisturbed(c) ==
  pc[c] \in AtWork /\ EventOf(c) \notin overlapped =>
    /\ \A o \in Consumers : pc[o] \in AtWork /\ EventOf(o) = EventOf(c) => o = c
    /\ EventOf(c) \notin visited
    /\ pc[c] = "handling" => \A h \in Handlers : h < current[c] => h \in effects[EventOf(c)]
    /\ pc[c] = "recording" => effects[EventOf(c)] = Handlers

\* Handled, and not yet recorded as visited
ToRecord(e) == \E c \in Consumers : pc[c] = "recording" /\ EventOf(c) = e

\* Every success is accounted for
Counted(e) ==
  e \notin overlapped \union unrecorded =>
    times[e] = 0 \/ (times[e] = 1 /\ (e \in visited \/ ToRecord(e)))

WorkInv ==
  /\ \A c \in Consumers : Undisturbed(c)
  /\ VisitedIsHandled
  /\ dedup => \A e \in Events : Counted(e)

LEMMA WorkInit == Init => WorkInv
<1> SUFFICES ASSUME Init PROVE WorkInv
  OBVIOUS
<1>1. \A c \in Consumers : Undisturbed(c)
  BY DEF Init, Undisturbed, AtWork
<1>2. VisitedIsHandled
  BY DEF Init, VisitedIsHandled
<1>3. \A e \in Events : Counted(e)
  BY DEF Init, Counted
<1> QED
  BY <1>1, <1>2, <1>3 DEF WorkInv

\* A message that a member has in hand stays what it is.
LEMMA EventStays ==
  ASSUME TypeInv, [Next]_vars, NEW c \in Consumers, pc[c] \notin Idle, position'[c] = position[c]
  PROVE  EventOf(c)' = EventOf(c)
<1>1. Message(c) \in 1..Len(log) /\ Message(c)' = Message(c)
  BY DEF TypeInv, LogType, WorkType, InLog, Message
<1>2. log' = log \/ \E e \in Events : log' = Append(log, e)
  <2>1. CASE Send
    <3>1. outgoing # <<>> /\ log' = Append(log, Head(outgoing))
      BY <2>1 DEF Send
    <3> QED
      BY <3>1 DEF PublisherType, TypeInv
  <2>2. CASE SendAgain
    <3>1. log # <<>> /\ log' = Append(log, log[Len(log)])
      BY <2>2 DEF SendAgain, Last
    <3> QED
      BY <3>1 DEF LogType, TypeInv
  <2>3. CASE log' = log
    BY <2>3
  <2>4. log' = log \/ Send \/ SendAgain
    BY DEF Next, vars, publisher, Connect, Publish, PublishUnconnected, EncodeFails, SendFails,
           Session, ConsumeClaim, Claim, Commit, Release, Evict, Expire, Crash, ConsumeEnds,
           Receive, SkipUnmatched, DecodeFails, HasVisitFails, SkipVisited, Begin, HandleSucceeds,
           HandleFails, Undo, Record, RecordFails
  <2> QED
    BY <2>1, <2>2, <2>3, <2>4
<1>3. CASE log' = log
  BY <1>1, <1>3 DEF EventOf
<1>4. ASSUME NEW e \in Events, log' = Append(log, e)
      PROVE  EventOf(c)' = EventOf(c)
  BY <1>1, <1>4 DEF EventOf, TypeInv, LogType
<1> QED
  BY <1>2, <1>3, <1>4

\* The steps that call no handler and record nothing
LEMMA WorkFrame ==
  ASSUME TypeInv, WorkInv, [Next]_vars,
         UNCHANGED <<dedup, visited, effects, times, overlapped>>,
         unrecorded \subseteq unrecorded',
         \A o \in Consumers : pc'[o] \in AtWork =>
           /\ pc'[o] = pc[o] /\ position'[o] = position[o] /\ current'[o] = current[o],
         \A o \in Consumers : pc[o] = "recording" =>
           \/ pc'[o] = "recording" /\ position'[o] = position[o]
           \/ EventOf(o) \in unrecorded'
  PROVE  WorkInv'
<1>1. ASSUME NEW o \in Consumers, pc'[o] \in AtWork
      PROVE  EventOf(o)' = EventOf(o) /\ pc[o] \in AtWork
  <2>1. pc[o] \in AtWork /\ pc[o] \notin Idle /\ position'[o] = position[o]
    BY <1>1 DEF AtWork, Idle
  <2> QED
    BY <2>1, EventStays
<1>2. ASSUME NEW c \in Consumers PROVE Undisturbed(c)'
  <2> SUFFICES ASSUME pc'[c] \in AtWork, EventOf(c)' \notin overlapped'
               PROVE  /\ \A o \in Consumers : pc'[o] \in AtWork /\ EventOf(o)' = EventOf(c)' => o = c
                      /\ EventOf(c)' \notin visited'
                      /\ pc'[c] = "handling" =>
                           \A h \in Handlers : h < current'[c] => h \in effects'[EventOf(c)']
                      /\ pc'[c] = "recording" => effects'[EventOf(c)'] = Handlers
    BY DEF Undisturbed
  <2>1. Undisturbed(c) /\ EventOf(c)' = EventOf(c) /\ pc[c] \in AtWork
    BY <1>1 DEF WorkInv
  <2>2. pc'[c] = pc[c] /\ current'[c] = current[c]
    OBVIOUS
  <2> QED
    BY <1>1, <2>1, <2>2 DEF Undisturbed
<1>3. VisitedIsHandled'
  BY DEF WorkInv, VisitedIsHandled
<1>4. ASSUME dedup', NEW e \in Events PROVE Counted(e)'
  <2>1. Counted(e)
    BY <1>4 DEF WorkInv
  <2>2. ASSUME ToRecord(e), e \notin unrecorded' PROVE ToRecord(e)'
    <3>1. PICK o \in Consumers : pc[o] = "recording" /\ EventOf(o) = e
      BY <2>2 DEF ToRecord
    <3>2. pc'[o] = "recording" /\ position'[o] = position[o] /\ pc[o] \notin Idle
      BY <2>2, <3>1 DEF Idle
    <3>3. EventOf(o)' = e
      BY <3>1, <3>2, EventStays
    <3> QED
      BY <3>2, <3>3 DEF ToRecord
  <2> QED
    BY <2>1, <2>2 DEF Counted
<1> QED
  BY <1>2, <1>3, <1>4 DEF WorkInv

LEMMA WorkBegin ==
  ASSUME TypeInv, WorkInv, NEW c \in Consumers, Begin(c)
  PROVE  WorkInv'
<1> DEFINE e == EventOf(c)
<1>1. /\ pc[c] = "visit" /\ e \notin visited /\ pc' = [pc EXCEPT ![c] = "handling"]
      /\ current' = [current EXCEPT ![c] = 1] /\ pc \in [Consumers -> PCs]
      /\ current \in [Consumers -> Handlers]
      /\ UNCHANGED <<dedup, log, position, visited, effects, times, unrecorded>>
  BY DEF Begin, TypeInv, WorkType, setup, outcome
<1>2. overlapped \subseteq overlapped'
      /\ (e \in overlapped' \/ \A o \in Consumers \ {c} : ~(pc[o] \in AtWork /\ EventOf(o) = e))
  BY DEF Begin, Working, AtWork
<1>3. \A o \in Consumers : EventOf(o)' = EventOf(o)
  BY <1>1 DEF EventOf, Message
<1>4. ASSUME NEW o \in Consumers PROVE Undisturbed(o)'
  <2> SUFFICES ASSUME pc'[o] \in AtWork, EventOf(o) \notin overlapped'
               PROVE  Undisturbed(o)'
    BY <1>3 DEF Undisturbed
  <2>1. CASE o = c
    <3>1. \A x \in Consumers : pc'[x] \in AtWork /\ EventOf(x) = e => x = c
      BY <1>1, <1>2, <2>1
    <3>2. \A h \in Handlers : ~(h < current'[c])
      BY <1>1 DEF Handlers
    <3> QED
      BY <1>1, <1>3, <2>1, <3>1, <3>2 DEF Undisturbed
  <2>2. CASE o # c
    <3>1. pc'[o] = pc[o] /\ current'[o] = current[o] /\ Undisturbed(o)
      BY <1>1, <2>2 DEF WorkInv
    <3>2. EventOf(o) # e
      BY <1>2, <2>2, <3>1
    <3>3. \A x \in Consumers : pc'[x] \in AtWork /\ EventOf(x) = EventOf(o) => x = o
      BY <1>1, <1>2, <3>1, <3>2 DEF Undisturbed
    <3> QED
      BY <1>1, <1>2, <1>3, <3>1, <3>3 DEF Undisturbed
  <2> QED
    BY <2>1, <2>2
<1>5. VisitedIsHandled'
  BY <1>1, <1>2 DEF WorkInv, VisitedIsHandled
<1>6. ASSUME dedup', NEW f \in Events PROVE Counted(f)'
  <2>1. Counted(f)
    BY <1>1, <1>6 DEF WorkInv
  <2>2. ToRecord(f) => ToRecord(f)'
    BY <1>1, <1>3 DEF ToRecord
  <2> QED
    BY <1>1, <1>2, <2>1, <2>2 DEF Counted
<1> QED
  BY <1>4, <1>5, <1>6 DEF WorkInv

\* A member calls a handler or a rollback: it alone has to do with the event,
\* unless two members have worked on it.
LEMMA WorkCall ==
  ASSUME TypeInv, WorkInv, NEW c \in Consumers, pc[c] \in {"handling", "undoing"},
         NEW e \in Events, e = EventOf(c),
         UNCHANGED <<dedup, log, visited, overlapped, unrecorded>>,
         pc'[c] \in AtWork => position'[c] = position[c],
         \A o \in Consumers \ {c} : /\ pc'[o] = pc[o] /\ position'[o] = position[o]
                                    /\ current'[o] = current[o],
         \A f \in Events \ {e} : effects'[f] = effects[f] /\ times'[f] = times[f],
         \/ times'[e] = times[e]
         \/ times'[e] = times[e] + 1 /\ pc'[c] = "recording",
         e \notin overlapped =>
           /\ pc'[c] = "handling" => \A h \in Handlers : h < current'[c] => h \in effects'[e]
           /\ pc'[c] = "recording" => effects'[e] = Handlers
  PROVE  WorkInv'
<1>1. \A o \in Consumers : pc'[o] \in AtWork => EventOf(o)' = EventOf(o) /\ pc[o] \in AtWork
  BY DEF EventOf, Message, AtWork
<1>2. /\ e \notin overlapped => e \notin visited
      /\ \A o \in Consumers : pc[o] \in AtWork /\ EventOf(o) = e /\ e \notin overlapped => o = c
  BY DEF WorkInv, Undisturbed, AtWork
<1>3. ASSUME NEW o \in Consumers PROVE Undisturbed(o)'
  <2> SUFFICES ASSUME pc'[o] \in AtWork, EventOf(o) \notin overlapped, EventOf(o)' = EventOf(o),
                      pc[o] \in AtWork
               PROVE  Undisturbed(o)'
    BY <1>1 DEF Undisturbed
  <2>1. \A x \in Consumers : pc'[x] \in AtWork /\ EventOf(x)' = EventOf(o)' => x = o
    BY <1>1 DEF WorkInv, Undisturbed
  <2>2. EventOf(o) \notin visited
    BY DEF WorkInv, Undisturbed
  <2>3. CASE o = c
    BY <2>1, <2>2, <2>3 DEF Undisturbed
  <2>4. CASE o # c
    <3>1. EventOf(o) # e
      BY <1>2, <2>4
    <3>2. EventOf(o) \in Events
      <4>1. pc[o] \notin Idle
        BY DEF Idle, AtWork
      <4> QED
        BY <4>1, InHand
    <3>3. effects'[EventOf(o)] = effects[EventOf(o)] /\ pc'[o] = pc[o] /\ current'[o] = current[o]
      BY <2>4, <3>1, <3>2
    <3> QED
      BY <2>1, <2>2, <3>3 DEF WorkInv, Undisturbed
  <2> QED
    BY <2>3, <2>4
<1>4. VisitedIsHandled'
  BY <1>2 DEF WorkInv, VisitedIsHandled, TypeInv, HistoryType
<1>5. ASSUME dedup', NEW f \in Events PROVE Counted(f)'
  <2>1. Counted(f)
    BY <1>5 DEF WorkInv
  <2>2. ASSUME NEW o \in Consumers, pc[o] = "recording", EventOf(o) = f PROVE ToRecord(f)'
    BY <2>2 DEF ToRecord, EventOf, Message
  <2>3. CASE f # e
    BY <2>1, <2>2, <2>3 DEF Counted, ToRecord
  <2>4. CASE f = e
    <3>1. e \notin overlapped => ~ToRecord(e)
      BY <1>2 DEF ToRecord, AtWork
    <3>2. pc'[c] = "recording" => ToRecord(e)'
      BY <1>1 DEF ToRecord, AtWork
    <3>3. e \notin overlapped \union unrecorded => times[e] = 0
      BY <1>2, <2>1, <2>4, <3>1 DEF Counted
    <3> QED
      BY <2>4, <3>2, <3>3 DEF Counted
  <2> QED
    BY <2>3, <2>4
<1> QED
  BY <1>3, <1>4, <1>5 DEF WorkInv

LEMMA WorkHandles ==
  ASSUME TypeInv, WorkInv, NEW c \in Consumers, HandleSucceeds(c) \/ HandleFails(c) \/ Undo(c)
  PROVE  WorkInv'
<1> DEFINE e == EventOf(c)
<1>1. /\ pc[c] \in {"handling", "undoing"} /\ pc \in [Consumers -> PCs] /\ e \in Events
      /\ current \in [Consumers -> Handlers] /\ position \in [Consumers -> Nat]
      /\ effects \in [Events -> SUBSET Handlers] /\ times \in [Events -> Nat]
  <2>1. pc[c] \in {"handling", "undoing"}
    BY DEF HandleSucceeds, HandleFails, Undo
  <2>2. pc[c] \notin Idle
    BY <2>1 DEF Idle
  <2>3. EventOf(c) \in Events
    BY <2>2, InHand
  <2> QED
    BY <2>1, <2>3 DEF TypeInv, WorkType, HistoryType
<1>2. UNCHANGED <<dedup, log, visited, overlapped, unrecorded>>
  BY DEF HandleSucceeds, HandleFails, Undo, setup
<1>3. e \notin overlapped /\ pc[c] = "handling" =>
        \A h \in Handlers : h < current[c] => h \in effects[e]
  BY <1>1 DEF WorkInv, Undisturbed, AtWork
<1>4. CASE HandleSucceeds(c) /\ current[c] < HandlerCount
  <2>1. /\ effects' = [effects EXCEPT ![e] = @ \union {current[c]}] /\ pc[c] = "handling"
        /\ current' = [current EXCEPT ![c] = @ + 1] /\ UNCHANGED <<pc, times, position>>
    BY <1>4 DEF HandleSucceeds
  <2>2. e \notin overlapped => \A h \in Handlers : h < current'[c] => h \in effects'[e]
    BY <1>1, <1>3, <2>1 DEF Handlers
  <2> HIDE DEF e
  <2> QED
    BY <1>1, <1>2, <2>1, <2>2, WorkCall DEF e
<1>5. CASE HandleSucceeds(c) /\ ~(current[c] < HandlerCount)
  <2>1. /\ effects' = [effects EXCEPT ![e] = @ \union {current[c]}] /\ pc[c] = "handling"
        /\ pc' = [pc EXCEPT ![c] = "recording"] /\ times' = [times EXCEPT ![e] = @ + 1]
        /\ current' = [current EXCEPT ![c] = 1] /\ UNCHANGED position
    BY <1>5 DEF HandleSucceeds
  <2>2. e \notin overlapped => effects'[e] = Handlers
    BY <1>1, <1>3, <1>5, <2>1, ConstantsAssumption DEF Handlers
  <2> QED
    BY <1>1, <1>2, <2>1, <2>2, WorkCall
<1>6. CASE HandleFails(c)
  <2>1. /\ effects' = [effects EXCEPT ![e] = @ \union {current[c]}] \/ effects' = effects
        /\ pc' = [pc EXCEPT ![c] = "undoing"] /\ UNCHANGED <<position, current, times>>
    BY <1>6 DEF HandleFails
  <2> QED
    BY <1>1, <1>2, <2>1, WorkCall
<1>7. CASE Undo(c)
  <2>1. /\ effects' = [effects EXCEPT ![e] = @ \ {current[c]}] \/ effects' = effects
        /\ pc[c] = "undoing" /\ times' = times
    BY <1>7 DEF Undo
  <2>2. /\ pc' = pc \/ pc' = [pc EXCEPT ![c] = "ready"]
        /\ pc' = pc => position' = position
        /\ \A o \in Consumers \ {c} : /\ pc'[o] = pc[o] /\ position'[o] = position[o]
                                      /\ current'[o] = current[o]
    BY <1>1, <1>7, <2>1 DEF Undo, GiveUp, NextMessage
  <2> QED
    BY <1>1, <1>2, <2>1, <2>2, WorkCall DEF AtWork
<1> QED
  BY <1>4, <1>5, <1>6, <1>7

LEMMA WorkRecord ==
  ASSUME TypeInv, WorkInv, NEW c \in Consumers, Record(c)
  PROVE  WorkInv'
<1> DEFINE e == EventOf(c)
<1>1. /\ pc[c] = "recording" /\ pc' = [pc EXCEPT ![c] = "ready"] /\ pc \in [Consumers -> PCs]
      /\ position' = [position EXCEPT ![c] = @ + 1] /\ position \in [Consumers -> Nat]
      /\ UNCHANGED <<dedup, log, current, effects, times, overlapped, unrecorded>>
  BY DEF Record, Settle, NextMessage, TypeInv, WorkType, setup, handling
<1>2. visited' \in {visited, visited \union {e}} /\ (dedup => e \in visited')
  BY DEF Record
<1>3. \A o \in Consumers : pc'[o] \in AtWork => EventOf(o)' = EventOf(o) /\ pc[o] \in AtWork /\ o # c
  BY <1>1 DEF EventOf, Message, AtWork
<1>4. e \notin overlapped => effects[e] = Handlers
  BY <1>1 DEF WorkInv, Undisturbed, AtWork
<1>5. ASSUME NEW o \in Consumers PROVE Undisturbed(o)'
  <2> SUFFICES ASSUME pc'[o] \in AtWork, EventOf(o) \notin overlapped, EventOf(o)' = EventOf(o),
                      pc[o] \in AtWork, o # c
               PROVE  Undisturbed(o)'
    BY <1>1, <1>3 DEF Undisturbed
  <2>1. Undisturbed(o) /\ pc'[o] = pc[o]
    BY <1>1 DEF WorkInv
  <2>2. EventOf(o) # e
    BY <1>1, <2>1 DEF Undisturbed, AtWork
  <2> QED
    BY <1>1, <1>2, <1>3, <2>1, <2>2 DEF Undisturbed
<1>6. VisitedIsHandled'
  BY <1>1, <1>2, <1>4 DEF WorkInv, VisitedIsHandled
<1>7. ASSUME dedup', NEW f \in Events PROVE Counted(f)'
  <2>1. Counted(f) /\ e \in visited' /\ visited \subseteq visited'
    BY <1>1, <1>2, <1>7 DEF WorkInv
  <2>2. ToRecord(f) /\ f # e => ToRecord(f)'
    BY <1>1, <1>3 DEF ToRecord, AtWork, EventOf, Message
  <2> QED
    BY <1>1, <2>1, <2>2 DEF Counted
<1> QED
  BY <1>5, <1>6, <1>7 DEF WorkInv

LEMMA WorkStep ==
  ASSUME TypeInv, WorkInv, [Next]_vars
  PROVE  WorkInv'
<1>0. pc \in [Consumers -> PCs]
  BY DEF TypeInv, WorkType
<1>1. CASE Connect \/ Publish \/ SendAgain \/ UNCHANGED vars
  <2>1. UNCHANGED <<dedup, work, visited, handling>>
    BY <1>1 DEF Connect, Publish, PublishUnconnected, EncodeFails, Send, SendFails, SendAgain, vars,
                setup, history
  <2> QED
    BY <2>1, WorkFrame DEF work, handling
<1>2. ASSUME NEW c \in Consumers, Session(c)
      PROVE  WorkInv'
  <2>1. UNCHANGED <<dedup, visited, effects, times, overlapped>>
    BY <1>2 DEF Session, Claim, Commit, Release, Evict, Expire, Crash, ConsumeEnds, setup, handling,
                history
  <2>2. /\ unrecorded \subseteq unrecorded'
        /\ (pc[c] = "recording" /\ pc'[c] # pc[c]) => EventOf(c) \in unrecorded'
    BY <1>2 DEF Session, Claim, Commit, Release, Evict, Expire, Crash, ConsumeEnds, handling,
                history, EventOf, Message, work
  <2>3. \/ UNCHANGED <<pc, position, current>>
        \/ /\ pc'[c] \notin AtWork
           /\ \A o \in Consumers \ {c} : /\ pc'[o] = pc[o] /\ position'[o] = position[o]
                                         /\ current'[o] = current[o]
    BY <1>0, <1>2 DEF Session, Claim, Commit, Release, Evict, Expire, Crash, ConsumeEnds, Leave,
       work, AtWork, TypeInv, WorkType
  <2> QED
    BY <2>1, <2>2, <2>3, WorkFrame DEF AtWork
<1>3. ASSUME NEW c \in Consumers,
             \/ Receive(c) \/ SkipUnmatched(c) \/ DecodeFails(c) \/ HasVisitFails(c)
             \/ SkipVisited(c) \/ RecordFails(c)
      PROVE  WorkInv'
  <2>1. UNCHANGED <<dedup, visited, effects, times, overlapped>>
    BY <1>3 DEF Receive, SkipUnmatched, DecodeFails, HasVisitFails, SkipVisited, RecordFails, setup,
                handling
  <2>2. /\ unrecorded \subseteq unrecorded'
        /\ pc[c] = "recording" => EventOf(c) \in unrecorded'
    BY <1>3 DEF Receive, SkipUnmatched, DecodeFails, HasVisitFails, SkipVisited, RecordFails,
       handling
  <2>3. /\ pc'[c] \notin AtWork
        /\ \A o \in Consumers \ {c} : /\ pc'[o] = pc[o] /\ position'[o] = position[o]
                                      /\ current'[o] = current[o]
    BY <1>0, <1>3 DEF Receive, SkipUnmatched, DecodeFails, HasVisitFails, SkipVisited, RecordFails,
                      Settle, GiveUp, NextMessage, AtWork, TypeInv, WorkType
  <2> QED
    BY <2>1, <2>2, <2>3, WorkFrame DEF AtWork
<1> QED
  BY <1>1, <1>2, <1>3, WorkBegin, WorkHandles, WorkRecord DEF Next, ConsumeClaim

LEMMA WorkAlways == Spec => []WorkInv
<1>1. Init => TypeInv /\ WorkInv
  BY TypeInit, WorkInit
<1>2. TypeInv /\ WorkInv /\ [Next]_vars => TypeInv' /\ WorkInv'
  BY TypeStep, WorkStep
<1> QED
  BY <1>1, <1>2, PTL DEF Spec

\* An event recorded as visited, which no member will handle again, is in
\* effect: all its handlers have succeeded and none was undone, unless two
\* members worked on it at a time, between HasVisit and SetVisit.
THEOREM VisitedEventsAreHandled == Spec => []VisitedIsHandled
<1>1. WorkInv => VisitedIsHandled
  BY DEF WorkInv
<1> QED
  BY <1>1, WorkAlways, PTL

\* With a deduplicator, an event delivered again, or twice in the log, is not
\* handled twice, unless two members worked on it at a time or its visit was
\* not recorded.
THEOREM EventsAreHandledOnce == Spec => []HandledOnce
<1>1. WorkInv => HandledOnce
  <2> SUFFICES ASSUME WorkInv, dedup, NEW e \in Events \ (overlapped \union unrecorded)
               PROVE  times[e] <= 1
    BY DEF HandledOnce
  <2>1. Counted(e)
    BY DEF WorkInv
  <2> QED
    BY <2>1 DEF Counted
<1> QED
  BY <1>1, WorkAlways, PTL

-----------------------------------------------------------------------------
(***************************************************************************)
(* Listen and the goroutine that it starts, for any number of functions    *)
(* and of sessions.  The variables are those of KafkaListenState, none of  *)
(* which is a variable of KafkaSubscriber.                                 *)
(***************************************************************************)
CONSTANTS SetupFuncs, CleanupFuncs, ExitFuncs, MaxSessions

Life == INSTANCE KafkaListen

\* s.ready is open until Setup closes it, and is renewed before the next
\* Consume; a channel is closed only by a Setup, and only once it was made.
ListenInv ==
  /\ ready \in Nat /\ ready > 0 /\ shut \subseteq 1..ready /\ sessions \in Nat
  /\ member \in {"none", "joining"} => ready \notin shut
  /\ shut # {} => sessions > 0
  /\ listener = "called" => member = "none" /\ result = "none"
  /\ member = "none" => panic = "none"
  /\ ListenTellsTheTruth

\* Listen, and those that cancel or close, leave the channels alone.
LEMMA ListenerStep ==
  ASSUME ListenInv, Life!Listen \/ Life!Cancel \/ Life!Close
  PROVE  ListenInv'
<1> USE DEF ListenInv, ListenTellsTheTruth, Life!listening, Life!channels, Life!outside
<1>1. CASE Life!NewConsumerGroup
  BY <1>1 DEF Life!NewConsumerGroup
<1>2. CASE Life!NewConsumerGroupFails
  BY <1>2 DEF Life!NewConsumerGroupFails, Life!Return
<1>3. CASE Life!ReadReady
  BY <1>3 DEF Life!ReadReady
<1>4. CASE Life!ReceiveClosed
  BY <1>4 DEF Life!ReceiveClosed, Life!Return
<1>5. CASE Life!Cancel \/ Life!Close
  <2>1. UNCHANGED <<Life!listening, Life!channels, member, sessions, panic>>
    BY <1>5 DEF Life!Cancel, Life!Close
  <2> QED
    BY <2>1
<1> QED
  BY <1>1, <1>2, <1>3, <1>4, <1>5 DEF Life!Listen

LEMMA MemberStep ==
  ASSUME ListenInv, Life!Goroutine \/ Life!SessionEnds
  PROVE  ListenInv'
<1> USE DEF ListenInv, ListenTellsTheTruth, Life!listening, Life!channels, Life!outside
<1>1. CASE Life!JoinFails \/ Life!FuncFails \/ Life!ReleaseFails \/ Life!SessionEnds
  BY <1>1 DEF Life!JoinFails, Life!FuncFails, Life!ReleaseFails, Life!SessionEnds
<1>2. CASE Life!Setup
  <2>1. ready \notin shut /\ shut' = shut \union {ready} /\ sessions' = sessions + 1
        /\ member' = "setup" /\ UNCHANGED <<ready, panic, listener, result>>
    BY <1>2 DEF Life!Setup
  <2> QED
    BY <1>2, <2>1 DEF Life!Setup
<1>3. CASE Life!CallSetupFunc \/ Life!CallCleanupFunc
  BY <1>3 DEF Life!CallSetupFunc, Life!CallCleanupFunc, Life!CallNext
<1>4. CASE Life!CallExitFunc
  BY <1>4 DEF Life!CallExitFunc, Life!CallNext
<1>5. CASE Life!NextConsume
  BY <1>5 DEF Life!NextConsume
<1>6. CASE Life!OfferError
  <2>1. \/ panic' = panic
        \/ panic' = "send" /\ ready \in shut
    BY <1>6 DEF Life!OfferError
  <2>2. result' \in {result, "error"} /\ member = "failed" /\ member' = "leaving"
        /\ UNCHANGED <<ready, shut, sessions>> /\ listener' \in {listener, "returned"}
    BY <1>6 DEF Life!OfferError, Life!Return
  <2> QED
    BY <2>1, <2>2
<1> QED
  BY <1>1, <1>2, <1>3, <1>4, <1>5, <1>6 DEF Life!Goroutine

\* Listen returns nil only when a session was set up and an error only when
\* nothing consumes any more; no channel is closed twice.
THEOREM ListenIsTruthful == Life!Spec => []ListenTellsTheTruth
<1>1. Life!Init => ListenInv
  BY DEF Life!Init, ListenInv, ListenTellsTheTruth
<1>2. ListenInv /\ [Life!Next]_(Life!vars) => ListenInv'
  <2> SUFFICES ASSUME ListenInv, [Life!Next]_(Life!vars) PROVE ListenInv'
    OBVIOUS
  <2>1. CASE UNCHANGED Life!vars
    BY <2>1 DEF Life!vars, ListenInv, ListenTellsTheTruth, Life!listening, Life!channels,
                Life!outside
  <2> QED
    BY <2>1, ListenerStep, MemberStep DEF Life!Next
<1>3. ListenInv => ListenTellsTheTruth
  BY DEF ListenInv
<1> QED
  BY <1>1, <1>2, <1>3, PTL DEF Life!Spec
=============================================================================
