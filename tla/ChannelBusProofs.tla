-------------------------- MODULE ChannelBusProofs --------------------------
(***************************************************************************)
(* What the in-process event bus promises, for any number of topics,       *)
(* partitions, streams, publishers, events and handlers.                   *)
(***************************************************************************)
EXTENDS ChannelBus, FiniteSetTheorems, SequenceTheorems, TLAPS

LEMMA HasMin ==
  ASSUME NEW S \in SUBSET Nat, S # {}
  PROVE  /\ Min(S) \in S /\ Min(S) \in Nat
         /\ \A y \in S : Min(S) <= y
<1>1. PICK x \in S : \A y \in S : <<y, x>> \notin OpToRel(<, Nat)
  BY NatLessThanWellFounded, WFMin, Zenon
<1>2. \A y \in S : ~(y < x)
  BY <1>1, Zenon DEF OpToRel
<1>3. \A y \in S : x <= y
  BY <1>2
<1> QED
  BY <1>3 DEF Min

\* Of the upper bounds of a set, the least is in it.
LEMMA HasMax ==
  ASSUME NEW S \in SUBSET Nat, S # {}, NEW n \in Nat, \A y \in S : y <= n
  PROVE  /\ Max(S) \in S /\ Max(S) \in Nat
         /\ \A y \in S : y <= Max(S)
<1> DEFINE bounds == {b \in Nat : \A y \in S : y <= b}
<1>1. bounds \in SUBSET Nat /\ bounds # {}
  OBVIOUS
<1>2. PICK b \in bounds : \A c \in bounds : b <= c
  BY <1>1, HasMin
<1>3. b \in S
  <2> SUFFICES ASSUME b \notin S PROVE FALSE
    OBVIOUS
  <2>1. b \in Nat /\ \A y \in S : y \in Nat /\ y <= b /\ y # b
    OBVIOUS
  <2>2. b - 1 \in Nat /\ \A y \in S : y <= b - 1
    <3>1. PICK z \in S : z \in Nat /\ z <= b /\ z # b
      BY <2>1
    <3>2. b - 1 \in Nat
      BY <2>1, <3>1
    <3>3. ASSUME NEW y \in S PROVE y <= b - 1
      BY <2>1
    <3> QED
      BY <3>2, <3>3
  <2>3. b - 1 \in bounds
    BY <2>2
  <2> QED
    BY <1>2, <2>1, <2>3
<1>4. \A y \in S : b >= y
  OBVIOUS
<1> QED
  BY <1>3, <1>4 DEF Max

LEMMA HeadAndTail ==
  ASSUME NEW S, NEW s \in Seq(S), s # <<>>
  PROVE  /\ Head(s) \in S /\ Tail(s) \in Seq(S)
         /\ Head(s) = s[1] /\ 1 \in DOMAIN s
         /\ \A i \in DOMAIN Tail(s) : Tail(s)[i] = s[i + 1] /\ i + 1 \in DOMAIN s
         /\ \A i \in DOMAIN Tail(s) : i \in Nat /\ 1 < i + 1
  OBVIOUS

LEMMA OneElement ==
  ASSUME NEW S, NEW e \in S
  PROVE  /\ <<e>> # <<>> /\ Head(<<e>>) = e /\ Tail(<<e>>) = <<>> /\ Len(<<e>>) = 1
         /\ <<e>> \in Seq(S) /\ Append(<<>>, e) = <<e>>
         /\ \A d : <<d>> = <<e>> => d = e
  OBVIOUS

LEMMA AppendOne ==
  ASSUME NEW S, NEW s \in Seq(S), NEW e \in S
  PROVE  /\ Append(s, e) \in Seq(S) /\ Len(s) \in Nat /\ DOMAIN s = 1..Len(s)
         /\ DOMAIN Append(s, e) = 1..(Len(s) + 1)
         /\ Append(s, e)[Len(s) + 1] = e
         /\ \A i \in DOMAIN s : Append(s, e)[i] = s[i]
  OBVIOUS

-----------------------------------------------------------------------------
(***************************************************************************)
(* Types.  A partition holds one event at most, of a stream that hashes to *)
(* it, and its listener is at a handler that matches the event.            *)
(***************************************************************************)
Active(l) == pc[l] \in {"handling", "undoing"}

Places == {"absent", "waiting", "handling", "undoing", "exited", "dead"}

OneEvent(l) ==
  \/ buffer[l] = <<>>
  \/ \E e \in Events : buffer[l] = <<e>> /\ PartitionOf(e) = l /\ e.topic \in subscribed

AtHandler(l) ==
  Active(l) => /\ current[l] \in Matching[event[l]]
               /\ PartitionOf(event[l]) = l

SetupType == subscribed \in Subscriptions /\ hash \in Hashes /\ rollback \in Rollbacks

QueueType ==
  /\ buffer \in [Listeners -> Seq(Events)]
  /\ outgoing \in [Publishers -> Seq(Events)]
  /\ \A l \in Listeners : OneEvent(l)

ListenerType ==
  /\ pc \in [Listeners -> Places]
  /\ event \in [Listeners -> Events]
  /\ current \in [Listeners -> Nat]
  /\ emitting \in [Listeners -> Seq(Events)]
  /\ closed \in [Listeners -> BOOLEAN]
  /\ \A l \in Listeners : AtHandler(l)

LifeType ==
  /\ closeSig \subseteq subscribed /\ cancelled \in BOOLEAN
  /\ listen \in {"new", "waiting", "returned", "dead"}
  /\ close \in {"new", "closing", "returned", "dead"}

HistoryType ==
  /\ handled \in [StreamKeys -> Seq(Events)]
  /\ promised \subseteq Events
  /\ effects \in [Events -> SUBSET Nat] /\ stuck \in [Events -> SUBSET Nat]
  /\ \A e \in Events : effects[e] \subseteq Matching[e] /\ stuck[e] \subseteq Matching[e]

TypeInv == SetupType /\ QueueType /\ ListenerType /\ LifeType /\ HistoryType

LEMMA Constants ==
  /\ PN \in Nat \ {0} /\ NoEvent \in Events
  /\ \A e \in Events : /\ Matching[e] \in SUBSET Nat /\ Emits[e] \in Seq(Events)
                       /\ StreamOf(e) \in StreamKeys
                       /\ Matching[e] = {} => Emits[e] = <<>>
  /\ Batch \in [Publishers -> Seq(Events)]
<1>1. NoEvent \in Events
  BY EventsAreNumbered DEF NoEvent
<1> QED
  BY <1>1, ConstantsAssumption DEF StreamKeys

\* A partition that an event is sent to was empty.
LEMMA SendStep ==
  ASSUME TypeInv, NEW e \in Events, Send(e)
  PROVE  /\ PartitionOf(e) \in Listeners /\ e.topic \in subscribed
         /\ buffer[PartitionOf(e)] = <<>>
         /\ buffer' = [buffer EXCEPT ![PartitionOf(e)] = <<e>>]
         /\ promised' = IF close = "new" THEN promised \union {e} ELSE promised
<1> DEFINE l == PartitionOf(e)
<1>1. e.topic \in subscribed /\ Len(buffer[l]) < 1 /\ buffer' = [buffer EXCEPT ![l] = Append(@, e)]
      /\ promised' = IF close = "new" THEN promised \union {e} ELSE promised
  BY DEF Send, HasRoom
<1>2. e.topic \in Topics /\ hash[StreamOf(e)] \in 1..PN
  BY <1>1, Constants, ConstantsAssumption DEF TypeInv, SetupType
<1>3. l \in Listeners
  BY <1>2 DEF Listeners, PartitionOf
<1>4. buffer[l] = <<>>
  BY <1>1, <1>3, OneElement DEF TypeInv, QueueType, OneEvent
<1> HIDE DEF l
<1>5. buffer' = [buffer EXCEPT ![l] = <<e>>]
  BY <1>1, <1>3, <1>4, OneElement DEF TypeInv, QueueType
<1> QED
  BY <1>1, <1>3, <1>4, <1>5 DEF l

LEMMA SendType ==
  ASSUME TypeInv, NEW e \in Events, Send(e), UNCHANGED setup
  PROVE  /\ buffer' \in [Listeners -> Seq(Events)]
         /\ \A l \in Listeners : OneEvent(l)'
         /\ promised' \subseteq Events
<1> DEFINE to == PartitionOf(e)
<1>1. /\ to \in Listeners /\ e.topic \in subscribed
      /\ buffer' = [buffer EXCEPT ![to] = <<e>>]
      /\ promised' = IF close = "new" THEN promised \union {e} ELSE promised
      /\ subscribed' = subscribed /\ hash' = hash
  BY SendStep DEF setup
<1>2. PartitionOf(e)' = to
  BY <1>1 DEF PartitionOf
<1>3. buffer \in [Listeners -> Seq(Events)] /\ promised \subseteq Events
  BY DEF TypeInv, QueueType, HistoryType
<1> HIDE DEF to
<1>4. ASSUME NEW l \in Listeners PROVE OneEvent(l)'
  <2>1. CASE l = to
    <3>1. buffer'[l] = <<e>>
      BY <1>1, <1>3, <2>1
    <3> QED
      BY <1>1, <1>2, <2>1, <3>1 DEF OneEvent
  <2>2. CASE l # to
    <3>1. buffer'[l] = buffer[l]
      BY <1>1, <1>3, <2>2
    <3> QED
      BY <1>1, <3>1 DEF OneEvent, PartitionOf, TypeInv, QueueType
  <2> QED
    BY <2>1, <2>2
<1> QED
  BY <1>1, <1>3, <1>4, OneElement

LEMMA TypeInit == Init => TypeInv
<1> SUFFICES ASSUME Init PROVE TypeInv
  OBVIOUS
<1> USE DEF Init
<1>1. SetupType /\ LifeType
  BY DEF SetupType, LifeType
<1>2. QueueType
  BY Constants DEF QueueType, OneEvent
<1>3. ListenerType
  BY Constants DEF ListenerType, AtHandler, Active, Places
<1>4. HistoryType
  BY DEF HistoryType
<1> QED
  BY <1>1, <1>2, <1>3, <1>4 DEF TypeInv

\* The end of an event
LEMMA DoneType ==
  ASSUME TypeInv, NEW l \in Listeners, NEW e \in Events, NEW rest, Done(l, e, rest),
         UNCHANGED <<setup, closed>>
  PROVE  /\ ListenerType' /\ handled' \in [StreamKeys -> Seq(Events)]
         /\ pc'[l] \in {"exited", "waiting"} /\ \A o \in Listeners \ {l} : pc'[o] = pc[o]
         /\ handled' = [handled EXCEPT ![StreamOf(e)] = Append(@, e)]
<1>1. /\ pc' = [pc EXCEPT ![l] = IF rest = <<>> /\ closed[l] THEN "exited" ELSE "waiting"]
      /\ handled' = [handled EXCEPT ![StreamOf(e)] = Append(@, e)]
      /\ event' = [event EXCEPT ![l] = NoEvent]
      /\ current' = [current EXCEPT ![l] = 0]
      /\ emitting' = [emitting EXCEPT ![l] = <<>>]
      /\ closed' = closed /\ subscribed' = subscribed /\ hash' = hash
  BY DEF Done, Forget, setup
<1>2. ListenerType /\ handled \in [StreamKeys -> Seq(Events)] /\ StreamOf(e) \in StreamKeys
  BY Constants DEF TypeInv, HistoryType
<1>3. handled' \in [StreamKeys -> Seq(Events)]
  BY <1>1, <1>2, AppendOne
<1>4. pc'[l] \in {"exited", "waiting"} /\ \A o \in Listeners \ {l} : pc'[o] = pc[o]
  BY <1>1, <1>2 DEF ListenerType
<1>5. /\ pc' \in [Listeners -> Places] /\ event' \in [Listeners -> Events]
      /\ current' \in [Listeners -> Nat]
  BY <1>1, <1>2, Constants DEF ListenerType, Places
<1>6. emitting' \in [Listeners -> Seq(Events)] /\ closed' \in [Listeners -> BOOLEAN]
  BY <1>1, <1>2 DEF ListenerType
<1>7. ASSUME NEW o \in Listeners PROVE AtHandler(o)'
  <2>1. CASE o = l
    BY <1>4, <2>1 DEF AtHandler, Active
  <2>2. CASE o # l
    BY <1>1, <1>2, <1>4, <2>2 DEF AtHandler, Active, ListenerType, PartitionOf
  <2> QED
    BY <2>1, <2>2
<1> QED
  BY <1>1, <1>3, <1>4, <1>5, <1>6, <1>7 DEF ListenerType

LEMMA StartUndoingType ==
  ASSUME TypeInv, NEW l \in Listeners, Active(l), NEW h \in Matching[event[l]],
         StartUndoing(l, h), UNCHANGED <<setup, closed>>
  PROVE  ListenerType' /\ handled' = handled
<1>1. /\ pc' = [pc EXCEPT ![l] = "undoing"] /\ current' = [current EXCEPT ![l] = h]
      /\ UNCHANGED <<event, handled, closed, subscribed, hash>>
      /\ \E out \in {<<>>, Emits[event[l]]} : emitting' = [emitting EXCEPT ![l] = out]
  BY DEF StartUndoing, Output, setup
<1>2. ListenerType /\ event[l] \in Events
  BY DEF TypeInv, ListenerType
<1>3. h \in Nat /\ Emits[event[l]] \in Seq(Events)
  <2>1. Matching[event[l]] \in SUBSET Nat
    BY <1>2, Constants
  <2> QED
    BY <1>2, <2>1, Constants
<1>4. pc' \in [Listeners -> Places] /\ current' \in [Listeners -> Nat]
  BY <1>1, <1>2, <1>3 DEF ListenerType, Places
<1>5. emitting' \in [Listeners -> Seq(Events)]
  <2>1. PICK out \in {<<>>, Emits[event[l]]} : emitting' = [emitting EXCEPT ![l] = out]
    BY <1>1
  <2>2. <<>> \in Seq(Events)
    OBVIOUS
  <2>3. out \in Seq(Events) /\ emitting \in [Listeners -> Seq(Events)]
    BY <1>2, <1>3, <2>2, Zenon DEF ListenerType
  <2> QED
    BY <2>1, <2>3
<1>6. ASSUME NEW o \in Listeners PROVE AtHandler(o)'
  <2>1. CASE o = l
    BY <1>1, <1>2, <2>1 DEF AtHandler, Active, ListenerType, PartitionOf
  <2>2. CASE o # l
    BY <1>1, <1>2, <2>2 DEF AtHandler, Active, ListenerType, PartitionOf
  <2> QED
    BY <2>1, <2>2
<1> QED
  BY <1>1, <1>2, <1>4, <1>5, <1>6 DEF ListenerType

LEMMA UndoNextType ==
  ASSUME TypeInv, NEW l \in Listeners, Active(l), UndoNext(l), UNCHANGED <<setup, closed>>
  PROVE  ListenerType' /\ handled' \in [StreamKeys -> Seq(Events)]
<1>1. event[l] \in Events /\ current[l] \in Nat /\ handled \in [StreamKeys -> Seq(Events)]
  BY DEF TypeInv, ListenerType, HistoryType
<1>2. CASE Earlier(l) = {}
  BY <1>1, <1>2, DoneType DEF UndoNext
<1>3. CASE Earlier(l) # {}
  <2>1. Earlier(l) \in SUBSET Nat /\ \A y \in Earlier(l) : y <= current[l]
    BY <1>1, Constants DEF Earlier
  <2>2. Max(Earlier(l)) \in Matching[event[l]]
    BY <1>1, <1>3, <2>1, HasMax DEF Earlier
  <2> QED
    BY <1>1, <1>3, <2>2, StartUndoingType DEF UndoNext
<1> QED
  BY <1>2, <1>3

\* What a listener is at stays as it is while only its queue changes.
LEMMA ListenersStay ==
  ASSUME ListenerType, UNCHANGED <<setup, event, current, closed>>,
         emitting' \in [Listeners -> Seq(Events)], pc' \in [Listeners -> Places],
         \A l \in Listeners : Active(l)' => Active(l)
  PROVE  ListenerType'
BY DEF ListenerType, AtHandler, Active, PartitionOf, setup

LEMMA QueuesStay ==
  ASSUME QueueType, UNCHANGED <<setup, buffer>>
  PROVE  /\ outgoing' \in [Publishers -> Seq(Events)] => QueueType'
         /\ \A l \in Listeners : OneEvent(l)'
BY DEF QueueType, OneEvent, PartitionOf, setup

LEMMA PublisherType ==
  ASSUME TypeInv, NEW p \in Publishers, Publishing(p)
  PROVE  TypeInv'
<1>1. outgoing[p] \in Seq(Events) /\ outgoing[p] # <<>>
  BY DEF TypeInv, QueueType, Publishing, Publish, PublishUnknown
<1>2. Head(outgoing[p]) \in Events /\ Tail(outgoing[p]) \in Seq(Events)
  BY <1>1, HeadAndTail
<1>3. CASE Publish(p)
  <2>1. /\ Send(Head(outgoing[p])) /\ outgoing' = [outgoing EXCEPT ![p] = Tail(@)]
        /\ UNCHANGED <<setup, pc, handling, closed, lifecycle, handled, effects, stuck>>
    BY <1>3 DEF Publish
  <2>2. QueueType' /\ promised' \subseteq Events
    BY <1>2, <2>1, SendType DEF TypeInv, QueueType
  <2>3. ListenerType'
    BY <2>1, ListenersStay DEF TypeInv, ListenerType, Active, handling
  <2>4. SetupType' /\ LifeType' /\ HistoryType'
    BY <2>1, <2>2 DEF TypeInv, SetupType, LifeType, HistoryType, setup, lifecycle
  <2> QED
    BY <2>2, <2>3, <2>4 DEF TypeInv
<1>4. CASE PublishUnknown(p)
  <2>1. /\ outgoing' = [outgoing EXCEPT ![p] = <<>>]
        /\ UNCHANGED <<setup, buffer, pc, handling, closed, lifecycle, history>>
    BY <1>4 DEF PublishUnknown
  <2>2. QueueType'
    BY <2>1, QueuesStay DEF TypeInv, QueueType
  <2>3. ListenerType'
    BY <2>1, ListenersStay DEF TypeInv, ListenerType, Active, handling
  <2>4. SetupType' /\ LifeType' /\ HistoryType'
    BY <2>1 DEF TypeInv, SetupType, LifeType, HistoryType, setup, lifecycle, history
  <2> QED
    BY <2>2, <2>3, <2>4 DEF TypeInv
<1> QED
  BY <1>3, <1>4 DEF Publishing

LEMMA SeeType ==
  ASSUME TypeInv, NEW l \in Listeners, SeeCancelled(l) \/ SeeClosed(l)
  PROVE  TypeInv'
<1>1. /\ pc' = [pc EXCEPT ![l] = pc'[l]] /\ pc'[l] \in {"exited", "waiting"}
      /\ closed' = closed \/ closed' = [closed EXCEPT ![l] = TRUE]
      /\ UNCHANGED <<setup, buffer, outgoing, handling, lifecycle, history>>
  BY DEF SeeCancelled, SeeClosed, TypeInv, ListenerType
<1>2. QueueType'
  BY <1>1, QueuesStay DEF TypeInv, QueueType
<1>3. ListenerType'
  <2>1. closed' \in [Listeners -> BOOLEAN]
    BY <1>1 DEF TypeInv, ListenerType
  <2>2. pc' \in [Listeners -> Places]
    BY <1>1 DEF TypeInv, ListenerType, Places
  <2>3. ASSUME NEW o \in Listeners PROVE AtHandler(o)'
    <3>1. Active(o)' => Active(o)
      BY <1>1 DEF TypeInv, ListenerType, Active
    <3> QED
      BY <1>1, <3>1 DEF TypeInv, ListenerType, AtHandler, PartitionOf, setup, handling
  <2> QED
    BY <1>1, <2>1, <2>2, <2>3 DEF TypeInv, ListenerType, handling
<1>4. SetupType' /\ LifeType' /\ HistoryType'
  BY <1>1 DEF TypeInv, SetupType, LifeType, HistoryType, setup, lifecycle, history
<1> QED
  BY <1>2, <1>3, <1>4 DEF TypeInv

LEMMA ReceiveType ==
  ASSUME TypeInv, NEW l \in Listeners, Receive(l)
  PROVE  TypeInv'
<1> DEFINE e == Head(buffer[l])
<1>1. /\ buffer[l] # <<>> /\ buffer' = [buffer EXCEPT ![l] = Tail(@)]
      /\ UNCHANGED <<setup, outgoing, closed, lifecycle, promised, effects, stuck>>
      /\ IF Matching[e] = {}
         THEN Done(l, e, Tail(buffer[l]))
         ELSE /\ pc' = [pc EXCEPT ![l] = "handling"]
              /\ event' = [event EXCEPT ![l] = e]
              /\ current' = [current EXCEPT ![l] = Min(Matching[e])]
              /\ emitting' = [emitting EXCEPT ![l] = Emits[e]]
              /\ UNCHANGED handled
  BY DEF Receive
<1>2. e \in Events /\ buffer[l] = <<e>> /\ PartitionOf(e) = l /\ Tail(buffer[l]) = <<>>
  BY <1>1, OneElement DEF TypeInv, QueueType, OneEvent
<1> HIDE DEF e
<1>3. QueueType'
  <2>1. buffer' = [buffer EXCEPT ![l] = <<>>] /\ buffer' \in [Listeners -> Seq(Events)]
    BY <1>1, <1>2 DEF TypeInv, QueueType
  <2>2. \A o \in Listeners : OneEvent(o)'
    BY <1>1, <2>1 DEF TypeInv, QueueType, OneEvent, PartitionOf, setup
  <2> QED
    BY <1>1, <2>1, <2>2 DEF TypeInv, QueueType
<1>4. CASE Matching[e] = {}
  <2>1. ListenerType' /\ handled' \in [StreamKeys -> Seq(Events)]
    BY <1>1, <1>2, <1>4, DoneType
  <2>2. SetupType' /\ LifeType' /\ HistoryType'
    BY <1>1, <2>1 DEF TypeInv, SetupType, LifeType, HistoryType, setup, lifecycle
  <2> QED
    BY <1>3, <2>1, <2>2 DEF TypeInv
<1>5. CASE Matching[e] # {}
  <2>1. /\ pc' = [pc EXCEPT ![l] = "handling"] /\ event' = [event EXCEPT ![l] = e]
        /\ current' = [current EXCEPT ![l] = Min(Matching[e])]
        /\ emitting' = [emitting EXCEPT ![l] = Emits[e]] /\ handled' = handled
    BY <1>1, <1>5
  <2>2. Min(Matching[e]) \in Matching[e] /\ Min(Matching[e]) \in Nat
    BY <1>2, <1>5, HasMin, Constants
  <2>3. Emits[e] \in Seq(Events)
    BY <1>2, Constants
  <2>4. pc' \in [Listeners -> Places] /\ event' \in [Listeners -> Events]
    BY <1>2, <2>1 DEF TypeInv, ListenerType, Places
  <2>5. current' \in [Listeners -> Nat] /\ emitting' \in [Listeners -> Seq(Events)]
    BY <2>1, <2>2, <2>3 DEF TypeInv, ListenerType
  <2>6. ASSUME NEW o \in Listeners PROVE AtHandler(o)'
    <3>1. hash' = hash
      BY <1>1 DEF setup
    <3>2. CASE o = l
      BY <1>2, <2>1, <2>2, <3>1, <3>2 DEF TypeInv, ListenerType, AtHandler, PartitionOf
    <3>3. CASE o # l
      BY <2>1, <3>1, <3>3 DEF TypeInv, ListenerType, AtHandler, Active, PartitionOf
    <3> QED
      BY <3>2, <3>3
  <2>7. ListenerType'
    BY <1>1, <2>4, <2>5, <2>6 DEF TypeInv, ListenerType
  <2>8. SetupType' /\ LifeType' /\ HistoryType'
    BY <1>1, <2>1 DEF TypeInv, SetupType, LifeType, HistoryType, setup, lifecycle
  <2> QED
    BY <1>3, <2>7, <2>8 DEF TypeInv
<1> QED
  BY <1>4, <1>5

LEMMA EmitType ==
  ASSUME TypeInv, NEW l \in Listeners, Emit(l)
  PROVE  TypeInv'
<1>1. /\ emitting[l] # <<>> /\ Send(Head(emitting[l]))
      /\ emitting' = [emitting EXCEPT ![l] = Tail(@)]
      /\ UNCHANGED <<setup, outgoing, pc, event, current, closed, lifecycle, handled, effects,
                     stuck>>
  BY DEF Emit
<1>2. Head(emitting[l]) \in Events /\ Tail(emitting[l]) \in Seq(Events)
  BY <1>1, HeadAndTail DEF TypeInv, ListenerType
<1>3. QueueType' /\ promised' \subseteq Events
  BY <1>1, <1>2, SendType DEF TypeInv, QueueType
<1>4. emitting' \in [Listeners -> Seq(Events)]
  BY <1>1, <1>2 DEF TypeInv, ListenerType
<1>5. ListenerType'
  BY <1>1, <1>4, ListenersStay DEF TypeInv, ListenerType, Active
<1>6. SetupType' /\ LifeType' /\ HistoryType'
  BY <1>1, <1>3 DEF TypeInv, SetupType, LifeType, HistoryType, setup, lifecycle
<1> QED
  BY <1>3, <1>5, <1>6 DEF TypeInv

\* The effects of handlers are those of handlers that match.
LEMMA EffectType ==
  ASSUME TypeInv, NEW l \in Listeners, Active(l), NEW now,
         now \in SUBSET (effects[event[l]] \union {current[l]}),
         effects' = [effects EXCEPT ![event[l]] = now]
  PROVE  /\ effects' \in [Events -> SUBSET Nat]
         /\ \A e \in Events : effects'[e] \subseteq Matching[e]
<1>1. /\ event[l] \in Events /\ current[l] \in Matching[event[l]]
      /\ effects \in [Events -> SUBSET Nat] /\ \A e \in Events : effects[e] \subseteq Matching[e]
  BY DEF TypeInv, ListenerType, AtHandler, HistoryType
<1>2. now \subseteq Matching[event[l]] /\ now \in SUBSET Nat
  BY <1>1, Constants
<1> QED
  BY <1>1, <1>2

LEMMA HandlerType ==
  ASSUME TypeInv, NEW l \in Listeners,
         HandlerSucceeds(l) \/ HandlerFails(l) \/ RollbackSucceeds(l) \/ RollbackFails(l)
  PROVE  TypeInv'
<1>1. Active(l) /\ UNCHANGED <<setup, buffer, outgoing, closed, lifecycle, promised>>
  BY DEF HandlerSucceeds, HandlerFails, RollbackSucceeds, RollbackFails, Active
<1>2. event[l] \in Events /\ current[l] \in Matching[event[l]] /\ current[l] \in Nat
  BY <1>1 DEF TypeInv, ListenerType, AtHandler
<1>3. SetupType' /\ QueueType' /\ LifeType'
  BY <1>1, QueuesStay DEF TypeInv, SetupType, QueueType, LifeType, setup, lifecycle
<1>4. ListenerType' /\ handled' \in [StreamKeys -> Seq(Events)]
  <2>1. CASE HandlerSucceeds(l)
    <3>1. CASE Later(l) = {}
      <4>1. Done(l, event[l], buffer[l])
        BY <2>1, <3>1 DEF HandlerSucceeds
      <4> QED
        BY <1>1, <1>2, <4>1, DoneType
    <3>2. CASE Later(l) # {}
      <4>1. /\ current' = [current EXCEPT ![l] = Min(Later(l))]
            /\ UNCHANGED <<pc, event, emitting, handled>>
        BY <2>1, <3>2 DEF HandlerSucceeds
      <4>2. Min(Later(l)) \in Matching[event[l]] /\ Min(Later(l)) \in Nat
        <5>1. Later(l) \in SUBSET Nat
          BY <1>2, Constants DEF Later
        <5> QED
          BY <3>2, <5>1, HasMin DEF Later
      <4>3. current' \in [Listeners -> Nat]
        BY <4>1, <4>2 DEF TypeInv, ListenerType
      <4>4. \A o \in Listeners : AtHandler(o)'
        BY <1>1, <4>1, <4>2 DEF TypeInv, ListenerType, AtHandler, Active, PartitionOf, setup
      <4> QED
        BY <1>1, <4>1, <4>3, <4>4 DEF TypeInv, ListenerType, HistoryType
    <3> QED
      BY <3>1, <3>2
  <2>2. CASE HandlerFails(l)
    <3>1. StartUndoing(l, current[l])
      BY <2>2 DEF HandlerFails
    <3> QED
      BY <1>1, <1>2, <3>1, StartUndoingType DEF TypeInv, HistoryType
  <2>3. CASE RollbackSucceeds(l) \/ RollbackFails(l)
    <3>1. UndoNext(l)
      BY <2>3 DEF RollbackSucceeds, RollbackFails
    <3> QED
      BY <1>1, <3>1, UndoNextType
  <2> QED
    BY <2>1, <2>2, <2>3
<1>5. /\ effects' \in [Events -> SUBSET Nat]
      /\ \A e \in Events : effects'[e] \subseteq Matching[e]
  <2>1. \/ effects' = effects
        \/ \E now \in SUBSET (effects[event[l]] \union {current[l]}) :
             effects' = [effects EXCEPT ![event[l]] = now]
    <3>1. CASE HandlerSucceeds(l)
      BY <3>1 DEF HandlerSucceeds
    <3>2. CASE HandlerFails(l)
      BY <3>2 DEF HandlerFails
    <3>3. CASE RollbackSucceeds(l)
      BY <3>3 DEF RollbackSucceeds, AfterRollback
    <3>4. CASE RollbackFails(l)
      BY <3>4 DEF RollbackFails
    <3> QED
      BY <3>1, <3>2, <3>3, <3>4
  <2>2. CASE effects' = effects
    BY <2>2 DEF TypeInv, HistoryType
  <2> QED
    BY <1>1, <2>1, <2>2, EffectType
<1>6. /\ stuck' \in [Events -> SUBSET Nat]
      /\ \A e \in Events : stuck'[e] \subseteq Matching[e]
  <2>1. \/ stuck' = stuck
        \/ stuck' = [stuck EXCEPT ![event[l]] = @ \union {current[l]}]
    BY DEF HandlerSucceeds, HandlerFails, RollbackSucceeds, RollbackFails
  <2> QED
    BY <1>2, <2>1 DEF TypeInv, HistoryType
<1>7. HistoryType'
  BY <1>1, <1>4, <1>5, <1>6 DEF TypeInv, HistoryType
<1> QED
  BY <1>3, <1>4, <1>7 DEF TypeInv

LEMMA LifeStepType ==
  ASSUME TypeInv,
         \/ \E l \in Listeners : RollbackPanics(l)
         \/ Listen \/ ListenReturns \/ Cancel \/ Closing
  PROVE  TypeInv'
<1>1. UNCHANGED <<setup, buffer, handling, closed, history>>
  BY DEF RollbackPanics, Listen, ListenReturns, Cancel, Closing, CloseTopic, CloseReturns
<1>2. /\ outgoing' \in [Publishers -> Seq(Events)] /\ pc' \in [Listeners -> Places]
      /\ \A l \in Listeners : Active(l)' => Active(l)
  <2>1. CASE UNCHANGED <<outgoing, pc>>
    BY <2>1 DEF TypeInv, QueueType, ListenerType, Active
  <2>2. CASE \E l \in Listeners : RollbackPanics(l)
    BY <2>2 DEF RollbackPanics, Active, Places
  <2>3. CASE Listen
    BY <2>3 DEF Listen, Active, Places, TypeInv, QueueType
  <2> QED
    BY <2>1, <2>2, <2>3 DEF ListenReturns, Cancel, Closing, CloseTopic, CloseReturns
<1>3. QueueType'
  BY <1>1, <1>2, QueuesStay DEF TypeInv
<1>4. ListenerType'
  BY <1>1, <1>2, ListenersStay DEF TypeInv, ListenerType, handling
<1>5. SetupType' /\ HistoryType'
  BY <1>1 DEF TypeInv, SetupType, HistoryType, setup, history
<1>6. LifeType'
  <2>1. subscribed' = subscribed
    BY <1>1 DEF setup
  <2> QED
    BY <2>1 DEF TypeInv, LifeType, RollbackPanics, Listen, ListenReturns, Cancel, Closing,
                CloseTopic, CloseReturns
<1> QED
  BY <1>3, <1>4, <1>5, <1>6 DEF TypeInv

LEMMA TypeStep ==
  ASSUME TypeInv, [Next]_vars
  PROVE  TypeInv'
<1>1. CASE UNCHANGED vars
  <2>1. /\ UNCHANGED <<setup, buffer, outgoing, pc, handling, closed, lifecycle, history>>
    BY <1>1 DEF vars
  <2>2. QueueType'
    BY <2>1, QueuesStay DEF TypeInv, QueueType
  <2>3. ListenerType'
    BY <2>1, ListenersStay DEF TypeInv, ListenerType, Active, handling
  <2>4. SetupType' /\ LifeType' /\ HistoryType'
    BY <2>1 DEF TypeInv, SetupType, LifeType, HistoryType, setup, lifecycle, history
  <2> QED
    BY <2>2, <2>3, <2>4 DEF TypeInv
<1> QED
  BY <1>1, PublisherType, SeeType, ReceiveType, EmitType, HandlerType, LifeStepType
     DEF Next, Listener

LEMMA TypeInductive == Spec => []TypeInv
  BY TypeInit, TypeStep, PTL DEF Spec

-----------------------------------------------------------------------------
(***************************************************************************)
(* Listen and Close.                                                       *)
(***************************************************************************)
Alive == close # "dead"

\* wg is counted down when Close returns, and only then; by then the listeners
\* of every topic have exited, so that none of them can run again.
WaitGroup ==
  /\ close # "returned" => wg = Cardinality(subscribed)
  /\ close = "returned" => wg = Cardinality(subscribed) - 1 /\ closeSig = subscribed /\ Drained
  /\ listen = "returned" => wg = 0 /\ close = "returned"

\* The goroutines run between Listen and their exit, which they have a reason for.
Goroutines ==
  /\ listen = "new" => \A l \in Listeners : pc[l] = "absent"
  /\ listen = "dead" <=> close = "dead"
  /\ close = "dead" => /\ \A l \in Listeners : pc[l] = "dead"
                       /\ \A p \in Publishers : outgoing[p] = <<>>
  /\ close = "new" => closeSig = {}
  /\ \A l \in Listeners :
       /\ l[1] \notin subscribed => pc[l] \in {"absent", "dead"}
       /\ pc[l] = "exited" => cancelled \/ close # "new"
       /\ closed[l] = TRUE => close # "new"

LifeInv == WaitGroup /\ Goroutines

LEMMA SubscribedTopics ==
  ASSUME TypeInv
  PROVE  /\ Cardinality(subscribed) \in Nat \ {0}
         /\ \E l \in Listeners : l[1] \in subscribed
<1>1. subscribed \subseteq Topics /\ subscribed # {}
  BY ConstantsAssumption DEF TypeInv, SetupType
<1>2. IsFiniteSet(subscribed)
  BY <1>1, ConstantsAssumption, FS_Subset
<1>3. Cardinality(subscribed) \in Nat /\ Cardinality(subscribed) # 0
  BY <1>1, <1>2, FS_CardinalityType, FS_EmptySet
<1>4. PICK t \in subscribed : t \in Topics
  BY <1>1
<1>5. <<t, 1>> \in Listeners
  BY <1>4, Constants DEF Listeners
<1> QED
  BY <1>3, <1>4, <1>5

\* A listener that is at work goes to another place, or exits for a reason.
Moves(l) ==
  /\ pc[l] \in {"waiting", "handling", "undoing"}
  /\ pc' = [pc EXCEPT ![l] = pc'[l]] /\ pc'[l] \in {"waiting", "handling", "undoing", "exited"}
  /\ pc'[l] = "exited" => cancelled \/ closed'[l] = TRUE
  /\ \/ closed' = closed
     \/ l[1] \in closeSig /\ closed' = [closed EXCEPT ![l] = TRUE]
  /\ UNCHANGED <<setup, outgoing, lifecycle>>

LEMMA DoneMoves ==
  ASSUME TypeInv, NEW l \in Listeners, NEW e, NEW rest, Done(l, e, rest),
         pc[l] \in {"waiting", "handling", "undoing"},
         UNCHANGED <<setup, outgoing, closed, lifecycle>>
  PROVE  Moves(l)
<1>1. pc' = [pc EXCEPT ![l] = IF rest = <<>> /\ closed[l] THEN "exited" ELSE "waiting"]
  BY DEF Done
<1>2. pc \in [Listeners -> Places] /\ closed[l] \in BOOLEAN
  BY DEF TypeInv, ListenerType
<1>3. CASE closed[l] = TRUE
  BY <1>1, <1>2, <1>3 DEF Moves
<1>4. CASE closed[l] = FALSE
  BY <1>1, <1>2, <1>4 DEF Moves
<1> QED
  BY <1>2, <1>3, <1>4

LEMMA UndoMoves ==
  ASSUME TypeInv, NEW l \in Listeners, Active(l), UNCHANGED <<setup, outgoing, closed, lifecycle>>,
         UndoNext(l) \/ \E h : StartUndoing(l, h)
  PROVE  Moves(l)
<1>1. CASE \E h : StartUndoing(l, h)
  BY <1>1 DEF StartUndoing, Active, Moves, TypeInv, ListenerType
<1>2. CASE Done(l, event[l], buffer[l])
  BY <1>2, DoneMoves DEF Active
<1> QED
  BY <1>1, <1>2 DEF UndoNext

LEMMA ListenerMoves ==
  ASSUME TypeInv, NEW l \in Listeners, Listener(l), ~Emit(l), ~RollbackPanics(l)
  PROVE  Moves(l)
<1>1. CASE SeeCancelled(l)
  BY <1>1 DEF SeeCancelled, Moves, TypeInv, ListenerType
<1>2. CASE SeeClosed(l)
  BY <1>2 DEF SeeClosed, Moves, TypeInv, ListenerType
<1>3. CASE Receive(l)
  <2>1. CASE \E e, rest : Done(l, e, rest)
    BY <1>3, <2>1, DoneMoves DEF Receive
  <2>2. CASE pc' = [pc EXCEPT ![l] = "handling"]
    BY <1>3, <2>2 DEF Receive, Moves, TypeInv, ListenerType
  <2> QED
    BY <1>3, <2>1, <2>2 DEF Receive
<1>4. CASE HandlerSucceeds(l)
  <2>1. CASE Done(l, event[l], buffer[l])
    BY <1>4, <2>1, DoneMoves DEF HandlerSucceeds
  <2>2. CASE pc' = pc
    BY <1>4, <2>2 DEF HandlerSucceeds, Moves, TypeInv, ListenerType
  <2> QED
    BY <1>4, <2>1, <2>2 DEF HandlerSucceeds
<1>5. CASE HandlerFails(l)
  BY <1>5, UndoMoves DEF HandlerFails, Active
<1>6. CASE RollbackSucceeds(l) \/ RollbackFails(l)
  BY <1>6, UndoMoves DEF RollbackSucceeds, RollbackFails, Active
<1> QED
  BY <1>1, <1>2, <1>3, <1>4, <1>5, <1>6 DEF Listener

LEMMA LifeInit == Init => LifeInv
<1> SUFFICES ASSUME Init PROVE LifeInv
  OBVIOUS
<1> QED
  BY DEF Init, LifeInv, WaitGroup, Goroutines

\* Neither publishers nor handlers that publish come and go.
LEMMA LifeStays ==
  ASSUME TypeInv, LifeInv, UNCHANGED <<setup, pc, closed, lifecycle>>,
         \A p \in Publishers : outgoing[p] = <<>> => outgoing'[p] = <<>>
  PROVE  LifeInv'
BY DEF LifeInv, WaitGroup, Goroutines, Drained, setup, lifecycle

LEMMA LifeMoves ==
  ASSUME TypeInv, LifeInv, NEW l \in Listeners, Moves(l)
  PROVE  LifeInv'
<1>1. /\ pc[l] \in {"waiting", "handling", "undoing"} /\ l[1] \in subscribed /\ close # "dead"
      /\ pc' = [pc EXCEPT ![l] = pc'[l]] /\ pc'[l] \in {"waiting", "handling", "undoing", "exited"}
      /\ pc \in [Listeners -> Places]
      /\ UNCHANGED <<subscribed, outgoing, closeSig, cancelled, wg, listen, close>>
  BY DEF Moves, LifeInv, Goroutines, setup, lifecycle, TypeInv, ListenerType
<1>2. close # "returned"
  BY <1>1 DEF LifeInv, WaitGroup, Drained
<1>3. WaitGroup'
  BY <1>1, <1>2 DEF LifeInv, WaitGroup
<1>4. ASSUME NEW o \in Listeners
      PROVE  closed'[o] = TRUE => close # "new"
  <2>1. closed \in [Listeners -> BOOLEAN]
    BY DEF TypeInv, ListenerType
  <2>2. closed'[o] = closed[o] \/ closeSig # {}
    BY <2>1 DEF Moves
  <2> QED
    BY <2>2 DEF LifeInv, Goroutines
<1>5. ASSUME NEW o \in Listeners
      PROVE  /\ o[1] \notin subscribed => pc'[o] \in {"absent", "dead"}
             /\ pc'[o] = "exited" => cancelled \/ close # "new"
  <2>1. CASE o = l
    BY <1>1, <1>4, <2>1 DEF Moves
  <2>2. CASE o # l
    BY <1>1, <2>2 DEF LifeInv, Goroutines
  <2> QED
    BY <2>1, <2>2
<1>6. listen # "new"
  BY <1>1 DEF LifeInv, Goroutines
<1>7. Goroutines'
  BY <1>1, <1>4, <1>5, <1>6 DEF LifeInv, Goroutines
<1> QED
  BY <1>3, <1>7 DEF LifeInv

LEMMA LifeStep ==
  ASSUME TypeInv, LifeInv, [Next]_vars
  PROVE  LifeInv'
<1>1. CASE \E p \in Publishers : Publishing(p)
  <2>1. PICK p \in Publishers : Publishing(p)
    BY <1>1
  <2>2. /\ UNCHANGED <<setup, pc, closed, lifecycle>> /\ outgoing[p] # <<>>
        /\ \/ outgoing' = [outgoing EXCEPT ![p] = Tail(@)]
           \/ outgoing' = [outgoing EXCEPT ![p] = <<>>]
    BY <2>1 DEF Publishing, Publish, PublishUnknown
  <2>3. \A o \in Publishers : outgoing[o] = <<>> => outgoing'[o] = <<>>
    BY <2>2 DEF TypeInv, QueueType
  <2> QED
    BY <2>2, <2>3, LifeStays
<1>2. CASE \E l \in Listeners : Emit(l)
  BY <1>2, LifeStays DEF Emit
<1>3. CASE \E l \in Listeners : Listener(l) /\ ~Emit(l) /\ ~RollbackPanics(l)
  BY <1>3, ListenerMoves, LifeMoves
<1>4. CASE \E l \in Listeners : RollbackPanics(l)
  <2>1. PICK l \in Listeners : RollbackPanics(l)
    BY <1>4
  <2>2. /\ pc[l] = "undoing" /\ pc' = [o \in Listeners |-> "dead"]
        /\ outgoing' = [p \in Publishers |-> <<>>] /\ listen' = "dead" /\ close' = "dead"
        /\ UNCHANGED <<subscribed, closed, closeSig, cancelled, wg>>
    BY <2>1 DEF RollbackPanics, setup
  <2>3. l[1] \in subscribed
    BY <2>2 DEF LifeInv, Goroutines
  <2>4. close # "returned"
    BY <2>2, <2>3 DEF LifeInv, WaitGroup, Drained
  <2> QED
    BY <2>2, <2>4 DEF LifeInv, WaitGroup, Goroutines
<1>5. CASE Listen
  <2>1. /\ listen = "new" /\ listen' = "waiting"
        /\ pc' = [l \in Listeners |-> IF l[1] \in subscribed THEN "waiting" ELSE "absent"]
        /\ UNCHANGED <<subscribed, outgoing, closed, closeSig, cancelled, wg, close>>
    BY <1>5 DEF Listen, setup
  <2>2. close # "returned" /\ close # "dead"
    BY <2>1, SubscribedTopics DEF LifeInv, WaitGroup, Goroutines, Drained
  <2> QED
    BY <2>1, <2>2 DEF LifeInv, WaitGroup, Goroutines
<1>6. CASE ListenReturns
  <2>1. close = "returned"
    BY <1>6, SubscribedTopics DEF ListenReturns, LifeInv, WaitGroup
  <2> QED
    BY <1>6, <2>1 DEF ListenReturns, LifeInv, WaitGroup, Goroutines, Drained, setup
<1>7. CASE Cancel
  BY <1>7 DEF Cancel, LifeInv, WaitGroup, Goroutines, Drained, setup
<1>8. CASE \E t \in Topics : CloseTopic(t)
  <2>1. /\ close' = "closing" /\ subscribed # closeSig /\ close # "dead"
        /\ UNCHANGED <<subscribed, outgoing, pc, closed, cancelled, wg, listen>>
    BY <1>8 DEF CloseTopic, setup
  <2>2. close # "returned"
    BY <2>1 DEF LifeInv, WaitGroup
  <2> QED
    BY <2>1, <2>2 DEF LifeInv, WaitGroup, Goroutines
<1>9. CASE CloseReturns
  <2>1. /\ close = "closing" /\ close' = "returned" /\ wg' = wg - 1
        /\ closeSig = subscribed /\ Drained
        /\ UNCHANGED <<subscribed, outgoing, pc, closed, closeSig, cancelled, listen>>
    BY <1>9 DEF CloseReturns, setup
  <2>2. WaitGroup'
    BY <2>1 DEF LifeInv, WaitGroup, Drained
  <2>3. Goroutines'
    BY <2>1 DEF LifeInv, Goroutines
  <2> QED
    BY <2>2, <2>3 DEF LifeInv
<1>10. CASE UNCHANGED vars
  BY <1>10, LifeStays DEF vars
<1> QED
  BY <1>1, <1>2, <1>3, <1>4, <1>5, <1>6, <1>7, <1>8, <1>9, <1>10 DEF Next, Listener, Closing

LEMMA LifeInductive == Spec => [](TypeInv /\ LifeInv)
  BY TypeInit, TypeStep, LifeInit, LifeStep, PTL DEF Spec

\* Every variable keeps its type: a partition never holds more than an event,
\* and wg never goes below zero, however many topics Close has to close.
THEOREM TypeCorrect == Spec => []TypeOK
<1>1. ASSUME TypeInv, LifeInv PROVE TypeOK
  <2>1. buffer \in [Listeners -> BoundedSeq(Events, 1)]
    <3>1. ASSUME NEW l \in Listeners PROVE buffer[l] \in BoundedSeq(Events, 1)
      <4>1. <<>> \in [1..0 -> Events] /\ \A e \in Events : <<e>> \in [1..1 -> Events]
        OBVIOUS
      <4>2. buffer[l] \in [1..0 -> Events] \/ buffer[l] \in [1..1 -> Events]
        BY <1>1, <4>1 DEF TypeInv, QueueType, OneEvent
      <4>3. 0 \in 0..1 /\ 1 \in 0..1
        OBVIOUS
      <4> QED
        BY <4>2, <4>3, Zenon DEF BoundedSeq, SeqOf
    <3> QED
      BY <1>1, <3>1 DEF TypeInv, QueueType
  <2>2. wg \in Nat
    BY <1>1, SubscribedTopics DEF LifeInv, WaitGroup
  <2>3. pc \in [Listeners -> Places]
    BY <1>1 DEF TypeInv, ListenerType
  <2>4. \A e \in Events : effects[e] \union stuck[e] \subseteq Matching[e]
    BY <1>1 DEF TypeInv, HistoryType
  <2> QED
    BY <1>1, <2>1, <2>2, <2>3, <2>4
       DEF TypeOK, TypeInv, SetupType, QueueType, ListenerType, LifeType, HistoryType, Places
<1> QED
  BY <1>1, LifeInductive, PTL

\* When Listen returns, Close has, and the listeners of all topics have exited:
\* Close waits for them (channel.close) before it counts wg down.
THEOREM ListenReturnsLast == Spec => []ListenOutlastsListeners
<1>1. ASSUME TypeInv, LifeInv PROVE ListenOutlastsListeners
  <2> SUFFICES ASSUME listen = "returned" PROVE ListenOutlastsListeners
    BY DEF ListenOutlastsListeners
  <2>1. close = "returned" /\ closeSig = subscribed /\ Drained
    BY <1>1 DEF LifeInv, WaitGroup
  <2> QED
    BY <2>1 DEF ListenOutlastsListeners, Drained
<1> QED
  BY <1>1, LifeInductive, PTL

-----------------------------------------------------------------------------
(***************************************************************************)
(* Where an event is that a partition accepted before Close: done with,    *)
(* with a listener, or in the partition of a listener that still runs.     *)
(***************************************************************************)
Pending(e) ==
  \/ e \in Handled
  \/ \E l \in Listeners : Active(l) /\ event[l] = e
  \/ \E l \in Listeners : pc[l] # "exited" /\ buffer[l] = <<e>>

DrainInv == ~cancelled /\ Alive => \A e \in promised : Pending(e)

LEMMA HandledElement ==
  ASSUME NEW d
  PROVE  d \in Handled <=> \E k \in StreamKeys : \E i \in DOMAIN handled[k] : handled[k][i] = d
BY DEF Handled, Range

\* The end of an event puts it at the end of what was handled.
LEMMA DoneStep ==
  ASSUME TypeInv, NEW l \in Listeners, NEW e \in Events, NEW rest, Done(l, e, rest)
  PROVE  /\ pc'[l] \in {"waiting", "exited"} /\ (pc'[l] = "exited" => rest = <<>>)
         /\ \A o \in Listeners \ {l} : /\ pc'[o] = pc[o] /\ event'[o] = event[o]
                                       /\ emitting'[o] = emitting[o] /\ current'[o] = current[o]
         /\ Handled' = Handled \union {e}
         /\ handled' = [handled EXCEPT ![StreamOf(e)] = Append(@, e)]
<1>1. /\ pc' = [pc EXCEPT ![l] = IF rest = <<>> /\ closed[l] THEN "exited" ELSE "waiting"]
      /\ handled' = [handled EXCEPT ![StreamOf(e)] = Append(@, e)]
      /\ event' = [event EXCEPT ![l] = NoEvent] /\ emitting' = [emitting EXCEPT ![l] = <<>>]
      /\ current' = [current EXCEPT ![l] = 0]
  BY DEF Done, Forget
<1>2. /\ pc \in [Listeners -> Places] /\ closed[l] \in BOOLEAN
      /\ event \in [Listeners -> Events] /\ emitting \in [Listeners -> Seq(Events)]
      /\ current \in [Listeners -> Nat]
  BY DEF TypeInv, ListenerType
<1>3. pc'[l] \in {"waiting", "exited"} /\ (pc'[l] = "exited" => rest = <<>>)
  BY <1>1, <1>2, Zenon
<1>4. \A o \in Listeners \ {l} : /\ pc'[o] = pc[o] /\ event'[o] = event[o]
                                 /\ emitting'[o] = emitting[o] /\ current'[o] = current[o]
  BY <1>1, <1>2
<1>5. Handled' = Handled \union {e}
  <2> DEFINE s == StreamOf(e)
  <2>1. s \in StreamKeys /\ handled \in [StreamKeys -> Seq(Events)] /\ handled[s] \in Seq(Events)
    BY Constants DEF TypeInv, HistoryType
  <2>2. handled'[s] = Append(handled[s], e) /\ \A k \in StreamKeys \ {s} : handled'[k] = handled[k]
    BY <1>1, <2>1
  <2> HIDE DEF s
  <2>3. Range(handled'[s]) = Range(handled[s]) \union {e}
    <3>1. /\ DOMAIN handled[s] = 1..Len(handled[s]) /\ Len(handled[s]) \in Nat
          /\ DOMAIN handled'[s] = 1..(Len(handled[s]) + 1) /\ handled'[s][Len(handled[s]) + 1] = e
          /\ \A i \in DOMAIN handled[s] : handled'[s][i] = handled[s][i]
      BY <2>1, <2>2, AppendOne
    <3> QED
      BY <3>1 DEF Range
  <2>4. \A k \in StreamKeys : Range(handled'[k]) = IF k = s THEN Range(handled[s]) \union {e}
                                                          ELSE Range(handled[k])
    BY <2>2, <2>3
  <2> QED
    BY <2>1, <2>4 DEF Handled
<1> QED
  BY <1>1, <1>3, <1>4, <1>5

\* The listener is still at the same event.
Continues(l) ==
  /\ pc' = [pc EXCEPT ![l] = pc'[l]] /\ pc'[l] \in {"handling", "undoing"}
  /\ UNCHANGED <<event, handled>>

LEMMA HandlerOutcome ==
  ASSUME TypeInv, NEW l \in Listeners,
         HandlerSucceeds(l) \/ HandlerFails(l) \/ RollbackSucceeds(l) \/ RollbackFails(l)
  PROVE  /\ Active(l) /\ UNCHANGED <<setup, buffer, outgoing, closed, lifecycle, promised>>
         /\ Done(l, event[l], buffer[l]) \/ Continues(l)
<1> USE DEF Active, Continues, StartUndoing, TypeInv, ListenerType
<1>1. CASE HandlerSucceeds(l)
  BY <1>1 DEF HandlerSucceeds
<1>2. CASE HandlerFails(l)
  BY <1>2 DEF HandlerFails
<1>3. CASE RollbackSucceeds(l) \/ RollbackFails(l)
  BY <1>3 DEF RollbackSucceeds, RollbackFails, UndoNext
<1> QED
  BY <1>1, <1>2, <1>3

LEMMA HandledStays == handled' = handled => Handled' = Handled
BY DEF Handled

\* A partition accepts an event, before Close only when its listener runs.
LEMMA DrainSend ==
  ASSUME TypeInv, LifeInv, DrainInv, NEW e \in Events, Send(e),
         UNCHANGED <<pc, event, handled, cancelled, close>>
  PROVE  DrainInv'
<1> DEFINE to == PartitionOf(e)
<1>1. /\ to \in Listeners /\ buffer[to] = <<>> /\ buffer' = [buffer EXCEPT ![to] = <<e>>]
      /\ promised' = IF close = "new" THEN promised \union {e} ELSE promised
  BY SendStep
<1>2. buffer \in [Listeners -> Seq(Events)] /\ Handled' = Handled
  BY HandledStays DEF TypeInv, QueueType
<1> HIDE DEF to
<1>3. ASSUME NEW d, Pending(d) PROVE Pending(d)'
  <2>1. \A l \in Listeners : buffer[l] = <<d>> => buffer'[l] = <<d>>
    BY <1>1, <1>2
  <2> QED
    BY <1>2, <1>3, <2>1 DEF Pending, Active
<1>4. ASSUME close = "new", ~cancelled PROVE Pending(e)'
  <2>1. pc[to] # "exited" /\ buffer'[to] = <<e>>
    BY <1>1, <1>2, <1>4 DEF LifeInv, Goroutines
  <2> QED
    BY <1>1, <2>1 DEF Pending
<1> QED
  BY <1>1, <1>3, <1>4 DEF DrainInv, Alive

\* A listener takes what it is done with to what was handled.
LEMMA DrainListener ==
  ASSUME TypeInv, LifeInv, DrainInv, NEW l \in Listeners,
         Listener(l), ~Emit(l), ~RollbackPanics(l)
  PROVE  DrainInv'
<1>1. UNCHANGED <<close, promised>> /\ cancelled' = cancelled /\ pc \in [Listeners -> Places]
      /\ buffer \in [Listeners -> Seq(Events)] /\ event \in [Listeners -> Events]
  BY DEF Listener, SeeCancelled, SeeClosed, Receive, HandlerSucceeds, HandlerFails,
         RollbackSucceeds, RollbackFails, lifecycle, history, TypeInv, ListenerType, QueueType
<1>2. SUFFICES ASSUME ~cancelled, NEW d, Pending(d) PROVE Pending(d)'
  BY <1>1 DEF DrainInv, Alive
<1>3. CASE SeeCancelled(l)
  BY <1>2, <1>3 DEF SeeCancelled
<1>4. CASE SeeClosed(l)
  <2>1. /\ pc[l] = "waiting"
        /\ pc' = [pc EXCEPT ![l] = IF buffer[l] = <<>> THEN "exited" ELSE "waiting"]
        /\ UNCHANGED <<buffer, event, handled>>
    BY <1>4 DEF SeeClosed, handling, history
  <2>2. \A o \in Listeners : /\ Active(o) => Active(o)'
                             /\ pc[o] # "exited" /\ buffer[o] = <<d>> => pc'[o] # "exited"
    BY <1>1, <2>1, OneElement DEF Active
  <2> QED
    BY <1>2, <2>1, <2>2, HandledStays DEF Pending
<1>5. CASE Receive(l)
  <2>1. PICK e \in Events : /\ buffer[l] = <<e>> /\ buffer' = [buffer EXCEPT ![l] = <<>>]
                            /\ Head(buffer[l]) = e /\ Tail(buffer[l]) = <<>>
    <3>1. buffer[l] # <<>> /\ buffer' = [buffer EXCEPT ![l] = Tail(@)]
      BY <1>5 DEF Receive
    <3>2. PICK e \in Events : buffer[l] = <<e>>
      BY <3>1 DEF TypeInv, QueueType, OneEvent
    <3>3. Head(buffer[l]) = e /\ Tail(buffer[l]) = <<>>
      BY <3>2, OneElement
    <3> QED
      BY <1>1, <3>1, <3>2, <3>3
  <2>2. /\ pc[l] = "waiting"
        /\ \/ Done(l, e, <<>>)
           \/ /\ pc' = [pc EXCEPT ![l] = "handling"] /\ event' = [event EXCEPT ![l] = e]
              /\ handled' = handled
    BY <1>5, <2>1 DEF Receive
  <2>3. Handled \subseteq Handled' /\ Pending(e)'
    <3>1. CASE Done(l, e, <<>>)
      <4>1. Handled' = Handled \union {e}
        BY <3>1, DoneStep
      <4> QED
        BY <4>1 DEF Pending
    <3>2. CASE ~Done(l, e, <<>>)
      <4>1. pc'[l] = "handling" /\ event'[l] = e /\ Handled' = Handled
        BY <1>1, <2>2, <3>2, HandledStays
      <4> QED
        BY <4>1 DEF Pending, Active
    <3> QED
      BY <3>1, <3>2
  <2>4. \A o \in Listeners \ {l} : pc'[o] = pc[o] /\ event'[o] = event[o] /\ buffer'[o] = buffer[o]
    <3>1. CASE Done(l, e, <<>>)
      BY <1>1, <2>1, <3>1, DoneStep
    <3>2. CASE ~Done(l, e, <<>>)
      BY <1>1, <2>1, <2>2, <3>2
    <3> QED
      BY <3>1, <3>2
  <2>5. <<d>> = <<e>> => d = e
    OBVIOUS
  <2>6. CASE d = e
    BY <2>3, <2>6
  <2>7. CASE d # e
    BY <1>2, <2>1, <2>2, <2>3, <2>4, <2>5, <2>7 DEF Pending, Active
  <2> QED
    BY <2>6, <2>7
<1>6. CASE HandlerSucceeds(l) \/ HandlerFails(l) \/ RollbackSucceeds(l) \/ RollbackFails(l)
  <2>1. Active(l) /\ buffer' = buffer /\ (Done(l, event[l], buffer[l]) \/ Continues(l))
    BY <1>6, HandlerOutcome
  <2>2. CASE Done(l, event[l], buffer[l])
    <3>1. /\ pc'[l] \in {"waiting", "exited"} /\ (pc'[l] = "exited" => buffer[l] = <<>>)
          /\ \A o \in Listeners \ {l} : pc'[o] = pc[o] /\ event'[o] = event[o]
          /\ Handled' = Handled \union {event[l]}
      BY <1>1, <2>2, DoneStep
    <3>2. <<>> # <<d>>
      OBVIOUS
    <3> QED
      BY <1>2, <2>1, <3>1, <3>2 DEF Pending, Active
  <2>3. CASE Continues(l)
    <3>1. /\ event' = event /\ Handled' = Handled /\ pc'[l] \in {"handling", "undoing"}
          /\ \A o \in Listeners \ {l} : pc'[o] = pc[o]
      BY <1>1, <2>3, HandledStays DEF Continues
    <3> QED
      BY <1>2, <2>1, <3>1 DEF Pending, Active
  <2> QED
    BY <2>1, <2>2, <2>3
<1> QED
  BY <1>3, <1>4, <1>5, <1>6 DEF Listener

LEMMA DrainInit == Init => DrainInv
BY DEF Init, DrainInv

LEMMA DrainStays ==
  ASSUME DrainInv, UNCHANGED <<event, buffer, handled, promised>>,
         cancelled' = FALSE => cancelled = FALSE, Alive' => Alive,
         \A l \in Listeners : /\ Active(l) => Active(l)'
                              /\ pc[l] # "exited" => pc'[l] # "exited"
  PROVE  cancelled' = FALSE => DrainInv'
<1> SUFFICES ASSUME cancelled' = FALSE, Alive', NEW e \in promised PROVE Pending(e)'
  BY DEF DrainInv
<1>1. Pending(e)
  BY DEF DrainInv
<1>2. Handled' = Handled /\ buffer' = buffer /\ event' = event
  BY HandledStays
<1>3. CASE e \in Handled
  BY <1>2, <1>3 DEF Pending
<1>4. CASE \E l \in Listeners : Active(l) /\ event[l] = e
  BY <1>2, <1>4 DEF Pending, Active
<1>5. CASE \E l \in Listeners : pc[l] # "exited" /\ buffer[l] = <<e>>
  BY <1>2, <1>5 DEF Pending, Active
<1> QED
  BY <1>1, <1>3, <1>4, <1>5 DEF Pending

LEMMA DrainStep ==
  ASSUME TypeInv, LifeInv, DrainInv, [Next]_vars
  PROVE  DrainInv'
<1>1. CASE \E p \in Publishers : Publish(p)
  <2>1. PICK p \in Publishers : Publish(p)
    BY <1>1
  <2>2. Head(outgoing[p]) \in Events
    BY <2>1, HeadAndTail DEF Publish, TypeInv, QueueType
  <2> QED
    BY <2>1, <2>2, DrainSend DEF Publish, handling, lifecycle
<1>2. CASE \E l \in Listeners : Emit(l)
  <2>1. PICK l \in Listeners : Emit(l)
    BY <1>2
  <2>2. Head(emitting[l]) \in Events
    BY <2>1, HeadAndTail DEF Emit, TypeInv, ListenerType
  <2> QED
    BY <2>1, <2>2, DrainSend DEF Emit, lifecycle
<1>3. CASE \E l \in Listeners : Listener(l) /\ ~Emit(l) /\ ~RollbackPanics(l)
  BY <1>3, DrainListener
<1>4. CASE \E l \in Listeners : RollbackPanics(l)
  BY <1>4 DEF RollbackPanics, DrainInv, Alive
<1>5. CASE Cancel
  BY <1>5 DEF Cancel, DrainInv
<1>6. CASE \/ \E p \in Publishers : PublishUnknown(p)
           \/ Listen \/ ListenReturns \/ Closing \/ UNCHANGED vars
  <2>1. UNCHANGED <<event, buffer, handled, promised, cancelled>>
    BY <1>6 DEF PublishUnknown, Listen, ListenReturns, Closing, CloseTopic, CloseReturns, vars,
                handling, lifecycle, history
  <2>2. Alive' => Alive
    BY <1>6 DEF PublishUnknown, Listen, ListenReturns, Closing, CloseTopic, CloseReturns, vars,
                lifecycle, Alive
  <2>3. \A l \in Listeners : /\ Active(l) => Active(l)'
                             /\ pc[l] # "exited" => pc'[l] # "exited"
    <3>1. CASE pc' = pc
      BY <3>1 DEF Active
    <3>2. CASE Listen
      BY <3>2 DEF Listen, Active, LifeInv, Goroutines
    <3> QED
      BY <1>6, <3>1, <3>2 DEF PublishUnknown, ListenReturns, Closing, CloseTopic, CloseReturns, vars
  <2>4. cancelled \in BOOLEAN
    BY DEF TypeInv, LifeType
  <2>5. CASE cancelled = TRUE
    BY <2>1, <2>5 DEF DrainInv
  <2>6. CASE cancelled = FALSE
    BY <2>1, <2>2, <2>3, <2>6, DrainStays
  <2> QED
    BY <2>4, <2>5, <2>6
<1> QED
  BY <1>1, <1>2, <1>3, <1>4, <1>5, <1>6 DEF Next, Publishing, Listener

LEMMA DrainInductive == Spec => [](TypeInv /\ LifeInv /\ DrainInv)
  BY TypeInit, TypeStep, LifeInit, LifeStep, DrainInit, DrainStep, PTL DEF Spec

\* Close loses nothing: when it returns, every event that was accepted before
\* it was called has been handled, unless the context was cancelled.
THEOREM CloseDrains == Spec => []DrainedOnClose
<1>1. ASSUME TypeInv, LifeInv, DrainInv PROVE DrainedOnClose
  <2> SUFFICES ASSUME close = "returned", ~cancelled, NEW e \in promised PROVE e \in Handled
    BY DEF DrainedOnClose
  <2>1. Pending(e)
    BY <1>1 DEF DrainInv, Alive
  <2>2. \A l \in Listeners : l[1] \in subscribed => pc[l] = "exited"
    BY <1>1 DEF LifeInv, WaitGroup, Drained
  <2>3. ASSUME NEW l \in Listeners, Active(l) PROVE FALSE
    BY <1>1, <2>2, <2>3 DEF LifeInv, Goroutines, Active
  <2>4. ASSUME NEW l \in Listeners, pc[l] # "exited", buffer[l] = <<e>> PROVE FALSE
    <3>1. PICK d \in Events : buffer[l] = <<d>> /\ PartitionOf(d) = l /\ d.topic \in subscribed
      <4>1. <<e>> # <<>>
        OBVIOUS
      <4> QED
        BY <1>1, <2>4, <4>1 DEF TypeInv, QueueType, OneEvent
    <3>2. l[1] = d.topic
      BY <3>1 DEF PartitionOf
    <3> QED
      BY <2>2, <2>4, <3>1, <3>2
  <2> QED
    BY <2>1, <2>3, <2>4 DEF Pending
<1> QED
  BY <1>1, DrainInductive, PTL

-----------------------------------------------------------------------------
(***************************************************************************)
(* The order of events.  It rests on what the partitions of a topic are    *)
(* for: the events of a stream go through the hands of one listener.  The  *)
(* numbers say in which order a goroutine publishes its events; a Rollback *)
(* that calls Handle would have the handler publish them again.            *)
(***************************************************************************)
NoneHandlesAgain ==
  \A r \in Rollbacks, e \in Events : Emits[e] # <<>> => r[Min(Matching[e])] # "handles"

\* The events that a listener has received, and those a partition has accepted
Taken == {e \in Events : e \in Handled \/ \E l \in Listeners : Active(l) /\ event[l] = e}

Sent == Taken \union {e \in Events : \E l \in Listeners : buffer[l] = <<e>>}

After(S, e) == \A d \in S : d.by = e.by /\ StreamOf(d) = StreamOf(e) => d.n < e.n

Cause(e, d) == \E i \in DOMAIN Emits[e] : Emits[e][i].by = d.by

Rising(s) == \A i, j \in DOMAIN s : i < j => s[i].n < s[j].n

\* What is still to be published comes after all that was sent; what a partition
\* holds, after all that was received; what is being handled, after all that was
\* handled.  And a handler has published nothing before its event is received.
PublisherOrder ==
  \A p \in Publishers :
    /\ \A i \in DOMAIN outgoing[p] : outgoing[p][i].by = p /\ After(Sent, outgoing[p][i])
    /\ Rising(outgoing[p])

EmitterOrder ==
  \A l \in Listeners : Active(l) =>
    /\ \A i \in DOMAIN emitting[l] : /\ Cause(event[l], emitting[l][i])
                                     /\ After(Sent, emitting[l][i])
    /\ Rising(emitting[l])
    /\ pc[l] = "undoing" => emitting[l] = <<>>

ListenerOrder == \A l \in Listeners : Active(l) => After(Handled, event[l])

PartitionOrder ==
  \A l \in Listeners : \A e \in Events : buffer[l] = <<e>> => After(Taken, e)

CauseOrder == \A e \in Events, d \in Sent : Cause(e, d) => e \in Taken

OwnStream ==
  \A k \in StreamKeys : \A i \in DOMAIN handled[k] : StreamOf(handled[k][i]) = k

OrderInv ==
  /\ OwnStream /\ HandledInOrder
  /\ Alive => /\ PublisherOrder /\ EmitterOrder /\ ListenerOrder
              /\ PartitionOrder /\ CauseOrder

LEMMA Causes ==
  ASSUME NEW d, NEW e \in Events, Cause(e, d)
  PROVE  /\ d.by \notin Publishers
         /\ \A f \in Events : Cause(f, d) => f = e
BY EventsAreNumbered DEF Cause

LEMMA HandledAreEvents ==
  ASSUME TypeInv
  PROVE  Handled \subseteq Taken /\ Taken \subseteq Sent /\ Sent \subseteq Events
<1>1. ASSUME NEW d \in Handled PROVE d \in Events
  <2>1. PICK k \in StreamKeys : \E i \in DOMAIN handled[k] : handled[k][i] = d
    BY HandledElement
  <2>2. PICK i \in DOMAIN handled[k] : handled[k][i] = d
    BY <2>1
  <2>3. handled[k] \in Seq(Events)
    BY DEF TypeInv, HistoryType
  <2> QED
    BY <2>2, <2>3
<1> QED
  BY <1>1 DEF Taken, Sent

\* An event whose partition holds it, or whose listener handles it, was never
\* received, or handled, before.
LEMMA FirstTime ==
  ASSUME TypeInv, OrderInv, Alive, NEW l \in Listeners
  PROVE  /\ \A e \in Events : buffer[l] = <<e>> => e \notin Taken
         /\ Active(l) => event[l] \notin Handled
<1>1. \A e \in Events : ~(e.n < e.n)
  BY EventsAreNumbered
<1>2. event[l] \in Events
  BY DEF TypeInv, ListenerType
<1> QED
  BY <1>1, <1>2 DEF OrderInv, PartitionOrder, ListenerOrder, After

\* Events of one stream have one listener.
LEMMA OneListener ==
  ASSUME TypeInv, NEW l \in Listeners, NEW e \in Events, PartitionOf(e) = l,
         NEW o \in Listeners \ {l}
  PROVE  /\ Active(o) => StreamOf(event[o]) # StreamOf(e)
         /\ \A d \in Events : buffer[o] = <<d>> => StreamOf(d) # StreamOf(e)
<1>1. ASSUME NEW d \in Events, PartitionOf(d) = o PROVE StreamOf(d) # StreamOf(e)
  BY <1>1 DEF PartitionOf, StreamOf
<1>2. Active(o) => event[o] \in Events /\ PartitionOf(event[o]) = o
  BY DEF TypeInv, ListenerType, AtHandler
<1>3. ASSUME NEW d \in Events, buffer[o] = <<d>> PROVE PartitionOf(d) = o
  <2>1. PICK f \in Events : buffer[o] = <<f>> /\ PartitionOf(f) = o
    BY <1>3, OneElement DEF TypeInv, QueueType, OneEvent
  <2>2. d = f
    BY <1>3, <2>1, OneElement
  <2> QED
    BY <2>1, <2>2
<1> QED
  BY <1>1, <1>2, <1>3

LEMMA OrderInit == Init => OrderInv
<1> SUFFICES ASSUME Init PROVE OrderInv
  OBVIOUS
<1>1. \A k \in StreamKeys : handled[k] = <<>>
  BY DEF Init
<1>2. OwnStream /\ HandledInOrder /\ Handled = {}
  BY <1>1 DEF OwnStream, HandledInOrder, Handled, Range
<1>3. \A l \in Listeners : ~Active(l) /\ buffer[l] = <<>>
  BY DEF Init, Active
<1>4. Taken = {} /\ Sent = {}
  <2>1. \A e : <<>> # <<e>>
    OBVIOUS
  <2> QED
    BY <1>2, <1>3, <2>1 DEF Taken, Sent
<1>5. PublisherOrder
  BY <1>4, EventsAreNumbered DEF Init, PublisherOrder, After, Rising
<1>6. EmitterOrder /\ ListenerOrder /\ PartitionOrder /\ CauseOrder
  BY <1>2, <1>3, <1>4 DEF EmitterOrder, ListenerOrder, PartitionOrder, CauseOrder, After
<1> QED
  BY <1>2, <1>5, <1>6 DEF OrderInv

LEMMA RisingTail ==
  ASSUME NEW S, NEW s \in Seq(S), s # <<>>, Rising(s)
  PROVE  Rising(Tail(s))
<1> SUFFICES ASSUME NEW i \in DOMAIN Tail(s), NEW j \in DOMAIN Tail(s), i < j
             PROVE  Tail(s)[i].n < Tail(s)[j].n
  BY DEF Rising
<1>1. /\ Tail(s)[i] = s[i + 1] /\ i + 1 \in DOMAIN s /\ i \in Nat
      /\ Tail(s)[j] = s[j + 1] /\ j + 1 \in DOMAIN s /\ j \in Nat
  BY HeadAndTail
<1>2. i + 1 < j + 1
  BY <1>1
<1> QED
  BY <1>1, <1>2 DEF Rising

\* An event is sent: it follows what its partition's listener has received.
LEMMA OrderSend ==
  ASSUME TypeInv, OrderInv, Alive, NEW e \in Events, Send(e), After(Sent, e),
         UNCHANGED <<pc, event, handled>>
  PROVE  /\ Handled' = Handled /\ Taken' = Taken /\ Sent' = Sent \union {e}
         /\ OwnStream' /\ HandledInOrder' /\ ListenerOrder' /\ PartitionOrder'
<1>1. PICK to \in Listeners : buffer[to] = <<>> /\ buffer' = [buffer EXCEPT ![to] = <<e>>]
  BY SendStep
<1>2. buffer \in [Listeners -> Seq(Events)] /\ \A d : <<>> # <<d>> /\ (<<d>> = <<e>> => d = e)
  BY OneElement DEF TypeInv, QueueType
<1>3. Handled' = Handled /\ \A l \in Listeners : Active(l)' <=> Active(l)
  BY HandledStays DEF Active
<1>4. Taken' = Taken
  BY <1>3 DEF Taken
<1>5. /\ buffer'[to] = <<e>>
      /\ \A l \in Listeners \ {to} : buffer'[l] = buffer[l]
  BY <1>1, <1>2
<1>6. Sent' = Sent \union {e}
  BY <1>1, <1>2, <1>4, <1>5 DEF Sent
<1>7. OwnStream' /\ HandledInOrder'
  BY DEF OrderInv, OwnStream, HandledInOrder
<1>8. ListenerOrder'
  BY <1>3 DEF OrderInv, ListenerOrder, After, Active
<1>9. PartitionOrder'
  <2> SUFFICES ASSUME NEW l \in Listeners, NEW d \in Events, buffer'[l] = <<d>>
               PROVE  After(Taken, d)
    BY <1>4 DEF PartitionOrder, After
  <2>1. CASE l = to
    BY <1>2, <1>5, <2>1, HandledAreEvents DEF After
  <2>2. CASE l # to
    BY <1>5, <2>2 DEF OrderInv, PartitionOrder
  <2> QED
    BY <2>1, <2>2
<1> QED
  BY <1>3, <1>4, <1>6, <1>7, <1>8, <1>9

LEMMA OrderPublish ==
  ASSUME TypeInv, OrderInv, Alive, NEW p \in Publishers, Publish(p)
  PROVE  OrderInv'
<1>1. PICK e \in Events :
        /\ outgoing[p] # <<>> /\ e = Head(outgoing[p]) /\ Send(e)
        /\ outgoing' = [outgoing EXCEPT ![p] = Tail(@)]
        /\ UNCHANGED <<pc, event, emitting, handled, close>>
  BY HeadAndTail DEF Publish, TypeInv, QueueType, handling, lifecycle
<1>2. /\ e = outgoing[p][1] /\ 1 \in DOMAIN outgoing[p]
      /\ outgoing'[p] = Tail(outgoing[p]) /\ \A o \in Publishers \ {p} : outgoing'[o] = outgoing[o]
      /\ \A i \in DOMAIN outgoing'[p] :
           /\ outgoing'[p][i] = outgoing[p][i + 1] /\ i + 1 \in DOMAIN outgoing[p]
           /\ i \in Nat /\ 1 < i + 1
  BY <1>1, HeadAndTail DEF TypeInv, QueueType
<1>3. e.by = p /\ After(Sent, e)
  BY <1>2 DEF OrderInv, PublisherOrder
<1>4. /\ Handled' = Handled /\ Taken' = Taken /\ Sent' = Sent \union {e}
      /\ OwnStream' /\ HandledInOrder' /\ ListenerOrder' /\ PartitionOrder'
  BY <1>1, <1>3, OrderSend
<1>5. PublisherOrder'
  <2>1. ASSUME NEW o \in Publishers, NEW i \in DOMAIN outgoing'[o]
        PROVE  outgoing'[o][i].by = o /\ After(Sent', outgoing'[o][i])
    <3>1. CASE o = p
      <4>1. /\ outgoing[p][i + 1].by = p /\ After(Sent, outgoing[p][i + 1])
            /\ e.n < outgoing[p][i + 1].n
        BY <1>2, <2>1, <3>1 DEF OrderInv, PublisherOrder, Rising
      <4> QED
        BY <1>2, <1>4, <2>1, <3>1, <4>1 DEF After
    <3>2. CASE o # p
      BY <1>2, <1>3, <1>4, <3>2 DEF OrderInv, PublisherOrder, After
    <3> QED
      BY <3>1, <3>2
  <2>2. ASSUME NEW o \in Publishers PROVE Rising(outgoing'[o])
    <3>1. CASE o = p
      BY <1>1, <1>2, <3>1, RisingTail DEF OrderInv, PublisherOrder, TypeInv, QueueType
    <3>2. CASE o # p
      BY <1>2, <3>2 DEF OrderInv, PublisherOrder
    <3> QED
      BY <3>1, <3>2
  <2> QED
    BY <2>1, <2>2 DEF PublisherOrder, After, Rising
<1>6. EmitterOrder'
  <2> SUFFICES ASSUME NEW l \in Listeners, Active(l)
               PROVE  /\ \A i \in DOMAIN emitting[l] : /\ Cause(event[l], emitting[l][i])
                                                       /\ After(Sent', emitting[l][i])
                      /\ Rising(emitting[l])
                      /\ pc[l] = "undoing" => emitting[l] = <<>>
    BY <1>1 DEF EmitterOrder, Active, After, Rising, Cause
  <2>1. ASSUME NEW i \in DOMAIN emitting[l] PROVE After(Sent', emitting[l][i])
    <3>1. Cause(event[l], emitting[l][i]) /\ After(Sent, emitting[l][i]) /\ event[l] \in Events
      BY <2>1 DEF OrderInv, EmitterOrder, TypeInv, ListenerType
    <3>2. emitting[l][i].by # e.by
      BY <1>3, <3>1, Causes
    <3> QED
      BY <1>4, <3>1, <3>2 DEF After
  <2> QED
    BY <2>1 DEF OrderInv, EmitterOrder
<1>7. CauseOrder'
  <2>1. ASSUME NEW f \in Events PROVE ~Cause(f, e)
    BY <1>3, Causes
  <2> QED
    BY <1>4, <2>1 DEF OrderInv, CauseOrder, Cause
<1> QED
  BY <1>4, <1>5, <1>6, <1>7 DEF OrderInv

LEMMA OrderEmit ==
  ASSUME TypeInv, OrderInv, Alive, NEW l \in Listeners, Emit(l)
  PROVE  OrderInv'
<1>1. PICK e \in Events :
        /\ Active(l) /\ emitting[l] # <<>> /\ e = Head(emitting[l]) /\ Send(e)
        /\ emitting' = [emitting EXCEPT ![l] = Tail(@)]
        /\ UNCHANGED <<outgoing, pc, event, handled, close, hash>>
  BY HeadAndTail DEF Emit, TypeInv, ListenerType, lifecycle, setup, Active
<1>2. /\ e = emitting[l][1] /\ 1 \in DOMAIN emitting[l]
      /\ emitting'[l] = Tail(emitting[l]) /\ \A o \in Listeners \ {l} : emitting'[o] = emitting[o]
      /\ \A i \in DOMAIN emitting'[l] :
           /\ emitting'[l][i] = emitting[l][i + 1] /\ i + 1 \in DOMAIN emitting[l]
           /\ i \in Nat /\ 1 < i + 1
  BY <1>1, HeadAndTail DEF TypeInv, ListenerType
<1>3. Cause(event[l], e) /\ After(Sent, e) /\ pc[l] # "undoing" /\ event[l] \in Events
  BY <1>1, <1>2 DEF OrderInv, EmitterOrder, TypeInv, ListenerType
<1>4. /\ Handled' = Handled /\ Taken' = Taken /\ Sent' = Sent \union {e}
      /\ OwnStream' /\ HandledInOrder' /\ ListenerOrder' /\ PartitionOrder'
  BY <1>1, <1>3, OrderSend
<1>5. PublisherOrder'
  <2>1. e.by \notin Publishers
    BY <1>3, Causes
  <2>2. ASSUME NEW p \in Publishers, NEW i \in DOMAIN outgoing[p]
        PROVE  After(Sent', outgoing[p][i])
    BY <1>4, <2>1 DEF OrderInv, PublisherOrder, After
  <2>3. outgoing' = outgoing
    BY <1>1
  <2> QED
    BY <2>2, <2>3 DEF OrderInv, PublisherOrder, After, Rising
<1>6. EmitterOrder'
  <2>1. ASSUME NEW o \in Listeners \ {l}, Active(o), NEW i \in DOMAIN emitting[o]
        PROVE  After(Sent', emitting[o][i])
    <3>1. Cause(event[o], emitting[o][i]) /\ After(Sent, emitting[o][i]) /\ event[o] \in Events
      BY <2>1 DEF OrderInv, EmitterOrder, TypeInv, ListenerType
    <3>2. event[o] # event[l]
      BY <1>1, <2>1 DEF TypeInv, ListenerType, AtHandler
    <3>3. emitting[o][i].by # e.by
      BY <1>3, <3>1, <3>2, Causes DEF Cause
    <3> QED
      BY <1>4, <3>1, <3>3 DEF After
  <2>2. ASSUME NEW i \in DOMAIN emitting'[l]
        PROVE  Cause(event[l], emitting'[l][i]) /\ After(Sent', emitting'[l][i])
    <3>1. /\ Cause(event[l], emitting[l][i + 1]) /\ After(Sent, emitting[l][i + 1])
          /\ e.n < emitting[l][i + 1].n
      BY <1>1, <1>2, <2>2 DEF OrderInv, EmitterOrder, Rising
    <3> QED
      BY <1>2, <1>4, <2>2, <3>1 DEF After
  <2>3. Rising(emitting'[l])
    BY <1>1, <1>2, RisingTail DEF OrderInv, EmitterOrder, TypeInv, ListenerType
  <2> SUFFICES ASSUME NEW o \in Listeners, Active(o)
               PROVE  /\ \A i \in DOMAIN emitting'[o] : /\ Cause(event[o], emitting'[o][i])
                                                        /\ After(Sent', emitting'[o][i])
                      /\ Rising(emitting'[o])
                      /\ pc[o] = "undoing" => emitting'[o] = <<>>
    BY <1>1 DEF EmitterOrder, Active, After, Rising, Cause
  <2>4. CASE o = l
    BY <1>3, <2>2, <2>3, <2>4
  <2>5. CASE o # l
    <3>1. emitting'[o] = emitting[o]
      BY <1>2, <2>5
    <3> QED
      BY <2>1, <2>5, <3>1 DEF OrderInv, EmitterOrder
  <2> QED
    BY <2>4, <2>5
<1>7. CauseOrder'
  <2>1. ASSUME NEW f \in Events, Cause(f, e) PROVE f \in Taken
    <3>1. f = event[l]
      BY <1>3, <2>1, Causes
    <3> QED
      BY <1>1, <3>1, <2>1 DEF Taken
  <2> QED
    BY <1>4, <2>1 DEF OrderInv, CauseOrder, Cause
<1> QED
  BY <1>4, <1>5, <1>6, <1>7 DEF OrderInv

EmitsInOrder(l) ==
  /\ \A i \in DOMAIN emitting[l] : Cause(event[l], emitting[l][i]) /\ After(Sent, emitting[l][i])
  /\ Rising(emitting[l])
  /\ pc[l] = "undoing" => emitting[l] = <<>>

\* A listener goes on with an event, from its partition to the end: the events
\* that others have are of other streams.
LEMMA OrderOfOthers ==
  ASSUME TypeInv, OrderInv, Alive, UNCHANGED <<outgoing, close>>,
         NEW l \in Listeners, NEW e \in Events, PartitionOf(e) = l,
         Taken' = Taken \union {e}, Sent' = Sent, Handled' \subseteq Handled \union {e},
         \A o \in Listeners \ {l} : /\ pc'[o] = pc[o] /\ event'[o] = event[o]
                                    /\ emitting'[o] = emitting[o] /\ buffer'[o] = buffer[o],
         buffer'[l] = <<>> \/ (buffer'[l] = buffer[l] /\ e \in Taken),
         Active(l)' => After(Handled', event'[l]) /\ EmitsInOrder(l)',
         OwnStream', HandledInOrder'
  PROVE  OrderInv'
<1>1. ASSUME NEW o \in Listeners \ {l}
      PROVE  /\ Active(o) => StreamOf(event[o]) # StreamOf(e)
             /\ \A d \in Events : buffer[o] = <<d>> => StreamOf(d) # StreamOf(e)
  BY OneListener
<1>2. \A o \in Listeners \ {l} : Active(o)' <=> Active(o)
  BY DEF Active
<1>3. PublisherOrder'
  BY DEF OrderInv, PublisherOrder, After, Rising
<1>4. ASSUME NEW o \in Listeners, Active(o)'
      PROVE  After(Handled', event'[o]) /\ EmitsInOrder(o)'
  <2>1. CASE o = l
    BY <1>4, <2>1
  <2>2. CASE o # l
    <3>1. /\ Active(o) /\ event'[o] = event[o] /\ emitting'[o] = emitting[o] /\ pc'[o] = pc[o]
          /\ StreamOf(event[o]) # StreamOf(e)
      BY <1>1, <1>2, <1>4, <2>2
    <3>2. After(Handled, event[o])
      BY <3>1 DEF OrderInv, ListenerOrder
    <3>3. EmitsInOrder(o)
      BY <3>1 DEF OrderInv, EmitterOrder, EmitsInOrder
    <3>4. EmitsInOrder(o)'
      BY <3>1, <3>3 DEF EmitsInOrder, After, Cause, Rising
    <3> QED
      BY <3>1, <3>2, <3>4 DEF After
  <2> QED
    BY <2>1, <2>2
<1>5. ListenerOrder' /\ EmitterOrder'
  BY <1>4 DEF ListenerOrder, EmitterOrder, EmitsInOrder, After
<1>6. PartitionOrder'
  <2> SUFFICES ASSUME NEW o \in Listeners, NEW d \in Events, buffer'[o] = <<d>>
               PROVE  After(Taken', d)
    BY DEF PartitionOrder, After
  <2>1. CASE o = l
    <3>1. <<>> # <<d>>
      OBVIOUS
    <3>2. buffer[l] = <<d>> /\ Taken' = Taken
      BY <2>1, <3>1
    <3> QED
      BY <3>2 DEF OrderInv, PartitionOrder
  <2>2. CASE o # l
    <3>1. buffer[o] = <<d>> /\ StreamOf(d) # StreamOf(e)
      BY <1>1, <2>2
    <3> QED
      BY <3>1 DEF OrderInv, PartitionOrder, After
  <2> QED
    BY <2>1, <2>2
<1>7. CauseOrder'
  BY DEF OrderInv, CauseOrder, Cause
<1> QED
  BY <1>3, <1>5, <1>6, <1>7 DEF OrderInv

\* What is added to what was handled of a stream comes after all of it.
LEMMA HandledGrows ==
  ASSUME TypeInv, OwnStream, HandledInOrder, NEW e \in Events, After(Handled, e),
         handled' = [handled EXCEPT ![StreamOf(e)] = Append(@, e)]
  PROVE  OwnStream' /\ HandledInOrder'
<1> DEFINE s == StreamOf(e)
           last == Len(handled[s]) + 1
<1>1. s \in StreamKeys /\ handled \in [StreamKeys -> Seq(Events)] /\ handled[s] \in Seq(Events)
  BY Constants DEF TypeInv, HistoryType
<1>2. /\ handled'[s] = Append(handled[s], e)
      /\ \A k \in StreamKeys \ {s} : handled'[k] = handled[k]
  BY <1>1
<1>3. /\ DOMAIN handled[s] = 1..Len(handled[s]) /\ Len(handled[s]) \in Nat
      /\ DOMAIN handled'[s] = 1..last /\ handled'[s][last] = e
      /\ \A i \in DOMAIN handled[s] : handled'[s][i] = handled[s][i]
  BY <1>1, <1>2, AppendOne
<1>4. \A i \in DOMAIN handled'[s] : i = last \/ (i \in DOMAIN handled[s] /\ i < last)
  BY <1>3
<1>5. \A i \in DOMAIN handled[s] : handled[s][i] \in Handled /\ StreamOf(handled[s][i]) = s
  BY <1>1, HandledElement DEF OwnStream
<1>6. last \in Nat
  BY <1>3
<1>7. s = StreamOf(e)
  OBVIOUS
<1> HIDE DEF s, last
<1>8. OwnStream'
  <2>1. ASSUME NEW k \in StreamKeys, NEW i \in DOMAIN handled'[k]
        PROVE  StreamOf(handled'[k][i]) = k
    <3>1. CASE k # s
      BY <1>2, <2>1, <3>1 DEF OwnStream
    <3>2. CASE k = s
      BY <1>3, <1>4, <1>5, <1>7, <2>1, <3>2
    <3> QED
      BY <3>1, <3>2
  <2> QED
    BY <2>1 DEF OwnStream, StreamOf
<1>9. HandledInOrder'
  <2> SUFFICES ASSUME NEW k \in StreamKeys, NEW i \in DOMAIN handled'[k],
                      NEW j \in DOMAIN handled'[k], i < j,
                      handled'[k][i].by = handled'[k][j].by
               PROVE  handled'[k][i].n < handled'[k][j].n
    BY DEF HandledInOrder
  <2>1. CASE k # s
    BY <1>2, <2>1 DEF HandledInOrder
  <2>2. CASE k = s /\ j \in DOMAIN handled[s]
    <3>1. i \in DOMAIN handled[s]
      BY <1>3, <1>4, <1>6, <2>2
    <3> QED
      BY <1>1, <1>3, <2>2, <3>1 DEF HandledInOrder
  <2>3. CASE k = s /\ j \notin DOMAIN handled[s]
    <3>1. j = last /\ i \in DOMAIN handled[s]
      BY <1>4, <1>6, <2>3
    <3> QED
      BY <1>3, <1>5, <1>7, <2>3, <3>1 DEF After
  <2> QED
    BY <2>1, <2>2, <2>3
<1> QED
  BY <1>8, <1>9

LEMMA OrderReceive ==
  ASSUME TypeInv, OrderInv, Alive, NEW l \in Listeners, Receive(l)
  PROVE  OrderInv'
<1>1. PICK e \in Events : buffer[l] = <<e>>
  BY OneElement DEF Receive, TypeInv, QueueType, OneEvent
<1>2. Head(buffer[l]) = e /\ Tail(buffer[l]) = <<>> /\ PartitionOf(e) = l
  <2>1. PICK f \in Events : buffer[l] = <<f>> /\ PartitionOf(f) = l
    BY <1>1, OneElement DEF TypeInv, QueueType, OneEvent
  <2> QED
    BY <1>1, <2>1, OneElement
<1>3. /\ pc[l] = "waiting" /\ UNCHANGED <<outgoing, close>>
      /\ buffer' = [buffer EXCEPT ![l] = <<>>]
      /\ IF Matching[e] = {}
         THEN Done(l, e, <<>>)
         ELSE /\ pc' = [pc EXCEPT ![l] = "handling"] /\ event' = [event EXCEPT ![l] = e]
              /\ emitting' = [emitting EXCEPT ![l] = Emits[e]] /\ handled' = handled
  BY <1>2 DEF Receive, lifecycle
<1>4. /\ buffer \in [Listeners -> Seq(Events)] /\ pc \in [Listeners -> Places]
      /\ event \in [Listeners -> Events] /\ emitting \in [Listeners -> Seq(Events)]
  BY DEF TypeInv, QueueType, ListenerType
<1>5. After(Taken, e) /\ After(Handled, e) /\ e \notin Taken
  <2>1. After(Taken, e) /\ e \notin Taken
    BY <1>1, FirstTime DEF OrderInv, PartitionOrder
  <2> QED
    BY <2>1, HandledAreEvents DEF After
<1>6. /\ buffer'[l] = <<>> /\ \A o \in Listeners \ {l} : buffer'[o] = buffer[o]
      /\ \A d : <<d>> # <<>> /\ (<<d>> = <<e>> => d = e)
  BY <1>3, <1>4
<1>7. CASE Matching[e] = {}
  <2>1. /\ pc'[l] \in {"waiting", "exited"} /\ Handled' = Handled \union {e}
        /\ \A o \in Listeners \ {l} : /\ pc'[o] = pc[o] /\ event'[o] = event[o]
                                      /\ emitting'[o] = emitting[o]
        /\ handled' = [handled EXCEPT ![StreamOf(e)] = Append(@, e)]
    BY <1>3, <1>7, DoneStep
  <2>2. ~Active(l) /\ ~Active(l)' /\ \A o \in Listeners \ {l} : Active(o)' <=> Active(o)
    BY <1>3, <2>1 DEF Active
  <2>3. Taken' = Taken \union {e}
    BY <2>1, <2>2 DEF Taken
  <2>4. Sent' = Sent
    BY <1>1, <1>6, <2>3 DEF Sent
  <2>5. OwnStream' /\ HandledInOrder'
    BY <1>5, <2>1, HandledGrows DEF OrderInv
  <2> QED
    BY <1>2, <1>3, <1>6, <2>1, <2>2, <2>3, <2>4, <2>5, OrderOfOthers
<1>8. CASE Matching[e] # {}
  <2>1. /\ pc'[l] = "handling" /\ event'[l] = e /\ emitting'[l] = Emits[e] /\ handled' = handled
        /\ \A o \in Listeners \ {l} : /\ pc'[o] = pc[o] /\ event'[o] = event[o]
                                      /\ emitting'[o] = emitting[o]
    BY <1>3, <1>4, <1>8
  <2>2. /\ ~Active(l) /\ Active(l)' /\ \A o \in Listeners \ {l} : Active(o)' <=> Active(o)
        /\ Handled' = Handled
    BY <1>3, <2>1, HandledStays DEF Active
  <2>3. Taken' = Taken \union {e}
    BY <2>1, <2>2 DEF Taken
  <2>4. Sent' = Sent
    BY <1>1, <1>6, <2>3 DEF Sent
  <2>5. OwnStream' /\ HandledInOrder'
    BY <2>1 DEF OrderInv, OwnStream, HandledInOrder
  <2>6. ASSUME NEW i \in DOMAIN Emits[e]
        PROVE  Cause(e, Emits[e][i]) /\ After(Sent, Emits[e][i])
    <3>1. ASSUME NEW d \in Sent, d.by = Emits[e][i].by PROVE FALSE
      BY <1>5, <2>6, <3>1 DEF OrderInv, CauseOrder, Cause
    <3> QED
      BY <3>1 DEF Cause, After
  <2>7. Rising(Emits[e])
    BY EventsAreNumbered DEF Rising
  <2>8. EmitsInOrder(l)'
    BY <2>1, <2>4, <2>6, <2>7 DEF EmitsInOrder, Cause, After, Rising
  <2>9. After(Handled', event'[l])
    BY <1>5, <2>1, <2>2
  <2> QED
    BY <1>2, <1>3, <1>6, <2>1, <2>2, <2>3, <2>4, <2>5, <2>8, <2>9, OrderOfOthers
<1> QED
  BY <1>7, <1>8

\* While a listener is at an event, its handlers publish what is left of the
\* first one's events, or no more.
LEMMA EmitsNoMore ==
  ASSUME NoneHandlesAgain, TypeInv, OrderInv, Alive, NEW l \in Listeners, Continues(l),
         HandlerSucceeds(l) \/ HandlerFails(l) \/ RollbackSucceeds(l) \/ RollbackFails(l),
         ~Done(l, event[l], buffer[l])
  PROVE  /\ emitting'[l] = <<>> \/ (emitting'[l] = emitting[l] /\ pc'[l] = "handling")
         /\ \A o \in Listeners \ {l} : emitting'[o] = emitting[o]
<1>1. emitting \in [Listeners -> Seq(Events)] /\ event[l] \in Events /\ rollback \in Rollbacks
  BY DEF TypeInv, ListenerType, SetupType
<1>2. ASSUME NEW h, StartUndoing(l, h) PROVE emitting' = [emitting EXCEPT ![l] = <<>>]
  <2>1. Handles(h) => Output(event[l], h) = <<>>
    BY <1>1 DEF Handles, Output, NoneHandlesAgain
  <2> QED
    BY <1>2, <2>1 DEF StartUndoing
<1>3. CASE HandlerSucceeds(l)
  BY <1>3 DEF HandlerSucceeds
<1>4. CASE HandlerFails(l)
  BY <1>1, <1>2, <1>4 DEF HandlerFails
<1>5. CASE RollbackSucceeds(l) \/ RollbackFails(l)
  BY <1>1, <1>2, <1>5 DEF RollbackSucceeds, RollbackFails, UndoNext
<1> QED
  BY <1>3, <1>4, <1>5

LEMMA OrderHandler ==
  ASSUME NoneHandlesAgain, TypeInv, OrderInv, Alive, NEW l \in Listeners,
         HandlerSucceeds(l) \/ HandlerFails(l) \/ RollbackSucceeds(l) \/ RollbackFails(l)
  PROVE  OrderInv'
<1>1. /\ Active(l) /\ UNCHANGED <<outgoing, close>> /\ buffer' = buffer
      /\ Done(l, event[l], buffer[l]) \/ Continues(l)
  BY HandlerOutcome DEF lifecycle
<1>2. PICK e \in Events : e = event[l] /\ PartitionOf(e) = l
  BY <1>1 DEF TypeInv, ListenerType, AtHandler
<1>3. e \in Taken /\ After(Handled, e) /\ EmitsInOrder(l)
  BY <1>1, <1>2 DEF Taken, OrderInv, ListenerOrder, EmitterOrder, EmitsInOrder
<1>4. CASE Done(l, e, buffer[l])
  <2>1. /\ pc'[l] \in {"waiting", "exited"} /\ Handled' = Handled \union {e}
        /\ \A o \in Listeners \ {l} : /\ pc'[o] = pc[o] /\ event'[o] = event[o]
                                      /\ emitting'[o] = emitting[o]
        /\ handled' = [handled EXCEPT ![StreamOf(e)] = Append(@, e)]
    BY <1>4, DoneStep
  <2>2. ~Active(l)' /\ \A o \in Listeners \ {l} : Active(o)' <=> Active(o)
    BY <2>1 DEF Active
  <2>3. Taken' = Taken \union {e}
    BY <1>1, <1>2, <2>1, <2>2 DEF Taken
  <2>4. Sent' = Sent
    BY <1>1, <1>3, <2>3 DEF Sent
  <2>5. OwnStream' /\ HandledInOrder'
    BY <1>3, <2>1, HandledGrows DEF OrderInv
  <2> QED
    BY <1>1, <1>2, <1>3, <2>1, <2>2, <2>3, <2>4, <2>5, OrderOfOthers
<1>5. CASE ~Done(l, e, buffer[l])
  <2>1. Continues(l)
    BY <1>1, <1>2, <1>5
  <2>2. /\ pc'[l] \in {"handling", "undoing"} /\ \A o \in Listeners \ {l} : pc'[o] = pc[o]
        /\ event' = event /\ handled' = handled /\ Handled' = Handled
    BY <2>1, HandledStays DEF Continues, TypeInv, ListenerType
  <2>3. /\ emitting'[l] = <<>> \/ (emitting'[l] = emitting[l] /\ pc'[l] = "handling")
        /\ \A o \in Listeners \ {l} : emitting'[o] = emitting[o]
    BY <1>2, <1>5, <2>1, EmitsNoMore
  <2>4. \A o \in Listeners : Active(o)' <=> Active(o)
    BY <1>1, <2>2 DEF Active
  <2>5. Taken' = Taken \union {e}
    BY <1>3, <2>2, <2>4 DEF Taken
  <2>6. Sent' = Sent
    BY <1>1, <1>3, <2>5 DEF Sent
  <2>7. OwnStream' /\ HandledInOrder'
    BY <2>2 DEF OrderInv, OwnStream, HandledInOrder
  <2>8. EmitsInOrder(l)'
    <3>1. CASE emitting'[l] = <<>>
      BY <3>1 DEF EmitsInOrder, Rising
    <3>2. CASE emitting'[l] = emitting[l] /\ pc'[l] = "handling"
      BY <1>3, <2>2, <2>6, <3>2 DEF EmitsInOrder, Cause, After, Rising
    <3> QED
      BY <2>3, <3>1, <3>2
  <2>9. After(Handled', event'[l])
    BY <1>2, <1>3, <2>2
  <2> QED
    BY <1>1, <1>2, <1>3, <2>2, <2>3, <2>5, <2>6, <2>7, <2>8, <2>9, OrderOfOthers
<1> QED
  BY <1>4, <1>5

LEMMA OrderStays ==
  ASSUME OrderInv, UNCHANGED <<buffer, event, emitting, handled>>, Alive' => Alive,
         \A p \in Publishers : outgoing'[p] = outgoing[p] \/ outgoing'[p] = <<>>,
         \A l \in Listeners : Active(l)' <=> Active(l),
         \A l \in Listeners : Active(l) => pc'[l] = pc[l]
  PROVE  OrderInv'
<1>1. Handled' = Handled
  BY HandledStays
<1>2. Taken' = Taken
  BY <1>1 DEF Taken
<1>3. Sent' = Sent
  BY <1>2 DEF Sent
<1>4. OwnStream' /\ HandledInOrder'
  BY DEF OrderInv, OwnStream, HandledInOrder
<1> SUFFICES ASSUME Alive
             PROVE  PublisherOrder' /\ EmitterOrder' /\ ListenerOrder' /\ PartitionOrder'
                    /\ CauseOrder'
  BY <1>4 DEF OrderInv
<1>5. ASSUME NEW p \in Publishers
      PROVE  /\ \A i \in DOMAIN outgoing'[p] :
                  outgoing'[p][i].by = p /\ After(Sent, outgoing'[p][i])
             /\ Rising(outgoing'[p])
  <2>1. CASE outgoing'[p] = outgoing[p]
    BY <2>1 DEF OrderInv, PublisherOrder
  <2>2. CASE outgoing'[p] = <<>>
    BY <2>2 DEF Rising
  <2> QED
    BY <2>1, <2>2
<1>6. PublisherOrder'
  BY <1>3, <1>5 DEF PublisherOrder, After, Rising
<1>7. EmitterOrder'
  BY <1>3 DEF OrderInv, EmitterOrder, After, Rising, Cause
<1>8. ListenerOrder' /\ PartitionOrder' /\ CauseOrder'
  BY <1>1, <1>2, <1>3 DEF OrderInv, ListenerOrder, PartitionOrder, CauseOrder, After, Cause
<1> QED
  BY <1>6, <1>7, <1>8

LEMMA SetupStays == [Next]_vars => UNCHANGED setup
BY DEF Next, Publishing, Listener, Closing, Publish, PublishUnknown, SeeCancelled, SeeClosed,
       Receive, Emit, HandlerSucceeds, HandlerFails, RollbackSucceeds, RollbackFails,
       RollbackPanics, Listen, ListenReturns, Cancel, CloseTopic, CloseReturns, vars

\* After a panic nothing is handled any more.
LEMMA NothingAfterPanic ==
  ASSUME LifeInv, ~Alive, [Next]_vars
  PROVE  ~Alive' /\ handled' = handled /\ effects' = effects /\ stuck' = stuck
<1>1. /\ close = "dead" /\ \A l \in Listeners : pc[l] = "dead"
      /\ \A p \in Publishers : outgoing[p] = <<>>
  BY DEF Alive, LifeInv, Goroutines
<1>2. ASSUME NEW l \in Listeners PROVE ~Listener(l)
  BY <1>1 DEF Listener, SeeCancelled, SeeClosed, Receive, Emit, HandlerSucceeds, HandlerFails,
              RollbackSucceeds, RollbackFails, RollbackPanics
<1>3. ASSUME NEW p \in Publishers PROVE ~Publishing(p)
  BY <1>1 DEF Publishing, Publish, PublishUnknown
<1>4. Listen \/ ListenReturns \/ Cancel \/ UNCHANGED vars
  BY <1>1, <1>2, <1>3 DEF Next, Closing, CloseTopic, CloseReturns
<1> QED
  BY <1>1, <1>4 DEF Listen, ListenReturns, Cancel, vars, lifecycle, history, Alive

LEMMA OrderStep ==
  ASSUME NoneHandlesAgain, TypeInv, LifeInv, OrderInv, [Next]_vars
  PROVE  OrderInv'
<1>1. CASE ~Alive
  BY <1>1, NothingAfterPanic DEF OrderInv, OwnStream, HandledInOrder
<1>2. CASE Alive
  <2>1. CASE \E p \in Publishers : Publish(p)
    BY <1>2, <2>1, OrderPublish
  <2>2. CASE \E l \in Listeners : Emit(l)
    BY <1>2, <2>2, OrderEmit
  <2>3. CASE \E l \in Listeners : Receive(l)
    BY <1>2, <2>3, OrderReceive
  <2>4. CASE \E l \in Listeners : \/ HandlerSucceeds(l) \/ HandlerFails(l)
                                  \/ RollbackSucceeds(l) \/ RollbackFails(l)
    BY <1>2, <2>4, OrderHandler
  <2>5. CASE \E l \in Listeners : RollbackPanics(l)
    BY <2>5 DEF RollbackPanics, history, OrderInv, OwnStream, HandledInOrder, Alive
  <2>6. CASE \/ \E p \in Publishers : PublishUnknown(p)
             \/ \E l \in Listeners : SeeCancelled(l) \/ SeeClosed(l)
             \/ Listen \/ ListenReturns \/ Cancel \/ Closing \/ UNCHANGED vars
    <3>1. UNCHANGED <<buffer, event, emitting, handled>>
      BY <2>6 DEF PublishUnknown, SeeCancelled, SeeClosed, Listen, ListenReturns, Cancel, Closing,
                  CloseTopic, CloseReturns, vars, handling, history
    <3>2. \A p \in Publishers : outgoing'[p] = outgoing[p] \/ outgoing'[p] = <<>>
      BY <2>6 DEF PublishUnknown, SeeCancelled, SeeClosed, Listen, ListenReturns, Cancel, Closing,
                  CloseTopic, CloseReturns, vars, TypeInv, QueueType
    <3>3. \A l \in Listeners : (Active(l)' <=> Active(l)) /\ (Active(l) => pc'[l] = pc[l])
      <4>1. CASE pc' = pc
        BY <4>1 DEF Active
      <4>2. CASE Listen
        BY <4>2 DEF Listen, Active, LifeInv, Goroutines
      <4>3. CASE \E l \in Listeners : SeeCancelled(l) \/ SeeClosed(l)
        BY <4>3 DEF SeeCancelled, SeeClosed, Active, TypeInv, ListenerType
      <4> QED
        BY <2>6, <4>1, <4>2, <4>3 DEF PublishUnknown, ListenReturns, Cancel, Closing, CloseTopic,
                                      CloseReturns, vars
    <3> QED
      BY <1>2, <3>1, <3>2, <3>3, OrderStays
  <2> QED
    BY <2>1, <2>2, <2>3, <2>4, <2>5, <2>6 DEF Next, Publishing, Listener
<1> QED
  BY <1>1, <1>2

\* The events of a stream are handled in the order in which each goroutine
\* published them, each by all its handlers before the next, though the
\* partitions run concurrently: unless a Rollback has a handler publish again.
THEOREM StreamsInOrder ==
  ASSUME NoneHandlesAgain
  PROVE  Spec => []HandledInOrder
<1>1. TypeInv /\ LifeInv /\ OrderInv /\ [Next]_vars => OrderInv'
  BY OrderStep
<1>2. OrderInv => HandledInOrder
  BY DEF OrderInv
<1> QED
  BY <1>1, <1>2, LifeInductive, OrderInit, PTL DEF Spec

-----------------------------------------------------------------------------
(***************************************************************************)
(* Effects.  As an event reaches its listener once, those of the handlers  *)
(* before the one that is called are in place, and once the listener goes  *)
(* back through them, those of the handlers after it are settled.          *)
(***************************************************************************)
Remains(e, h) == rollback[h] # "undoes" \/ h \in stuck[e]

Settled(e) == effects[e] = Matching[e] \/ \A h \in effects[e] : Remains(e, h)

InPlaceSoFar(l) ==
  /\ pc[l] = "handling" => effects[event[l]] = Earlier(l)
  /\ pc[l] = "undoing" => \A h \in effects[event[l]] : h > current[l] => Remains(event[l], h)

Untouched == \A e \in Events \ Taken : effects[e] = {}

EffectInv ==
  /\ AllOrNothing
  /\ Alive => Untouched /\ \A l \in Listeners : InPlaceSoFar(l)

LEMMA EffectInit == Init => EffectInv
<1> SUFFICES ASSUME Init PROVE EffectInv
  OBVIOUS
<1>1. Handled = {}
  BY DEF Init, Handled, Range
<1>2. \A l \in Listeners : pc[l] = "absent"
  BY DEF Init
<1> QED
  BY <1>1, <1>2 DEF Init, EffectInv, AllOrNothing, Untouched, InPlaceSoFar

\* A step of a listener with the event it is at leaves alone what the others do.
LEMMA EffectsOfOthers ==
  ASSUME TypeInv, EffectInv, Alive, rollback' = rollback,
         NEW l \in Listeners, NEW e \in Events, PartitionOf(e) = l, e \notin Handled,
         Active(l) => event[l] = e,
         \A d \in Events \ {e} : effects'[d] = effects[d] /\ stuck'[d] = stuck[d],
         \A o \in Listeners \ {l} : /\ pc'[o] = pc[o] /\ event'[o] = event[o]
                                    /\ current'[o] = current[o],
         \/ Handled' = Handled \union {e} /\ ~Active(l)' /\ Settled(e)'
         \/ Handled' = Handled /\ Active(l)' /\ event'[l] = e /\ InPlaceSoFar(l)'
  PROVE  EffectInv'
<1>1. ASSUME NEW o \in Listeners \ {l}, Active(o) PROVE event[o] \in Events \ {e}
  BY <1>1 DEF TypeInv, ListenerType, AtHandler
<1>2. AllOrNothing'
  <2>1. \A d \in Handled : d \in Events \ {e}
    BY HandledAreEvents
  <2>2. \A d \in Handled : Settled(d)
    BY DEF EffectInv, AllOrNothing, Settled, Remains
  <2>3. \A d \in Handled' : Settled(d)'
    BY <2>1, <2>2 DEF Settled, Remains
  <2> QED
    BY <2>3 DEF AllOrNothing, Settled, Remains
<1>3. Taken \union {e} \subseteq Taken'
  BY DEF Taken, Active
<1>4. Untouched'
  BY <1>3 DEF EffectInv, Untouched
<1>5. ASSUME NEW o \in Listeners PROVE InPlaceSoFar(o)'
  <2>1. CASE o = l
    BY <2>1 DEF InPlaceSoFar, Active
  <2>2. CASE o # l
    <3>1. CASE ~Active(o)
      BY <2>2, <3>1 DEF InPlaceSoFar, Active
    <3>2. CASE Active(o)
      <4>1. /\ pc'[o] = pc[o] /\ event'[o] = event[o] /\ current'[o] = current[o]
            /\ effects'[event[o]] = effects[event[o]] /\ stuck'[event[o]] = stuck[event[o]]
        BY <1>1, <2>2, <3>2
      <4>2. InPlaceSoFar(o)
        BY DEF EffectInv
      <4> QED
        BY <4>1, <4>2 DEF InPlaceSoFar, Earlier, Remains
    <3> QED
      BY <3>1, <3>2
  <2> QED
    BY <2>1, <2>2
<1> QED
  BY <1>2, <1>4, <1>5 DEF EffectInv

LEMMA EffectReceive ==
  ASSUME TypeInv, OrderInv, EffectInv, Alive, NEW l \in Listeners, Receive(l)
  PROVE  EffectInv'
<1>1. PICK e \in Events : buffer[l] = <<e>> /\ PartitionOf(e) = l
  BY DEF Receive, TypeInv, QueueType, OneEvent
<1>2. Head(buffer[l]) = e /\ Tail(buffer[l]) = <<>>
  BY <1>1, OneElement
<1>3. /\ pc[l] = "waiting" /\ UNCHANGED <<rollback, effects, stuck>>
      /\ IF Matching[e] = {}
         THEN Done(l, e, <<>>)
         ELSE /\ pc' = [pc EXCEPT ![l] = "handling"] /\ event' = [event EXCEPT ![l] = e]
              /\ current' = [current EXCEPT ![l] = Min(Matching[e])] /\ handled' = handled
  BY <1>2 DEF Receive, setup
<1>4. /\ pc \in [Listeners -> Places] /\ event \in [Listeners -> Events]
      /\ current \in [Listeners -> Nat]
  BY DEF TypeInv, ListenerType
<1>5. e \notin Taken /\ e \notin Handled /\ effects[e] = {}
  BY <1>1, FirstTime, HandledAreEvents DEF EffectInv, Untouched
<1>6. CASE Matching[e] = {}
  <2>1. /\ pc'[l] \in {"waiting", "exited"} /\ Handled' = Handled \union {e}
        /\ \A o \in Listeners \ {l} : /\ pc'[o] = pc[o] /\ event'[o] = event[o]
                                      /\ current'[o] = current[o]
    BY <1>3, <1>6, DoneStep
  <2>2. Settled(e)'
    BY <1>3, <1>5, <1>6 DEF Settled
  <2> QED
    BY <1>1, <1>3, <1>5, <2>1, <2>2, EffectsOfOthers DEF Active
<1>7. CASE Matching[e] # {}
  <2>1. /\ pc'[l] = "handling" /\ event'[l] = e /\ current'[l] = Min(Matching[e])
        /\ \A o \in Listeners \ {l} : /\ pc'[o] = pc[o] /\ event'[o] = event[o]
                                      /\ current'[o] = current[o]
        /\ Handled' = Handled
    BY <1>3, <1>4, <1>7, HandledStays
  <2>2. ASSUME NEW h \in Matching[e] PROVE ~(h < Min(Matching[e]))
    BY <1>7, Constants, HasMin
  <2>3. InPlaceSoFar(l)'
    BY <1>3, <1>5, <2>1, <2>2 DEF InPlaceSoFar, Earlier
  <2> QED
    BY <1>1, <1>3, <1>5, <2>1, <2>3, EffectsOfOthers DEF Active
<1> QED
  BY <1>6, <1>7

\* The last handler to succeed completes the effects of an event.
LEMMA EffectSuccess ==
  ASSUME TypeInv, OrderInv, EffectInv, Alive, NEW l \in Listeners, HandlerSucceeds(l),
         NEW e \in Events, e = event[l]
  PROVE  /\ \A d \in Events \ {e} : effects'[d] = effects[d] /\ stuck'[d] = stuck[d]
         /\ \/ Done(l, e, buffer[l]) /\ Settled(e)'
            \/ Continues(l) /\ current' = [current EXCEPT ![l] = current'[l]] /\ InPlaceSoFar(l)'
<1> DEFINE c == current[l]
<1>1. /\ pc[l] = "handling" /\ stuck' = stuck
      /\ effects' = [effects EXCEPT ![e] = @ \union {c}]
      /\ IF Later(l) = {}
         THEN Done(l, e, buffer[l])
         ELSE /\ current' = [current EXCEPT ![l] = Min(Later(l))]
              /\ UNCHANGED <<pc, event, handled>>
  BY DEF HandlerSucceeds
<1>2. /\ c \in Matching[e] /\ Matching[e] \in SUBSET Nat
      /\ effects \in [Events -> SUBSET Nat] /\ current \in [Listeners -> Nat]
      /\ pc \in [Listeners -> Places]
  BY <1>1, Constants DEF TypeInv, ListenerType, HistoryType, AtHandler, Active
<1>3. effects'[e] = Earlier(l) \union {c}
  BY <1>1, <1>2 DEF EffectInv, InPlaceSoFar
<1>4. \A d \in Events \ {e} : effects'[d] = effects[d] /\ stuck'[d] = stuck[d]
  BY <1>1, <1>2
<1>5. CASE Later(l) = {}
  <2>1. Earlier(l) \union {c} = Matching[e]
    BY <1>2, <1>5 DEF Earlier, Later
  <2> QED
    BY <1>1, <1>3, <1>4, <1>5, <2>1 DEF Settled
<1>6. CASE Later(l) # {}
  <2>1. /\ current'[l] = Min(Later(l)) /\ current' = [current EXCEPT ![l] = current'[l]]
        /\ Continues(l) /\ pc'[l] = "handling" /\ event'[l] = e
    BY <1>1, <1>2, <1>6 DEF Continues
  <2>2. /\ Min(Later(l)) \in Later(l) /\ Min(Later(l)) \in Nat
        /\ \A h \in Later(l) : Min(Later(l)) <= h
    <3>1. Later(l) \in SUBSET Nat
      BY <1>2 DEF Later
    <3> QED
      BY <1>6, <3>1, HasMin
  <2>3. \A h \in Matching[e] : h < current'[l] <=> h \in Earlier(l) \union {c}
    BY <1>2, <2>1, <2>2 DEF Earlier, Later
  <2>4. Earlier(l)' = Earlier(l) \union {c}
    BY <1>2, <2>1, <2>3 DEF Earlier
  <2> QED
    BY <1>3, <1>4, <2>1, <2>4 DEF InPlaceSoFar
<1> QED
  BY <1>5, <1>6

\* When a handler fails, none after it has had an effect.
LEMMA EffectFailure ==
  ASSUME TypeInv, OrderInv, EffectInv, Alive, NEW l \in Listeners, HandlerFails(l),
         NEW e \in Events, e = event[l]
  PROVE  /\ \A d \in Events \ {e} : effects'[d] = effects[d] /\ stuck'[d] = stuck[d]
         /\ Continues(l) /\ current' = [current EXCEPT ![l] = current'[l]] /\ InPlaceSoFar(l)'
<1> DEFINE c == current[l]
<1>1. /\ pc[l] = "handling" /\ stuck' = stuck
      /\ pc' = [pc EXCEPT ![l] = "undoing"] /\ current' = [current EXCEPT ![l] = c]
      /\ UNCHANGED <<event, handled>>
  BY DEF HandlerFails, StartUndoing
<1>2. PICK done \in SUBSET {c} : effects' = [effects EXCEPT ![e] = @ \union done]
  BY DEF HandlerFails
<1>3. /\ c \in Matching[e] /\ Matching[e] \in SUBSET Nat
      /\ effects \in [Events -> SUBSET Nat] /\ current \in [Listeners -> Nat]
      /\ pc \in [Listeners -> Places]
  BY <1>1, Constants DEF TypeInv, ListenerType, HistoryType, AtHandler, Active
<1>4. effects[e] = Earlier(l)
  BY <1>1 DEF EffectInv, InPlaceSoFar
<1>5. /\ current'[l] = c /\ pc'[l] = "undoing" /\ event'[l] = e
      /\ effects'[e] = Earlier(l) \union done
  BY <1>1, <1>2, <1>3, <1>4
<1>6. ASSUME NEW h \in effects'[e] PROVE ~(h > c)
  <2>1. h \in Earlier(l) \/ h = c
    BY <1>5
  <2>2. c \in Nat /\ Earlier(l) \in SUBSET Nat /\ \A k \in Earlier(l) : k < c
    BY <1>3 DEF Earlier
  <2> QED
    BY <2>1, <2>2
<1>7. InPlaceSoFar(l)'
  BY <1>5, <1>6 DEF InPlaceSoFar
<1> QED
  BY <1>1, <1>2, <1>3, <1>5, <1>7 DEF Continues

\* A Rollback settles the effect of the handler it is called on.
LEMMA EffectRollback ==
  ASSUME TypeInv, OrderInv, EffectInv, Alive, NEW l \in Listeners,
         RollbackSucceeds(l) \/ RollbackFails(l),
         NEW e \in Events, e = event[l]
  PROVE  /\ \A d \in Events \ {e} : effects'[d] = effects[d] /\ stuck'[d] = stuck[d]
         /\ \/ Done(l, e, buffer[l]) /\ Settled(e)'
            \/ Continues(l) /\ current' = [current EXCEPT ![l] = current'[l]] /\ InPlaceSoFar(l)'
<1> DEFINE c == current[l]
<1>1. pc[l] = "undoing" /\ rollback' = rollback /\ UndoNext(l)
  BY DEF RollbackSucceeds, RollbackFails, setup
<1>2. /\ c \in Matching[e] /\ Matching[e] \in SUBSET Nat /\ c \in Nat
      /\ effects \in [Events -> SUBSET Nat] /\ effects[e] \subseteq Matching[e]
      /\ stuck \in [Events -> SUBSET Nat] /\ stuck[e] \in SUBSET Nat
      /\ current \in [Listeners -> Nat] /\ pc \in [Listeners -> Places]
      /\ event \in [Listeners -> Events]
  BY <1>1, Constants DEF TypeInv, ListenerType, HistoryType, AtHandler, Active
<1>3. \A h \in effects[e] : h > c => Remains(e, h)
  BY <1>1 DEF EffectInv, InPlaceSoFar
<1>4. /\ \A d \in Events \ {e} : effects'[d] = effects[d] /\ stuck'[d] = stuck[d]
      /\ effects'[e] \subseteq effects[e] \union {c} /\ stuck[e] \subseteq stuck'[e]
      /\ c \in effects'[e] => rollback[c] # "undoes" \/ c \in stuck'[e]
  <2>1. CASE RollbackSucceeds(l)
    <3>1. effects' = [effects EXCEPT ![e] = AfterRollback(c, @)] /\ stuck' = stuck
      BY <2>1 DEF RollbackSucceeds
    <3>2. effects'[e] = AfterRollback(c, effects[e])
      BY <1>2, <3>1
    <3> QED
      BY <1>2, <3>1, <3>2 DEF AfterRollback, Handles
  <2>2. CASE RollbackFails(l)
    <3>1. stuck' = [stuck EXCEPT ![e] = @ \union {c}] /\ effects' = effects
      BY <2>2 DEF RollbackFails
    <3>2. stuck'[e] = stuck[e] \union {c}
      BY <1>2, <3>1
    <3> QED
      BY <1>2, <3>1, <3>2
  <2> QED
    BY <2>1, <2>2
<1>5. ASSUME NEW h \in effects'[e], h \in Nat, ~(h < c) PROVE Remains(e, h)'
  <2>1. CASE h = c
    BY <1>1, <1>4, <2>1 DEF Remains
  <2>2. CASE h # c
    <3>1. h \in effects[e] /\ h > c
      BY <1>2, <1>4, <1>5, <2>2
    <3> QED
      BY <1>1, <1>3, <1>4, <3>1 DEF Remains
  <2> QED
    BY <2>1, <2>2
<1>6. \A h \in effects'[e] : h \in Matching[e] /\ h \in Nat
  BY <1>2, <1>4
<1>7. CASE Earlier(l) = {}
  <2>1. \A h \in effects'[e] : ~(h < c)
    BY <1>6, <1>7 DEF Earlier
  <2> QED
    BY <1>1, <1>4, <1>5, <1>6, <1>7, <2>1 DEF UndoNext, Settled
<1>8. CASE Earlier(l) # {}
  <2> DEFINE m == Max(Earlier(l))
  <2>1. m \in Earlier(l) /\ m \in Nat /\ \A h \in Earlier(l) : h <= m
    <3>1. Earlier(l) \in SUBSET Nat /\ \A h \in Earlier(l) : h <= c
      BY <1>2 DEF Earlier
    <3> QED
      BY <1>2, <1>8, <3>1, HasMax
  <2>2. /\ pc' = [pc EXCEPT ![l] = "undoing"] /\ current' = [current EXCEPT ![l] = m]
        /\ UNCHANGED <<event, handled>>
    BY <1>1, <1>8 DEF UndoNext, StartUndoing
  <2> HIDE DEF m
  <2>3. pc'[l] = "undoing" /\ current'[l] = m /\ event'[l] = e
    BY <1>2, <2>2
  <2>4. \A h \in effects'[e] : h > m => ~(h < c)
    BY <1>2, <1>6, <2>1 DEF Earlier
  <2>5. InPlaceSoFar(l)'
    BY <1>5, <1>6, <2>3, <2>4 DEF InPlaceSoFar
  <2> QED
    BY <1>4, <2>2, <2>3, <2>5 DEF Continues
<1> QED
  BY <1>7, <1>8

LEMMA EffectHandler ==
  ASSUME TypeInv, OrderInv, EffectInv, Alive, NEW l \in Listeners,
         HandlerSucceeds(l) \/ HandlerFails(l) \/ RollbackSucceeds(l) \/ RollbackFails(l)
  PROVE  EffectInv'
<1>1. Active(l) /\ rollback' = rollback
  BY HandlerOutcome DEF setup
<1>2. PICK e \in Events : e = event[l] /\ PartitionOf(e) = l /\ e \notin Handled
  BY <1>1, FirstTime DEF TypeInv, ListenerType, AtHandler
<1>3. /\ \A d \in Events \ {e} : effects'[d] = effects[d] /\ stuck'[d] = stuck[d]
      /\ \/ Done(l, e, buffer[l]) /\ Settled(e)'
         \/ Continues(l) /\ current' = [current EXCEPT ![l] = current'[l]] /\ InPlaceSoFar(l)'
  BY <1>2, EffectSuccess, EffectFailure, EffectRollback
<1>4. CASE Done(l, e, buffer[l]) /\ Settled(e)'
  <2>1. /\ pc'[l] \in {"waiting", "exited"} /\ Handled' = Handled \union {e}
        /\ \A o \in Listeners \ {l} : /\ pc'[o] = pc[o] /\ event'[o] = event[o]
                                      /\ current'[o] = current[o]
    BY <1>4, DoneStep
  <2> QED
    BY <1>1, <1>2, <1>3, <1>4, <2>1, EffectsOfOthers DEF Active
<1>5. CASE Continues(l) /\ current' = [current EXCEPT ![l] = current'[l]] /\ InPlaceSoFar(l)'
  <2>1. /\ pc \in [Listeners -> Places] /\ current \in [Listeners -> Nat]
        /\ event \in [Listeners -> Events]
    BY DEF TypeInv, ListenerType
  <2>2. /\ pc'[l] \in {"handling", "undoing"} /\ event'[l] = e /\ Handled' = Handled
        /\ \A o \in Listeners \ {l} : /\ pc'[o] = pc[o] /\ event'[o] = event[o]
                                      /\ current'[o] = current[o]
    BY <1>2, <1>5, <2>1, HandledStays DEF Continues
  <2> QED
    BY <1>1, <1>2, <1>3, <1>5, <2>2, EffectsOfOthers DEF Active
<1> QED
  BY <1>3, <1>4, <1>5

LEMMA EffectStays ==
  ASSUME EffectInv, UNCHANGED <<event, current, handled, effects, stuck, rollback>>,
         Alive' => Alive,
         \A l \in Listeners : Active(l)' <=> Active(l),
         \A l \in Listeners : Active(l) => pc'[l] = pc[l]
  PROVE  EffectInv'
<1>1. Handled' = Handled
  BY HandledStays
<1>2. Taken' = Taken
  BY <1>1 DEF Taken
<1>3. AllOrNothing'
  BY <1>1 DEF EffectInv, AllOrNothing
<1>4. ASSUME Alive, NEW l \in Listeners PROVE InPlaceSoFar(l)'
  <2>1. InPlaceSoFar(l)
    BY <1>4 DEF EffectInv
  <2>2. CASE Active(l)
    BY <2>1, <2>2 DEF InPlaceSoFar, Earlier, Remains
  <2>3. CASE ~Active(l)
    BY <2>3 DEF InPlaceSoFar, Active
  <2> QED
    BY <2>2, <2>3
<1>5. Alive => Untouched'
  BY <1>2 DEF EffectInv, Untouched
<1> QED
  BY <1>3, <1>4, <1>5 DEF EffectInv

LEMMA EffectStep ==
  ASSUME TypeInv, LifeInv, OrderInv, EffectInv, [Next]_vars
  PROVE  EffectInv'
<1>1. CASE ~Alive
  <2>1. /\ ~Alive' /\ handled' = handled /\ effects' = effects /\ stuck' = stuck
        /\ rollback' = rollback
    BY <1>1, NothingAfterPanic, SetupStays DEF setup
  <2> QED
    BY <2>1, HandledStays DEF EffectInv, AllOrNothing
<1>2. CASE Alive
  <2>1. CASE \E l \in Listeners : Receive(l)
    BY <1>2, <2>1, EffectReceive
  <2>2. CASE \E l \in Listeners : \/ HandlerSucceeds(l) \/ HandlerFails(l)
                                  \/ RollbackSucceeds(l) \/ RollbackFails(l)
    BY <1>2, <2>2, EffectHandler
  <2>3. CASE \E l \in Listeners : RollbackPanics(l)
    <3>1. UNCHANGED <<handled, effects, stuck, rollback>> /\ ~Alive'
      BY <2>3 DEF RollbackPanics, setup, history, Alive
    <3> QED
      BY <3>1, HandledStays DEF EffectInv, AllOrNothing
  <2>4. CASE \/ \E p \in Publishers : Publishing(p)
             \/ \E l \in Listeners : SeeCancelled(l) \/ SeeClosed(l) \/ Emit(l)
             \/ Listen \/ ListenReturns \/ Cancel \/ Closing \/ UNCHANGED vars
    <3>1. UNCHANGED <<event, current, handled, effects, stuck, rollback>>
      BY <2>4 DEF Publishing, Publish, PublishUnknown, SeeCancelled, SeeClosed, Emit, Listen,
                  ListenReturns, Cancel, Closing, CloseTopic, CloseReturns, vars, setup, handling,
                  history
    <3>2. \A l \in Listeners : (Active(l)' <=> Active(l)) /\ (Active(l) => pc'[l] = pc[l])
      <4>1. CASE pc' = pc
        BY <4>1 DEF Active
      <4>2. CASE Listen
        BY <4>2 DEF Listen, Active, LifeInv, Goroutines
      <4>3. CASE \E l \in Listeners : SeeCancelled(l) \/ SeeClosed(l)
        BY <4>3 DEF SeeCancelled, SeeClosed, Active, TypeInv, ListenerType
      <4> QED
        BY <2>4, <4>1, <4>2, <4>3 DEF Publishing, Publish, PublishUnknown, Emit, ListenReturns,
                                      Cancel, Closing, CloseTopic, CloseReturns, vars
    <3> QED
      BY <1>2, <3>1, <3>2, EffectStays
  <2> QED
    BY <2>1, <2>2, <2>3, <2>4 DEF Next, Listener
<1> QED
  BY <1>1, <1>2

\* When a listener is done with an event, the effects of all its handlers are
\* in place, or none that a Rollback can take back: each event is handled once,
\* unless a Rollback has a handler publish again.
THEOREM HandlersSettle ==
  ASSUME NoneHandlesAgain
  PROVE  Spec => []AllOrNothing
<1>1. TypeInv /\ LifeInv /\ OrderInv /\ [Next]_vars => OrderInv'
  BY OrderStep
<1>2. TypeInv /\ LifeInv /\ OrderInv /\ EffectInv /\ [Next]_vars => EffectInv'
  BY EffectStep
<1>3. EffectInv => AllOrNothing
  BY DEF EffectInv
<1> QED
  BY <1>1, <1>2, <1>3, LifeInductive, OrderInit, EffectInit, PTL DEF Spec

-----------------------------------------------------------------------------
(***************************************************************************)
(* The bus concludes the events of a stream in the order in which it       *)
(* accepted them.  Three places hold an event: the partition, the hand of  *)
(* its listener and what was handled; it goes from one to the next before  *)
(* the place it leaves takes another, as a partition holds one event and a *)
(* stream has one listener.                                                *)
(***************************************************************************)
Accepted(k) == handled[k] \o InHand(k) \o InPartition(k)

\* A listener has an event in hand only while it is at a handler, or was when
\* the process ended.
HandInv == \A l \in Listeners : current[l] # 0 => Active(l) \/ pc[l] = "dead"

LEMMA JoinedSequences ==
  ASSUME NEW S, NEW s \in Seq(S), NEW t \in Seq(S), NEW e \in S
  PROVE  /\ s \o <<>> = s /\ s \o t \in Seq(S) /\ Len(s \o t) = Len(s) + Len(t)
         /\ Append(s, e) = s \o <<e>> /\ Len(s) \in Nat /\ <<e>> \in Seq(S) /\ Len(<<e>>) = 1
         /\ Append(s, e) # s
<1>1. <<e>> \in Seq(S) /\ Len(<<e>>) = 1 /\ Len(Append(s, e)) = Len(s) + 1 /\ Len(s) \in Nat
  OBVIOUS
<1>2. Append(s, e) # s
  BY <1>1
<1> QED
  BY <1>1, <1>2, ConcatProperties, ConcatEmptySeq, AppendIsConcat

LEMMA LaneType ==
  ASSUME TypeInv, NEW k \in StreamKeys, k[1] \in subscribed
  PROVE  Lane(k) \in Listeners
<1>1. k[1] \in Topics /\ hash[k] \in 1..PN
  BY ConstantsAssumption DEF TypeInv, SetupType
<1> QED
  BY <1>1 DEF Lane, Listeners

LEMMA LaneOfEvent ==
  ASSUME NEW e \in Events
  PROVE  /\ StreamOf(e) \in StreamKeys /\ StreamOf(e)[1] = e.topic
         /\ Lane(StreamOf(e)) = PartitionOf(e)
BY DEF StreamKeys, StreamOf, Lane, PartitionOf

LEMMA PlacesType ==
  ASSUME TypeInv, NEW k \in StreamKeys
  PROVE  /\ handled[k] \in Seq(Events) /\ InHand(k) \in Seq(Events)
         /\ InPartition(k) \in Seq(Events) /\ Accepted(k) \in Seq(Events)
<1>1. handled[k] \in Seq(Events) /\ <<>> \in Seq(Events)
  BY DEF TypeInv, HistoryType
<1>2. InHand(k) \in Seq(Events)
  <2>1. k[1] \in subscribed => event[Lane(k)] \in Events
    BY LaneType DEF TypeInv, ListenerType
  <2>2. k[1] \in subscribed => <<event[Lane(k)]>> \in Seq(Events)
    BY <2>1
  <2> QED
    BY <1>1, <2>2 DEF InHand
<1>3. InPartition(k) \in Seq(Events)
  <2>1. k[1] \in subscribed => buffer[Lane(k)] \in Seq(Events)
    BY LaneType DEF TypeInv, QueueType
  <2> QED
    BY <1>1, <2>1 DEF InPartition
<1>4. handled[k] \o InHand(k) \in Seq(Events)
  BY <1>1, <1>2, ConcatProperties
<1>5. (handled[k] \o InHand(k)) \o InPartition(k) \in Seq(Events)
  BY <1>3, <1>4, ConcatProperties
<1> QED
  BY <1>1, <1>2, <1>3, <1>5 DEF Accepted

\* What the hand and the partition of a stream hold depends on its own lane.
LEMMA OfOwnLane ==
  ASSUME NEW k \in StreamKeys, UNCHANGED setup, k[1] \in subscribed =>
           /\ event'[Lane(k)] = event[Lane(k)] /\ (current'[Lane(k)] # 0 <=> current[Lane(k)] # 0)
  PROVE  InHand(k)' = InHand(k)
BY DEF InHand, Lane, setup

LEMMA OfOwnPartition ==
  ASSUME NEW k \in StreamKeys, UNCHANGED setup, k[1] \in subscribed =>
           buffer'[Lane(k)] = buffer[Lane(k)]
  PROVE  InPartition(k)' = InPartition(k)
BY DEF InPartition, Lane, setup

LEMMA AcceptedStays ==
  ASSUME UNCHANGED <<setup, event, current, buffer, handled>>
  PROVE  \A k \in StreamKeys : Accepted(k)' = Accepted(k)
BY OfOwnLane, OfOwnPartition DEF Accepted

\* Of a stream of the lane, a listener or a partition has the event or nothing.
LEMMA HandOf ==
  ASSUME TypeInv, NEW k \in StreamKeys, k[1] \in subscribed, NEW e, event[Lane(k)] = e
  PROVE  InHand(k) = IF current[Lane(k)] # 0 /\ StreamOf(e) = k THEN <<e>> ELSE <<>>
BY DEF InHand

LEMMA PartitionHas ==
  ASSUME NEW k \in StreamKeys, k[1] \in subscribed, NEW e, buffer[Lane(k)] = <<e>>
  PROVE  InPartition(k) = IF StreamOf(e) = k THEN <<e>> ELSE <<>>
BY DEF InPartition

LEMMA SendAccepts ==
  ASSUME TypeInv, NEW e \in Events, Send(e), UNCHANGED <<setup, event, current, handled>>
  PROVE  \A k \in StreamKeys :
           Accepted(k)' = IF k = StreamOf(e) THEN Append(Accepted(k), e) ELSE Accepted(k)
<1> DEFINE to == PartitionOf(e)
<1>1. /\ to \in Listeners /\ e.topic \in subscribed /\ buffer[to] = <<>>
      /\ buffer' = [buffer EXCEPT ![to] = <<e>>] /\ subscribed' = subscribed /\ hash' = hash
      /\ to = Lane(StreamOf(e)) /\ StreamOf(e)[1] = e.topic
  BY SendStep, LaneOfEvent DEF setup
<1>2. buffer \in [Listeners -> Seq(Events)] /\ buffer'[to] = <<e>>
  BY <1>1 DEF TypeInv, QueueType
<1> HIDE DEF to
<1>3. SUFFICES ASSUME NEW k \in StreamKeys
               PROVE  Accepted(k)' = IF k = StreamOf(e) THEN Append(Accepted(k), e) ELSE Accepted(k)
  OBVIOUS
<1>4. InHand(k)' = InHand(k) /\ handled'[k] = handled[k] /\ Lane(k)' = Lane(k)
  BY <1>1, OfOwnLane DEF Lane
<1>5. CASE k = StreamOf(e)
  <2>1. InPartition(k) = <<>>
    BY <1>1, <1>5 DEF InPartition
  <2>2. InPartition(k)' = <<e>>
    BY <1>1, <1>2, <1>4, <1>5, OneElement DEF InPartition
  <2>3. /\ handled[k] \o InHand(k) \in Seq(Events)
        /\ Accepted(k) = handled[k] \o InHand(k)
    BY <2>1, PlacesType, JoinedSequences DEF Accepted
  <2>4. Append(Accepted(k), e) = (handled[k] \o InHand(k)) \o <<e>>
    BY <2>3, JoinedSequences
  <2> QED
    BY <1>4, <1>5, <2>2, <2>4 DEF Accepted
<1>6. CASE k # StreamOf(e)
  <2>1. InPartition(k)' = InPartition(k)
    <3>1. CASE k[1] \in subscribed /\ Lane(k) = to
      <4>1. InPartition(k) = <<>> /\ InPartition(k)' = <<>>
        BY <1>1, <1>2, <1>4, <1>6, <3>1, OneElement DEF InPartition
      <4> QED
        BY <4>1
    <3>2. CASE k[1] \in subscribed /\ Lane(k) # to
      BY <1>1, <1>2, <3>2, LaneType, OfOwnPartition
    <3>3. CASE k[1] \notin subscribed
      BY <3>3, OfOwnPartition
    <3> QED
      BY <3>1, <3>2, <3>3
  <2> QED
    BY <1>4, <1>6, <2>1 DEF Accepted
<1> QED
  BY <1>5, <1>6

\* The end of an event, which was in hand or, without a handler, in the partition
LEMMA DoneConcludes ==
  ASSUME TypeInv, NEW l \in Listeners, NEW e \in Events, NEW rest, Done(l, e, rest),
         UNCHANGED setup, PartitionOf(e) = l, e.topic \in subscribed,
         \/ current[l] # 0 /\ event[l] = e /\ buffer' = buffer
         \/ current[l] = 0 /\ buffer[l] = <<e>> /\ buffer' = [buffer EXCEPT ![l] = <<>>]
  PROVE  /\ \A k \in StreamKeys : Accepted(k)' = Accepted(k)
         /\ handled' = [handled EXCEPT ![StreamOf(e)] = Append(@, e)]
         /\ Len(handled[StreamOf(e)]) < Len(Accepted(StreamOf(e)))
<1>1. /\ handled' = [handled EXCEPT ![StreamOf(e)] = Append(@, e)]
      /\ current' = [current EXCEPT ![l] = 0]
      /\ event' = [event EXCEPT ![l] = NoEvent]
      /\ subscribed' = subscribed /\ hash' = hash
  BY DEF Done, Forget, setup
<1>2. /\ StreamOf(e) \in StreamKeys /\ Lane(StreamOf(e)) = l /\ StreamOf(e)[1] \in subscribed
      /\ handled \in [StreamKeys -> Seq(Events)] /\ current \in [Listeners -> Nat]
      /\ event \in [Listeners -> Events] /\ buffer \in [Listeners -> Seq(Events)]
  BY LaneOfEvent DEF TypeInv, HistoryType, ListenerType, QueueType
<1>3. ASSUME NEW k \in StreamKeys
      PROVE  Lane(k)' = Lane(k) /\ (k[1] \in subscribed /\ Lane(k) = l => InHand(k)' = <<>>)
  BY <1>1, <1>2 DEF Lane, InHand
<1>4. ASSUME NEW k \in StreamKeys, k # StreamOf(e)
      PROVE  Accepted(k)' = Accepted(k)
  <2>1. handled'[k] = handled[k]
    BY <1>1, <1>2, <1>4
  <2>2. InHand(k)' = InHand(k) /\ InPartition(k)' = InPartition(k)
    <3>1. CASE k[1] \in subscribed /\ Lane(k) = l
      <4>1. InHand(k)' = <<>> /\ InHand(k) = <<>>
        BY <1>3, <1>4, <3>1 DEF InHand
      <4>2. InPartition(k)' = InPartition(k)
        <5>1. CASE buffer' = buffer
          BY <5>1, OfOwnPartition
        <5>2. CASE buffer[l] = <<e>> /\ buffer' = [buffer EXCEPT ![l] = <<>>]
          <6>1. InPartition(k) = <<>>
            BY <1>4, <3>1, <5>2, OneElement DEF InPartition
          <6>2. InPartition(k)' = <<>>
            BY <1>2, <1>3, <3>1, <5>2 DEF InPartition
          <6> QED
            BY <6>1, <6>2
        <5> QED
          BY <5>1, <5>2
      <4> QED
        BY <4>1, <4>2
    <3>2. CASE k[1] \in subscribed /\ Lane(k) # l
      <4>1. Lane(k) \in Listeners
        BY <3>2, LaneType
      <4>2. /\ event'[Lane(k)] = event[Lane(k)] /\ current'[Lane(k)] = current[Lane(k)]
            /\ buffer'[Lane(k)] = buffer[Lane(k)]
        BY <1>1, <1>2, <3>2, <4>1
      <4> QED
        BY <4>2, OfOwnLane, OfOwnPartition
    <3>3. CASE k[1] \notin subscribed
      BY <3>3, OfOwnLane, OfOwnPartition
    <3> QED
      BY <3>1, <3>2, <3>3
  <2> QED
    BY <2>1, <2>2 DEF Accepted
<1> DEFINE s == StreamOf(e)
<1>5. /\ handled[s] \in Seq(Events) /\ InPartition(s) \in Seq(Events)
      /\ handled'[s] = handled[s] \o <<e>> /\ handled[s] \o <<e>> \in Seq(Events)
      /\ Len(handled[s] \o <<e>>) = Len(handled[s]) + 1 /\ Len(handled[s]) \in Nat
  <2>1. handled[s] \in Seq(Events) /\ InPartition(s) \in Seq(Events)
    BY <1>2, PlacesType
  <2>2. handled'[s] = Append(handled[s], e)
    BY <1>1, <1>2
  <2> QED
    BY <2>1, <2>2, JoinedSequences
<1>6. InHand(s)' = <<>> /\ Lane(s)' = l /\ s[1] \in subscribed'
  BY <1>1, <1>2, <1>3
<1>7. Accepted(s)' = handled'[s] \o InPartition(s)'
  BY <1>5, <1>6, ConcatEmptySeq DEF Accepted
<1>8. CASE current[l] # 0 /\ event[l] = e /\ buffer' = buffer
  <2>1. InHand(s) = <<e>> /\ InPartition(s)' = InPartition(s)
    BY <1>2, <1>8, OfOwnPartition DEF InHand
  <2>2. Accepted(s) = (handled[s] \o <<e>>) \o InPartition(s)
    BY <2>1 DEF Accepted
  <2>3. Len(Accepted(s)) = Len(handled[s]) + 1 + Len(InPartition(s)) /\ Len(InPartition(s)) \in Nat
    BY <1>5, <2>2, ConcatProperties
  <2>4. Accepted(s)' = Accepted(s)
    BY <1>5, <1>7, <2>1, <2>2
  <2>5. Len(handled[s]) < Len(Accepted(s))
    BY <1>5, <2>3
  <2> QED
    BY <1>1, <1>4, <2>4, <2>5
<1>9. CASE current[l] = 0 /\ buffer[l] = <<e>> /\ buffer' = [buffer EXCEPT ![l] = <<>>]
  <2>1. InHand(s) = <<>> /\ InPartition(s) = <<e>>
    BY <1>2, <1>9, OneElement DEF InHand, InPartition
  <2>2. InPartition(s)' = <<>>
    BY <1>2, <1>6, <1>9 DEF InPartition
  <2>3. Accepted(s) = handled[s] \o <<e>>
    BY <1>5, <2>1, ConcatEmptySeq DEF Accepted
  <2>4. Accepted(s)' = Accepted(s)
    BY <1>5, <1>7, <2>2, <2>3, ConcatEmptySeq
  <2>5. Len(handled[s]) < Len(Accepted(s))
    BY <1>5, <2>3
  <2> QED
    BY <1>1, <1>4, <2>4, <2>5
<1> QED
  BY <1>8, <1>9

LEMMA HandInit == Init => HandInv
BY DEF Init, HandInv

\* How a step treats the lanes: it sends an event, is done with one, or moves
\* one from the partition to the hand; whatever else it does is not seen.
Sends == \E e \in Events : Send(e) /\ UNCHANGED <<setup, pc, event, current, handled>>

Quiet ==
  /\ UNCHANGED <<setup, event, current, buffer, handled>>
  /\ \A l \in Listeners : current[l] # 0 /\ (Active(l) \/ pc[l] = "dead") =>
                            Active(l)' \/ pc'[l] = "dead"

TakesUp(l, e) ==
  /\ pc[l] = "waiting" /\ buffer[l] = <<e>> /\ PartitionOf(e) = l /\ e.topic \in subscribed
  /\ buffer' = [buffer EXCEPT ![l] = <<>>]
  /\ event' = [event EXCEPT ![l] = e]
  /\ pc' = [pc EXCEPT ![l] = "handling"]
  /\ current'[l] # 0 /\ \A o \in Listeners \ {l} : current'[o] = current[o]
  /\ UNCHANGED <<setup, handled>>

GoesOn(l) ==
  /\ Active(l) /\ Active(l)' /\ current[l] # 0 /\ current'[l] # 0
  /\ \A o \in Listeners \ {l} : current'[o] = current[o] /\ pc'[o] = pc[o]
  /\ UNCHANGED <<setup, event, buffer, handled>>

Finishes(l, e) ==
  /\ \E rest : Done(l, e, rest)
  /\ PartitionOf(e) = l /\ e.topic \in subscribed /\ UNCHANGED setup
  /\ \/ current[l] # 0 /\ event[l] = e /\ buffer' = buffer
     \/ pc[l] = "waiting" /\ buffer[l] = <<e>> /\ buffer' = [buffer EXCEPT ![l] = <<>>]

\* An active listener is at a handler, of an event of a subscribed topic.
LEMMA ActiveListener ==
  ASSUME TypeInv, LifeInv, NEW l \in Listeners, Active(l)
  PROVE  /\ current[l] # 0 /\ event[l] \in Events
         /\ PartitionOf(event[l]) = l /\ event[l].topic \in subscribed
<1>1. event[l] \in Events /\ current[l] \in Matching[event[l]] /\ PartitionOf(event[l]) = l
  BY DEF TypeInv, ListenerType, AtHandler
<1>2. current[l] # 0
  BY <1>1, ConstantsAssumption
<1>3. l[1] \in subscribed
  BY DEF LifeInv, Goroutines, Active
<1> QED
  BY <1>1, <1>2, <1>3 DEF PartitionOf

LEMMA ReceiveLane ==
  ASSUME TypeInv, NEW l \in Listeners, Receive(l)
  PROVE  \E e \in Events : TakesUp(l, e) \/ Finishes(l, e)
<1>1. buffer[l] # <<>> /\ pc[l] = "waiting" /\ buffer' = [buffer EXCEPT ![l] = Tail(@)]
      /\ UNCHANGED setup
  BY DEF Receive
<1>2. PICK e \in Events : buffer[l] = <<e>> /\ PartitionOf(e) = l /\ e.topic \in subscribed
  BY <1>1 DEF TypeInv, QueueType, OneEvent
<1>3. Head(buffer[l]) = e /\ Tail(buffer[l]) = <<>> /\ buffer' = [buffer EXCEPT ![l] = <<>>]
  BY <1>1, <1>2, OneElement DEF TypeInv, QueueType
<1>4. CASE Matching[e] = {}
  <2>1. Done(l, e, <<>>)
    BY <1>3, <1>4 DEF Receive
  <2> QED
    BY <1>1, <1>2, <1>3, <2>1 DEF Finishes
<1>5. CASE Matching[e] # {}
  <2>1. /\ pc' = [pc EXCEPT ![l] = "handling"] /\ event' = [event EXCEPT ![l] = e]
        /\ current' = [current EXCEPT ![l] = Min(Matching[e])] /\ handled' = handled
    BY <1>3, <1>5 DEF Receive
  <2>2. Min(Matching[e]) # 0
    <3>1. Matching[e] \in SUBSET Nat /\ 0 \notin Matching[e]
      BY ConstantsAssumption
    <3> QED
      BY <1>5, <3>1, HasMin
  <2>3. current'[l] # 0 /\ \A o \in Listeners \ {l} : current'[o] = current[o]
    BY <2>1, <2>2 DEF TypeInv, ListenerType
  <2> QED
    BY <1>1, <1>2, <1>3, <2>1, <2>3 DEF TakesUp
<1> QED
  BY <1>4, <1>5

LEMMA HandlerLane ==
  ASSUME TypeInv, TypeInv', LifeInv, LifeInv', NEW l \in Listeners,
         HandlerSucceeds(l) \/ HandlerFails(l) \/ RollbackSucceeds(l) \/ RollbackFails(l)
  PROVE  GoesOn(l) \/ Finishes(l, event[l])
<1>1. /\ Active(l) /\ UNCHANGED <<setup, buffer>>
      /\ Done(l, event[l], buffer[l]) \/ Continues(l)
  BY HandlerOutcome
<1>2. /\ current[l] # 0 /\ event[l] \in Events
      /\ PartitionOf(event[l]) = l /\ event[l].topic \in subscribed
  BY <1>1, ActiveListener
<1>3. CASE Done(l, event[l], buffer[l])
  BY <1>1, <1>2, <1>3 DEF Finishes
<1>4. CASE ~Done(l, event[l], buffer[l])
  <2>1. Continues(l) /\ pc \in [Listeners -> Places] /\ current \in [Listeners -> Nat]
    BY <1>1, <1>4 DEF TypeInv, ListenerType
  <2>2. Active(l)' /\ \A o \in Listeners \ {l} : pc'[o] = pc[o]
    BY <2>1 DEF Continues, Active
  <2>3. \E h : current' = [current EXCEPT ![l] = h]
    <3>1. CASE HandlerSucceeds(l)
      BY <1>4, <3>1 DEF HandlerSucceeds
    <3>2. CASE HandlerFails(l)
      BY <3>2 DEF HandlerFails, StartUndoing
    <3>3. CASE RollbackSucceeds(l) \/ RollbackFails(l)
      BY <1>4, <3>3 DEF RollbackSucceeds, RollbackFails, UndoNext, StartUndoing
    <3> QED
      BY <3>1, <3>2, <3>3
  <2>4. \A o \in Listeners \ {l} : current'[o] = current[o]
    BY <2>1, <2>3
  <2>5. current'[l] # 0
    <3>1. event'[l] \in Events /\ current'[l] \in Matching[event'[l]]
      BY <2>2 DEF TypeInv, ListenerType, AtHandler
    <3> QED
      BY <3>1, ConstantsAssumption
  <2> QED
    BY <1>1, <1>2, <2>1, <2>2, <2>4, <2>5 DEF GoesOn, Continues
<1> QED
  BY <1>3, <1>4

LEMMA LaneOfStep ==
  ASSUME TypeInv, TypeInv', LifeInv, LifeInv', [Next]_vars
  PROVE  \/ Sends \/ Quiet
         \/ \E l \in Listeners : \/ GoesOn(l)
                                 \/ \E e \in Events : TakesUp(l, e) \/ Finishes(l, e)
<1>1. CASE \E p \in Publishers : Publish(p)
  <2>1. PICK p \in Publishers : Publish(p)
    BY <1>1
  <2>2. Head(outgoing[p]) \in Events
    BY <2>1, HeadAndTail DEF Publish, TypeInv, QueueType
  <2> QED
    BY <2>1, <2>2 DEF Publish, Sends, handling
<1>2. CASE \E l \in Listeners : Emit(l)
  <2>1. PICK l \in Listeners : Emit(l)
    BY <1>2
  <2>2. Head(emitting[l]) \in Events
    BY <2>1, HeadAndTail DEF Emit, TypeInv, ListenerType
  <2> QED
    BY <2>1, <2>2 DEF Emit, Sends
<1>3. CASE \E l \in Listeners : Receive(l)
  BY <1>3, ReceiveLane
<1>4. CASE \E l \in Listeners : \/ HandlerSucceeds(l) \/ HandlerFails(l)
                                \/ RollbackSucceeds(l) \/ RollbackFails(l)
  <2>1. PICK l \in Listeners : \/ HandlerSucceeds(l) \/ HandlerFails(l)
                               \/ RollbackSucceeds(l) \/ RollbackFails(l)
    BY <1>4
  <2>2. event[l] \in Events
    BY DEF TypeInv, ListenerType
  <2> QED
    BY <2>1, <2>2, HandlerLane
<1>5. CASE \/ \E p \in Publishers : PublishUnknown(p)
           \/ \E l \in Listeners : SeeCancelled(l) \/ SeeClosed(l) \/ RollbackPanics(l)
           \/ Listen \/ ListenReturns \/ Cancel \/ Closing \/ UNCHANGED vars
  <2>1. UNCHANGED <<setup, event, current, buffer, handled>>
    BY <1>5 DEF PublishUnknown, SeeCancelled, SeeClosed, RollbackPanics, Listen, ListenReturns,
                Cancel, Closing, CloseTopic, CloseReturns, vars, handling, history
  <2>2. ASSUME NEW l \in Listeners, Active(l) \/ pc[l] = "dead"
        PROVE  Active(l)' \/ pc'[l] = "dead"
    <3>1. CASE pc' = pc
      BY <2>2, <3>1 DEF Active
    <3>2. CASE Listen
      BY <2>2, <3>2 DEF Listen, Active, LifeInv, Goroutines
    <3>3. CASE \E o \in Listeners : SeeCancelled(o) \/ SeeClosed(o)
      BY <2>2, <3>3 DEF SeeCancelled, SeeClosed, Active, TypeInv, ListenerType
    <3>4. CASE \E o \in Listeners : RollbackPanics(o)
      BY <3>4 DEF RollbackPanics
    <3> QED
      BY <1>5, <3>1, <3>2, <3>3, <3>4 DEF PublishUnknown, ListenReturns, Cancel, Closing,
                                          CloseTopic, CloseReturns, vars
  <2> QED
    BY <2>1, <2>2 DEF Quiet
<1> QED
  BY <1>1, <1>2, <1>3, <1>4, <1>5 DEF Next, Publishing, Listener

LEMMA HandStep ==
  ASSUME TypeInv, TypeInv', LifeInv, LifeInv', HandInv, [Next]_vars
  PROVE  HandInv'
<1>1. pc \in [Listeners -> Places]
  BY DEF TypeInv, ListenerType
<1>2. CASE Sends
  BY <1>2 DEF Sends, HandInv, Active
<1>3. CASE Quiet
  BY <1>3 DEF Quiet, HandInv
<1>4. ASSUME NEW l \in Listeners, NEW e \in Events, TakesUp(l, e)
      PROVE  HandInv'
  BY <1>1, <1>4 DEF TakesUp, HandInv, Active
<1>5. ASSUME NEW l \in Listeners, GoesOn(l)
      PROVE  HandInv'
  BY <1>5 DEF GoesOn, HandInv, Active
<1>6. ASSUME NEW l \in Listeners, NEW e \in Events, Finishes(l, e)
      PROVE  HandInv'
  <2>1. /\ current'[l] = 0
        /\ \A o \in Listeners \ {l} : current'[o] = current[o] /\ pc'[o] = pc[o]
    BY <1>1, <1>6 DEF Finishes, Done, Forget, TypeInv, ListenerType
  <2> QED
    BY <2>1 DEF HandInv, Active
<1> QED
  BY <1>2, <1>3, <1>4, <1>5, <1>6, LaneOfStep

\* What moves from the partition to the hand stays accepted, at the same place.
LEMMA TakesUpStays ==
  ASSUME TypeInv, HandInv, NEW l \in Listeners, NEW e \in Events, TakesUp(l, e)
  PROVE  \A k \in StreamKeys : Accepted(k)' = Accepted(k)
<1>1. /\ pc[l] = "waiting" /\ buffer[l] = <<e>> /\ buffer' = [buffer EXCEPT ![l] = <<>>]
      /\ event' = [event EXCEPT ![l] = e] /\ current'[l] # 0
      /\ \A o \in Listeners \ {l} : current'[o] = current[o]
      /\ subscribed' = subscribed /\ hash' = hash /\ handled' = handled
      /\ event \in [Listeners -> Events] /\ buffer \in [Listeners -> Seq(Events)]
  BY DEF TakesUp, setup, TypeInv, ListenerType, QueueType
<1>2. current[l] = 0
  BY <1>1 DEF HandInv, Active
<1>3. SUFFICES ASSUME NEW k \in StreamKeys PROVE Accepted(k)' = Accepted(k)
  OBVIOUS
<1>4. Lane(k)' = Lane(k) /\ handled[k] \in Seq(Events)
  BY <1>1, PlacesType DEF Lane
<1>5. CASE k[1] \in subscribed /\ Lane(k) = l
  <2> DEFINE it == IF StreamOf(e) = k THEN <<e>> ELSE <<>>
  <2>1. InHand(k) = <<>> /\ InPartition(k) = it
    BY <1>1, <1>2, <1>5, OneElement DEF InHand, InPartition
  <2>2. InHand(k)' = it /\ InPartition(k)' = <<>>
    BY <1>1, <1>4, <1>5 DEF InHand, InPartition
  <2>3. handled[k] \o <<>> = handled[k] /\ (handled[k] \o it) \o <<>> = handled[k] \o it
    BY <1>4, OneElement, ConcatProperties, ConcatEmptySeq
  <2> QED
    BY <1>1, <2>1, <2>2, <2>3 DEF Accepted
<1>6. CASE k[1] \in subscribed /\ Lane(k) # l
  <2>1. Lane(k) \in Listeners
    BY <1>6, LaneType
  <2>2. /\ event'[Lane(k)] = event[Lane(k)] /\ current'[Lane(k)] = current[Lane(k)]
        /\ buffer'[Lane(k)] = buffer[Lane(k)]
    BY <1>1, <1>6, <2>1
  <2>3. InHand(k)' = InHand(k) /\ InPartition(k)' = InPartition(k)
    BY <2>2, OfOwnLane, OfOwnPartition DEF TakesUp
  <2> QED
    BY <1>1, <2>3 DEF Accepted
<1>7. CASE k[1] \notin subscribed
  <2>1. InHand(k)' = InHand(k) /\ InPartition(k)' = InPartition(k)
    BY <1>7, OfOwnLane, OfOwnPartition DEF TakesUp
  <2> QED
    BY <1>1, <2>1 DEF Accepted
<1> QED
  BY <1>5, <1>6, <1>7

LEMMA GoesOnStays ==
  ASSUME TypeInv, NEW l \in Listeners, GoesOn(l)
  PROVE  \A k \in StreamKeys : Accepted(k)' = Accepted(k)
<1>1. SUFFICES ASSUME NEW k \in StreamKeys PROVE Accepted(k)' = Accepted(k)
  OBVIOUS
<1>2. /\ UNCHANGED <<setup, event, buffer, handled>>
      /\ \A o \in Listeners : current'[o] # 0 <=> current[o] # 0
  BY DEF GoesOn
<1>3. k[1] \in subscribed => Lane(k) \in Listeners
  BY LaneType
<1>4. InHand(k)' = InHand(k) /\ InPartition(k)' = InPartition(k)
  BY <1>2, <1>3, OfOwnLane, OfOwnPartition
<1> QED
  BY <1>2, <1>4 DEF Accepted

\* The step of the abstract bus that a step of this bus is
LEMMA DeliveryMakes ==
  ASSUME TypeInv, TypeInv', LifeInv, LifeInv', HandInv, [Next]_vars
  PROVE  [Promise!Next]_<<[k \in StreamKeys |-> handled[k] \o InHand(k) \o InPartition(k)],
                          [k \in StreamKeys |-> Len(handled[k])],
                          [k \in StreamKeys |-> TRUE]>>
<1> DEFINE Log == [k \in StreamKeys |-> handled[k] \o InHand(k) \o InPartition(k)]
           Upto == [k \in StreamKeys |-> Len(handled[k])]
<1>1. /\ \A k \in StreamKeys : Log[k] = Accepted(k) /\ Log'[k] = Accepted(k)'
      /\ \A k \in StreamKeys : Accepted(k) \in Seq(Events)
  BY PlacesType DEF Accepted
<1>2. ASSUME \A k \in StreamKeys : Accepted(k)' = Accepted(k)
      PROVE  Log' = Log
  BY <1>2 DEF Accepted
<1>3. CASE Sends
  <2>1. PICK e \in Events : Send(e) /\ UNCHANGED <<setup, pc, event, current, handled>>
    BY <1>3 DEF Sends
  <2> DEFINE s == StreamOf(e)
  <2>2. /\ s \in StreamKeys
        /\ \A k \in StreamKeys :
             Accepted(k)' = IF k = s THEN Append(Accepted(k), e) ELSE Accepted(k)
    BY <2>1, SendAccepts, LaneOfEvent
  <2>3. Log' = [Log EXCEPT ![s] = Append(@, e)]
    BY <1>1, <2>2
  <2>4. Log'[s] # Log[s]
    <3>1. Accepted(s) \in Seq(Events)
      BY <1>1, <2>2
    <3>2. Append(Accepted(s), e) # Accepted(s)
      BY <3>1, JoinedSequences
    <3> QED
      BY <1>1, <2>2, <3>2
  <2>5. Upto' = Upto
    BY <2>1
  <2>6. Promise!Accept(s)
    BY <2>1, <2>3, <2>4 DEF Promise!Accept
  <2> QED
    BY <2>2, <2>5, <2>6 DEF Promise!Next
<1>4. CASE Quiet
  <2>1. Log' = Log /\ Upto' = Upto
    BY <1>2, <1>4, AcceptedStays DEF Quiet
  <2> QED
    BY <2>1
<1>5. ASSUME NEW l \in Listeners, NEW e \in Events, TakesUp(l, e)
      PROVE  Log' = Log /\ Upto' = Upto
  BY <1>2, <1>5, TakesUpStays DEF TakesUp
<1>6. ASSUME NEW l \in Listeners, GoesOn(l)
      PROVE  Log' = Log /\ Upto' = Upto
  BY <1>2, <1>6, GoesOnStays DEF GoesOn
<1>7. ASSUME NEW l \in Listeners, NEW e \in Events, Finishes(l, e)
      PROVE  Promise!Next
  <2> DEFINE s == StreamOf(e)
  <2>1. current[l] = 0 \/ (current[l] # 0 /\ event[l] = e /\ buffer' = buffer)
    <3>1. pc[l] = "waiting" => current[l] = 0
      BY DEF HandInv, Active
    <3>2. \/ current[l] # 0 /\ event[l] = e /\ buffer' = buffer
          \/ pc[l] = "waiting"
      BY <1>7, Zenon DEF Finishes
    <3> QED
      BY <3>1, <3>2
  <2>2. PICK rest : Done(l, e, rest)
    BY <1>7 DEF Finishes
  <2>3. /\ \A k \in StreamKeys : Accepted(k)' = Accepted(k)
        /\ handled' = [handled EXCEPT ![s] = Append(@, e)]
        /\ Len(handled[s]) < Len(Accepted(s))
    BY <1>7, <2>1, <2>2, DoneConcludes DEF Finishes
  <2>4. s \in StreamKeys /\ handled \in [StreamKeys -> Seq(Events)]
    BY LaneOfEvent DEF TypeInv, HistoryType
  <2>5. Upto' = [Upto EXCEPT ![s] = @ + 1]
    <3>1. handled[s] \in Seq(Events) /\ handled'[s] = Append(handled[s], e)
      BY <2>3, <2>4
    <3>2. Len(handled'[s]) = Len(handled[s]) + 1
      BY <3>1, AppendOne
    <3>3. \A k \in StreamKeys \ {s} : handled'[k] = handled[k]
      BY <2>3, <2>4
    <3> QED
      BY <3>2, <3>3
  <2>6. Log' = Log /\ Upto[s] < Len(Log[s])
    BY <1>1, <1>2, <2>3, <2>4
  <2> QED
    BY <2>4, <2>5, <2>6 DEF Promise!Next, Promise!Conclude
<1> QED
  BY <1>3, <1>4, <1>5, <1>6, <1>7, LaneOfStep

\* The bus concludes the events of each stream in the order in which it accepted
\* them and passes over none, whoever publishes them, whatever fails, panics, is
\* cancelled or closed, and whichever handlers publish again.
THEOREM ChannelBusImplementsDelivery == Spec => ImplementsDelivery
<1>1. Init => Promise!Init
  <2> SUFFICES ASSUME Init PROVE Promise!Init
    OBVIOUS
  <2>1. ASSUME NEW k \in StreamKeys
        PROVE  handled[k] = <<>> /\ InHand(k) = <<>> /\ InPartition(k) = <<>>
    <3>1. TypeInv
      BY TypeInit
    <3> QED
      BY <3>1, LaneType DEF Init, InHand, InPartition
  <2>2. <<>> \o <<>> \o <<>> = <<>> /\ Len(<<>>) = 0
    OBVIOUS
  <2>3. /\ [k \in StreamKeys |-> handled[k] \o InHand(k) \o InPartition(k)]
           = [k \in StreamKeys |-> <<>>]
        /\ [k \in StreamKeys |-> Len(handled[k])] = [k \in StreamKeys |-> 0]
    BY <2>1, <2>2
  <2> QED
    BY <2>3 DEF Promise!Init
<1>2. TypeInv /\ LifeInv /\ HandInv /\ TypeInv' /\ LifeInv' /\ [Next]_vars => HandInv'
  BY HandStep
<1>3. ASSUME TypeInv, TypeInv', LifeInv, LifeInv', HandInv, [Next]_vars
      PROVE  [Promise!Next]_<<[k \in StreamKeys |-> handled[k] \o InHand(k) \o InPartition(k)],
                              [k \in StreamKeys |-> Len(handled[k])],
                              [k \in StreamKeys |-> TRUE]>>
  BY <1>3, DeliveryMakes
<1> QED
  BY <1>1, <1>2, <1>3, LifeInductive, HandInit, PTL DEF Spec, ImplementsDelivery, Promise!Spec
=============================================================================
