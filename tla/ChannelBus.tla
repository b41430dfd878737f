----------------------------- MODULE ChannelBus -----------------------------
(***************************************************************************)
(* The in-process event bus of pkg/eventbus/channel.go.                    *)
(*                                                                         *)
(* Every subscribed topic (stream name) has PN partitions: Go channels     *)
(* that hold one event each, with a listener goroutine of their own.  An   *)
(* event goes to the partition that its stream hashes to; Publish blocks   *)
(* while that partition is full.  A listener calls the matching handlers   *)
(* in order and, when one fails, rolls back from that one to the first.    *)
(* A handler may publish in turn, as the mutator does.  What its Rollback  *)
(* does depends on how the handler was made:                               *)
(*                                                                         *)
(*   "undoes"   HandlerFunc, or a controller that a projection was given   *)
(*              together with its rollback                                 *)
(*   "nothing"  MutatorHandler, or HandlerFunc without a rollback          *)
(*   "handles"  any handler within the logging interceptors, whose         *)
(*              Rollback calls Handle                                      *)
(*   "missing"  a projection's controller without a rollback: the call of  *)
(*              a nil function ends the process                            *)
(***************************************************************************)
EXTENDS Integers, Sequences, FiniteSets, SequencesExt

CONSTANTS
  Topics,         \* the topics of the events
  Subscriptions,  \* the sets of topics for which Subscribe may have been called
  PN,             \* partitions of each topic
  Hashes,         \* the assignments of streams to partitions considered
  Events,         \* records [topic, stream, by, n]: the n-th event that "by" publishes,
                  \* a publisher or the first handler of some event
  Publishers,     \* the goroutines that call Publish
  Batch,          \* the events each of them publishes, in order
  Emits,          \* the events that the first handler of an event publishes, in order
  Matching,       \* the handlers, numbered by subscription, that match an event
  Rollbacks,      \* the kinds of Rollback the handlers may have been given
  MayFail,        \* whether handlers may return errors
  MayCancel,      \* whether the context of Listen may be cancelled
  MayClose        \* whether Close may be called

Listeners == Topics \X (1..PN)

StreamOf(e) == <<e.topic, e.stream>>

StreamKeys == {StreamOf(e) : e \in Events}

ASSUME ConstantsAssumption ==
  /\ PN \in Nat \ {0}
  /\ IsFiniteSet(Topics)
  /\ Subscriptions \subseteq (SUBSET Topics) \ {{}}  \* Close panics when there are none
  /\ Hashes \subseteq [StreamKeys -> 1..PN]
  /\ Batch \in [Publishers -> Seq(Events)]
  /\ Emits \in [Events -> Seq(Events)]
  /\ \A e \in Events : Matching[e] \subseteq Nat \ {0} /\ IsFiniteSet(Matching[e])
  /\ \A e \in Events : Matching[e] = {} => Emits[e] = <<>>
  /\ \A r \in Rollbacks, e \in Events : Matching[e] \subseteq DOMAIN r
  /\ MayFail \in BOOLEAN /\ MayCancel \in BOOLEAN /\ MayClose \in BOOLEAN

ASSUME EventsAreNumbered ==
  /\ Events # {} /\ \A e \in Events : e.n \in Nat
  /\ \A p \in Publishers : \A i, j \in DOMAIN Batch[p] :
       /\ Batch[p][i].by = p
       /\ i < j => Batch[p][i].n < Batch[p][j].n
  /\ \A e \in Events : \A i, j \in DOMAIN Emits[e] :
       /\ Emits[e][i].by \notin Publishers
       /\ i < j => Emits[e][i].n < Emits[e][j].n
  /\ \A e, f \in Events : \A i \in DOMAIN Emits[e], j \in DOMAIN Emits[f] :
       Emits[e][i].by = Emits[f][j].by => e = f

VARIABLES
  subscribed, \* the topics with a Subscribe call, made before anything else
  hash,       \* the partition of each stream: DJB2 with the topic's random seed
  rollback,   \* what the Rollback of each handler does
  buffer,     \* the event each partition holds, if any
  outgoing,   \* what each Publish call still has to send
  pc,         \* "absent", "waiting", "handling", "undoing", "exited" or "dead"
  event,      \* the event a listener is handling
  current,    \* the handler it is calling
  emitting,   \* what that handler still has to publish
  closed,     \* the listener's own flag, set when it has seen closeSig
  closeSig,   \* the topics whose closeSig is closed
  cancelled,  \* whether the context is cancelled
  wg,         \* the counter of Channel.wg
  listen,     \* the Listen call: "new", "waiting", "returned", "dead"
  close,      \* the Close call: "new", "closing", "returned", "dead"
  handled,    \* history: the events of each stream that listeners are done with, in order
  promised,   \* history: the events partitions accepted before Close
  effects,    \* history: the handlers whose effect on an event is in place
  stuck       \* history: the handlers whose Rollback of an event failed

setup == <<subscribed, hash, rollback>>
handling == <<event, current, emitting>>
lifecycle == <<closeSig, cancelled, wg, listen, close>>
history == <<handled, promised, effects, stuck>>

vars == <<setup, buffer, outgoing, pc, handling, closed, lifecycle, history>>

-----------------------------------------------------------------------------
(***************************************************************************)
(* Publish, by a goroutine of the application or by a handler.             *)
(***************************************************************************)
\* Mutant: spread by event, not by stream
PartitionOfEvent(e) == <<e.topic, 1 + (e.n % PN)>>

PartitionOf(e) == <<e.topic, hash[StreamOf(e)]>>

\* Mutant: a channel of capacity 2
HasRoomForTwo(l) == Len(buffer[l]) < 2

HasRoom(l) == Len(buffer[l]) < 1

\* channel.publish: the send blocks while the partition is full.
Send(e) ==
  LET l == PartitionOf(e)
  IN  /\ e.topic \in subscribed
      /\ HasRoom(l)
      /\ buffer' = [buffer EXCEPT ![l] = Append(@, e)]
      /\ promised' = IF close = "new" THEN promised \union {e} ELSE promised

Publish(p) ==
  /\ outgoing[p] # <<>>
  /\ Send(Head(outgoing[p]))
  /\ outgoing' = [outgoing EXCEPT ![p] = Tail(@)]
  /\ UNCHANGED <<setup, pc, handling, closed, lifecycle, handled, effects, stuck>>

\* No channel for the topic: an error, and the rest is not published.
PublishUnknown(p) ==
  /\ outgoing[p] # <<>>
  /\ Head(outgoing[p]).topic \notin subscribed
  /\ outgoing' = [outgoing EXCEPT ![p] = <<>>]
  /\ UNCHANGED <<setup, buffer, pc, handling, closed, lifecycle, history>>

-----------------------------------------------------------------------------
(***************************************************************************)
(* A listener: the select loop of listenPartition.                         *)
(***************************************************************************)
SeeCancelled(l) ==
  /\ pc[l] = "waiting"
  /\ cancelled
  /\ pc' = [pc EXCEPT ![l] = "exited"]
  /\ UNCHANGED <<setup, buffer, outgoing, handling, closed, lifecycle, history>>

\* Mutant: returns at once, as on ctx.Done
SeeClosedAndExit(l) ==
  /\ pc[l] = "waiting"
  /\ l[1] \in closeSig
  /\ closed' = [closed EXCEPT ![l] = TRUE]
  /\ pc' = [pc EXCEPT ![l] = "exited"]
  /\ UNCHANGED <<setup, buffer, outgoing, handling, lifecycle, history>>

SeeClosed(l) ==
  /\ pc[l] = "waiting"
  /\ l[1] \in closeSig
  /\ closed' = [closed EXCEPT ![l] = TRUE]
  /\ pc' = [pc EXCEPT ![l] = IF buffer[l] = <<>> THEN "exited" ELSE "waiting"]
  /\ UNCHANGED <<setup, buffer, outgoing, handling, lifecycle, history>>

\* The variables of an iteration of the loop before it has an event
NoEvent == CHOOSE e \in Events : TRUE

Forget(l) ==
  /\ event' = [event EXCEPT ![l] = NoEvent]
  /\ current' = [current EXCEPT ![l] = 0]
  /\ emitting' = [emitting EXCEPT ![l] = <<>>]

\* Mutant: the listener returns after an event
DoneAndExit(l, e, rest) ==
  /\ pc' = [pc EXCEPT ![l] = "exited"]
  /\ handled' = [handled EXCEPT ![StreamOf(e)] = Append(@, e)]
  /\ Forget(l)

\* The end of an event, with what is in the partition by then
Done(l, e, rest) ==
  /\ pc' = [pc EXCEPT ![l] = IF rest = <<>> /\ closed[l] THEN "exited" ELSE "waiting"]
  /\ handled' = [handled EXCEPT ![StreamOf(e)] = Append(@, e)]
  /\ Forget(l)

\* What a call of Handle publishes: the first handler of an event does.
Output(e, h) == IF h = Min(Matching[e]) THEN Emits[e] ELSE <<>>

Receive(l) ==
  /\ pc[l] = "waiting"
  /\ buffer[l] # <<>>
  /\ LET e == Head(buffer[l])
     IN  /\ buffer' = [buffer EXCEPT ![l] = Tail(@)]
         /\ IF Matching[e] = {}
            THEN Done(l, e, Tail(buffer[l]))
            ELSE /\ pc' = [pc EXCEPT ![l] = "handling"]
                 /\ event' = [event EXCEPT ![l] = e]
                 /\ current' = [current EXCEPT ![l] = Min(Matching[e])]
                 /\ emitting' = [emitting EXCEPT ![l] = Emits[e]]
                 /\ UNCHANGED handled
  /\ UNCHANGED <<setup, outgoing, closed, lifecycle, promised, effects, stuck>>

Emit(l) ==
  /\ pc[l] \in {"handling", "undoing"}
  /\ emitting[l] # <<>>
  /\ Send(Head(emitting[l]))
  /\ emitting' = [emitting EXCEPT ![l] = Tail(@)]
  /\ UNCHANGED <<setup, outgoing, pc, event, current, closed, lifecycle, handled, effects, stuck>>

Later(l) == {h \in Matching[event[l]] : h > current[l]}

\* Mutant: only the failing handler is rolled back
NoneEarlier(l) == {}

Earlier(l) == {h \in Matching[event[l]] : h < current[l]}

HandlerSucceeds(l) ==
  /\ pc[l] = "handling"
  /\ emitting[l] = <<>>
  /\ effects' = [effects EXCEPT ![event[l]] = @ \union {current[l]}]
  /\ IF Later(l) = {}
     THEN Done(l, event[l], buffer[l])
     ELSE /\ current' = [current EXCEPT ![l] = Min(Later(l))]
          /\ UNCHANGED <<pc, event, emitting, handled>>
  /\ UNCHANGED <<setup, buffer, outgoing, closed, lifecycle, promised, stuck>>

\* The handler publishes to a topic without a channel.
PublishesUnknown(l) == emitting[l] # <<>> /\ Head(emitting[l]).topic \notin subscribed

\* The logging interceptors call Handle, which also publishes again.
Handles(h) == rollback[h] = "handles"

\* A projection calls the rollback of the controller, if it has one or not.
CallsNil(h) == rollback[h] = "missing"

StartUndoing(l, h) ==
  /\ pc' = [pc EXCEPT ![l] = "undoing"]
  /\ current' = [current EXCEPT ![l] = h]
  /\ emitting' = [emitting EXCEPT
       ![l] = IF Handles(h) THEN Output(event[l], h) ELSE <<>>]
  /\ UNCHANGED <<event, handled>>

\* A handler that fails may have had its effect.  Rollback is called on it too.
HandlerFails(l) ==
  /\ pc[l] = "handling"
  /\ MayFail \/ PublishesUnknown(l)
  /\ \E done \in SUBSET {current[l]} :
       effects' = [effects EXCEPT ![event[l]] = @ \union done]
  /\ StartUndoing(l, current[l])
  /\ UNCHANGED <<setup, buffer, outgoing, closed, lifecycle, promised, stuck>>

\* Then it is called on those before it, down to the first.
UndoNext(l) ==
  IF Earlier(l) = {}
  THEN Done(l, event[l], buffer[l])
  ELSE StartUndoing(l, Max(Earlier(l)))

AfterRollback(h, before) ==
  IF Handles(h) THEN before \union {h}
  ELSE IF rollback[h] = "undoes" THEN before \ {h} ELSE before

RollbackSucceeds(l) ==
  /\ pc[l] = "undoing" /\ ~CallsNil(current[l])
  /\ emitting[l] = <<>>
  /\ effects' = [effects EXCEPT ![event[l]] = AfterRollback(current[l], @)]
  /\ UndoNext(l)
  /\ UNCHANGED <<setup, buffer, outgoing, closed, lifecycle, promised, stuck>>

\* An error of Rollback is reported, and the others are still called.
RollbackFails(l) ==
  /\ pc[l] = "undoing" /\ rollback[current[l]] \in {"undoes", "handles"}
  /\ MayFail \/ PublishesUnknown(l)
  /\ stuck' = [stuck EXCEPT ![event[l]] = @ \union {current[l]}]
  /\ UndoNext(l)
  /\ UNCHANGED <<setup, buffer, outgoing, closed, lifecycle, promised, effects>>

\* A panic in a goroutine ends the process.
RollbackPanics(l) ==
  /\ pc[l] = "undoing" /\ CallsNil(current[l])
  /\ pc' = [o \in Listeners |-> "dead"]
  /\ outgoing' = [p \in Publishers |-> <<>>]
  /\ listen' = "dead" /\ close' = "dead"
  /\ UNCHANGED <<setup, buffer, handling, closed, closeSig, cancelled, wg, history>>

-----------------------------------------------------------------------------
(***************************************************************************)
(* Listen and Close.  Subscribe has added one to wg for every topic.       *)
(***************************************************************************)
Listen ==
  /\ listen = "new"
  /\ listen' = "waiting"
  /\ pc' = [l \in Listeners |-> IF l[1] \in subscribed THEN "waiting" ELSE "absent"]
  /\ UNCHANGED <<setup, buffer, outgoing, handling, closed, closeSig, cancelled, wg, close,
                 history>>

ListenReturns ==
  /\ listen = "waiting"
  /\ wg = 0
  /\ listen' = "returned"
  /\ UNCHANGED <<setup, buffer, outgoing, pc, handling, closed, closeSig, cancelled, wg, close,
                 history>>

Cancel ==
  /\ MayCancel /\ ~cancelled
  /\ cancelled' = TRUE
  /\ UNCHANGED <<setup, buffer, outgoing, pc, handling, closed, closeSig, wg, listen, close,
                 history>>

\* Mutant: channel.close does not wait for its listeners
DrainedAtOnce == TRUE

\* The topics are closed one after the other, each when the listeners of the
\* one before have exited; a later Close finds the bus closed and returns.
Drained == \A l \in Listeners : l[1] \in closeSig => pc[l] = "exited"

CloseTopic(t) ==
  /\ MayClose /\ close # "dead"
  /\ t \in subscribed \ closeSig
  /\ Drained
  /\ close' = "closing"
  /\ closeSig' = closeSig \union {t}
  /\ UNCHANGED <<setup, buffer, outgoing, pc, handling, closed, cancelled, wg, listen, history>>

\* Mutant: without wg.Done
CloseReturnsQuietly ==
  /\ close = "closing"
  /\ closeSig = subscribed /\ Drained
  /\ close' = "returned"
  /\ UNCHANGED <<setup, buffer, outgoing, pc, handling, closed, closeSig, cancelled, wg, listen,
                 history>>

\* wg is counted down once, however many topics there are.
CloseReturns ==
  /\ close = "closing"
  /\ closeSig = subscribed /\ Drained
  /\ close' = "returned"
  /\ wg' = wg - 1
  /\ UNCHANGED <<setup, buffer, outgoing, pc, handling, closed, closeSig, cancelled, listen,
                 history>>

-----------------------------------------------------------------------------
Init ==
  /\ subscribed \in Subscriptions
  /\ hash \in Hashes
  /\ \A k \in StreamKeys : k[1] \notin subscribed => hash[k] = 1  \* of no use
  /\ rollback \in Rollbacks
  /\ buffer = [l \in Listeners |-> <<>>]
  /\ outgoing = Batch
  /\ pc = [l \in Listeners |-> "absent"]
  /\ event = [l \in Listeners |-> NoEvent]
  /\ current = [l \in Listeners |-> 0]
  /\ emitting = [l \in Listeners |-> <<>>]
  /\ closed = [l \in Listeners |-> FALSE]
  /\ closeSig = {} /\ cancelled = FALSE
  /\ wg = Cardinality(subscribed)
  /\ listen = "new" /\ close = "new"
  /\ handled = [k \in StreamKeys |-> <<>>] /\ promised = {}
  /\ effects = [e \in Events |-> {}] /\ stuck = [e \in Events |-> {}]

Listener(l) ==
  \/ SeeCancelled(l) \/ SeeClosed(l) \/ Receive(l) \/ Emit(l)
  \/ HandlerSucceeds(l) \/ HandlerFails(l) \/ RollbackSucceeds(l) \/ RollbackFails(l)
  \/ RollbackPanics(l)

Publishing(p) == Publish(p) \/ PublishUnknown(p)

Closing == (\E t \in Topics : CloseTopic(t)) \/ CloseReturns

Next ==
  \/ \E p \in Publishers : Publishing(p)
  \/ \E l \in Listeners : Listener(l)
  \/ Listen \/ ListenReturns \/ Cancel \/ Closing

Spec == Init /\ [][Next]_vars

\* The scheduler runs some goroutine as long as any can run; the application
\* calls Listen, and nothing obliges it to cancel or to call Close, but a Close
\* that has begun goes on.
Running ==
  \/ \E p \in Publishers : Publishing(p)
  \/ \E l \in Listeners : Listener(l)
  \/ Listen \/ ListenReturns
  \/ close = "closing" /\ Closing

FairSpec == Spec /\ WF_vars(Running)

-----------------------------------------------------------------------------
TypeOK ==
  /\ subscribed \in Subscriptions
  /\ hash \in Hashes /\ rollback \in Rollbacks
  /\ buffer \in [Listeners -> BoundedSeq(Events, 1)]
  /\ outgoing \in [Publishers -> Seq(Events)]
  /\ pc \in [Listeners -> {"absent", "waiting", "handling", "undoing", "exited", "dead"}]
  /\ event \in [Listeners -> Events]
  /\ current \in [Listeners -> Nat]
  /\ emitting \in [Listeners -> Seq(Events)]
  /\ closed \in [Listeners -> BOOLEAN]
  /\ closeSig \subseteq subscribed /\ cancelled \in BOOLEAN
  /\ wg \in Nat
  /\ listen \in {"new", "waiting", "returned", "dead"}
  /\ close \in {"new", "closing", "returned", "dead"}
  /\ handled \in [StreamKeys -> Seq(Events)] /\ promised \subseteq Events
  /\ \A e \in Events : effects[e] \union stuck[e] \subseteq Matching[e]

Handled == UNION {Range(handled[k]) : k \in StreamKeys}

\* The events of a stream are handled in the order in which each goroutine
\* published them, each by all its handlers before the next, though the
\* partitions run concurrently.
HandledInOrder ==
  \A k \in StreamKeys : \A i, j \in DOMAIN handled[k] :
    i < j /\ handled[k][i].by = handled[k][j].by => handled[k][i].n < handled[k][j].n

\* When a listener is done with an event, the effects of all its handlers are
\* in place, or none that a Rollback can take back: what remains of a failure is
\* the work of handlers whose Rollback does nothing, handles or failed itself.
AllOrNothing ==
  \A e \in Handled :
    \/ effects[e] = Matching[e]
    \/ \A h \in effects[e] : rollback[h] # "undoes" \/ h \in stuck[e]

\* Close loses nothing: when it returns, every event that was accepted before
\* it was called has been handled, unless the context was cancelled.
DrainedOnClose ==
  close = "returned" /\ ~cancelled => promised \subseteq Handled

\* When Listen returns, Close has come to its end and no listener of any topic is
\* left, whatever was cancelled or is still being published: none that handles an
\* event, and none that would take another.
ListenOutlastsListeners ==
  listen = "returned" => /\ close = "returned"
                         /\ \A l \in Listeners : l[1] \in subscribed => pc[l] = "exited"

\* Listeners whose handlers wait, for ever, to publish to full partitions: to
\* each other's, to their own, or to those of listeners that have exited.
Blocked ==
  \E S \in (SUBSET Listeners) \ {{}} : \A l \in S :
    /\ pc[l] \in {"handling", "undoing"} /\ emitting[l] # <<>>
    /\ ~PublishesUnknown(l)
    /\ LET to == PartitionOf(Head(emitting[l]))
       IN  ~HasRoom(to) /\ (to \in S \/ pc[to] = "exited")

\* Close comes to its end, with Listen when there is one topic, unless handlers
\* block each other or wait for a topic that Close has already ended.
CloseEnds ==
  \/ <>[](close = "new")
  \/ <>(\/ close = "returned" /\ (Cardinality(subscribed) = 1 => listen = "returned")
        \/ Blocked)

Stopping == cancelled \/ close # "new"

\* While the bus is neither cancelled nor closed, every event accepted is
\* handled in the end and no goroutine that publishes waits for ever, unless
\* handlers block each other, or themselves, by what they publish.
EventsAreHandled ==
  <>(Stopping \/ Blocked \/ /\ \A p \in Publishers : outgoing[p] = <<>>
                            /\ promised \subseteq Handled)

-----------------------------------------------------------------------------
(***************************************************************************)
(* The events of a stream that the bus has accepted: those it is done      *)
(* with, the one that the listener of the stream's partition has in hand,  *)
(* and the one that the partition holds.                                   *)
(***************************************************************************)
Lane(k) == <<k[1], hash[k]>>

InHand(k) ==
  IF k[1] \in subscribed /\ current[Lane(k)] # 0 /\ StreamOf(event[Lane(k)]) = k
  THEN <<event[Lane(k)]>> ELSE <<>>

InPartition(k) ==
  IF k[1] \in subscribed /\ buffer[Lane(k)] # <<>> /\ StreamOf(Head(buffer[Lane(k)])) = k
  THEN buffer[Lane(k)] ELSE <<>>

Promise == INSTANCE EventDelivery WITH
  Lanes    <- StreamKeys,
  log      <- [k \in StreamKeys |-> handled[k] \o InHand(k) \o InPartition(k)],
  done     <- [k \in StreamKeys |-> Len(handled[k])],
  recorded <- [k \in StreamKeys |-> TRUE]

\* Each stream's events are handled in the order in which the bus accepted them,
\* whichever goroutines send them, each as often as it was accepted: also those
\* that a Rollback publishes again, and whatever fails, panics or is closed.
ImplementsDelivery == Promise!Spec
=============================================================================
