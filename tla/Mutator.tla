------------------------------ MODULE Mutator ------------------------------
(***************************************************************************)
(* The mutator of pkg/stream/mutator.go: concurrent CommandSink and        *)
(* EventSink calls against one storage and one publisher.                  *)
(*                                                                         *)
(* Every call is a delivery and runs in a goroutine of its own; several    *)
(* processes may share a durable storage.  Nothing is locked between       *)
(* Load, Persist, Publish and Drop, so each of them is a step.             *)
(*                                                                         *)
(*   new -> load -> sink -> persist -> publish -> drop -> done             *)
(*                                                                         *)
(* An EventSink call runs load..drop once for every stream its picker      *)
(* names.  The user's controllers are arbitrary: they raise up to          *)
(* MaxChanges events, reply or fail.                                       *)
(***************************************************************************)
EXTENDS Streams

CONSTANTS
  Deliveries,          \* the CommandSink and EventSink calls
  StreamIDs,           \* identifiers a command or a picker may name
  NilID,               \* uuid.Nil, the identifier of the factory's blank stream
  CommandControllers,  \* the options of the registered command controllers
  EventControllers,    \* the options of the registered event controllers
  Pickers,             \* the non-empty target lists PickStream may return
  MaxChanges,          \* bound: events a controller raises in one call
  Strict,              \* WithMutatorStrictMode
  Backends             \* the Storage implementations a mutator may be given

AllIDs == StreamIDs \union {NilID}

Options == [create : BOOLEAN, drop : BOOLEAN]

ASSUME ConstantsAssumption ==
  /\ NilID \notin StreamIDs
  /\ CommandControllers \subseteq Options
  /\ EventControllers \subseteq Options
  /\ Pickers \subseteq Seq(AllIDs) \ {<<>>}
  /\ MaxChanges \in Nat
  /\ Strict \in BOOLEAN
  /\ Backends \subseteq {"memory", "redis", "postgres"}

VARIABLES
  backend,    \* the mutator's storage
  pc,         \* where each delivery stands
  sink,       \* "command" or "event", once received
  opts,       \* the options of the controller the delivery is routed to
  todo,       \* the streams the delivery still has to process, current first
  stream,     \* the delivery's own copy of the current stream
  sent,       \* how many of its changes it has handed to the publisher
  reply,      \* the version the command's reply carries
  result,     \* what the caller is told
  data,       \* the storage: what is kept under each identifier
  bus,        \* what the publisher has passed on, in order
  committed,  \* history: every event a Persist has stored
  dropped     \* history: identifiers a Drop has deleted

vars == <<backend, pc, sink, opts, todo, stream, sent, reply, result, data, bus, committed,
          dropped>>

\* What no step changes once the delivery is received
routing == <<backend, sink, opts>>
store   == <<data, committed, dropped>>

Head1(d) == Head(todo[d])

EventsOf(events, id) == {e \in events : e.streamID = id}

Delivered == {bus[i] : i \in DOMAIN bus}

-----------------------------------------------------------------------------
(***************************************************************************)
(* The end of a call.                                                      *)
(***************************************************************************)
Finish(d, outcome) ==
  /\ pc' = [pc EXCEPT ![d] = "done"]
  /\ result' = [result EXCEPT ![d] = outcome]
  /\ UNCHANGED todo

\* After a target: an EventSink call goes on to the picker's next stream.
NextTarget(d) ==
  \/ /\ Len(todo[d]) = 1
     /\ Finish(d, "ok")
  \/ /\ Len(todo[d]) > 1
     /\ todo' = [todo EXCEPT ![d] = Tail(@)]
     /\ pc' = [pc EXCEPT ![d] = "load"]
     /\ UNCHANGED result

-----------------------------------------------------------------------------
(***************************************************************************)
(* Receiving: the checks before any stream is touched.                     *)
(***************************************************************************)
Receive(d, kind, ctrl, targets) ==
  /\ pc[d] = "new"
  /\ sink' = [sink EXCEPT ![d] = kind]
  /\ opts' = [opts EXCEPT ![d] = ctrl]
  /\ todo' = [todo EXCEPT ![d] = targets]
  /\ pc' = [pc EXCEPT ![d] = "load"]
  /\ UNCHANGED <<backend, stream, sent, reply, result, store, bus>>

ReceiveCommand(d) ==
  \E ctrl \in CommandControllers, id \in AllIDs : Receive(d, "command", ctrl, <<id>>)

ReceiveEvent(d) ==
  \E ctrl \in EventControllers, targets \in Pickers : Receive(d, "event", ctrl, targets)

\* nil command, another stream's name, no controller: an error
RejectCommand(d) ==
  /\ pc[d] = "new"
  /\ Finish(d, "error")
  /\ UNCHANGED <<routing, stream, sent, reply, store, bus>>

\* nil or blacklisted event, no controller, nothing picked: an error in strict mode
IgnoreEvent(d) ==
  /\ pc[d] = "new"
  /\ Finish(d, IF Strict THEN "error" ELSE "ok")
  /\ UNCHANGED <<routing, stream, sent, reply, store, bus>>

-----------------------------------------------------------------------------
(***************************************************************************)
(* Loading.  A controller registered to create gets a blank stream and     *)
(* never looks at the storage.  A command's stream takes the command's     *)
(* identifier; an event's keeps the blank one, whatever the picker said.   *)
(***************************************************************************)
LoadNew(d) ==
  /\ pc[d] = "load"
  /\ opts[d].create
  /\ stream' = [stream EXCEPT ![d] = Blank(IF sink[d] = "command" THEN Head1(d) ELSE NilID)]
  /\ pc' = [pc EXCEPT ![d] = "sink"]
  /\ UNCHANGED <<routing, todo, sent, reply, result, store, bus>>

LoadStored(d) ==
  /\ pc[d] = "load"
  /\ ~opts[d].create
  /\ data[Head1(d)] # Absent
  /\ stream' = [stream EXCEPT ![d] = Unmarshal(Head1(d), data[Head1(d)])]
  /\ pc' = [pc EXCEPT ![d] = "sink"]
  /\ UNCHANGED <<routing, todo, sent, reply, result, store, bus>>

LoadNotFound(d) ==
  /\ pc[d] = "load"
  /\ ~opts[d].create
  /\ data[Head1(d)] = Absent
  /\ Finish(d, "error")
  /\ UNCHANGED <<routing, stream, sent, reply, store, bus>>

-----------------------------------------------------------------------------
(***************************************************************************)
(* The user's controller.                                                  *)
(***************************************************************************)
ControllerMutates(d) ==
  /\ pc[d] = "sink"
  /\ Len(stream[d].changes) < MaxChanges
  /\ stream' = [stream EXCEPT ![d] = Mutate(@, d)]
  /\ UNCHANGED <<pc, routing, todo, sent, reply, result, store, bus>>

\* Mutant: the version of the event to come
ReplyVersionsAhead(d) == IF sink[d] = "command" THEN {0, Version(stream[d]) + 1} ELSE {0}

\* It replies with the stream's version (ReplyOk, or nil, which means the
\* same) or with version 0 (ReplyErr); an event controller replies nothing.
ReplyVersions(d) == IF sink[d] = "command" THEN {0, Version(stream[d])} ELSE {0}

ControllerLeavesUnchanged(d) ==
  /\ pc[d] = "sink"
  /\ stream[d].changes = <<>>
  /\ \E v \in ReplyVersions(d) : reply' = [reply EXCEPT ![d] = v]
  /\ NextTarget(d)
  /\ UNCHANGED <<routing, stream, sent, store, bus>>

\* Only CommandSink refuses to persist a stream without an identifier.
ControllerChangesNil(d) ==
  /\ pc[d] = "sink"
  /\ stream[d].changes # <<>>
  /\ sink[d] = "command" /\ stream[d].id = NilID
  /\ Finish(d, "error")
  /\ UNCHANGED <<routing, stream, sent, reply, store, bus>>

ControllerChanges(d) ==
  /\ pc[d] = "sink"
  /\ stream[d].changes # <<>>
  /\ ~(sink[d] = "command" /\ stream[d].id = NilID)
  /\ \E v \in ReplyVersions(d) : reply' = [reply EXCEPT ![d] = v]
  /\ pc' = [pc EXCEPT ![d] = "persist"]
  /\ UNCHANGED <<routing, todo, stream, sent, result, store, bus>>

ControllerFails(d) ==
  /\ pc[d] = "sink"
  /\ Finish(d, "error")
  /\ UNCHANGED <<routing, stream, sent, reply, store, bus>>

-----------------------------------------------------------------------------
(***************************************************************************)
(* Persisting.  Every backend compares the stored version with the one     *)
(* the stream was loaded with, each in its own way.                        *)
(***************************************************************************)
\* Mutant: nothing is compared
VersionIgnored(s) == TRUE

VersionMatches(s) ==
  CASE backend = "memory"   -> data[s.id] # Absent => data[s.id].version = PreviousVersion(s)
    [] backend = "redis"    -> data[s.id].version = PreviousVersion(s)
    [] backend = "postgres" -> IF PreviousVersion(s) = 0
                               THEN data[s.id] = Absent
                               ELSE data[s.id].version = PreviousVersion(s)

StoreStream(s) ==
  /\ data' = [data EXCEPT ![s.id] = Marshal(s)]
  /\ committed' = committed \union Changes(s)
  /\ UNCHANGED dropped

PersistAccepted(d) ==
  /\ pc[d] = "persist"
  /\ VersionMatches(stream[d])
  /\ StoreStream(stream[d])
  /\ pc' = [pc EXCEPT ![d] = "publish"]
  /\ sent' = [sent EXCEPT ![d] = 0]
  /\ UNCHANGED <<routing, todo, stream, reply, result, bus>>

\* Mutant: the error of Persist is dropped
PersistRejectedSilently(d) ==
  /\ pc[d] = "persist"
  /\ ~VersionMatches(stream[d])
  /\ pc' = [pc EXCEPT ![d] = "publish"]
  /\ sent' = [sent EXCEPT ![d] = 0]
  /\ UNCHANGED <<routing, todo, stream, reply, result, store, bus>>

PersistRejected(d) ==
  /\ pc[d] = "persist"
  /\ backend # "postgres"
  /\ ~VersionMatches(stream[d])
  /\ Finish(d, "error")
  /\ UNCHANGED <<routing, stream, sent, reply, store, bus>>

\* postgres: when a statement of the transaction fails (on a version mismatch
\* it always does), the deferred rollback replaces that error by its own
\* result, and the caller goes on as if the stream had been stored.
PersistRolledBack(d) ==
  /\ pc[d] = "persist"
  /\ backend = "postgres"
  /\ pc' = [pc EXCEPT ![d] = "publish"]
  /\ sent' = [sent EXCEPT ![d] = 0]
  /\ UNCHANGED <<routing, todo, stream, reply, result, store, bus>>

\* The answer to a commit that took effect is lost: an error all the same.
PersistUnanswered(d) ==
  /\ pc[d] = "persist"
  /\ backend # "memory"
  /\ VersionMatches(stream[d])
  /\ StoreStream(stream[d])
  /\ Finish(d, "error")
  /\ UNCHANGED <<routing, stream, sent, reply, bus>>

\* Load or Persist fails without effect: encoding, decoding, connection.
StorageFails(d) ==
  /\ \/ pc[d] = "load" /\ ~opts[d].create
     \/ pc[d] = "persist"
  /\ Finish(d, "error")
  /\ UNCHANGED <<routing, stream, sent, reply, store, bus>>

-----------------------------------------------------------------------------
(***************************************************************************)
(* Publishing: the changes go out one by one, in order; a failing          *)
(* publisher has passed on those before the failure.                       *)
(***************************************************************************)
\* Mutant: always the first change
FirstChange(d) == stream[d].changes[1]

NextChange(d) == stream[d].changes[sent[d] + 1]

PublishEvent(d) ==
  /\ pc[d] = "publish"
  /\ sent[d] < Len(stream[d].changes)
  /\ bus' = Append(bus, NextChange(d))
  /\ sent' = [sent EXCEPT ![d] = @ + 1]
  /\ UNCHANGED <<pc, routing, todo, stream, reply, result, store>>

\* Mutant: the error of Publish is dropped
PublishFailsSilently(d) ==
  /\ pc[d] = "publish"
  /\ sent[d] < Len(stream[d].changes)
  /\ Finish(d, "ok")
  /\ UNCHANGED <<routing, stream, sent, reply, store, bus>>

PublishFails(d) ==
  /\ pc[d] = "publish"
  /\ sent[d] < Len(stream[d].changes)
  /\ Finish(d, "error")
  /\ UNCHANGED <<routing, stream, sent, reply, store, bus>>

PublishReturns(d) ==
  /\ pc[d] = "publish"
  /\ sent[d] = Len(stream[d].changes)
  /\ stream' = [stream EXCEPT ![d] = ClearChanges(@)]
  /\ IF opts[d].drop
     THEN pc' = [pc EXCEPT ![d] = "drop"] /\ UNCHANGED <<todo, result>>
     ELSE NextTarget(d)
  /\ UNCHANGED <<routing, sent, reply, store, bus>>

\* Only the in-memory storage deletes anything.
Drop(d) ==
  /\ pc[d] = "drop"
  /\ IF backend = "memory"
     THEN /\ data' = [data EXCEPT ![stream[d].id] = Absent]
          /\ dropped' = dropped \union {stream[d].id}
     ELSE UNCHANGED <<data, dropped>>
  /\ NextTarget(d)
  /\ UNCHANGED <<routing, stream, sent, reply, bus, committed>>

\* The process dies; a durable storage and the bus survive it.
Crash(d) ==
  /\ backend # "memory"
  /\ pc[d] \notin {"new", "done"}
  /\ Finish(d, "crashed")
  /\ UNCHANGED <<routing, stream, sent, reply, store, bus>>

-----------------------------------------------------------------------------
Init ==
  /\ backend \in Backends
  /\ pc = [d \in Deliveries |-> "new"]
  /\ sink = [d \in Deliveries |-> "command"]
  /\ opts = [d \in Deliveries |-> [create |-> FALSE, drop |-> FALSE]]
  /\ todo = [d \in Deliveries |-> <<>>]
  /\ stream = [d \in Deliveries |-> Blank(NilID)]
  /\ sent = [d \in Deliveries |-> 0]
  /\ reply = [d \in Deliveries |-> 0]
  /\ result = [d \in Deliveries |-> "pending"]
  /\ data = [id \in AllIDs |-> Absent]
  /\ bus = <<>>
  /\ committed = {}
  /\ dropped = {}

Step(d) ==
  \/ ReceiveCommand(d) \/ ReceiveEvent(d) \/ RejectCommand(d) \/ IgnoreEvent(d)
  \/ LoadNew(d) \/ LoadStored(d) \/ LoadNotFound(d)
  \/ ControllerMutates(d) \/ ControllerLeavesUnchanged(d)
  \/ ControllerChangesNil(d) \/ ControllerChanges(d) \/ ControllerFails(d)
  \/ PersistAccepted(d) \/ PersistRejected(d) \/ PersistRolledBack(d)
  \/ PersistUnanswered(d) \/ StorageFails(d)
  \/ PublishEvent(d) \/ PublishFails(d) \/ PublishReturns(d)
  \/ Drop(d) \/ Crash(d)

Next == \E d \in Deliveries : Step(d)

Spec == Init /\ [][Next]_vars

-----------------------------------------------------------------------------
TypeOK ==
  /\ backend \in Backends
  /\ pc \in [Deliveries -> {"new", "load", "sink", "persist", "publish", "drop", "done"}]
  /\ sink \in [Deliveries -> {"command", "event"}]
  /\ opts \in [Deliveries -> Options]
  /\ todo \in [Deliveries -> Seq(AllIDs)]
  /\ stream \in [Deliveries -> Stream(AllIDs, Deliveries)]
  /\ sent \in [Deliveries -> Nat]
  /\ reply \in [Deliveries -> Nat]
  /\ result \in [Deliveries -> {"pending", "ok", "error", "crashed"}]
  /\ data \in [AllIDs -> Stored(AllIDs, Deliveries)]
  /\ bus \in Seq(Event(AllIDs, Deliveries))
  /\ committed \subseteq Event(AllIDs, Deliveries)
  /\ dropped \subseteq AllIDs

\* No lost update: unless the stream has been dropped, its stored state is
\* made of exactly the events whose Persist succeeded, whatever calls raced
\* between their Load and their Persist.
NoLostUpdate ==
  \A id \in AllIDs \ dropped : data[id].state = EventsOf(committed, id)

Numbered(events, n) ==
  /\ {e.version : e \in events} = 1..n
  /\ \A e, f \in events : e.version = f.version => e = f

\* The stored version counts the events in the state: one event for every
\* version from 1 up, none missing, none doubled.  Holds across drops and
\* re-creations too, when a call that loaded the old stream stores it anew.
HistoryIsContiguous ==
  \A id \in AllIDs : Numbered(data[id].state, data[id].version)

\* The copy a call works on between its Load and its Persist is a history of
\* its own stream, never ahead of the storage; while the stored version is
\* still the loaded one, the stored history is the part of it that the call
\* did not add.  This is what makes comparing versions in Persist enough.
ConsistentCopy(d) ==
  LET s == stream[d]
  IN  /\ Numbered(s.state, Version(s))
      /\ \A e \in s.state \union Changes(s) : e.streamID = s.id
      /\ s.id \notin dropped => s.version <= data[s.id].version
      /\ s.id \notin dropped /\ s.version = data[s.id].version =>
           s.state = data[s.id].state \union Changes(s)

CopyIsConsistent ==
  \A d \in Deliveries : pc[d] \in {"sink", "persist"} => ConsistentCopy(d)

\* postgres also returns nil when it has rolled back: the properties below hold
\* of the storages whose Persist returns nil only when it has stored.
NilMeansStored == backend # "postgres"

\* Subscribers hear only of events that were stored.
PublishedIsCommitted == NilMeansStored => Delivered \subseteq committed

\* No event is published twice, and two calls never publish different
\* events under the same version of a stream that was not dropped.
PublishedOnce ==
  NilMeansStored =>
    \A i, j \in DOMAIN bus :
      /\ i # j
      /\ bus[i].streamID = bus[j].streamID
      /\ bus[i].streamID \notin dropped
      => bus[i].version # bus[j].version

\* A stored event is withheld from subscribers only while its call is still
\* publishing, or when that call was not answered with success: a caller told
\* "ok" can rely on its events being out.
NoSilentLoss ==
  \A e \in committed \ Delivered :
    pc[e.cause] = "publish" \/ result[e.cause] \in {"error", "crashed"}

\* A reply that carries a version was given by a call that found or made
\* that version in the storage.
ReplyVersionIsCommitted ==
  NilMeansStored =>
    \A d \in Deliveries :
      result[d] = "ok" /\ reply[d] > 0 =>
        \E e \in committed : e.streamID = stream[d].id /\ e.version = reply[d]

\* The abstract specification: the log is what Persist has stored, the feed
\* is the bus.  Over postgres the bus also carries events that were not stored,
\* so there the log alone is compared.
Promise == INSTANCE EventSourcing WITH
  IDs <- AllIDs, Causes <- Deliveries, MaxBatch <- MaxChanges,
  log <- committed, feed <- IF NilMeansStored THEN bus ELSE <<>>

\* The mutator implements EventSourcing, whatever calls race, as long as nothing
\* is dropped: a stream grows only at its end and by all the events of a call at
\* once (CommandSink and eventSink between Load and Persist), and subscribers
\* hear each stored event at most once and no other (Publish).
ImplementsEventSourcing == Promise!Spec
=============================================================================
