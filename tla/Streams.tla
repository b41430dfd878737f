------------------------------ MODULE Streams ------------------------------
(***************************************************************************)
(* The in-memory stream of pkg/stream/stream.go and its stored form        *)
(* (pkg/stream/stream_encoding.go).                                        *)
(*                                                                         *)
(* A stream is a record                                                    *)
(*   id       its identifier,                                              *)
(*   version  the version it was loaded with (0 for a new stream),         *)
(*   changes  the events its controller has raised since, in order,        *)
(*   state    the user's State.  State.Mutate folds an event into the      *)
(*            state; the model keeps the set of events folded in, so two   *)
(*            states are equal exactly when the same events made them.     *)
(*                                                                         *)
(* An event carries its stream, its version and, in place of its random    *)
(* identifier, the delivery (the CommandSink or EventSink call) that       *)
(* raised it.                                                              *)
(***************************************************************************)
EXTENDS Integers, Sequences

Event(ids, causes) == [streamID : ids, version : Nat, cause : causes]

Stream(ids, causes) ==
  [id : ids, version : Nat, changes : Seq(Event(ids, causes)), state : SUBSET Event(ids, causes)]

Blank(id) == [id |-> id, version |-> 0, changes |-> <<>>, state |-> {}]

Version(s) == s.version + Len(s.changes)

PreviousVersion(s) == s.version

PlaceholderThreshold == 100

\* Go reads s.Version()+1%placeholderThreshold as s.Version() + (1%100).
IsPlaceholderVersion(s) == Version(s) + (1 % PlaceholderThreshold) = 0

\* Mutant: the sign of the increment
NextVersionDecreased(s) == Version(s) - 1

NextVersion(s) == IF IsPlaceholderVersion(s) THEN Version(s) + 2 ELSE Version(s) + 1

NextEvent(s, cause) == [streamID |-> s.id, version |-> NextVersion(s), cause |-> cause]

\* Mutant: the event is recorded but not folded into the state
MutateChangesOnly(s, cause) == [s EXCEPT !.changes = Append(@, NextEvent(s, cause))]

Mutate(s, cause) ==
  [id      |-> s.id,
   version |-> s.version,
   changes |-> Append(s.changes, NextEvent(s, cause)),
   state   |-> s.state \union {NextEvent(s, cause)}]

ClearChanges(s) == [s EXCEPT !.changes = <<>>]

(***************************************************************************)
(* What a storage keeps of a stream.  The pending events are counted in    *)
(* the version and are already folded into the state; they are not stored. *)
(* A missing entry reads as version 0: the mutator never persists a stream *)
(* without changes, so a stored version is at least 1.                     *)
(***************************************************************************)
Stored(ids, causes) == [version : Nat, state : SUBSET Event(ids, causes)]

Absent == [version |-> 0, state |-> {}]

\* Mutant: writes s.version in place of s.Version()
MarshalLoadedVersion(s) == [version |-> PreviousVersion(s), state |-> s.state]

Marshal(s) == [version |-> Version(s), state |-> s.state]

Unmarshal(id, raw) == [id |-> id, version |-> raw.version, changes |-> <<>>, state |-> raw.state]

Changes(s) == {s.changes[i] : i \in DOMAIN s.changes}
=============================================================================
