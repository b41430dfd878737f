-------------------------- MODULE PostgresStorage --------------------------
(***************************************************************************)
(* The postgres storage of pkg/storage/postgres/storage.go, one statement  *)
(* of the transaction per step, over the tables of schema.go.              *)
(*                                                                         *)
(*   versions  the version of each stream, compared and set by Persist     *)
(*   states    its version again and its encoded state, what Load reads    *)
(*   events    the journal, when WithJournal is given                      *)
(*   outbox    the events of a Persist, deleted before it commits          *)
(*                                                                         *)
(* The tables are kept for one stream: no two streams share a row.  The    *)
(* database is external: READ COMMITTED, where a statement sees its own    *)
(* transaction's writes and what was committed before it started, and      *)
(* waits for a row that another open transaction has written.              *)
(***************************************************************************)
EXTENDS Streams

CONSTANTS
  Clients,     \* the callers of the storage, each in a transaction of its own
  ID,          \* the stream
  MaxChanges,  \* bound: changes per call
  Faults       \* what may fail: "statement", "connection"

ASSUME ConstantsAssumption ==
  /\ MaxChanges \in Nat \ {0}
  /\ Faults \subseteq {"statement", "connection"}

VARIABLES
  journal,  \* whether the storage was made WithJournal
  versions, states, events, outbox,  \* the committed rows; version 0 when there is none
  written,  \* what each open transaction has written
  pc,       \* where each caller stands
  stream,   \* the caller's copy
  next,     \* the change to append next
  answer    \* what Persist returned

tables == <<versions, states, events, outbox>>

vars == <<journal, versions, states, events, outbox, written, pc, stream, next, answer>>

Nothing == [version |-> 0, state |-> Absent, events |-> {}, outbox |-> {}]

Goto(c, place) == pc' = [pc EXCEPT ![c] = place]

Others(c) == Clients \ {c}

HasVersion(rows, v) == \E e \in rows : e.version = v

-----------------------------------------------------------------------------
Obtain(c) ==
  /\ pc[c] = "start"
  /\ Goto(c, "mutate")
  /\ UNCHANGED <<journal, tables, written, next, answer>>

NewStream(c) == Obtain(c) /\ stream' = [stream EXCEPT ![c] = Blank(ID)]

Load(c) ==
  /\ states # Absent
  /\ Obtain(c)
  /\ stream' = [stream EXCEPT ![c] = Unmarshal(ID, states)]

MutateStream(c) ==
  /\ pc[c] = "mutate"
  /\ Len(stream[c].changes) < MaxChanges
  /\ stream' = [stream EXCEPT ![c] = Mutate(@, c)]
  /\ UNCHANGED <<journal, tables, written, pc, next, answer>>

\* Persist returns at once when there is nothing to persist.
PersistNothing(c) ==
  /\ pc[c] = "mutate"
  /\ PreviousVersion(stream[c]) = Version(stream[c])
  /\ answer' = [answer EXCEPT ![c] = "nil"]
  /\ Goto(c, "done")
  /\ UNCHANGED <<journal, tables, written, stream, next>>

\* Mutant: the first change is left out of the journal
BeginAtOutbox(c) ==
  /\ pc[c] = "mutate"
  /\ PreviousVersion(stream[c]) # Version(stream[c])
  /\ next' = [next EXCEPT ![c] = 1]
  /\ Goto(c, "outbox")
  /\ UNCHANGED <<journal, tables, written, stream, answer>>

Begin(c) ==
  /\ pc[c] = "mutate"
  /\ PreviousVersion(stream[c]) # Version(stream[c])
  /\ next' = [next EXCEPT ![c] = 1]
  /\ Goto(c, IF journal THEN "journal" ELSE "outbox")
  /\ UNCHANGED <<journal, tables, written, stream, answer>>

-----------------------------------------------------------------------------
(***************************************************************************)
(* The end of the transaction.                                             *)
(***************************************************************************)
\* Mutant: the transaction is left open
RollBackForgotten(c) ==
  /\ answer' = [answer EXCEPT ![c] = "nil"]
  /\ Goto(c, "done")
  /\ UNCHANGED <<journal, tables, written, stream, next>>

\* A statement returned an error: the deferred function rolls back and
\* returns what Rollback returned, which is nil.
RollBack(c) ==
  /\ written' = [written EXCEPT ![c] = Nothing]
  /\ answer' = [answer EXCEPT ![c] = "nil"]
  /\ Goto(c, "done")
  /\ UNCHANGED <<journal, tables, stream, next>>

InTransaction(c) == pc[c] \in {"journal", "outbox", "version", "state", "clean", "commit"}

\* Encoding fails, or the server refuses the statement, whatever the rows.
StatementFails(c) ==
  /\ "statement" \in Faults
  /\ InTransaction(c) /\ pc[c] # "commit"
  /\ RollBack(c)

\* The server rolls back, and the client's own Rollback fails.
ConnectionFails(c) ==
  /\ "connection" \in Faults
  /\ InTransaction(c)
  /\ written' = [written EXCEPT ![c] = Nothing]
  /\ answer' = [answer EXCEPT ![c] = "error"]
  /\ Goto(c, "done")
  /\ UNCHANGED <<journal, tables, stream, next>>

\* deleteOutboxSQL has deleted the others.
OutboxKeeps(c, rows) == {e \in rows : e.version > Version(stream[c])}

CommitWritten(c) ==
  /\ versions' = written[c].version
  /\ states' = written[c].state
  /\ events' = events \union written[c].events
  /\ outbox' = OutboxKeeps(c, outbox \union written[c].outbox)
  /\ written' = [written EXCEPT ![c] = Nothing]
  /\ Goto(c, "done")
  /\ UNCHANGED <<journal, stream, next>>

Commit(c) ==
  /\ pc[c] = "commit"
  /\ CommitWritten(c)
  /\ answer' = [answer EXCEPT ![c] = "nil"]

CommitUnanswered(c) ==
  /\ "connection" \in Faults
  /\ pc[c] = "commit"
  /\ CommitWritten(c)
  /\ answer' = [answer EXCEPT ![c] = "error"]

-----------------------------------------------------------------------------
(***************************************************************************)
(* The statements, in the order of Persist.                                *)
(***************************************************************************)
Change(c) == stream[c].changes[next[c]]

\* exec(insertEventSQL): the primary key holds the version
AppendToJournal(c) ==
  /\ pc[c] = "journal"
  /\ IF HasVersion(events, Change(c).version)
     THEN RollBack(c)
     ELSE /\ \A o \in Others(c) : ~HasVersion(written[o].events, Change(c).version)
          /\ written' = [written EXCEPT ![c].events = @ \union {Change(c)}]
          /\ Goto(c, "outbox")
          /\ UNCHANGED <<journal, tables, stream, next, answer>>

\* exec(insertOutboxSQL): the primary key holds the version
AppendToOutbox(c) ==
  /\ pc[c] = "outbox"
  /\ IF HasVersion(outbox, Change(c).version)
     THEN RollBack(c)
     ELSE /\ \A o \in Others(c) : ~HasVersion(written[o].outbox, Change(c).version)
          /\ written' = [written EXCEPT ![c].outbox = @ \union {Change(c)}]
          /\ next' = [next EXCEPT ![c] = @ + 1]
          /\ Goto(c, IF next'[c] > Len(stream[c].changes) THEN "version"
                     ELSE IF journal THEN "journal" ELSE "outbox")
          /\ UNCHANGED <<journal, tables, stream, answer>>

\* Mutant: updateVersionSQL without its last condition
VersionMissing(c) ==
  IF PreviousVersion(stream[c]) = 0 THEN versions # 0 ELSE versions = 0

\* exec(insertVersionSQL) finds a row, or exec(updateVersionSQL) no row with
\* the version the stream was loaded with
VersionMismatch(c) ==
  IF PreviousVersion(stream[c]) = 0
  THEN versions # 0
  ELSE versions # PreviousVersion(stream[c])

UpdateVersion(c) ==
  /\ pc[c] = "version"
  /\ IF VersionMismatch(c)
     THEN RollBack(c)
     ELSE /\ \A o \in Others(c) : written[o].version = 0
          /\ written' = [written EXCEPT ![c].version = Version(stream[c])]
          /\ Goto(c, "state")
          /\ UNCHANGED <<journal, tables, stream, next, answer>>

\* exec(insertStateSQL) or exec(updateStateSQL), which compares no version
WriteState(c) ==
  /\ pc[c] = "state"
  /\ IF (PreviousVersion(stream[c]) = 0) # (states = Absent)
     THEN RollBack(c)
     ELSE /\ \A o \in Others(c) : written[o].state = Absent
          /\ written' = [written EXCEPT ![c].state = Marshal(stream[c])]
          /\ Goto(c, "clean")
          /\ UNCHANGED <<journal, tables, stream, next, answer>>

\* exec(deleteOutboxSQL): the rows go when the transaction commits, and until
\* then it keeps the keys it has inserted.
CleanOutbox(c) ==
  /\ pc[c] = "clean"
  /\ Goto(c, "commit")
  /\ UNCHANGED <<journal, tables, written, stream, next, answer>>

-----------------------------------------------------------------------------
Init ==
  /\ journal \in BOOLEAN
  /\ versions = 0 /\ states = Absent /\ events = {} /\ outbox = {}
  /\ written = [c \in Clients |-> Nothing]
  /\ pc = [c \in Clients |-> "start"]
  /\ stream = [c \in Clients |-> Blank(ID)]
  /\ next = [c \in Clients |-> 1]
  /\ answer = [c \in Clients |-> "none"]

Statement(c) ==
  AppendToJournal(c) \/ AppendToOutbox(c) \/ UpdateVersion(c) \/ WriteState(c) \/ CleanOutbox(c)

Work(c) ==
  \/ NewStream(c) \/ Load(c) \/ MutateStream(c) \/ PersistNothing(c) \/ Begin(c)
  \/ Statement(c) \/ Commit(c)

Fault(c) == StatementFails(c) \/ ConnectionFails(c) \/ CommitUnanswered(c)

Step(c) == Work(c) \/ Fault(c)

Finished == (\A c \in Clients : pc[c] = "done") /\ UNCHANGED vars

Next == Finished \/ \E c \in Clients : Step(c)

Spec == Init /\ [][Next]_vars

\* Goroutines are scheduled and the server answers; no fault ever has to happen.
FairSpec == Spec /\ \A c \in Clients : WF_vars(Work(c))

-----------------------------------------------------------------------------
TypeOK ==
  /\ journal \in BOOLEAN
  /\ versions \in Nat
  /\ states \in Stored({ID}, Clients)
  /\ events \subseteq Event({ID}, Clients)
  /\ outbox \subseteq Event({ID}, Clients)
  /\ written \in [Clients -> [version : Nat, state : Stored({ID}, Clients),
                             events : SUBSET Event({ID}, Clients),
                             outbox : SUBSET Event({ID}, Clients)]]
  /\ pc \in [Clients -> {"start", "mutate", "journal", "outbox", "version", "state", "clean",
                         "commit", "done"}]
  /\ stream \in [Clients -> Stream({ID}, Clients)]
  /\ next \in [Clients -> 1..MaxChanges+1]
  /\ answer \in [Clients -> {"none", "nil", "error"}]

\* The tables agree.  The two that hold a stream's version do, though only one
\* of the two statements compares it; and the outbox has no row of a stored
\* event: each Persist deletes its own before it commits, so that there is
\* nothing to publish from after a crash.
RowsAgree == versions = states.version /\ outbox = {}

\* The abstract specification, without its feed: a storage publishes nothing.
Promise == INSTANCE EventSourcing WITH
  IDs <- {ID}, Causes <- Clients, MaxBatch <- MaxChanges,
  log <- states.state, feed <- <<>>

\* What Load reads grows only at its end and by all the changes of a Persist
\* at once, though the statements of several transactions interleave.
PersistIsAtomic == Promise!Spec

RestoreFromEvent(s, e) == [s EXCEPT !.state = @ \union {e}, !.version = e.version]

\* The events of the journal up to a version, applied in their order
Replayed[n \in 0..versions] ==
  IF n = 0 THEN Blank(ID)
  ELSE RestoreFromEvent(Replayed[n - 1], CHOOSE e \in events : e.version = n)

\* Restoring a stream from its journal gives the stream that Load returns.
JournalReplays ==
  journal => /\ \A n \in 1..versions : HasVersion(events, n)
             /\ Replayed[versions] = Unmarshal(ID, states)

\* A Persist that returns nil has stored its changes.
NilMeansStored ==
  \A c \in Clients : answer[c] = "nil" => Changes(stream[c]) \subseteq states.state

\* No transaction waits for ever for a row of another one.
EveryoneReturns == <>(\A c \in Clients : pc[c] = "done")
=============================================================================
