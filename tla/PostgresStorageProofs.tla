------------------------ MODULE PostgresStorageProofs ------------------------
(***************************************************************************)
(* Persist of the postgres storage is atomic, for any number of clients    *)
(* and changes: the row of the version, once written, belongs to one open  *)
(* transaction, and so the version it has compared stays the stored one.   *)
(***************************************************************************)
EXTENDS PostgresStorage, StreamsProofs, WellFoundedInduction

Places == {"start", "mutate", "journal", "outbox", "version", "state", "clean", "commit", "done"}

Rows == [version : Nat, state : Stored({ID}, Clients),
         events : SUBSET Event({ID}, Clients), outbox : SUBSET Event({ID}, Clients)]

\* A change is there to be appended.
ChangeThere(c) ==
  /\ Len(stream[c].changes) <= MaxChanges
  /\ pc[c] \in {"journal", "outbox"} => next[c] <= Len(stream[c].changes)

TypeInv == TypeOK /\ \A c \in Clients : ChangeThere(c)

LEMMA NothingType == Nothing \in Rows
BY DEF Nothing, Rows, Absent, Stored

LEMMA ChangeType ==
  ASSUME TypeInv, NEW c \in Clients, pc[c] \in {"journal", "outbox"}
  PROVE  Change(c) \in Changes(stream[c]) /\ Change(c) \in Event({ID}, Clients)
<1>1. stream[c] \in Stream({ID}, Clients) /\ next[c] \in 1..MaxChanges+1 /\ MaxChanges \in Nat
  BY ConstantsAssumption DEF TypeInv, TypeOK
<1>2. stream[c].changes \in Seq(Event({ID}, Clients)) /\ Len(stream[c].changes) \in Nat
  BY <1>1, StreamFields
<1>3. next[c] <= Len(stream[c].changes)
  BY DEF TypeInv, ChangeThere
<1>4. next[c] \in DOMAIN stream[c].changes
  BY <1>1, <1>2, <1>3
<1> QED
  BY <1>2, <1>4 DEF Change, Changes

LEMMA TypeInit == Init => TypeInv
<1> SUFFICES ASSUME Init PROVE TypeInv
  OBVIOUS
<1>1. Blank(ID) \in Stream({ID}, Clients) /\ Len(Blank(ID).changes) = 0
  BY BlankType DEF Blank
<1>2. /\ MaxChanges \in Nat \ {0} /\ 1 \in 1..MaxChanges+1
      /\ Absent \in Stored({ID}, Clients)
  BY ConstantsAssumption DEF Absent, Stored
<1>3. TypeOK
  <2>1. /\ stream \in [Clients -> Stream({ID}, Clients)]
        /\ next \in [Clients -> 1..MaxChanges+1]
    BY <1>1, <1>2 DEF Init
  <2>2. written \in [Clients -> Rows]
    BY NothingType DEF Init
  <2>3. /\ versions \in Nat /\ states \in Stored({ID}, Clients)
        /\ events \subseteq Event({ID}, Clients) /\ outbox \subseteq Event({ID}, Clients)
        /\ journal \in BOOLEAN
    BY <1>2 DEF Init
  <2>4. /\ pc \in [Clients -> Places]
        /\ answer \in [Clients -> {"none", "nil", "error"}]
    BY DEF Init, Places
  <2> QED
    BY <2>1, <2>2, <2>3, <2>4 DEF TypeOK, Rows, Places
<1>4. \A c \in Clients : ChangeThere(c)
  BY <1>1, <1>2 DEF Init, ChangeThere
<1> QED
  BY <1>3, <1>4 DEF TypeInv

\* A step that leaves the copies, the tables and the next changes alone
LEMMA TypeUnchanged ==
  ASSUME TypeInv, NEW c \in Clients, UNCHANGED <<journal, tables, stream, next>>,
         NEW place \in Places \ {"journal", "outbox"}, Goto(c, place),
         NEW rows \in Rows, written' = [written EXCEPT ![c] = rows] \/ written' = written,
         NEW reply \in {"nil", "error"}, answer' = [answer EXCEPT ![c] = reply] \/ answer' = answer
  PROVE  TypeInv'
<1> USE DEF TypeInv, TypeOK, Goto, Places, Rows, tables
<1>1. TypeOK'
  OBVIOUS
<1>2. \A o \in Clients : ChangeThere(o)'
  BY DEF ChangeThere
<1> QED
  BY <1>1, <1>2

LEMMA TypeStep ==
  ASSUME TypeInv, NEW c \in Clients, Step(c)
  PROVE  TypeInv'
<1>0. /\ pc \in [Clients -> Places] /\ stream \in [Clients -> Stream({ID}, Clients)]
      /\ stream[c] \in Stream({ID}, Clients) /\ written \in [Clients -> Rows] /\ written[c] \in Rows
      /\ next \in [Clients -> 1..MaxChanges+1] /\ MaxChanges \in Nat \ {0}
      /\ states \in Stored({ID}, Clients)
  BY ConstantsAssumption DEF TypeInv, TypeOK, Places, Rows
<1>a. /\ stream[c].changes \in Seq(Event({ID}, Clients)) /\ Len(stream[c].changes) \in Nat
      /\ Version(stream[c]) \in Nat
  BY <1>0, StreamFields
<1>d. stream[c] \in Stream({ID}, Clients)
  BY <1>0
<1>b. ASSUME RollBack(c) PROVE TypeInv'
  BY <1>b, TypeUnchanged, NothingType DEF RollBack, Places
<1>c. ASSUME NEW s \in Stream({ID}, Clients), Len(s.changes) <= MaxChanges,
             stream' = [stream EXCEPT ![c] = s], Goto(c, "mutate"),
             UNCHANGED <<journal, tables, written, next, answer>>
      PROVE  TypeInv'
  <2>1. TypeOK'
    BY <1>c DEF TypeInv, TypeOK, Goto, tables
  <2>2. \A o \in Clients : ChangeThere(o)'
    BY <1>0, <1>c DEF TypeInv, ChangeThere, Goto
  <2> QED
    BY <2>1, <2>2 DEF TypeInv
<1>1. CASE NewStream(c)
  <2>1. Blank(ID) \in Stream({ID}, Clients) /\ Len(Blank(ID).changes) <= MaxChanges
    BY <1>0, BlankType DEF Blank
  <2> QED
    BY <1>1, <1>c, <2>1 DEF NewStream, Obtain
<1>2. CASE Load(c)
  <2>1. /\ Unmarshal(ID, states) \in Stream({ID}, Clients)
        /\ Len(Unmarshal(ID, states).changes) <= MaxChanges
    <3>1. ID \in {ID}
      OBVIOUS
    <3>2. Unmarshal(ID, states) \in Stream({ID}, Clients)
      BY <1>0, <3>1, UnmarshalType
    <3> QED
      BY <1>0, <3>2 DEF Unmarshal
  <2> QED
    BY <1>2, <1>c, <2>1 DEF Load, Obtain
<1>3. CASE MutateStream(c)
  <2>1. /\ Mutate(stream[c], c) \in Stream({ID}, Clients)
        /\ Mutate(stream[c], c).changes = Append(stream[c].changes, NextEvent(stream[c], c))
        /\ NextEvent(stream[c], c) \in Event({ID}, Clients)
    BY <1>d, MutateFields
  <2>2. Len(Mutate(stream[c], c).changes) <= MaxChanges
    BY <1>0, <1>3, <1>a, <2>1 DEF MutateStream
  <2>3. Goto(c, "mutate")
    BY <1>0, <1>3 DEF MutateStream, Goto
  <2> QED
    BY <1>3, <1>c, <2>1, <2>2, <2>3 DEF MutateStream
<1>4. CASE PersistNothing(c)
  BY <1>0, <1>4, TypeUnchanged DEF PersistNothing, Places
<1>5. CASE Begin(c)
  <2>1. Len(stream[c].changes) >= 1
    BY <1>0, <1>5, <1>a, StreamFields DEF Begin, Version, PreviousVersion
  <2>2. TypeOK'
    <3>1. 1 \in 1..MaxChanges+1
      BY <1>0
    <3>2. next' \in [Clients -> 1..MaxChanges+1]
      BY <1>0, <1>5, <3>1 DEF Begin
    <3>3. pc' \in [Clients -> Places]
      BY <1>0, <1>5 DEF Begin, Goto, Places
    <3> QED
      BY <1>5, <3>2, <3>3 DEF Begin, TypeInv, TypeOK, tables, Places
  <2>3. \A o \in Clients : ChangeThere(o)'
    BY <1>0, <1>5, <2>1 DEF Begin, Goto, TypeInv, ChangeThere
  <2> QED
    BY <2>2, <2>3 DEF TypeInv
<1>6. CASE StatementFails(c)
  BY <1>6, <1>b DEF StatementFails
<1>7. CASE ConnectionFails(c)
  BY <1>7, TypeUnchanged, NothingType DEF ConnectionFails, Places
<1>8. CASE Commit(c) \/ CommitUnanswered(c)
  <2>1. TypeOK'
    <3>1. /\ versions' \in Nat /\ states' \in Stored({ID}, Clients)
          /\ events' \subseteq Event({ID}, Clients) /\ outbox' \subseteq Event({ID}, Clients)
      BY <1>0, <1>8 DEF Commit, CommitUnanswered, CommitWritten, OutboxKeeps, TypeInv, TypeOK, Rows
    <3>2. written' \in [Clients -> Rows] /\ pc' \in [Clients -> Places]
      BY <1>0, <1>8, NothingType DEF Commit, CommitUnanswered, CommitWritten, Goto, Places
    <3>3. /\ answer' \in [Clients -> {"none", "nil", "error"}]
          /\ UNCHANGED <<journal, stream, next>>
      BY <1>8 DEF Commit, CommitUnanswered, CommitWritten, TypeInv, TypeOK
    <3> QED
      BY <3>1, <3>2, <3>3 DEF TypeInv, TypeOK, Rows, Places
  <2>2. \A o \in Clients : ChangeThere(o)'
    BY <1>0, <1>8 DEF Commit, CommitUnanswered, CommitWritten, Goto, TypeInv, ChangeThere
  <2> QED
    BY <2>1, <2>2 DEF TypeInv
<1>9. CASE AppendToJournal(c)
  <2>1. CASE RollBack(c)
    BY <2>1, <1>b
  <2>2. CASE ~RollBack(c)
    <3>1. /\ pc[c] = "journal" /\ Goto(c, "outbox")
          /\ written' = [written EXCEPT ![c].events = @ \union {Change(c)}]
          /\ UNCHANGED <<journal, tables, stream, next, answer>>
      BY <1>9, <2>2 DEF AppendToJournal
    <3>2. Change(c) \in Event({ID}, Clients)
      BY <3>1, ChangeType
    <3>3. TypeOK'
      BY <1>0, <3>1, <3>2 DEF Goto, TypeInv, TypeOK, tables
    <3>4. \A o \in Clients : ChangeThere(o)'
      BY <1>0, <3>1 DEF Goto, TypeInv, ChangeThere
    <3> QED
      BY <3>3, <3>4 DEF TypeInv
  <2> QED
    BY <2>1, <2>2
<1>10. CASE AppendToOutbox(c)
  <2>1. CASE RollBack(c)
    BY <2>1, <1>b
  <2>2. CASE ~RollBack(c)
    <3>1. /\ pc[c] = "outbox"
          /\ written' = [written EXCEPT ![c].outbox = @ \union {Change(c)}]
          /\ next' = [next EXCEPT ![c] = @ + 1]
          /\ Goto(c, IF next'[c] > Len(stream[c].changes) THEN "version"
                     ELSE IF journal THEN "journal" ELSE "outbox")
          /\ UNCHANGED <<journal, tables, stream, answer>>
      BY <1>10, <2>2 DEF AppendToOutbox
    <3>2. Change(c) \in Event({ID}, Clients) /\ next[c] <= Len(stream[c].changes)
          /\ Len(stream[c].changes) <= MaxChanges
      BY <3>1, ChangeType DEF TypeInv, ChangeThere
    <3>3. next'[c] = next[c] + 1 /\ next' \in [Clients -> 1..MaxChanges+1]
      BY <1>0, <1>a, <3>1, <3>2
    <3>4. TypeOK'
      BY <1>0, <3>1, <3>2, <3>3 DEF Goto, TypeInv, TypeOK, tables
    <3>5. \A o \in Clients : ChangeThere(o)'
      BY <1>0, <1>a, <3>1, <3>2, <3>3 DEF Goto, TypeInv, ChangeThere
    <3> QED
      BY <3>4, <3>5 DEF TypeInv
  <2> QED
    BY <2>1, <2>2
<1>11. CASE UpdateVersion(c)
  <2>1. CASE RollBack(c)
    BY <2>1, <1>b
  <2>2. CASE ~RollBack(c)
    <3> DEFINE rows == [written[c] EXCEPT !.version = Version(stream[c])]
    <3>1. rows \in Rows
      BY <1>0, <1>a DEF Rows
    <3> QED
      BY <1>11, <2>2, <3>1, TypeUnchanged DEF UpdateVersion, Places
  <2> QED
    BY <2>1, <2>2
<1>12. CASE WriteState(c)
  <2>1. CASE RollBack(c)
    BY <2>1, <1>b
  <2>2. CASE ~RollBack(c)
    <3> DEFINE rows == [written[c] EXCEPT !.state = Marshal(stream[c])]
    <3>1. rows \in Rows
      BY <1>0, MarshalType DEF Rows
    <3> QED
      BY <1>12, <2>2, <3>1, TypeUnchanged DEF WriteState, Places
  <2> QED
    BY <2>1, <2>2
<1>13. CASE CleanOutbox(c)
  BY <1>0, <1>13, TypeUnchanged DEF CleanOutbox, Places
<1> QED
  BY <1>1, <1>2, <1>3, <1>4, <1>5, <1>6, <1>7, <1>8, <1>9, <1>10, <1>11, <1>12, <1>13
  DEF Step, Work, Statement, Fault

\* The tables, the transactions and the copies keep their types.
THEOREM TypeCorrect == Spec => []TypeOK
<1>1. TypeInv /\ [Next]_vars => TypeInv'
  <2>1. ASSUME TypeInv, UNCHANGED vars PROVE TypeInv'
    BY <2>1 DEF vars, tables, TypeInv, TypeOK, ChangeThere
  <2> QED
    BY <2>1, TypeStep DEF Next, Finished
<1>2. TypeInv => TypeOK
  BY DEF TypeInv
<1> QED
  BY TypeInit, <1>1, <1>2, PTL DEF Spec

-----------------------------------------------------------------------------
(***************************************************************************)
(* The tables, the copies and what the open transactions have written.     *)
(***************************************************************************)
\* The version row is written: it belongs to this transaction.
PastVersion == {"state", "clean", "commit"}

InPersist == {"journal", "outbox", "version"} \union PastVersion

Working == {"mutate"} \union InPersist

\* The stored events are numbered up to the stored version.
TablesAgree ==
  /\ RowsAgree
  /\ \A e \in states.state : e.version \in 1..versions
  /\ versions = 0 \/ \E e \in states.state : e.version = versions

\* While a copy's version is the stored one, the copy is the stored stream with
\* the client's own changes, which are numbered on from there.
CopyAgrees(c) ==
  LET s == stream[c]
  IN  /\ s.version <= versions
      /\ s.version = versions => s.state = states.state \union Changes(s)
      /\ \A i \in 1..Len(s.changes) :
           s.changes[i] = [streamID |-> ID, version |-> s.version + i, cause |-> c]

\* Nothing is written outside a transaction, and in it what Persist has come to.
\* The version that was compared is still the stored one.
WrittenAgrees(c) ==
  LET s == stream[c]
      w == written[c]
  IN  /\ pc[c] \in InPersist => s.changes # <<>>
      /\ pc[c] \notin InPersist => w = Nothing
      /\ \A e \in w.outbox : e.version <= Version(s)
      /\ pc[c] \notin PastVersion => w.version = 0
      /\ pc[c] \in PastVersion => w.version = Version(s) /\ versions = s.version
      /\ pc[c] \in {"clean", "commit"} => w.state = Marshal(s)

OneHolder == \A c, o \in Clients : pc[c] \in PastVersion /\ pc[o] \in PastVersion => c = o

StoreInv ==
  /\ TablesAgree
  /\ \A c \in Clients : pc[c] \in Working => CopyAgrees(c)
  /\ \A c \in Clients : WrittenAgrees(c)
  /\ OneHolder

LEMMA StoreInit == Init => StoreInv
<1> SUFFICES ASSUME Init PROVE StoreInv
  OBVIOUS
<1>1. TablesAgree
  BY DEF Init, TablesAgree, RowsAgree, Absent
<1>2. \A c \in Clients : pc[c] = "start" /\ written[c] = Nothing
  BY DEF Init
<1>3. ASSUME NEW c \in Clients PROVE WrittenAgrees(c)
  <2>1. pc[c] = "start" /\ written[c].version = 0 /\ written[c].outbox = {}
    BY <1>2 DEF Nothing
  <2> QED
    BY <1>2, <2>1 DEF WrittenAgrees, InPersist, PastVersion
<1> QED
  BY <1>1, <1>2, <1>3 DEF StoreInv, OneHolder, InPersist, PastVersion, Working

\* A step that leaves the tables and the other clients alone
LEMMA StoreMine ==
  ASSUME TypeInv, StoreInv, NEW c \in Clients, UNCHANGED tables,
         NEW place \in Places, Goto(c, place),
         \A o \in Others(c) : stream'[o] = stream[o] /\ written'[o] = written[o],
         place \in Working => CopyAgrees(c)',
         WrittenAgrees(c)',
         place \in PastVersion => \A o \in Others(c) : pc[o] \notin PastVersion
  PROVE  StoreInv'
<1>1. pc \in [Clients -> Places] /\ pc'[c] = place /\ \A o \in Others(c) : pc'[o] = pc[o]
  BY DEF TypeInv, TypeOK, Places, Goto, Others
<1>2. UNCHANGED <<versions, states, outbox>>
  BY DEF tables
<1>3. TablesAgree'
  BY <1>2 DEF StoreInv, TablesAgree, RowsAgree
<1>4. ASSUME NEW o \in Others(c) PROVE (pc[o] \in Working => CopyAgrees(o))' /\ WrittenAgrees(o)'
  <2>1. o \in Clients /\ pc'[o] = pc[o] /\ stream'[o] = stream[o] /\ written'[o] = written[o]
    BY <1>1 DEF Others
  <2>2. CopyAgrees(o) => CopyAgrees(o)'
    BY <1>2, <2>1 DEF CopyAgrees
  <2>3. WrittenAgrees(o) => WrittenAgrees(o)'
    BY <1>2, <2>1 DEF WrittenAgrees
  <2> QED
    BY <2>1, <2>2, <2>3 DEF StoreInv
<1>5. OneHolder'
  BY <1>1 DEF StoreInv, OneHolder, Others
<1> QED
  BY <1>1, <1>3, <1>4, <1>5 DEF StoreInv, Others

\* A client that obtains, or changes, its copy
LEMMA StoreCopy ==
  ASSUME TypeInv, StoreInv, NEW c \in Clients, UNCHANGED tables, pc[c] \in {"start", "mutate"},
         Goto(c, "mutate"), UNCHANGED written,
         NEW s, stream' = [stream EXCEPT ![c] = s], CopyAgrees(c)'
  PROVE  StoreInv'
<1>1. pc'[c] = "mutate" /\ \A o \in Others(c) : stream'[o] = stream[o]
  BY DEF TypeInv, TypeOK, Goto, Others
<1>2. written'[c] = Nothing
  BY DEF StoreInv, WrittenAgrees, InPersist, PastVersion
<1>3. WrittenAgrees(c)'
  BY <1>1, <1>2 DEF WrittenAgrees, InPersist, PastVersion, Nothing
<1> QED
  BY <1>1, <1>3, StoreMine DEF Places, PastVersion

\* A transaction that ends without a commit
LEMMA StoreEnds ==
  ASSUME TypeInv, StoreInv, NEW c \in Clients, UNCHANGED <<tables, stream>>,
         written' = [written EXCEPT ![c] = Nothing], Goto(c, "done")
  PROVE  StoreInv'
<1>1. /\ pc'[c] = "done" /\ written'[c] = Nothing
      /\ \A o \in Others(c) : stream'[o] = stream[o] /\ written'[o] = written[o]
  BY DEF TypeInv, TypeOK, Goto, Others
<1>2. WrittenAgrees(c)'
  BY <1>1 DEF WrittenAgrees, InPersist, PastVersion, Nothing
<1> QED
  BY <1>1, <1>2, StoreMine DEF Places, PastVersion, Working, InPersist

\* A statement, which goes on within the transaction
LEMMA StoreStatement ==
  ASSUME TypeInv, StoreInv, NEW c \in Clients, UNCHANGED <<tables, stream>>,
         pc[c] \in Working, NEW place \in InPersist, Goto(c, place),
         \A o \in Others(c) : written'[o] = written[o],
         WrittenAgrees(c)',
         place \in PastVersion => \A o \in Others(c) : pc[o] \notin PastVersion
  PROVE  StoreInv'
<1>1. \A o \in Others(c) : stream'[o] = stream[o] /\ written'[o] = written[o]
  OBVIOUS
<1>2. CopyAgrees(c)'
  <2>1. CopyAgrees(c) /\ UNCHANGED <<versions, states, stream>>
    BY DEF StoreInv, tables
  <2> QED
    BY <2>1 DEF CopyAgrees
<1>3. place \in Places
  BY DEF InPersist, PastVersion, Places
<1> QED
  BY <1>1, <1>2, <1>3, StoreMine

\* A commit appends the transaction's changes to the stored stream.
LEMMA CommitAppends ==
  ASSUME TypeInv, StoreInv, NEW c \in Clients, pc[c] = "commit", CommitWritten(c)
  PROVE  /\ versions \in Nat /\ versions = stream[c].version
         /\ Len(stream[c].changes) \in 1..MaxChanges
         /\ versions' = versions + Len(stream[c].changes)
         /\ states'.version = versions'
         /\ states'.state = states.state \union Changes(stream[c])
         /\ Changes(stream[c]) =
              {[streamID |-> ID, version |-> v, cause |-> c] :
                 v \in versions + 1 .. versions + Len(stream[c].changes)}
<1> DEFINE s == stream[c]
<1>1. s \in Stream({ID}, Clients) /\ versions \in Nat /\ MaxChanges \in Nat
  BY ConstantsAssumption DEF TypeInv, TypeOK
<1>2. /\ s.version \in Nat /\ s.changes \in Seq(Event({ID}, Clients)) /\ Len(s.changes) \in Nat
  BY <1>1, StreamFields
<1>3. CopyAgrees(c) /\ WrittenAgrees(c)
  BY DEF StoreInv, Working, InPersist, PastVersion
<1>4. /\ s.changes # <<>> /\ versions = s.version
      /\ written[c].version = Version(s) /\ written[c].state = Marshal(s)
  BY <1>3 DEF WrittenAgrees, InPersist, PastVersion
<1>5. Len(s.changes) \in 1..MaxChanges
  BY <1>1, <1>2, <1>4 DEF TypeInv, ChangeThere
<1>6. versions' = Version(s) /\ states'.version = Version(s) /\ states'.state = s.state
  BY <1>4 DEF CommitWritten, Marshal
<1>7. s.state = states.state \union Changes(s)
  BY <1>3, <1>4 DEF CopyAgrees
<1>8. \A i \in 1..Len(s.changes) :
        s.changes[i] = [streamID |-> ID, version |-> s.version + i, cause |-> c]
  BY <1>3 DEF CopyAgrees
<1> HIDE DEF s
<1>9. Changes(s) = {[streamID |-> ID, version |-> v, cause |-> c] :
                      v \in s.version + 1 .. s.version + Len(s.changes)}
  BY <1>1, <1>8, NumberedChanges
<1>10. Version(s) = versions + Len(s.changes)
  BY <1>4 DEF Version
<1>11. /\ versions = s.version /\ versions' = versions + Len(s.changes)
       /\ states'.version = versions' /\ states'.state = states.state \union Changes(s)
       /\ Changes(s) = {[streamID |-> ID, version |-> v, cause |-> c] :
                          v \in versions + 1 .. versions + Len(s.changes)}
  BY <1>4, <1>6, <1>7, <1>9, <1>10
<1> QED
  BY <1>1, <1>5, <1>11 DEF s

LEMMA StoreCommit ==
  ASSUME TypeInv, StoreInv, NEW c \in Clients, pc[c] = "commit", CommitWritten(c)
  PROVE  StoreInv'
<1> DEFINE k == Len(stream[c].changes)
<1>1. versions \in Nat /\ k \in Nat \ {0}
  <2>1. versions \in Nat /\ k \in 1..MaxChanges /\ MaxChanges \in Nat
    BY CommitAppends, ConstantsAssumption
  <2> QED
    BY <2>1
<1>2. /\ versions' = versions + k /\ states'.version = versions'
      /\ states'.state = states.state \union Changes(stream[c])
      /\ Changes(stream[c]) = {[streamID |-> ID, version |-> v, cause |-> c] :
                                 v \in versions + 1 .. versions + k}
  BY CommitAppends
<1>3. TablesAgree'
  <2>1. outbox' = {}
    <3>1. outbox = {} /\ \A e \in written[c].outbox : e.version <= Version(stream[c])
      BY DEF StoreInv, TablesAgree, RowsAgree, WrittenAgrees
    <3>2. \A e \in written[c].outbox : e.version \in Nat
      BY DEF TypeInv, TypeOK, Event
    <3>3. Version(stream[c]) \in Nat
      BY StreamFields DEF TypeInv, TypeOK
    <3> QED
      BY <3>1, <3>2, <3>3 DEF CommitWritten, OutboxKeeps
  <2>2. \A e \in states'.state : e.version \in 1..versions'
    BY <1>1, <1>2 DEF StoreInv, TablesAgree
  <2>3. \E e \in states'.state : e.version = versions'
    <3> DEFINE e == [streamID |-> ID, version |-> versions + k, cause |-> c]
    <3>1. versions + k \in versions + 1 .. versions + k
      BY <1>1
    <3>2. e \in states'.state /\ e.version = versions'
      BY <1>2, <3>1
    <3> QED
      BY <3>2
  <2> QED
    BY <1>2, <2>1, <2>2, <2>3 DEF TablesAgree, RowsAgree
<1>4. /\ pc'[c] = "done" /\ written'[c] = Nothing /\ stream' = stream
      /\ \A o \in Others(c) : pc'[o] = pc[o] /\ written'[o] = written[o]
  BY DEF CommitWritten, Goto, TypeInv, TypeOK, Others
<1>5. ASSUME NEW o \in Others(c) PROVE (pc[o] \in Working => CopyAgrees(o))' /\ WrittenAgrees(o)'
  <2>1. /\ o \in Clients /\ o # c /\ pc'[o] = pc[o] /\ written'[o] = written[o]
        /\ stream'[o] = stream[o]
    BY <1>4 DEF Others
  <2>2. pc[o] \notin PastVersion
    BY <2>1 DEF StoreInv, OneHolder, PastVersion
  <2>3. stream[o].version \in Nat
    BY <2>1, StreamFields DEF TypeInv, TypeOK
  <2>4. CopyAgrees(o) => CopyAgrees(o)'
    BY <1>1, <1>2, <2>1, <2>3 DEF CopyAgrees
  <2>5. WrittenAgrees(o) => WrittenAgrees(o)'
    BY <2>1, <2>2 DEF WrittenAgrees, PastVersion
  <2> QED
    BY <2>1, <2>4, <2>5 DEF StoreInv
<1>6. WrittenAgrees(c)' /\ pc'[c] \notin Working \union PastVersion
  BY <1>4 DEF WrittenAgrees, InPersist, PastVersion, Nothing, Working
<1>7. OneHolder'
  BY <1>4, <1>6 DEF StoreInv, OneHolder, Others
<1> QED
  BY <1>3, <1>5, <1>6, <1>7 DEF StoreInv, Others

LEMMA StoreStep ==
  ASSUME TypeInv, StoreInv, NEW c \in Clients, Step(c)
  PROVE  StoreInv'
<1>0. /\ pc \in [Clients -> Places] /\ stream \in [Clients -> Stream({ID}, Clients)]
      /\ stream[c] \in Stream({ID}, Clients) /\ written \in [Clients -> Rows] /\ written[c] \in Rows
      /\ states \in Stored({ID}, Clients) /\ versions \in Nat
  BY DEF TypeInv, TypeOK, Places, Rows
<1>a. /\ stream[c].version \in Nat /\ stream[c].changes \in Seq(Event({ID}, Clients))
      /\ Len(stream[c].changes) \in Nat
  BY <1>0, StreamFields
<1>b. pc[c] \in Working => CopyAgrees(c)
  BY DEF StoreInv
<1>c. WrittenAgrees(c)
  BY DEF StoreInv
<1>r. ASSUME RollBack(c) PROVE StoreInv'
  BY <1>r, StoreEnds DEF RollBack, tables
<1>1. CASE NewStream(c)
  <2>1. stream'[c] = Blank(ID) /\ UNCHANGED <<versions, states>>
    BY <1>0, <1>1 DEF NewStream, Obtain, tables
  <2>2. versions = 0 => states.state = {}
    BY DEF StoreInv, TablesAgree
  <2>3. CopyAgrees(c)'
    BY <1>0, <2>1, <2>2 DEF CopyAgrees, Blank, Changes
  <2> QED
    BY <1>1, <2>3, StoreCopy DEF NewStream, Obtain
<1>2. CASE Load(c)
  <2>1. stream'[c] = Unmarshal(ID, states) /\ UNCHANGED <<versions, states>>
    BY <1>0, <1>2 DEF Load, Obtain, tables
  <2>2. states.version = versions
    BY DEF StoreInv, TablesAgree, RowsAgree
  <2>3. CopyAgrees(c)'
    BY <1>0, <2>1, <2>2 DEF CopyAgrees, Unmarshal, Changes
  <2> QED
    BY <1>2, <2>3, StoreCopy DEF Load, Obtain
<1>3. CASE MutateStream(c)
  <2> DEFINE s == stream[c]
             e == NextEvent(s, c)
             t == Mutate(s, c)
  <2>1. pc[c] = "mutate" /\ CopyAgrees(c) /\ stream' = [stream EXCEPT ![c] = t]
        /\ UNCHANGED <<tables, written, pc>>
    BY <1>3, <1>b DEF MutateStream, Working
  <2>2. /\ e.streamID = s.id /\ e.version = Version(s) + 1 /\ e.cause = c
        /\ e \in Event({ID}, Clients)
        /\ t.version = s.version /\ t.changes = Append(s.changes, e)
        /\ t.state = s.state \union {e} /\ Changes(t) = Changes(s) \union {e}
    BY <1>0, MutateFields
  <2>3. s.id = ID
    BY <1>0, StreamFields
  <2>4. e = [streamID |-> ID, version |-> s.version + (Len(s.changes) + 1), cause |-> c]
    <3>1. Version(s) + 1 = s.version + (Len(s.changes) + 1)
      BY <1>a DEF Version
    <3>2. e = [streamID |-> e.streamID, version |-> e.version, cause |-> e.cause]
      BY DEF NextEvent
    <3> QED
      BY <2>2, <2>3, <3>1, <3>2
  <2> HIDE DEF e
  <2>5. /\ Len(t.changes) = Len(s.changes) + 1
        /\ \A i \in 1..Len(s.changes) : t.changes[i] = s.changes[i]
        /\ t.changes[Len(s.changes) + 1] = e
    BY <1>a, <2>2
  <2> HIDE DEF t
  <2>6. \A i \in 1..Len(t.changes) :
          t.changes[i] = [streamID |-> ID, version |-> t.version + i, cause |-> c]
    BY <1>a, <2>1, <2>2, <2>4, <2>5 DEF CopyAgrees
  <2>7. t.version <= versions /\ (t.version = versions => t.state = states.state \union Changes(t))
    BY <2>1, <2>2 DEF CopyAgrees
  <2>8. stream'[c] = t /\ UNCHANGED <<versions, states>>
    BY <1>0, <2>1 DEF tables
  <2>9. CopyAgrees(c)'
    BY <2>6, <2>7, <2>8 DEF CopyAgrees
  <2>10. Goto(c, "mutate")
    BY <1>0, <2>1 DEF Goto
  <2> QED
    BY <2>1, <2>9, <2>10, StoreCopy
<1>4. CASE PersistNothing(c)
  <2>1. pc[c] = "mutate" /\ Goto(c, "done") /\ UNCHANGED <<tables, written, stream>>
    BY <1>4 DEF PersistNothing
  <2>2. written[c] = Nothing
    BY <1>c, <2>1 DEF WrittenAgrees, InPersist, PastVersion
  <2>3. written' = [written EXCEPT ![c] = Nothing]
    BY <1>0, <2>1, <2>2
  <2> QED
    BY <2>1, <2>3, StoreEnds
<1>5. CASE Begin(c)
  <2>1. PICK place \in {"journal", "outbox"} : Goto(c, place)
    BY <1>5 DEF Begin
  <2>2. /\ pc[c] = "mutate" /\ UNCHANGED <<tables, written, stream>>
        /\ Version(stream[c]) # stream[c].version
    BY <1>5 DEF Begin, PreviousVersion
  <2>3. stream[c].changes # <<>>
    BY <1>a, <2>2 DEF Version
  <2>4. pc'[c] = place
    BY <1>0, <2>1 DEF Goto
  <2>5. WrittenAgrees(c)'
    <3>1. UNCHANGED <<versions, stream[c], written[c]>>
      BY <2>2 DEF tables
    <3> QED
      BY <1>c, <2>1, <2>2, <2>3, <2>4, <3>1 DEF WrittenAgrees, InPersist, PastVersion
  <2> QED
    BY <2>1, <2>2, <2>5, StoreStatement DEF Working, InPersist, PastVersion
<1>6. CASE StatementFails(c)
  BY <1>6, <1>r DEF StatementFails
<1>7. CASE ConnectionFails(c)
  BY <1>7, StoreEnds DEF ConnectionFails
<1>8. CASE Commit(c) \/ CommitUnanswered(c)
  BY <1>8, StoreCommit DEF Commit, CommitUnanswered
<1>9. CASE AppendToJournal(c)
  <2>1. CASE RollBack(c)
    BY <2>1, <1>r
  <2>2. CASE ~RollBack(c)
    <3> DEFINE rows == [written[c] EXCEPT !.events = @ \union {Change(c)}]
    <3>1. pc[c] = "journal" /\ Goto(c, "outbox") /\ UNCHANGED <<tables, stream>>
          /\ written' = [written EXCEPT ![c] = rows]
      BY <1>9, <2>2 DEF AppendToJournal
    <3>2. pc'[c] = "outbox" /\ written'[c] = rows /\ UNCHANGED <<versions, stream>>
      BY <1>0, <3>1 DEF Goto, tables
    <3>3. rows.version = written[c].version /\ rows.outbox = written[c].outbox
      BY <1>0 DEF Rows
    <3>4. WrittenAgrees(c)'
      BY <1>c, <3>1, <3>2, <3>3 DEF WrittenAgrees, InPersist, PastVersion
    <3>5. \A o \in Others(c) : written'[o] = written[o]
      BY <1>0, <3>1 DEF Others
    <3> QED
      BY <3>1, <3>4, <3>5, StoreStatement DEF Working, InPersist, PastVersion
  <2> QED
    BY <2>1, <2>2
<1>10. CASE AppendToOutbox(c)
  <2>1. CASE RollBack(c)
    BY <2>1, <1>r
  <2>2. CASE ~RollBack(c)
    <3> DEFINE rows == [written[c] EXCEPT !.outbox = @ \union {Change(c)}]
    <3>1. pc[c] = "outbox" /\ UNCHANGED <<tables, stream>>
          /\ written' = [written EXCEPT ![c] = rows]
      BY <1>10, <2>2 DEF AppendToOutbox
    <3>2. PICK place \in {"version", "journal", "outbox"} : Goto(c, place)
      BY <1>10, <2>2 DEF AppendToOutbox
    <3>3. pc'[c] = place /\ written'[c] = rows /\ UNCHANGED <<versions, stream>>
      BY <1>0, <3>1, <3>2 DEF Goto, tables
    <3>4. rows.version = written[c].version /\ rows.outbox = written[c].outbox \union {Change(c)}
      BY <1>0 DEF Rows
    <3>5. Change(c).version <= Version(stream[c])
      <4>1. next[c] \in 1..Len(stream[c].changes)
        BY <1>a, <3>1, ConstantsAssumption DEF TypeInv, TypeOK, ChangeThere
      <4>2. Change(c) = [streamID |-> ID, version |-> stream[c].version + next[c], cause |-> c]
        BY <1>b, <3>1, <4>1 DEF Working, InPersist, PastVersion, CopyAgrees, Change
      <4> QED
        BY <1>a, <4>1, <4>2 DEF Version
    <3>6. WrittenAgrees(c)'
      BY <1>c, <3>1, <3>2, <3>3, <3>4, <3>5 DEF WrittenAgrees, InPersist, PastVersion
    <3>7. \A o \in Others(c) : written'[o] = written[o]
      BY <1>0, <3>1 DEF Others
    <3> QED
      BY <3>1, <3>2, <3>6, <3>7, StoreStatement DEF Working, InPersist, PastVersion
  <2> QED
    BY <2>1, <2>2
<1>11. CASE UpdateVersion(c)
  <2>1. CASE RollBack(c)
    BY <2>1, <1>r
  <2>2. CASE ~RollBack(c)
    <3> DEFINE rows == [written[c] EXCEPT !.version = Version(stream[c])]
    <3>1. /\ pc[c] = "version" /\ Goto(c, "state") /\ UNCHANGED <<tables, stream>>
          /\ written' = [written EXCEPT ![c] = rows]
          /\ ~VersionMismatch(c) /\ \A o \in Others(c) : written[o].version = 0
      BY <1>11, <2>2 DEF UpdateVersion
    <3>2. pc'[c] = "state" /\ written'[c] = rows /\ UNCHANGED <<versions, stream>>
      BY <1>0, <3>1 DEF Goto, tables
    <3>3. rows.version = Version(stream[c]) /\ rows.outbox = written[c].outbox
      BY <1>0 DEF Rows
    <3>4. versions = stream[c].version
      BY <3>1 DEF VersionMismatch, PreviousVersion
    <3>5. WrittenAgrees(c)'
      BY <1>c, <3>1, <3>2, <3>3, <3>4 DEF WrittenAgrees, InPersist, PastVersion
    <3>6. ASSUME NEW o \in Others(c) PROVE pc[o] \notin PastVersion
      <4>1. o \in Clients /\ WrittenAgrees(o) /\ written[o].version = 0
        BY <3>1 DEF Others, StoreInv
      <4>2. stream[o].changes # <<>> => Version(stream[o]) > 0
        BY <4>1, StreamFields DEF TypeInv, TypeOK, Version
      <4> QED
        BY <4>1, <4>2 DEF WrittenAgrees, InPersist, PastVersion
    <3>7. \A o \in Others(c) : written'[o] = written[o]
      BY <1>0, <3>1 DEF Others
    <3> QED
      BY <3>1, <3>5, <3>6, <3>7, StoreStatement DEF Working, InPersist, PastVersion
  <2> QED
    BY <2>1, <2>2
<1>12. CASE WriteState(c) \/ CleanOutbox(c)
  <2>1. CASE RollBack(c)
    BY <2>1, <1>r
  <2>2. CASE ~RollBack(c)
    <3>1. PICK rows \in {written[c], [written[c] EXCEPT !.state = Marshal(stream[c])]},
               place \in {"clean", "commit"} :
            /\ Goto(c, place) /\ written' = [written EXCEPT ![c] = rows]
            /\ \/ pc[c] = "clean" /\ rows = written[c]
               \/ pc[c] = "state" /\ rows = [written[c] EXCEPT !.state = Marshal(stream[c])]
      <4>1. CASE WriteState(c)
        BY <2>2, <4>1 DEF WriteState
      <4>2. CASE CleanOutbox(c)
        <5>1. written' = [written EXCEPT ![c] = written[c]]
          BY <1>0, <4>2 DEF CleanOutbox
        <5> QED
          BY <4>2, <5>1 DEF CleanOutbox
      <4> QED
        BY <1>12, <4>1, <4>2
    <3>2. UNCHANGED <<tables, stream>>
      BY <1>12, <2>2 DEF WriteState, CleanOutbox
    <3>3. pc'[c] = place /\ written'[c] = rows /\ UNCHANGED <<versions, stream>>
      BY <1>0, <3>1, <3>2 DEF Goto, tables
    <3>4. rows.version = written[c].version /\ rows.outbox = written[c].outbox
      BY <1>0, <3>1 DEF Rows
    <3>5. rows.state = Marshal(stream[c])
      BY <1>0, <1>c, <3>1 DEF Rows, WrittenAgrees
    <3>6. WrittenAgrees(c)'
      BY <1>c, <3>1, <3>3, <3>4, <3>5 DEF WrittenAgrees, InPersist, PastVersion
    <3>7. \A o \in Others(c) : pc[o] \notin PastVersion
      BY <3>1 DEF StoreInv, OneHolder, PastVersion, Others
    <3>8. \A o \in Others(c) : written'[o] = written[o]
      BY <1>0, <3>1 DEF Others
    <3> QED
      BY <3>1, <3>2, <3>6, <3>7, <3>8, StoreStatement DEF Working, InPersist, PastVersion
  <2> QED
    BY <2>1, <2>2
<1> QED
  BY <1>1, <1>2, <1>3, <1>4, <1>5, <1>6, <1>7, <1>8, <1>9, <1>10, <1>11, <1>12
  DEF Step, Work, Statement, Fault

LEMMA StoreInductive == Spec => [](TypeInv /\ StoreInv)
<1>1. TypeInv /\ StoreInv /\ [Next]_vars => (TypeInv /\ StoreInv)'
  <2> SUFFICES ASSUME TypeInv, StoreInv, [Next]_vars PROVE (TypeInv /\ StoreInv)'
    OBVIOUS
  <2>1. ASSUME UNCHANGED vars PROVE TypeInv'
    BY <2>1 DEF vars, tables, TypeInv, TypeOK, ChangeThere
  <2>2. ASSUME UNCHANGED vars PROVE StoreInv'
    BY <2>2 DEF vars, tables, StoreInv, TablesAgree, RowsAgree, CopyAgrees, WrittenAgrees, OneHolder
  <2> QED
    BY <2>1, <2>2, TypeStep, StoreStep DEF Next, Finished
<1> QED
  BY TypeInit, StoreInit, <1>1, PTL DEF Spec

\* The two tables that hold a stream's version agree, and no committed state has
\* a row in the outbox, however many transactions interleave and whatever fails.
THEOREM TablesStayInStep == Spec => []RowsAgree
<1>1. StoreInv => RowsAgree
  BY DEF StoreInv, TablesAgree
<1> QED
  BY StoreInductive, <1>1, PTL

\* What Load reads starts empty, and each step leaves it alone or appends all
\* the changes of one Persist at its end, as the abstract log does in one step.
THEOREM PersistIsOneStep == Spec => PersistIsAtomic
<1>1. ASSUME TypeInv, StoreInv, NEW c \in Clients, pc[c] = "commit", CommitWritten(c)
      PROVE  Promise!Append1(ID, c)
  <2> DEFINE k == Len(stream[c].changes)
  <2>1. k \in 1..MaxChanges
    BY <1>1, CommitAppends
  <2>2. states'.state = states.state \union Promise!Batch(ID, c, versions, k)
    BY <1>1, CommitAppends DEF Promise!Batch
  <2>3. versions \in {0} \union {e.version : e \in states.state}
    BY <1>1 DEF StoreInv, TablesAgree
  <2>4. Promise!EndsAt(ID, versions)
    <3>1. \A e \in states.state : e.streamID = ID /\ e.version <= versions
      BY <1>1 DEF TypeInv, TypeOK, StoreInv, TablesAgree, Stored, Event
    <3> QED
      BY <1>1, <3>1 DEF StoreInv, TablesAgree, Promise!EndsAt
  <2> HIDE DEF k
  <2> QED
    BY <2>1, <2>2, <2>3, <2>4 DEF Promise!Append1
<1>2. ASSUME TypeInv, StoreInv, [Next]_vars
      PROVE  [Promise!Next]_<<states.state, <<>>>>
  <2>1. CASE UNCHANGED vars
    BY <2>1 DEF vars, tables
  <2>2. ASSUME NEW c \in Clients, Step(c)
        PROVE  \/ states' = states
               \/ pc[c] = "commit" /\ CommitWritten(c)
    BY <2>2 DEF Step, Work, Statement, Fault, NewStream, Load, MutateStream, Obtain, PersistNothing,
      Begin, AppendToJournal, AppendToOutbox, UpdateVersion, WriteState, CleanOutbox, Commit,
      CommitUnanswered, StatementFails, ConnectionFails, RollBack, tables
  <2> QED
    BY <1>1, <1>2, <2>1, <2>2 DEF Next, Finished, Promise!Next
<1>3. Init => Promise!Init
  BY DEF Init, Absent, Promise!Init
<1> QED
  BY StoreInductive, <1>2, <1>3, PTL DEF Spec, PersistIsAtomic, Promise!Spec

-----------------------------------------------------------------------------
(***************************************************************************)
(* The journal, when there is one, holds the stored events, and they have  *)
(* the versions from 1 to the stored one, each once: a Persist appends its *)
(* changes to it one by one, in the transaction that stores them.          *)
(***************************************************************************)
FirstChanges(c, n) == {stream[c].changes[i] : i \in 1..n}

Journalled(c) ==
  /\ pc[c] = "journal" => written[c].events = FirstChanges(c, next[c] - 1)
  /\ pc[c] = "outbox" => written[c].events = FirstChanges(c, next[c])
  /\ pc[c] \in {"version"} \union PastVersion => written[c].events = Changes(stream[c])

EachVersionOnce ==
  /\ \A n \in 1..versions : HasVersion(states.state, n)
  /\ \A d, e \in states.state : d.version = e.version => d = e

JournalInv ==
  /\ EachVersionOnce
  /\ journal = TRUE => events = states.state /\ \A c \in Clients : Journalled(c)

LEMMA JournalInit == Init => JournalInv
<1> SUFFICES ASSUME Init PROVE JournalInv
  OBVIOUS
<1>1. versions = 0 /\ states.state = {} /\ events = {} /\ \A c \in Clients : pc[c] = "start"
  BY DEF Init, Absent
<1>2. EachVersionOnce
  BY <1>1 DEF EachVersionOnce
<1>3. \A c \in Clients : Journalled(c)
  BY <1>1 DEF Journalled, PastVersion
<1> QED
  BY <1>1, <1>2, <1>3 DEF JournalInv

\* What a transaction has written to the journal when a step of its own ends
LEMMA JournalledStep ==
  ASSUME TypeInv, StoreInv, JournalInv, journal = TRUE, NEW c \in Clients, Step(c)
  PROVE  Journalled(c)'
<1>0. /\ pc \in [Clients -> Places] /\ stream \in [Clients -> Stream({ID}, Clients)]
      /\ written \in [Clients -> Rows] /\ written[c] \in Rows
      /\ next[c] \in Nat \ {0} /\ next \in [Clients -> Nat]
  <2>1. /\ pc \in [Clients -> Places] /\ stream \in [Clients -> Stream({ID}, Clients)]
        /\ written \in [Clients -> Rows] /\ next \in [Clients -> 1..MaxChanges+1]
    BY DEF TypeInv, TypeOK, Places, Rows
  <2>2. MaxChanges \in Nat
    BY ConstantsAssumption
  <2> QED
    BY <2>1, <2>2
<1>a. stream[c].changes \in Seq(Event({ID}, Clients)) /\ Len(stream[c].changes) \in Nat
  BY <1>0, StreamFields
<1>b. Journalled(c) /\ WrittenAgrees(c) /\ ChangeThere(c)
  BY DEF JournalInv, StoreInv, TypeInv
<1>i. ASSUME pc'[c] \notin InPersist PROVE Journalled(c)'
  BY <1>i DEF Journalled, InPersist, PastVersion
<1>r. ASSUME RollBack(c) PROVE pc'[c] = "done"
  BY <1>0, <1>r DEF RollBack, Goto
<1>d. \A n \in Nat : FirstChanges(c, n + 1) = FirstChanges(c, n) \union {stream[c].changes[n + 1]}
  <2> SUFFICES ASSUME NEW n \in Nat
               PROVE  FirstChanges(c, n + 1) = FirstChanges(c, n) \union {stream[c].changes[n + 1]}
    OBVIOUS
  <2>1. 1..(n + 1) = 1..n \union {n + 1}
    OBVIOUS
  <2> QED
    BY <2>1 DEF FirstChanges
<1>1. CASE \/ NewStream(c) \/ Load(c) \/ MutateStream(c) \/ PersistNothing(c) \/ StatementFails(c)
           \/ ConnectionFails(c) \/ Commit(c) \/ CommitUnanswered(c)
  <2>1. pc'[c] \in {"mutate", "done"}
    BY <1>0, <1>1, <1>r DEF NewStream, Load, Obtain, MutateStream, PersistNothing, StatementFails,
      ConnectionFails, Commit, CommitUnanswered, CommitWritten, Goto
  <2> QED
    BY <1>i, <2>1 DEF InPersist, PastVersion
<1>2. CASE Begin(c)
  <2>1. pc[c] = "mutate" /\ pc'[c] = "journal" /\ next'[c] = 1 /\ written' = written
    BY <1>0, <1>2 DEF Begin, Goto
  <2>2. written'[c].events = {}
    BY <1>b, <2>1 DEF WrittenAgrees, InPersist, PastVersion, Nothing
  <2>3. 1..(next'[c] - 1) = {}
    BY <2>1
  <2>4. FirstChanges(c, next[c] - 1)' = {}
    BY <2>3 DEF FirstChanges
  <2> QED
    BY <2>1, <2>2, <2>4 DEF Journalled, PastVersion
<1>3. CASE AppendToJournal(c)
  <2>1. CASE RollBack(c)
    BY <1>i, <1>r, <2>1 DEF InPersist, PastVersion
  <2>2. CASE ~RollBack(c)
    <3>1. /\ pc[c] = "journal" /\ Goto(c, "outbox") /\ UNCHANGED <<stream, next>>
          /\ written' = [written EXCEPT ![c].events = @ \union {Change(c)}]
      BY <1>3, <2>2 DEF AppendToJournal
    <3>2. /\ pc'[c] = "outbox"
          /\ written'[c].events = written[c].events \union {Change(c)}
      BY <1>0, <3>1 DEF Goto, Rows
    <3>3. next[c] - 1 \in Nat /\ (next[c] - 1) + 1 = next[c]
      BY <1>0
    <3>4. written'[c].events = FirstChanges(c, next[c])
      BY <1>b, <1>d, <3>1, <3>2, <3>3 DEF Journalled, Change
    <3> QED
      BY <3>1, <3>2, <3>4 DEF Journalled, PastVersion, FirstChanges
  <2> QED
    BY <2>1, <2>2
<1>4. CASE AppendToOutbox(c)
  <2>1. CASE RollBack(c)
    BY <1>i, <1>r, <2>1 DEF InPersist, PastVersion
  <2>2. CASE ~RollBack(c)
    <3>1. /\ pc[c] = "outbox" /\ stream' = stream /\ next' = [next EXCEPT ![c] = @ + 1]
          /\ written' = [written EXCEPT ![c].outbox = @ \union {Change(c)}]
          /\ Goto(c, IF next'[c] > Len(stream[c].changes) THEN "version" ELSE "journal")
      BY <1>4, <2>2 DEF AppendToOutbox
    <3>2. next'[c] = next[c] + 1 /\ written'[c].events = written[c].events
      BY <1>0, <3>1 DEF Rows
    <3>3. written'[c].events = FirstChanges(c, next[c])
      BY <1>b, <3>1, <3>2 DEF Journalled
    <3>4. CASE next'[c] > Len(stream[c].changes)
      <4>1. pc'[c] = "version"
        BY <1>0, <3>1, <3>4 DEF Goto
      <4>2. 1..next[c] = DOMAIN stream[c].changes
        BY <1>0, <1>a, <1>b, <3>1, <3>2, <3>4 DEF ChangeThere
      <4>3. FirstChanges(c, next[c]) = Changes(stream[c])
        BY <4>2 DEF FirstChanges, Changes
      <4> QED
        BY <3>1, <3>3, <4>1, <4>3 DEF Journalled
    <3>5. CASE ~(next'[c] > Len(stream[c].changes))
      <4>1. pc'[c] = "journal" /\ next'[c] - 1 = next[c]
        BY <1>0, <3>1, <3>2, <3>5 DEF Goto
      <4> QED
        BY <3>1, <3>3, <4>1 DEF Journalled, FirstChanges, PastVersion
    <3> QED
      BY <3>4, <3>5
  <2> QED
    BY <2>1, <2>2
<1>5. CASE UpdateVersion(c) \/ WriteState(c) \/ CleanOutbox(c)
  <2>1. CASE RollBack(c)
    BY <1>i, <1>r, <2>1 DEF InPersist, PastVersion
  <2>2. CASE ~RollBack(c)
    <3>1. /\ pc[c] \in {"version", "state", "clean"} /\ stream' = stream
          /\ pc'[c] \in PastVersion
      BY <1>0, <1>5, <2>2 DEF UpdateVersion, WriteState, CleanOutbox, Goto, PastVersion
    <3>2. written'[c].events = written[c].events
      <4>1. CASE UpdateVersion(c)
        BY <1>0, <2>2, <4>1 DEF UpdateVersion, Rows
      <4>2. CASE WriteState(c)
        BY <1>0, <2>2, <4>2 DEF WriteState, Rows
      <4>3. CASE CleanOutbox(c)
        BY <4>3 DEF CleanOutbox
      <4> QED
        BY <1>5, <4>1, <4>2, <4>3
    <3> QED
      BY <1>b, <3>1, <3>2 DEF Journalled, PastVersion
  <2> QED
    BY <2>1, <2>2
<1> QED
  BY <1>1, <1>2, <1>3, <1>4, <1>5 DEF Step, Work, Statement, Fault

\* A commit stores its changes in the journal too, and gives the next versions.
LEMMA JournalCommit ==
  ASSUME TypeInv, StoreInv, JournalInv, NEW c \in Clients, pc[c] = "commit", CommitWritten(c)
  PROVE  /\ EachVersionOnce'
         /\ journal = TRUE => events' = states'.state
<1> DEFINE k == Len(stream[c].changes)
           New(v) == [streamID |-> ID, version |-> v, cause |-> c]
<1>1. /\ versions \in Nat /\ k \in Nat /\ versions' = versions + k
      /\ states'.state = states.state \union Changes(stream[c])
      /\ Changes(stream[c]) = {New(v) : v \in versions + 1 .. versions + k}
  BY CommitAppends, ConstantsAssumption
<1>2. \A e \in states.state : e.version \in 1..versions
  BY DEF StoreInv, TablesAgree
<1>3. ASSUME NEW n \in 1..versions' PROVE HasVersion(states'.state, n)
  <2>1. CASE n \in 1..versions
    BY <1>1, <2>1 DEF JournalInv, EachVersionOnce, HasVersion
  <2>2. CASE n \notin 1..versions
    <3>1. n \in versions + 1 .. versions + k
      BY <1>1, <2>2
    <3>2. New(n) \in states'.state /\ New(n).version = n
      BY <1>1, <3>1
    <3> QED
      BY <3>2 DEF HasVersion
  <2> QED
    BY <2>1, <2>2
<1>4. ASSUME NEW d \in states'.state, NEW e \in states'.state, d.version = e.version PROVE d = e
  <2>1. \A f \in states'.state : \/ f \in states.state /\ f.version \in 1..versions
                                 \/ f.version \notin 1..versions /\ f = New(f.version)
    <3>1. \A v \in versions + 1 .. versions + k : New(v).version = v /\ v \notin 1..versions
      BY <1>1
    <3> QED
      BY <1>1, <1>2, <3>1
  <2> QED
    BY <1>4, <2>1 DEF JournalInv, EachVersionOnce
<1>5. journal = TRUE => events' = states'.state
  <2>1. journal = TRUE => events = states.state /\ written[c].events = Changes(stream[c])
    BY DEF JournalInv, Journalled, PastVersion
  <2> QED
    BY <1>1, <2>1 DEF CommitWritten
<1> QED
  BY <1>3, <1>4, <1>5 DEF EachVersionOnce

LEMMA JournalStep ==
  ASSUME TypeInv, StoreInv, JournalInv, NEW c \in Clients, Step(c)
  PROVE  JournalInv'
<1>1. journal' = journal
  BY DEF Step, Work, Statement, Fault, NewStream, Load, MutateStream, Obtain, PersistNothing,
    Begin, AppendToJournal, AppendToOutbox, UpdateVersion, WriteState, CleanOutbox, Commit,
    CommitUnanswered, CommitWritten, StatementFails, ConnectionFails, RollBack
<1>2. \/ UNCHANGED <<versions, states, events>>
      \/ pc[c] = "commit" /\ CommitWritten(c)
  BY DEF Step, Work, Statement, Fault, NewStream, Load, MutateStream, Obtain, PersistNothing,
    Begin, AppendToJournal, AppendToOutbox, UpdateVersion, WriteState, CleanOutbox, Commit,
    CommitUnanswered, StatementFails, ConnectionFails, RollBack, tables
<1>3. EachVersionOnce' /\ (journal = TRUE => events' = states'.state)
  <2>1. CASE UNCHANGED <<versions, states, events>>
    BY <2>1 DEF JournalInv, EachVersionOnce
  <2> QED
    BY <1>2, <2>1, JournalCommit
<1>4. ASSUME journal = TRUE, NEW o \in Others(c) PROVE Journalled(o)'
  <2>1. /\ pc \in [Clients -> Places] /\ stream \in [Clients -> Stream({ID}, Clients)]
        /\ written \in [Clients -> Rows] /\ next \in [Clients -> 1..MaxChanges+1]
    BY DEF TypeInv, TypeOK, Places, Rows
  <2>2. pc'[o] = pc[o]
    BY <2>1 DEF Step, Work, Statement, Fault, NewStream, Load, MutateStream, Obtain, PersistNothing,
      Begin, AppendToJournal, AppendToOutbox, UpdateVersion, WriteState, CleanOutbox, Commit,
      CommitUnanswered, CommitWritten, StatementFails, ConnectionFails, RollBack, Goto, Others
  <2>3. stream'[o] = stream[o] /\ next'[o] = next[o]
    BY <2>1 DEF Step, Work, Statement, Fault, NewStream, Load, MutateStream, Obtain, PersistNothing,
      Begin, AppendToJournal, AppendToOutbox, UpdateVersion, WriteState, CleanOutbox, Commit,
      CommitUnanswered, CommitWritten, StatementFails, ConnectionFails, RollBack, Others
  <2>4. written'[o] = written[o]
    BY <2>1 DEF Step, Work, Statement, Fault, NewStream, Load, MutateStream, Obtain, PersistNothing,
      Begin, AppendToJournal, AppendToOutbox, UpdateVersion, WriteState, CleanOutbox, Commit,
      CommitUnanswered, CommitWritten, StatementFails, ConnectionFails, RollBack, Others
  <2>5. Journalled(o)
    BY <1>4 DEF JournalInv, Others
  <2> QED
    BY <2>2, <2>3, <2>4, <2>5 DEF Journalled, FirstChanges
<1>5. journal = TRUE => Journalled(c)'
  BY JournalledStep
<1> QED
  BY <1>1, <1>3, <1>4, <1>5 DEF JournalInv, Others

LEMMA JournalInductive == Spec => [](TypeInv /\ StoreInv /\ JournalInv)
<1>1. TypeInv /\ StoreInv /\ JournalInv /\ [Next]_vars => JournalInv'
  <2> SUFFICES ASSUME TypeInv, StoreInv, JournalInv, [Next]_vars PROVE JournalInv'
    OBVIOUS
  <2>1. ASSUME UNCHANGED vars PROVE JournalInv'
    BY <2>1 DEF vars, tables, JournalInv, EachVersionOnce, Journalled, FirstChanges
  <2> QED
    BY <2>1, JournalStep DEF Next, Finished
<1> QED
  BY StoreInductive, JournalInit, <1>1, PTL DEF Spec

LEMMA RestoredFields ==
  ASSUME NEW id, NEW version, NEW changes, NEW state, NEW e
  PROVE  RestoreFromEvent([id |-> id, version |-> version, changes |-> changes, state |-> state], e)
           = [id |-> id, version |-> e.version, changes |-> changes, state |-> state \union {e}]
<1> DEFINE s == [id |-> id, version |-> version, changes |-> changes, state |-> state]
           t == [s EXCEPT !.state = @ \union {e}]
<1>1. t = [id |-> id, version |-> version, changes |-> changes, state |-> state \union {e}]
  OBVIOUS
<1>2. RestoreFromEvent(s, e) = [t EXCEPT !.version = e.version]
  BY DEF RestoreFromEvent
<1> QED
  BY <1>1, <1>2

\* What the journal gives up to a version: by a least counterexample, as each
\* application goes from one version to the next.
LEMMA ReplayedIs ==
  ASSUME TypeInv, StoreInv, JournalInv, journal = TRUE, NEW n \in 0..versions
  PROVE  Replayed[n] = [id |-> ID, version |-> n, changes |-> <<>>,
                        state |-> {e \in events : e.version <= n}]
<1> DEFINE UpTo(m) == [id |-> ID, version |-> m, changes |-> <<>>,
                       state |-> {e \in events : e.version <= m}]
           At(m) == CHOOSE e \in events : e.version = m
           Function(f) == f = [m \in 0..versions |->
             IF m = 0 THEN Blank(ID) ELSE RestoreFromEvent(f[m - 1], At(m))]
<1>1. versions \in Nat /\ events = states.state /\ \A e \in events : e.version \in 1..versions
  BY DEF TypeInv, TypeOK, JournalInv, StoreInv, TablesAgree
<1>2. UpTo(0) = Blank(ID)
  <2>1. {e \in events : e.version <= 0} = {}
    BY <1>1
  <2> QED
    BY <2>1 DEF Blank
<1>3. ASSUME NEW m \in 1..versions PROVE RestoreFromEvent(UpTo(m - 1), At(m)) = UpTo(m)
  <2>1. PICK a \in events : a.version = m
    BY <1>1 DEF JournalInv, EachVersionOnce, HasVersion
  <2>2. \A e \in events : e.version = m <=> e = a
    BY <1>1, <2>1 DEF JournalInv, EachVersionOnce
  <2>3. At(m) = a
    BY <2>1, <2>2
  <2>4. {e \in events : e.version <= m - 1} \union {a} = {e \in events : e.version <= m}
    BY <1>1, <2>2
  <2>5. ASSUME NEW S
        PROVE  RestoreFromEvent([id |-> ID, version |-> m - 1, changes |-> <<>>, state |-> S], a)
                 = [id |-> ID, version |-> m, changes |-> <<>>, state |-> S \union {a}]
    BY <2>1, RestoredFields
  <2>6. RestoreFromEvent(UpTo(m - 1), a)
          = [id |-> ID, version |-> m, changes |-> <<>>,
             state |-> {e \in events : e.version <= m - 1} \union {a}]
    BY <2>5
  <2> QED
    BY <2>3, <2>4, <2>6
<1> HIDE DEF UpTo, At
<1>4. Function([m \in 0..versions |-> UpTo(m)])
  <2> SUFFICES ASSUME NEW m \in 0..versions
               PROVE  UpTo(m) = IF m = 0 THEN Blank(ID)
                                ELSE RestoreFromEvent([i \in 0..versions |-> UpTo(i)][m - 1], At(m))
    OBVIOUS
  <2> QED
    BY <1>1, <1>2, <1>3
<1>5. Replayed = CHOOSE f : Function(f)
  BY DEF Replayed, At
<1>6. Function(Replayed)
  BY <1>4, <1>5
<1>7. \A m \in 0..versions : Replayed[m] = UpTo(m)
  <2> DEFINE Wrong == {m \in 0..versions : Replayed[m] # UpTo(m)}
  <2> SUFFICES ASSUME Wrong # {} PROVE FALSE
    OBVIOUS
  <2>1. PICK m \in Wrong : \A i \in Wrong : <<i, m>> \notin OpToRel(<, Nat)
    <3>1. Wrong \in SUBSET Nat
      BY <1>1
    <3> QED
      BY <3>1, NatLessThanWellFounded, WFMin, Zenon
  <2>2. m \in 0..versions /\ m \in Nat /\ Replayed[m] # UpTo(m)
    <3>1. m \in 0..versions /\ Replayed[m] # UpTo(m)
      BY <2>1
    <3> QED
      BY <1>1, <3>1
  <2>3. m # 0
    BY <1>2, <1>6, <2>2
  <2>4. m - 1 \in Nat /\ m - 1 \in 0..versions /\ m \in 1..versions /\ m - 1 < m
    BY <1>1, <2>2, <2>3
  <2>5. Replayed[m - 1] = UpTo(m - 1)
    <3>1. m - 1 \notin Wrong
      BY <2>1, <2>2, <2>4 DEF OpToRel
    <3> QED
      BY <2>4, <3>1
  <2>6. Replayed[m] = RestoreFromEvent(Replayed[m - 1], At(m))
    BY <1>6, <2>2, <2>3
  <2> QED
    BY <1>3, <2>2, <2>4, <2>5, <2>6
<1> QED
  BY <1>7 DEF UpTo

\* With a journal, every stored version has its event in it, and restoring the
\* stream from it gives the stream that Load returns, for any number of changes.
THEOREM JournalRestoresStream == Spec => []JournalReplays
<1>1. ASSUME TypeInv, StoreInv, JournalInv PROVE JournalReplays
  <2> SUFFICES ASSUME journal = TRUE
               PROVE  /\ \A n \in 1..versions : HasVersion(events, n)
                      /\ Replayed[versions] = Unmarshal(ID, states)
    BY <1>1 DEF JournalReplays, TypeInv, TypeOK
  <2>1. versions \in Nat /\ events = states.state /\ \A e \in events : e.version \in 1..versions
    BY <1>1 DEF TypeInv, TypeOK, JournalInv, StoreInv, TablesAgree
  <2>2. \A n \in 1..versions : HasVersion(events, n)
    BY <1>1, <2>1 DEF JournalInv, EachVersionOnce
  <2>3. {e \in events : e.version <= versions} = states.state /\ versions \in 0..versions
    BY <2>1
  <2>4. states.version = versions
    BY <1>1 DEF StoreInv, TablesAgree, RowsAgree
  <2> QED
    BY <1>1, <2>2, <2>3, <2>4, ReplayedIs DEF Unmarshal
<1> QED
  BY JournalInductive, <1>1, PTL
=============================================================================
