--------------------------- MODULE MutatorProofs ---------------------------
(***************************************************************************)
(* Theorems about the mutator, for any number of calls, streams, changes   *)
(* and targets, and for every storage backend.                             *)
(***************************************************************************)
EXTENDS Mutator, StreamsProofs, SequenceTheorems

-----------------------------------------------------------------------------
(***************************************************************************)
(* Types.  TypeOK is not inductive: a call that loads, or moves on to the  *)
(* next stream, needs a non-empty list of targets.                         *)
(***************************************************************************)
PCs     == {"new", "load", "sink", "persist", "publish", "drop", "done"}
Results == {"pending", "ok", "error", "crashed"}

HasTarget == \A d \in Deliveries : pc[d] \notin {"new", "done"} => todo[d] # <<>>

TypeInv == TypeOK /\ HasTarget

\* What the steps that end a call or move it on leave behind.
Control ==
  /\ pc \in [Deliveries -> PCs]
  /\ result \in [Deliveries -> Results]
  /\ todo \in [Deliveries -> Seq(AllIDs)]
  /\ HasTarget

LEMMA FinishControl ==
  ASSUME TypeInv, NEW d \in Deliveries, NEW outcome \in Results, Finish(d, outcome)
  PROVE  Control'
  BY DEF TypeInv, TypeOK, HasTarget, Control, Finish, PCs, Results

LEMMA NextTargetControl ==
  ASSUME TypeInv, NEW d \in Deliveries, NextTarget(d)
  PROVE  Control'
<1>1. CASE Len(todo[d]) = 1 /\ Finish(d, "ok")
  BY <1>1, FinishControl DEF Results
<1>2. CASE /\ Len(todo[d]) > 1
           /\ todo' = [todo EXCEPT ![d] = Tail(@)]
           /\ pc' = [pc EXCEPT ![d] = "load"]
           /\ UNCHANGED result
  <2>1. todo[d] \in Seq(AllIDs)
    BY DEF TypeInv, TypeOK
  <2>2. todo[d] # <<>>
    BY <1>2, EmptySeq
  <2>3. Tail(todo[d]) \in Seq(AllIDs) /\ Len(Tail(todo[d])) = Len(todo[d]) - 1
    BY <2>1, <2>2, HeadTailProperties
  <2>4. Tail(todo[d]) # <<>>
    <3>1. Len(Tail(todo[d])) > 0
      BY <1>2, <2>1, <2>3
    <3>2. Len(<<>>) = 0
      OBVIOUS
    <3> QED
      BY <3>1, <3>2
  <2> QED
    BY <1>2, <2>3, <2>4 DEF TypeInv, TypeOK, HasTarget, Control, PCs, Results
<1> QED
  BY <1>1, <1>2 DEF NextTarget

LEMMA ReceiveType ==
  ASSUME TypeInv, NEW d \in Deliveries, NEW kind \in {"command", "event"}, NEW ctrl \in Options,
         NEW targets \in Seq(AllIDs) \ {<<>>}, Receive(d, kind, ctrl, targets)
  PROVE  TypeInv'
  BY DEF TypeInv, TypeOK, HasTarget, Receive, store

LEMMA HeadType ==
  ASSUME TypeInv, NEW d \in Deliveries, pc[d] = "load"
  PROVE  Head1(d) \in AllIDs
<1>1. todo[d] \in Seq(AllIDs) /\ todo[d] # <<>>
  BY DEF TypeInv, TypeOK, HasTarget
<1> QED
  BY <1>1 DEF Head1

LEMMA StoreStreamType ==
  ASSUME TypeInv, NEW d \in Deliveries, StoreStream(stream[d])
  PROVE  /\ data' \in [AllIDs -> Stored(AllIDs, Deliveries)]
         /\ committed' \subseteq Event(AllIDs, Deliveries)
         /\ dropped' \subseteq AllIDs
<1>1. stream[d] \in Stream(AllIDs, Deliveries)
  BY DEF TypeInv, TypeOK
<1>2. /\ Marshal(stream[d]) \in Stored(AllIDs, Deliveries)
      /\ Changes(stream[d]) \subseteq Event(AllIDs, Deliveries)
      /\ stream[d].id \in AllIDs
  BY <1>1, MarshalType, ChangesType, StreamFields
<1> QED
  BY <1>2 DEF StoreStream, TypeInv, TypeOK

LEMMA ReplyType ==
  ASSUME TypeInv, NEW d \in Deliveries
  PROVE  ReplyVersions(d) \subseteq Nat
<1>1. stream[d] \in Stream(AllIDs, Deliveries)
  BY DEF TypeInv, TypeOK
<1>2. Version(stream[d]) \in Nat
  BY <1>1, StreamFields
<1> QED
  BY <1>2 DEF ReplyVersions

LEMMA TypeInit == Init => TypeInv
<1> SUFFICES ASSUME Init PROVE TypeInv
  OBVIOUS
<1>1. NilID \in AllIDs
  BY DEF AllIDs
<1>2. Blank(NilID) \in Stream(AllIDs, Deliveries)
  BY <1>1, BlankType
<1>3. Absent \in Stored(AllIDs, Deliveries)
  BY DEF Absent, Stored
<1>4. <<>> \in Seq(AllIDs) /\ <<>> \in Seq(Event(AllIDs, Deliveries))
  OBVIOUS
<1> QED
  BY <1>2, <1>3, <1>4 DEF Init, TypeInv, TypeOK, HasTarget, Options

LEMMA TypeStep ==
  ASSUME TypeInv, NEW d \in Deliveries, Step(d)
  PROVE  TypeInv'
<1> USE DEF routing, store
<1>1. /\ stream[d] \in Stream(AllIDs, Deliveries)
      /\ sent[d] \in Nat /\ Len(stream[d].changes) \in Nat
      /\ \A v \in ReplyVersions(d) : v \in Nat
  BY StreamFields, ReplyType DEF TypeInv, TypeOK
\* A step that only ends the call or moves it on
<1>2. ASSUME Control', UNCHANGED <<routing, stream, sent, store, bus>>,
             reply' \in [Deliveries -> Nat]
      PROVE  TypeInv'
  BY <1>2 DEF TypeInv, TypeOK, Control, PCs, Results
<1>3. reply \in [Deliveries -> Nat] /\ {"ok", "error", "crashed"} \subseteq Results
  BY DEF TypeInv, TypeOK, Results
<1>4. CASE ReceiveCommand(d)
  <2>1. PICK ctrl \in CommandControllers, id \in AllIDs : Receive(d, "command", ctrl, <<id>>)
    BY <1>4 DEF ReceiveCommand
  <2>2. ctrl \in Options /\ <<id>> \in Seq(AllIDs) \ {<<>>}
    BY ConstantsAssumption
  <2> QED
    BY <2>1, <2>2, ReceiveType
<1>5. CASE ReceiveEvent(d)
  <2>1. PICK ctrl \in EventControllers, targets \in Pickers : Receive(d, "event", ctrl, targets)
    BY <1>5 DEF ReceiveEvent
  <2>2. ctrl \in Options /\ targets \in Seq(AllIDs) \ {<<>>}
    BY ConstantsAssumption, SeqMonotonic DEF AllIDs
  <2> QED
    BY <2>1, <2>2, ReceiveType
<1>6. CASE RejectCommand(d)
  BY <1>2, <1>3, <1>6, FinishControl DEF RejectCommand
<1>7. CASE IgnoreEvent(d)
  BY <1>2, <1>3, <1>7, FinishControl DEF IgnoreEvent
<1>8. CASE LoadNew(d)
  <2>1. Blank(IF sink[d] = "command" THEN Head1(d) ELSE NilID) \in Stream(AllIDs, Deliveries)
    BY <1>8, HeadType, BlankType DEF LoadNew, AllIDs
  <2> QED
    BY <1>8, <2>1 DEF LoadNew, TypeInv, TypeOK, HasTarget
<1>9. CASE LoadStored(d)
  <2>1. Unmarshal(Head1(d), data[Head1(d)]) \in Stream(AllIDs, Deliveries)
    BY <1>9, HeadType, UnmarshalType DEF LoadStored, TypeInv, TypeOK
  <2> QED
    BY <1>9, <2>1 DEF LoadStored, TypeInv, TypeOK, HasTarget
<1>10. CASE LoadNotFound(d)
  BY <1>2, <1>3, <1>10, FinishControl DEF LoadNotFound
<1>11. CASE ControllerMutates(d)
  <2>1. Mutate(stream[d], d) \in Stream(AllIDs, Deliveries)
    BY <1>1, MutateFields
  <2> QED
    BY <1>11, <2>1 DEF ControllerMutates, TypeInv, TypeOK, HasTarget
<1>12. CASE ControllerLeavesUnchanged(d)
  <2>1. reply' \in [Deliveries -> Nat]
    BY <1>1, <1>3, <1>12 DEF ControllerLeavesUnchanged
  <2> QED
    BY <1>2, <1>12, <2>1, NextTargetControl DEF ControllerLeavesUnchanged
<1>13. CASE ControllerChangesNil(d)
  BY <1>2, <1>3, <1>13, FinishControl DEF ControllerChangesNil
<1>14. CASE ControllerChanges(d)
  <2>1. reply' \in [Deliveries -> Nat]
    BY <1>1, <1>3, <1>14 DEF ControllerChanges
  <2> QED
    BY <1>14, <2>1 DEF ControllerChanges, TypeInv, TypeOK, HasTarget
<1>15. CASE ControllerFails(d)
  BY <1>2, <1>3, <1>15, FinishControl DEF ControllerFails
<1>16. CASE PersistAccepted(d)
  <2>1. StoreStream(stream[d])
    BY <1>16 DEF PersistAccepted
  <2> QED
    BY <1>16, <2>1, StoreStreamType DEF PersistAccepted, TypeInv, TypeOK, HasTarget
<1>17. CASE PersistRejected(d)
  BY <1>2, <1>3, <1>17, FinishControl DEF PersistRejected
<1>18. CASE PersistRolledBack(d)
  BY <1>18 DEF PersistRolledBack, TypeInv, TypeOK, HasTarget
<1>19. CASE PersistUnanswered(d)
  <2>1. StoreStream(stream[d]) /\ Control'
    BY <1>3, <1>19, FinishControl DEF PersistUnanswered
  <2> QED
    BY <1>19, <2>1, StoreStreamType DEF PersistUnanswered, TypeInv, TypeOK, Control, PCs, Results
<1>20. CASE StorageFails(d)
  BY <1>2, <1>3, <1>20, FinishControl DEF StorageFails
<1>21. CASE PublishEvent(d)
  <2>1. /\ stream[d].changes \in Seq(Event(AllIDs, Deliveries))
        /\ sent[d] + 1 \in 1..Len(stream[d].changes)
    BY <1>1, <1>21, StreamFields DEF PublishEvent, NextChange
  <2>2. stream[d].changes[sent[d] + 1] \in Event(AllIDs, Deliveries)
    BY <2>1, ElementOfSeq
  <2>3. bus' \in Seq(Event(AllIDs, Deliveries))
    BY <1>21, <2>2 DEF PublishEvent, NextChange, TypeInv, TypeOK
  <2> QED
    BY <1>1, <1>21, <2>3 DEF PublishEvent, NextChange, TypeInv, TypeOK, HasTarget
<1>22. CASE PublishFails(d)
  BY <1>2, <1>3, <1>22, FinishControl DEF PublishFails
<1>23. CASE PublishReturns(d)
  <2>1. stream' \in [Deliveries -> Stream(AllIDs, Deliveries)]
    BY <1>1, <1>23, ClearChangesType DEF PublishReturns, TypeInv, TypeOK
  <2>2. CASE opts[d].drop
    BY <1>23, <2>1, <2>2 DEF PublishReturns, TypeInv, TypeOK, HasTarget
  <2>3. CASE ~opts[d].drop
    <3>1. Control'
      BY <1>23, <2>3, NextTargetControl DEF PublishReturns
    <3> QED
      BY <1>23, <2>1, <3>1 DEF PublishReturns, TypeInv, TypeOK, Control, PCs, Results
  <2> QED
    BY <2>2, <2>3
<1>24. CASE Drop(d)
  <2>1. Control' /\ Absent \in Stored(AllIDs, Deliveries) /\ stream[d].id \in AllIDs
    BY <1>1, <1>24, NextTargetControl, StreamFields DEF Drop, Absent, Stored
  <2> QED
    BY <1>24, <2>1 DEF Drop, TypeInv, TypeOK, Control, PCs, Results
<1>25. CASE Crash(d)
  BY <1>2, <1>3, <1>25, FinishControl DEF Crash
<1> QED
  BY <1>4, <1>5, <1>6, <1>7, <1>8, <1>9, <1>10, <1>11, <1>12, <1>13, <1>14, <1>15, <1>16,
     <1>17, <1>18, <1>19, <1>20, <1>21, <1>22, <1>23, <1>24, <1>25 DEF Step

\* Every variable keeps its type, and a call always has a stream to work on.
THEOREM TypeCorrect == Spec => []TypeOK
<1>1. TypeInv /\ [Next]_vars => TypeInv'
  <2> SUFFICES ASSUME TypeInv, [Next]_vars PROVE TypeInv'
    OBVIOUS
  <2>1. CASE Next
    BY <2>1, TypeStep DEF Next
  <2>2. CASE UNCHANGED vars
    BY <2>2 DEF TypeInv, TypeOK, HasTarget, vars
  <2> QED
    BY <2>1, <2>2
<1>2. TypeInv => TypeOK
  BY DEF TypeInv
<1> QED
  BY TypeInit, <1>1, <1>2, PTL DEF Spec

-----------------------------------------------------------------------------
(***************************************************************************)
(* Histories.  NoLostUpdate and HistoryIsContiguous hold because every     *)
(* call's working copy is consistent with the storage (CopyIsConsistent):  *)
(* when Persist finds the version the copy was loaded with, the copy is    *)
(* the stored history followed by the call's own changes.                  *)
(***************************************************************************)
OwnEvents == \A id \in AllIDs : \A e \in data[id].state : e.streamID = id

PersistsChanges == \A d \in Deliveries : pc[d] = "persist" => stream[d].changes # <<>>

HistoryInv ==
  /\ OwnEvents
  /\ PersistsChanges
  /\ NoLostUpdate
  /\ HistoryIsContiguous
  /\ CopyIsConsistent

LEMMA HistoryInit == Init => HistoryInv
<1> SUFFICES ASSUME Init PROVE HistoryInv
  OBVIOUS
<1>1. \A id \in AllIDs : data[id].version = 0 /\ data[id].state = {}
  BY DEF Init, Absent
<1>2. Numbered({}, 0)
  BY DEF Numbered
<1> QED
  BY <1>1, <1>2 DEF Init, HistoryInv, OwnEvents, PersistsChanges, NoLostUpdate,
                    HistoryIsContiguous, CopyIsConsistent, EventsOf

\* A stored version of 0 means that nothing is stored, and conversely.
LEMMA AbsentVersion ==
  ASSUME TypeInv, HistoryInv, NEW id \in AllIDs
  PROVE  /\ data[id].version = 0 => data[id].state = {}
         /\ data[id] = Absent <=> data[id].version = 0
<1>1. data[id] \in [version : Nat, state : SUBSET Event(AllIDs, Deliveries)]
  BY DEF TypeInv, TypeOK, Stored
<1>2. ASSUME data[id].version = 0 PROVE data[id].state = {}
  <2>1. \A e \in data[id].state : e.version \in 1..0
    BY <1>2 DEF HistoryInv, HistoryIsContiguous, Numbered
  <2> QED
    BY <2>1
<1> QED
  BY <1>1, <1>2 DEF Absent

\* The steps that neither touch the storage nor start or extend a copy
LEMMA HistoryUnchanged ==
  ASSUME HistoryInv, UNCHANGED store,
         \A d \in Deliveries : pc'[d] \in {"sink", "persist"} =>
                                 pc'[d] = pc[d] /\ stream'[d] = stream[d]
  PROVE  HistoryInv'
  BY DEF HistoryInv, store, OwnEvents, PersistsChanges, NoLostUpdate, HistoryIsContiguous,
         CopyIsConsistent, ConsistentCopy, EventsOf

\* The steps that change one call's copy
LEMMA HistoryCopy ==
  ASSUME HistoryInv, UNCHANGED store, NEW d \in Deliveries, ConsistentCopy(d)',
         pc'[d] = "persist" => stream'[d].changes # <<>>,
         \A c \in Deliveries \ {d} : pc'[c] = pc[c] /\ stream'[c] = stream[c]
  PROVE  HistoryInv'
<1>1. CopyIsConsistent'
  BY DEF HistoryInv, store, CopyIsConsistent, ConsistentCopy
<1> QED
  BY <1>1 DEF HistoryInv, store, OwnEvents, PersistsChanges, NoLostUpdate, HistoryIsContiguous,
              EventsOf

LEMMA HistoryLoadNew ==
  ASSUME TypeInv, HistoryInv, NEW d \in Deliveries, LoadNew(d)
  PROVE  HistoryInv'
<1> DEFINE id == IF sink[d] = "command" THEN Head1(d) ELSE NilID
<1>1. id \in AllIDs
  BY HeadType DEF LoadNew, AllIDs
<1>2. /\ stream'[d] = Blank(id) /\ pc'[d] = "sink" /\ UNCHANGED store
      /\ \A c \in Deliveries \ {d} : pc'[c] = pc[c] /\ stream'[c] = stream[c]
  BY DEF LoadNew, TypeInv, TypeOK
<1> HIDE DEF id
<1>3. /\ Version(Blank(id)) = 0 /\ Changes(Blank(id)) = {}
      /\ Blank(id).id = id /\ Blank(id).version = 0 /\ Blank(id).state = {}
  BY DEF Blank, Version, Changes
<1>4. Numbered({}, 0)
  BY DEF Numbered
<1>5. data[id].version \in Nat /\ (data[id].version = 0 => data[id].state = {})
  BY <1>1, AbsentVersion DEF TypeInv, TypeOK, Stored
<1>6. ConsistentCopy(d)'
  BY <1>2, <1>3, <1>4, <1>5 DEF ConsistentCopy, store
<1> QED
  BY <1>2, <1>6, HistoryCopy

LEMMA HistoryLoadStored ==
  ASSUME TypeInv, HistoryInv, NEW d \in Deliveries, LoadStored(d)
  PROVE  HistoryInv'
<1> DEFINE id == Head1(d)
           s  == Unmarshal(id, data[id])
<1>1. id \in AllIDs
  BY HeadType DEF LoadStored
<1>2. /\ stream'[d] = s /\ pc'[d] = "sink" /\ UNCHANGED store
      /\ \A c \in Deliveries \ {d} : pc'[c] = pc[c] /\ stream'[c] = stream[c]
  BY DEF LoadStored, TypeInv, TypeOK
<1>3. data[id].version \in Nat
  BY <1>1 DEF TypeInv, TypeOK, Stored
<1>4. /\ Version(s) = data[id].version /\ Changes(s) = {}
      /\ s.id = id /\ s.version = data[id].version /\ s.state = data[id].state
  BY <1>3 DEF Unmarshal, Version, Changes
<1>5. /\ Numbered(data[id].state, data[id].version)
      /\ \A e \in data[id].state : e.streamID = id
  BY <1>1 DEF HistoryInv, HistoryIsContiguous, OwnEvents
<1> HIDE DEF id, s
<1>6. ConsistentCopy(d)'
  BY <1>2, <1>3, <1>4, <1>5 DEF ConsistentCopy, store
<1> QED
  BY <1>2, <1>6, HistoryCopy

LEMMA HistoryMutates ==
  ASSUME TypeInv, HistoryInv, NEW d \in Deliveries, ControllerMutates(d)
  PROVE  HistoryInv'
<1> DEFINE s == stream[d]
           e == NextEvent(s, d)
           t == Mutate(s, d)
<1>1. /\ stream'[d] = t /\ pc[d] = "sink" /\ pc'[d] = "sink" /\ UNCHANGED store
      /\ \A c \in Deliveries \ {d} : pc'[c] = pc[c] /\ stream'[c] = stream[c]
  BY DEF ControllerMutates, TypeInv, TypeOK
<1>2. s \in Stream(AllIDs, Deliveries) /\ Version(s) \in Nat
  BY StreamFields DEF TypeInv, TypeOK
<1>3. /\ t.id = s.id /\ t.version = s.version /\ t.state = s.state \union {e}
      /\ Version(t) = Version(s) + 1 /\ Changes(t) = Changes(s) \union {e}
  BY <1>2, MutateFields
<1>4. e.streamID = s.id /\ e.version = Version(s) + 1
  BY <1>2, MutateFields
<1>5. ConsistentCopy(d)
  BY <1>1 DEF HistoryInv, CopyIsConsistent
<1> HIDE DEF s, e, t
<1>6. Numbered(s.state \union {e}, Version(s) + 1)
  <2>1. Numbered(s.state, Version(s))
    BY <1>5 DEF ConsistentCopy, s
  <2>2. {f.version : f \in s.state \union {e}} = {f.version : f \in s.state} \union {e.version}
    OBVIOUS
  <2>3. {f.version : f \in s.state} = 1..Version(s)
    BY <2>1 DEF Numbered
  <2>4. 1..Version(s) \union {Version(s) + 1} = 1..(Version(s) + 1)
    BY <1>2
  <2>5. \A f \in s.state : f.version # e.version
    <3>1. \A f \in s.state : f.version \in 1..Version(s)
      BY <2>3
    <3> QED
      BY <1>2, <1>4, <3>1
  <2>6. \A f, g \in s.state \union {e} : f.version = g.version => f = g
    BY <2>1, <2>5 DEF Numbered
  <2> QED
    BY <1>4, <2>2, <2>3, <2>4, <2>6 DEF Numbered
<1>7. ConsistentCopy(d)'
  BY <1>1, <1>3, <1>4, <1>5, <1>6 DEF ConsistentCopy, store, s
<1> QED
  BY <1>1, <1>7, HistoryCopy

\* Every backend's check implies the comparison, except that the in-memory
\* storage accepts any copy of a stream that it does not hold; unless that
\* stream was dropped, such a copy is new.
LEMMA MatchedVersion ==
  ASSUME TypeInv, HistoryInv, NEW d \in Deliveries, pc[d] = "persist",
         VersionMatches(stream[d]), stream[d].id \notin dropped
  PROVE  data[stream[d].id].version = stream[d].version
<1> DEFINE s == stream[d]
<1>1. s \in Stream(AllIDs, Deliveries) /\ s.id \in AllIDs /\ s.version \in Nat
  BY StreamFields DEF TypeInv, TypeOK
<1>2. /\ data[s.id].version \in Nat
      /\ data[s.id] = Absent <=> data[s.id].version = 0
  BY <1>1, AbsentVersion DEF TypeInv, TypeOK, Stored
<1>3. s.version <= data[s.id].version
  BY DEF HistoryInv, CopyIsConsistent, ConsistentCopy
<1>4. CASE backend = "memory"
  BY <1>1, <1>2, <1>3, <1>4 DEF VersionMatches, PreviousVersion
<1>5. CASE backend = "redis"
  BY <1>5 DEF VersionMatches, PreviousVersion
<1>6. CASE backend = "postgres"
  BY <1>2, <1>6 DEF VersionMatches, PreviousVersion
<1>7. backend \in {"memory", "redis", "postgres"}
  BY ConstantsAssumption DEF TypeInv, TypeOK
<1> QED
  BY <1>4, <1>5, <1>6, <1>7

\* A successful Persist, whether or not its answer arrives
LEMMA HistoryStored ==
  ASSUME TypeInv, HistoryInv, NEW d \in Deliveries, pc[d] = "persist",
         VersionMatches(stream[d]), StoreStream(stream[d]),
         pc'[d] \notin {"sink", "persist"},
         \A c \in Deliveries \ {d} : pc'[c] = pc[c], UNCHANGED stream
  PROVE  HistoryInv'
<1> DEFINE s == stream[d]
<1>1. /\ s \in Stream(AllIDs, Deliveries) /\ s.id \in AllIDs
      /\ s.version \in Nat /\ Version(s) \in Nat
  BY StreamFields DEF TypeInv, TypeOK
<1>2. s.version < Version(s)
  <2>1. s.changes # <<>> /\ s.changes \in Seq(Event(AllIDs, Deliveries))
    BY <1>1, StreamFields DEF HistoryInv, PersistsChanges
  <2>2. Len(s.changes) > 0
    BY <2>1, EmptySeq
  <2> QED
    BY <1>1, <2>2 DEF Version
<1>3. ConsistentCopy(d)
  BY DEF HistoryInv, CopyIsConsistent
<1>4. /\ data' = [data EXCEPT ![s.id] = [version |-> Version(s), state |-> s.state]]
      /\ committed' = committed \union Changes(s)
      /\ dropped' = dropped
  BY DEF StoreStream, Marshal
<1>5. /\ data'[s.id].version = Version(s) /\ data'[s.id].state = s.state
      /\ \A id \in AllIDs \ {s.id} : data'[id] = data[id]
  BY <1>1, <1>4 DEF TypeInv, TypeOK
<1>6. /\ Numbered(s.state, Version(s))
      /\ \A e \in s.state \union Changes(s) : e.streamID = s.id
  BY <1>3 DEF ConsistentCopy
<1>7. s.id \notin dropped => /\ data[s.id].version = s.version
                             /\ s.state = data[s.id].state \union Changes(s)
  BY <1>3, MatchedVersion DEF ConsistentCopy
<1> HIDE DEF s
<1>8. OwnEvents'
  BY <1>5, <1>6 DEF HistoryInv, OwnEvents
<1>9. PersistsChanges'
  BY DEF HistoryInv, PersistsChanges
<1>10. HistoryIsContiguous'
  BY <1>5, <1>6 DEF HistoryInv, HistoryIsContiguous
<1>11. NoLostUpdate'
  <2> SUFFICES ASSUME NEW id \in AllIDs \ dropped
               PROVE  data'[id].state = EventsOf(committed', id)
    BY <1>4 DEF NoLostUpdate
  <2>1. data[id].state = EventsOf(committed, id)
    BY DEF HistoryInv, NoLostUpdate
  <2>2. CASE id = s.id
    BY <1>4, <1>5, <1>6, <1>7, <2>1, <2>2 DEF EventsOf
  <2>3. CASE id # s.id
    BY <1>4, <1>5, <1>6, <2>1, <2>3 DEF EventsOf
  <2> QED
    BY <2>2, <2>3
<1>12. CopyIsConsistent'
  <2> SUFFICES ASSUME NEW c \in Deliveries, pc'[c] \in {"sink", "persist"}
               PROVE  ConsistentCopy(c)'
    BY DEF CopyIsConsistent
  <2>1. c # d /\ pc[c] = pc'[c] /\ stream'[c] = stream[c]
    OBVIOUS
  <2>2. ConsistentCopy(c) /\ stream[c].id \in AllIDs /\ stream[c].version \in Nat
    BY <2>1, StreamFields DEF HistoryInv, CopyIsConsistent, TypeInv, TypeOK
  <2>3. CASE stream[c].id # s.id
    BY <1>4, <1>5, <2>1, <2>2, <2>3 DEF ConsistentCopy
  <2>4. CASE stream[c].id = s.id
    <3>1. s.id \notin dropped => stream[c].version < data'[s.id].version
      BY <1>1, <1>2, <1>5, <1>7, <2>2, <2>4 DEF ConsistentCopy
    <3>2. data'[s.id].version \in Nat
      BY <1>1, <1>5
    <3> QED
      BY <1>4, <2>1, <2>2, <2>4, <3>1, <3>2 DEF ConsistentCopy
  <2> QED
    BY <2>3, <2>4
<1> QED
  BY <1>8, <1>9, <1>10, <1>11, <1>12 DEF HistoryInv

LEMMA HistoryDropped ==
  ASSUME TypeInv, HistoryInv, NEW d \in Deliveries, Drop(d), backend = "memory"
  PROVE  HistoryInv'
<1> DEFINE id == stream[d].id
<1>1. id \in AllIDs
  BY StreamFields DEF TypeInv, TypeOK
<1>2. /\ data' = [data EXCEPT ![id] = Absent] /\ dropped' = dropped \union {id}
      /\ UNCHANGED <<stream, committed>>
      /\ \A c \in Deliveries : pc'[c] \in {"sink", "persist"} => pc'[c] = pc[c]
  BY DEF Drop, NextTarget, Finish, TypeInv, TypeOK
<1>3. /\ data'[id].version = 0 /\ data'[id].state = {}
      /\ \A i \in AllIDs \ {id} : data'[i] = data[i]
  BY <1>1, <1>2 DEF TypeInv, TypeOK, Absent
<1>4. Numbered({}, 0)
  BY DEF Numbered
<1> HIDE DEF id
<1>5. OwnEvents' /\ PersistsChanges' /\ HistoryIsContiguous'
  BY <1>2, <1>3, <1>4 DEF HistoryInv, OwnEvents, PersistsChanges, HistoryIsContiguous
<1>6. NoLostUpdate'
  BY <1>2, <1>3 DEF HistoryInv, NoLostUpdate, EventsOf
<1>7. CopyIsConsistent'
  <2> SUFFICES ASSUME NEW c \in Deliveries, pc'[c] \in {"sink", "persist"}
               PROVE  ConsistentCopy(c)'
    BY DEF CopyIsConsistent
  <2>1. ConsistentCopy(c) /\ stream[c].id \in AllIDs
    BY <1>2, StreamFields DEF HistoryInv, CopyIsConsistent, TypeInv, TypeOK
  <2> QED
    BY <1>2, <1>3, <2>1 DEF ConsistentCopy
<1> QED
  BY <1>5, <1>6, <1>7 DEF HistoryInv

LEMMA HistoryStep ==
  ASSUME TypeInv, HistoryInv, NEW d \in Deliveries, Step(d)
  PROVE  HistoryInv'
<1> USE DEF routing, store
<1>1. ASSUME UNCHANGED <<stream, store>>,
             \E outcome \in Results : Finish(d, outcome)
      PROVE  HistoryInv'
  BY <1>1, HistoryUnchanged DEF Finish, TypeInv, TypeOK
<1>2. ASSUME UNCHANGED <<stream, store>>, NextTarget(d)
      PROVE  HistoryInv'
  BY <1>2, HistoryUnchanged DEF NextTarget, Finish, TypeInv, TypeOK
<1>3. CASE ReceiveCommand(d) \/ ReceiveEvent(d)
  BY <1>3, HistoryUnchanged DEF ReceiveCommand, ReceiveEvent, Receive, TypeInv, TypeOK
<1>4. CASE \/ RejectCommand(d) \/ IgnoreEvent(d) \/ LoadNotFound(d) \/ ControllerChangesNil(d)
           \/ ControllerFails(d) \/ PersistRejected(d) \/ StorageFails(d) \/ PublishFails(d)
           \/ Crash(d)
  BY <1>1, <1>4 DEF RejectCommand, IgnoreEvent, LoadNotFound, ControllerChangesNil, ControllerFails,
                    PersistRejected, StorageFails, PublishFails, Crash, Results
<1>5. CASE LoadNew(d) \/ LoadStored(d) \/ ControllerMutates(d)
  BY <1>5, HistoryLoadNew, HistoryLoadStored, HistoryMutates
<1>6. CASE ControllerLeavesUnchanged(d)
  BY <1>2, <1>6 DEF ControllerLeavesUnchanged
<1>7. CASE ControllerChanges(d)
  <2>1. ConsistentCopy(d)'
    BY <1>7 DEF ControllerChanges, HistoryInv, CopyIsConsistent, ConsistentCopy
  <2> QED
    BY <1>7, <2>1, HistoryCopy DEF ControllerChanges, TypeInv, TypeOK
<1>8. CASE PersistAccepted(d)
  BY <1>8, HistoryStored DEF PersistAccepted, TypeInv, TypeOK
<1>9. CASE PersistUnanswered(d)
  BY <1>9, HistoryStored DEF PersistUnanswered, Finish, TypeInv, TypeOK
<1>10. CASE PersistRolledBack(d)
  BY <1>10, HistoryUnchanged DEF PersistRolledBack, TypeInv, TypeOK
<1>11. CASE PublishEvent(d)
  BY <1>11, HistoryUnchanged DEF PublishEvent, NextChange, TypeInv, TypeOK
<1>12. CASE PublishReturns(d)
  BY <1>12, HistoryUnchanged DEF PublishReturns, NextTarget, Finish, TypeInv, TypeOK
<1>13. CASE Drop(d)
  <2>1. CASE backend = "memory"
    BY <1>13, <2>1, HistoryDropped
  <2>2. CASE backend # "memory"
    BY <1>2, <1>13, <2>2 DEF Drop
  <2> QED
    BY <2>1, <2>2
<1> QED
  BY <1>3, <1>4, <1>5, <1>6, <1>7, <1>8, <1>9, <1>10, <1>11, <1>12, <1>13 DEF Step

LEMMA HistoryInductive == Spec => [](TypeInv /\ HistoryInv)
<1>1. TypeInv /\ HistoryInv /\ [Next]_vars => (TypeInv /\ HistoryInv)'
  <2> SUFFICES ASSUME TypeInv, HistoryInv, [Next]_vars PROVE (TypeInv /\ HistoryInv)'
    OBVIOUS
  <2>1. CASE Next
    BY <2>1, TypeStep, HistoryStep DEF Next
  <2>2. CASE UNCHANGED vars
    BY <2>2, HistoryUnchanged DEF TypeInv, TypeOK, HasTarget, vars, store
  <2> QED
    BY <2>1, <2>2
<1> QED
  BY TypeInit, HistoryInit, <1>1, PTL DEF Spec

\* However many calls race on a stream and wherever they fail, its stored state
\* is made of exactly the events whose Persist succeeded.
THEOREM UpdatesAreKept == Spec => []NoLostUpdate
<1>1. HistoryInv => NoLostUpdate
  BY DEF HistoryInv
<1> QED
  BY HistoryInductive, <1>1, PTL

\* The stored events of a stream are numbered 1, 2, ... up to its version, even
\* when the stream was dropped and stored again by a call that still held it.
THEOREM HistoriesAreContiguous == Spec => []HistoryIsContiguous
<1>1. HistoryInv => HistoryIsContiguous
  BY DEF HistoryInv
<1> QED
  BY HistoryInductive, <1>1, PTL

-----------------------------------------------------------------------------
(***************************************************************************)
(* Publishing.                                                             *)
(***************************************************************************)
PublishesCommitted ==
  \A d \in Deliveries : pc[d] = "publish" => Changes(stream[d]) \subseteq committed

PublishInv == NilMeansStored => Delivered \subseteq committed /\ PublishesCommitted

LEMMA SameBackend ==
  ASSUME NEW d \in Deliveries, Step(d)
  PROVE  backend' = backend
  BY DEF Step, ReceiveCommand, ReceiveEvent, Receive, RejectCommand, IgnoreEvent, LoadNew,
     LoadStored, LoadNotFound, ControllerMutates, ControllerLeavesUnchanged, ControllerChangesNil,
     ControllerChanges, ControllerFails, PersistAccepted, PersistRejected, PersistRolledBack,
     PersistUnanswered, StorageFails, PublishEvent, PublishFails, PublishReturns, Drop, Crash,
     routing

LEMMA PublishStep ==
  ASSUME TypeInv, PublishInv, NEW d \in Deliveries, Step(d)
  PROVE  PublishInv'
<1> SUFFICES ASSUME backend # "postgres"
             PROVE  (Delivered \subseteq committed /\ PublishesCommitted)'
  BY SameBackend DEF PublishInv, NilMeansStored
<1>0. Delivered \subseteq committed /\ PublishesCommitted
  BY DEF PublishInv, NilMeansStored
<1> USE DEF routing, store
\* The steps that publish nothing, lose nothing and do not begin to publish
<1>1. ASSUME committed \subseteq committed', UNCHANGED bus,
             \A c \in Deliveries : pc'[c] = "publish" => pc[c] = "publish" /\ stream'[c] = stream[c]
      PROVE  (Delivered \subseteq committed /\ PublishesCommitted)'
  BY <1>0, <1>1 DEF PublishesCommitted, Delivered
<1>2. CASE PersistAccepted(d)
  <2>1. /\ bus' = bus /\ stream' = stream
        /\ committed' = committed \union Changes(stream[d])
        /\ \A c \in Deliveries \ {d} : pc'[c] = pc[c]
    BY <1>2 DEF PersistAccepted, StoreStream, TypeInv, TypeOK
  <2> QED
    BY <1>0, <2>1 DEF PublishesCommitted, Delivered
<1>3. CASE PublishEvent(d)
  <2> DEFINE e == stream[d].changes[sent[d] + 1]
  <2>1. /\ bus' = Append(bus, e) /\ UNCHANGED <<pc, stream, committed>>
        /\ pc[d] = "publish" /\ sent[d] + 1 \in 1..Len(stream[d].changes)
    BY <1>3 DEF PublishEvent, NextChange, TypeInv, TypeOK
  <2>2. stream[d].changes \in Seq(Event(AllIDs, Deliveries))
    BY StreamFields DEF TypeInv, TypeOK
  <2>3. e \in Changes(stream[d]) /\ e \in Event(AllIDs, Deliveries)
    BY <2>1, <2>2, LenProperties, ElementOfSeq DEF Changes
  <2>4. e \in committed
    BY <1>0, <2>1, <2>3 DEF PublishesCommitted
  <2> HIDE DEF e
  <2>5. bus \in Seq(Event(AllIDs, Deliveries))
    BY DEF TypeInv, TypeOK
  <2>6. \A i \in DOMAIN bus' : bus'[i] = e \/ (i \in DOMAIN bus /\ bus'[i] = bus[i])
    BY <2>1, <2>3, <2>5
  <2>7. Delivered' \subseteq Delivered \union {e}
    BY <2>6 DEF Delivered
  <2> QED
    BY <1>0, <2>1, <2>4, <2>7 DEF PublishesCommitted
<1>4. CASE ~PersistAccepted(d) /\ ~PublishEvent(d)
  <2>1. committed \subseteq committed' /\ UNCHANGED bus
    BY <1>4 DEF Step, ReceiveCommand, ReceiveEvent, Receive, RejectCommand, IgnoreEvent, LoadNew,
      LoadStored, LoadNotFound, ControllerMutates, ControllerLeavesUnchanged, ControllerChangesNil,
      ControllerChanges, ControllerFails, PersistRejected, PersistRolledBack, PersistUnanswered,
      StorageFails, PublishFails, PublishReturns, Drop, Crash, StoreStream
  <2>2. \A c \in Deliveries : pc'[c] = "publish" => pc[c] = "publish" /\ stream'[c] = stream[c]
    <3>1. CASE \/ ReceiveCommand(d) \/ ReceiveEvent(d) \/ RejectCommand(d) \/ IgnoreEvent(d)
               \/ LoadNew(d) \/ LoadStored(d) \/ LoadNotFound(d) \/ ControllerMutates(d)
      BY <3>1 DEF ReceiveCommand, ReceiveEvent, Receive, RejectCommand, IgnoreEvent, LoadNew,
        LoadStored, LoadNotFound, ControllerMutates, Finish, TypeInv, TypeOK
    <3>2. CASE \/ ControllerLeavesUnchanged(d) \/ ControllerChangesNil(d) \/ ControllerChanges(d)
               \/ ControllerFails(d) \/ PersistRejected(d) \/ PersistUnanswered(d)
               \/ StorageFails(d) \/ PublishFails(d) \/ Crash(d)
      BY <3>2 DEF ControllerLeavesUnchanged, ControllerChangesNil, ControllerChanges,
        ControllerFails, PersistRejected, PersistUnanswered, StorageFails, PublishFails, Crash,
        NextTarget, Finish, TypeInv, TypeOK
    <3>3. CASE PublishReturns(d) \/ Drop(d)
      BY <3>3 DEF PublishReturns, Drop, NextTarget, Finish, TypeInv, TypeOK
    <3>4. ~PersistRolledBack(d)
      BY DEF PersistRolledBack
    <3> QED
      BY <1>4, <3>1, <3>2, <3>3, <3>4 DEF Step
  <2> QED
    BY <1>1, <2>1, <2>2
<1> QED
  BY <1>2, <1>3, <1>4

\* With the in-memory storage or redis, subscribers hear only of events that
\* were stored.  (With postgres they may hear of events that were rolled back.)
THEOREM OnlyCommittedIsPublished == Spec => []PublishedIsCommitted
<1>1. Init => TypeInv /\ PublishInv
  <2>1. Init => PublishInv
    BY DEF Init, PublishInv, PublishesCommitted, Delivered
  <2> QED
    BY <2>1, TypeInit
<1>2. TypeInv /\ PublishInv /\ [Next]_vars => (TypeInv /\ PublishInv)'
  <2> SUFFICES ASSUME TypeInv, PublishInv, [Next]_vars PROVE (TypeInv /\ PublishInv)'
    OBVIOUS
  <2>1. CASE Next
    BY <2>1, TypeStep, PublishStep DEF Next
  <2>2. CASE UNCHANGED vars
    BY <2>2 DEF TypeInv, TypeOK, HasTarget, PublishInv, NilMeansStored, PublishesCommitted,
                Delivered, vars
  <2> QED
    BY <2>1, <2>2
<1>3. PublishInv => PublishedIsCommitted
  BY DEF PublishInv, PublishedIsCommitted
<1> QED
  BY <1>1, <1>2, <1>3, PTL DEF Spec

-----------------------------------------------------------------------------
(***************************************************************************)
(* What the mutator tells its callers and its subscribers: who hears of a  *)
(* stored event, how often, and what a reply's version means.              *)
(***************************************************************************)
\* The copies that calls work on agree with the storage: the reason why it is
\* enough that Persist compares versions.
THEOREM CopiesAreConsistent == Spec => []CopyIsConsistent
<1>1. HistoryInv => CopyIsConsistent
  BY DEF HistoryInv
<1> QED
  BY HistoryInductive, <1>1, PTL

\* A step of a call changes nothing of another one.
LEMMA OthersUnchanged ==
  ASSUME TypeInv, NEW d \in Deliveries, Step(d), NEW c \in Deliveries \ {d}
  PROVE  /\ pc'[c] = pc[c] /\ result'[c] = result[c] /\ stream'[c] = stream[c]
         /\ sent'[c] = sent[c] /\ reply'[c] = reply[c] /\ todo'[c] = todo[c]
         /\ sink'[c] = sink[c]
<1> USE DEF routing, TypeInv, TypeOK
<1>1. CASE \/ ReceiveCommand(d) \/ ReceiveEvent(d) \/ RejectCommand(d) \/ IgnoreEvent(d)
           \/ LoadNew(d) \/ LoadStored(d) \/ LoadNotFound(d) \/ ControllerMutates(d)
  BY <1>1 DEF ReceiveCommand, ReceiveEvent, Receive, RejectCommand, IgnoreEvent, LoadNew,
              LoadStored, LoadNotFound, ControllerMutates, Finish
<1>2. CASE \/ ControllerLeavesUnchanged(d) \/ ControllerChangesNil(d) \/ ControllerChanges(d)
           \/ ControllerFails(d) \/ PersistAccepted(d) \/ PersistRejected(d)
           \/ PersistRolledBack(d) \/ PersistUnanswered(d) \/ StorageFails(d)
  BY <1>2 DEF ControllerLeavesUnchanged, ControllerChangesNil, ControllerChanges, ControllerFails,
              PersistAccepted, PersistRejected, PersistRolledBack, PersistUnanswered, StorageFails,
              NextTarget, Finish
<1>3. CASE \/ PublishEvent(d) \/ PublishFails(d) \/ PublishReturns(d) \/ Drop(d) \/ Crash(d)
  BY <1>3 DEF PublishEvent, PublishFails, PublishReturns, Drop, Crash, NextTarget, Finish
<1> QED
  BY <1>1, <1>2, <1>3 DEF Step

-----------------------------------------------------------------------------
(***************************************************************************)
(* The changes of a copy are the call's own events, numbered on from the   *)
(* version that it loaded.                                                 *)
(***************************************************************************)
OwnChange(d, i) ==
  LET e == stream[d].changes[i]
  IN  e.cause = d /\ e.streamID = stream[d].id /\ e.version = stream[d].version + i

ChangesInv == \A d \in Deliveries : \A i \in 1..Len(stream[d].changes) : OwnChange(d, i)

LEMMA ChangesStep ==
  ASSUME TypeInv, ChangesInv, NEW d \in Deliveries, Step(d)
  PROVE  ChangesInv'
<1> USE DEF routing
<1>1. ASSUME \A i \in 1..Len(stream'[d].changes) : OwnChange(d, i)'
      PROVE  ChangesInv'
  BY <1>1, OthersUnchanged DEF ChangesInv, OwnChange
<1>2. ASSUME stream' = stream PROVE ChangesInv'
  BY <1>2 DEF ChangesInv, OwnChange
<1>3. CASE LoadNew(d) \/ LoadStored(d) \/ PublishReturns(d)
  <2>1. stream'[d].changes = <<>>
    <3>1. CASE LoadNew(d)
      BY <3>1 DEF LoadNew, Blank, TypeInv, TypeOK
    <3>2. CASE LoadStored(d)
      BY <3>2 DEF LoadStored, Unmarshal, TypeInv, TypeOK
    <3>3. CASE PublishReturns(d)
      BY <3>3 DEF PublishReturns, ClearChanges, TypeInv, TypeOK, Stream
    <3> QED
      BY <1>3, <3>1, <3>2, <3>3
  <2>2. Len(<<>>) = 0 /\ 1..0 = {}
    OBVIOUS
  <2> QED
    BY <1>1, <2>1, <2>2
<1>4. CASE ControllerMutates(d)
  <2> DEFINE s == stream[d]
             e == NextEvent(s, d)
  <2>1. /\ s \in Stream(AllIDs, Deliveries) /\ s.changes \in Seq(Event(AllIDs, Deliveries))
        /\ s.version \in Nat
    BY StreamFields DEF TypeInv, TypeOK
  <2>2. /\ e \in Event(AllIDs, Deliveries)
        /\ e.streamID = s.id /\ e.version = Version(s) + 1 /\ e.cause = d
        /\ stream'[d].id = s.id /\ stream'[d].version = s.version
        /\ stream'[d].changes = Append(s.changes, e)
    BY <1>4, <2>1, MutateFields DEF ControllerMutates, TypeInv, TypeOK
  <2>3. \A i \in 1..Len(s.changes) :
          LET f == s.changes[i] IN f.cause = d /\ f.streamID = s.id /\ f.version = s.version + i
    BY DEF ChangesInv, OwnChange
  <2>7. Version(s) = s.version + Len(s.changes) /\ Len(s.changes) \in Nat
    BY <2>1 DEF Version
  <2> HIDE DEF s, e
  <2> SUFFICES ASSUME NEW i \in 1..Len(stream'[d].changes) PROVE OwnChange(d, i)'
    BY <1>1
  <2>4. CASE i \in 1..Len(s.changes)
    <3>1. stream'[d].changes[i] = s.changes[i]
      BY <2>1, <2>2, <2>4
    <3> QED
      BY <2>2, <2>3, <2>4, <3>1 DEF OwnChange
  <2>5. CASE i = Len(s.changes) + 1
    <3>1. stream'[d].changes[i] = e
      BY <2>1, <2>2, <2>5
    <3>2. e.version = s.version + i
      <4>1. e.version = (s.version + Len(s.changes)) + 1
        BY <2>2, <2>7
      <4>2. (s.version + Len(s.changes)) + 1 = s.version + i
        BY <2>1, <2>5, <2>7
      <4> QED
        BY <4>1, <4>2
    <3> QED
      BY <2>2, <3>1, <3>2 DEF OwnChange
  <2>6. i \in 1..Len(s.changes) \/ i = Len(s.changes) + 1
    BY <2>1, <2>2
  <2> QED
    BY <2>4, <2>5, <2>6
<1>5. CASE \/ ReceiveCommand(d) \/ ReceiveEvent(d) \/ RejectCommand(d) \/ IgnoreEvent(d)
           \/ LoadNotFound(d) \/ ControllerLeavesUnchanged(d) \/ ControllerChangesNil(d)
           \/ ControllerChanges(d) \/ ControllerFails(d)
  BY <1>2, <1>5 DEF ReceiveCommand, ReceiveEvent, Receive, RejectCommand, IgnoreEvent,
                    LoadNotFound, ControllerLeavesUnchanged, ControllerChangesNil,
                    ControllerChanges, ControllerFails
<1>6. CASE \/ PersistAccepted(d) \/ PersistRejected(d) \/ PersistRolledBack(d)
           \/ PersistUnanswered(d) \/ StorageFails(d) \/ PublishEvent(d) \/ PublishFails(d)
           \/ Drop(d) \/ Crash(d)
  BY <1>2, <1>6 DEF PersistAccepted, PersistRejected, PersistRolledBack, PersistUnanswered,
                    StorageFails, PublishEvent, PublishFails, Drop, Crash
<1> QED
  BY <1>3, <1>4, <1>5, <1>6 DEF Step
-----------------------------------------------------------------------------
(***************************************************************************)
(* Stored events that nobody has heard of.                                 *)
(***************************************************************************)
PendingUntilDone == \A d \in Deliveries : pc[d] # "done" => result[d] = "pending"

SentInOrder ==
  \A d \in Deliveries : pc[d] = "publish" =>
    /\ sent[d] <= Len(stream[d].changes)
    /\ \A i \in 1..sent[d] : stream[d].changes[i] \in Delivered

Withheld(e) ==
  \/ pc[e.cause] = "publish" /\ e \in Changes(stream[e.cause])
  \/ result[e.cause] \in {"error", "crashed"}

LossInv ==
  /\ PendingUntilDone
  /\ SentInOrder
  /\ \A e \in committed \ Delivered : Withheld(e)

\* The steps that store and publish nothing.  A call leaves "publish" only with
\* a failure, and its result is final.
LEMMA LossUnchanged ==
  ASSUME TypeInv, LossInv, NEW d \in Deliveries, Step(d), UNCHANGED <<committed, bus>>,
         pc'[d] # "publish", pc'[d] # "done" => result'[d] = "pending", pc[d] # "done",
         pc[d] = "publish" => result'[d] \in {"error", "crashed"}
  PROVE  LossInv'
<1>1. Delivered' = Delivered
  BY DEF Delivered
<1>2. PendingUntilDone'
  BY OthersUnchanged DEF LossInv, PendingUntilDone
<1>3. SentInOrder'
  <2> SUFFICES ASSUME NEW c \in Deliveries, pc'[c] = "publish"
               PROVE  /\ sent'[c] <= Len(stream'[c].changes)
                      /\ \A i \in 1..sent'[c] : stream'[c].changes[i] \in Delivered'
    BY DEF SentInOrder
  <2>1. c # d
    OBVIOUS
  <2> QED
    BY <1>1, <2>1, OthersUnchanged DEF LossInv, SentInOrder
<1>4. ASSUME NEW e \in committed' \ Delivered' PROVE Withheld(e)'
  <2>1. Withheld(e) /\ e.cause \in Deliveries
    BY <1>1, <1>4 DEF LossInv, TypeInv, TypeOK, Event
  <2>2. CASE e.cause = d
    <3>1. result[d] = "pending"
      BY DEF LossInv, PendingUntilDone
    <3> QED
      BY <2>1, <2>2, <3>1 DEF Withheld
  <2>3. CASE e.cause # d
    BY <2>1, <2>3, OthersUnchanged DEF Withheld, Changes
  <2> QED
    BY <2>2, <2>3
<1> QED
  BY <1>2, <1>3, <1>4 DEF LossInv

\* A Persist that returns nil, with the changes stored or not
LEMMA LossPersisted ==
  ASSUME TypeInv, ChangesInv, LossInv, NEW d \in Deliveries, Step(d), pc[d] = "persist",
         committed' \subseteq committed \union Changes(stream[d]),
         pc' = [pc EXCEPT ![d] = "publish"], sent' = [sent EXCEPT ![d] = 0],
         UNCHANGED <<stream, result, bus>>
  PROVE  LossInv'
<1>1. Delivered' = Delivered
  BY DEF Delivered
<1>2. pc'[d] = "publish" /\ sent'[d] = 0 /\ result[d] = "pending"
  BY DEF LossInv, PendingUntilDone, TypeInv, TypeOK
<1>3. PendingUntilDone'
  BY <1>2, OthersUnchanged DEF LossInv, PendingUntilDone
<1>4. SentInOrder'
  <2> SUFFICES ASSUME NEW c \in Deliveries, pc'[c] = "publish"
               PROVE  /\ sent'[c] <= Len(stream'[c].changes)
                      /\ \A i \in 1..sent'[c] : stream'[c].changes[i] \in Delivered'
    BY DEF SentInOrder
  <2>1. CASE c # d
    BY <1>1, <2>1, OthersUnchanged DEF LossInv, SentInOrder
  <2>2. CASE c = d
    <3>1. Len(stream[d].changes) \in Nat
      BY StreamFields DEF TypeInv, TypeOK
    <3> QED
      BY <1>2, <2>2, <3>1
  <2> QED
    BY <2>1, <2>2
<1>5. ASSUME NEW e \in committed' \ Delivered' PROVE Withheld(e)'
  <2>1. CASE e \in Changes(stream[d])
    <3>1. stream[d].changes \in Seq(Event(AllIDs, Deliveries))
      BY StreamFields DEF TypeInv, TypeOK
    <3>2. e.cause = d
      BY <2>1, <3>1 DEF Changes, ChangesInv, OwnChange
    <3> QED
      BY <1>2, <2>1, <3>2 DEF Withheld, Changes
  <2>2. CASE e \in committed
    <3>1. Withheld(e) /\ e.cause \in Deliveries
      BY <1>1, <1>5, <2>2 DEF LossInv, TypeInv, TypeOK, Event
    <3>2. e.cause # d
      BY <1>2, <3>1 DEF Withheld
    <3> QED
      BY <3>1, <3>2, OthersUnchanged DEF Withheld, Changes
  <2> QED
    BY <1>5, <2>1, <2>2
<1> QED
  BY <1>3, <1>4, <1>5 DEF LossInv

\* An unanswered Persist: the events are in the storage, the caller has an error.
LEMMA LossUnanswered ==
  ASSUME TypeInv, ChangesInv, LossInv, NEW d \in Deliveries, PersistUnanswered(d)
  PROVE  LossInv'
<1>0. Step(d)
  BY DEF Step
<1>1. /\ Delivered' = Delivered
      /\ committed' = committed \union Changes(stream[d])
      /\ pc'[d] = "done" /\ result'[d] = "error" /\ pc[d] = "persist"
  BY DEF Delivered, PersistUnanswered, StoreStream, Finish, TypeInv, TypeOK
<1>2. PendingUntilDone'
  BY <1>0, <1>1, OthersUnchanged DEF LossInv, PendingUntilDone
<1>3. SentInOrder'
  <2> SUFFICES ASSUME NEW c \in Deliveries, pc'[c] = "publish"
               PROVE  /\ sent'[c] <= Len(stream'[c].changes)
                      /\ \A i \in 1..sent'[c] : stream'[c].changes[i] \in Delivered'
    BY DEF SentInOrder
  <2>1. c # d
    BY <1>1
  <2> QED
    BY <1>0, <1>1, <2>1, OthersUnchanged DEF LossInv, SentInOrder
<1>4. ASSUME NEW e \in committed' \ Delivered' PROVE Withheld(e)'
  <2>1. CASE e.cause = d
    BY <1>1, <2>1 DEF Withheld
  <2>2. CASE e.cause # d
    <3>1. stream[d].changes \in Seq(Event(AllIDs, Deliveries))
      BY StreamFields DEF TypeInv, TypeOK
    <3>2. e \notin Changes(stream[d])
      BY <2>2, <3>1 DEF Changes, ChangesInv, OwnChange
    <3>3. Withheld(e) /\ e.cause \in Deliveries
      BY <1>1, <1>4, <3>2 DEF LossInv, TypeInv, TypeOK, Event
    <3> QED
      BY <1>0, <2>2, <3>3, OthersUnchanged DEF Withheld, Changes
  <2> QED
    BY <2>1, <2>2
<1> QED
  BY <1>2, <1>3, <1>4 DEF LossInv

LEMMA PublishFields ==
  ASSUME TypeInv, NEW d \in Deliveries, PublishEvent(d)
  PROVE  /\ sent[d] \in Nat /\ sent[d] < Len(stream[d].changes) /\ Len(stream[d].changes) \in Nat
         /\ sent'[d] = sent[d] + 1 /\ pc[d] = "publish"
         /\ UNCHANGED <<pc, stream, result, committed, dropped>>
         /\ Len(bus) \in Nat
         /\ DOMAIN bus = 1..Len(bus) /\ DOMAIN bus' = 1..(Len(bus) + 1)
         /\ \A i \in 1..Len(bus) : bus'[i] = bus[i]
         /\ bus'[Len(bus) + 1] = stream[d].changes[sent[d] + 1]
         /\ Delivered' = Delivered \union {stream[d].changes[sent[d] + 1]}
<1>1. /\ sent[d] \in Nat /\ sent[d] < Len(stream[d].changes) /\ Len(stream[d].changes) \in Nat
      /\ sent'[d] = sent[d] + 1 /\ pc[d] = "publish"
      /\ UNCHANGED <<pc, stream, result, committed, dropped>>
  BY StreamFields DEF PublishEvent, TypeInv, TypeOK, store
<1>2. /\ bus \in Seq(Event(AllIDs, Deliveries))
      /\ bus' = Append(bus, stream[d].changes[sent[d] + 1])
  BY DEF PublishEvent, NextChange, TypeInv, TypeOK
<1>3. /\ DOMAIN bus' = 1..(Len(bus) + 1) /\ DOMAIN bus = 1..Len(bus) /\ Len(bus) \in Nat
      /\ \A i \in 1..Len(bus) : bus'[i] = bus[i]
      /\ bus'[Len(bus) + 1] = stream[d].changes[sent[d] + 1]
  BY <1>2
<1>4. 1..(Len(bus) + 1) = 1..Len(bus) \union {Len(bus) + 1}
  BY <1>3
<1>5. Delivered' = Delivered \union {stream[d].changes[sent[d] + 1]}
  BY <1>3, <1>4 DEF Delivered
<1> QED
  BY <1>1, <1>3, <1>5

\* What a call hands to the publisher is out.
LEMMA LossPublishes ==
  ASSUME TypeInv, LossInv, NEW d \in Deliveries, PublishEvent(d)
  PROVE  LossInv'
<1>0. Step(d)
  BY DEF Step
<1> DEFINE n == sent[d]
<1>1. /\ n \in Nat /\ n < Len(stream[d].changes) /\ Len(stream[d].changes) \in Nat
      /\ sent'[d] = n + 1 /\ pc[d] = "publish"
      /\ UNCHANGED <<pc, stream, result, committed>>
  BY PublishFields
<1>2. Delivered' = Delivered \union {stream[d].changes[n + 1]}
  BY PublishFields
<1>3. PendingUntilDone'
  BY <1>1 DEF LossInv, PendingUntilDone
<1>4. SentInOrder'
  <2> SUFFICES ASSUME NEW c \in Deliveries, pc'[c] = "publish"
               PROVE  /\ sent'[c] <= Len(stream'[c].changes)
                      /\ \A i \in 1..sent'[c] : stream'[c].changes[i] \in Delivered'
    BY DEF SentInOrder
  <2>1. CASE c # d
    BY <1>0, <1>1, <1>2, <2>1, OthersUnchanged DEF LossInv, SentInOrder
  <2>2. CASE c = d
    <3>1. \A i \in 1..(n + 1) : i \in 1..n \/ i = n + 1
      BY <1>1
    <3>2. \A i \in 1..n : stream[d].changes[i] \in Delivered
      BY <1>1 DEF LossInv, SentInOrder
    <3> QED
      BY <1>1, <1>2, <2>2, <3>1, <3>2
  <2> QED
    BY <2>1, <2>2
<1>5. ASSUME NEW e \in committed' \ Delivered' PROVE Withheld(e)'
  BY <1>1, <1>2, <1>5 DEF LossInv, Withheld
<1> QED
  BY <1>3, <1>4, <1>5 DEF LossInv

\* Publish returns nil when all the changes are out, and only then are they cleared.
LEMMA LossReturns ==
  ASSUME TypeInv, ChangesInv, LossInv, NEW d \in Deliveries, PublishReturns(d)
  PROVE  LossInv'
<1>0. Step(d)
  BY DEF Step
<1>1. /\ pc[d] = "publish" /\ pc'[d] # "publish" /\ UNCHANGED <<committed, bus>>
      /\ result[d] = "pending" /\ (pc'[d] # "done" => result'[d] = "pending")
  BY DEF PublishReturns, NextTarget, Finish, store, LossInv, PendingUntilDone, TypeInv, TypeOK
<1>2. Delivered' = Delivered
  BY <1>1 DEF Delivered
<1>3. PendingUntilDone'
  BY <1>0, <1>1, OthersUnchanged DEF LossInv, PendingUntilDone
<1>4. SentInOrder'
  BY <1>0, <1>1, <1>2, OthersUnchanged DEF LossInv, SentInOrder
<1>5. Changes(stream[d]) \subseteq Delivered
  <2>1. sent[d] = Len(stream[d].changes) /\ stream[d].changes \in Seq(Event(AllIDs, Deliveries))
    BY StreamFields DEF PublishReturns, TypeInv, TypeOK
  <2> QED
    BY <1>1, <2>1 DEF Changes, LossInv, SentInOrder
<1>6. ASSUME NEW e \in committed' \ Delivered' PROVE Withheld(e)'
  <2>1. Withheld(e) /\ e.cause \in Deliveries /\ e \notin Delivered
    BY <1>1, <1>2, <1>6 DEF LossInv, TypeInv, TypeOK, Event
  <2>2. e.cause # d
    BY <1>1, <1>5, <2>1 DEF Withheld
  <2> QED
    BY <1>0, <2>1, <2>2, OthersUnchanged DEF Withheld, Changes
<1> QED
  BY <1>3, <1>4, <1>6 DEF LossInv

LEMMA LossStep ==
  ASSUME TypeInv, ChangesInv, LossInv, NEW d \in Deliveries, Step(d)
  PROVE  LossInv'
<1> USE DEF routing, store
<1>1. result[d] = "pending" \/ pc[d] = "done"
  BY DEF LossInv, PendingUntilDone
<1>2. CASE \/ ReceiveCommand(d) \/ ReceiveEvent(d) \/ RejectCommand(d) \/ IgnoreEvent(d)
           \/ LoadNew(d) \/ LoadStored(d) \/ LoadNotFound(d)
  <2>1. /\ UNCHANGED <<committed, bus>> /\ pc[d] \in {"new", "load"}
        /\ pc'[d] # "publish" /\ (pc'[d] # "done" => result'[d] = result[d])
    BY <1>2 DEF ReceiveCommand, ReceiveEvent, Receive, RejectCommand, IgnoreEvent, LoadNew,
                LoadStored, LoadNotFound, Finish, TypeInv, TypeOK
  <2> QED
    BY <1>1, <2>1, LossUnchanged
<1>3. CASE \/ ControllerMutates(d) \/ ControllerLeavesUnchanged(d) \/ ControllerChangesNil(d)
           \/ ControllerChanges(d) \/ ControllerFails(d)
  <2>1. /\ UNCHANGED <<committed, bus>> /\ pc[d] = "sink"
        /\ pc'[d] # "publish" /\ (pc'[d] # "done" => result'[d] = result[d])
    BY <1>3 DEF ControllerMutates, ControllerLeavesUnchanged, ControllerChangesNil,
                ControllerChanges, ControllerFails, NextTarget, Finish, TypeInv, TypeOK
  <2> QED
    BY <1>1, <2>1, LossUnchanged
<1>4. CASE \/ PersistRejected(d) \/ StorageFails(d) \/ Drop(d)
  <2>1. /\ UNCHANGED <<committed, bus>> /\ pc[d] \in {"load", "persist", "drop"}
        /\ pc'[d] # "publish" /\ (pc'[d] # "done" => result'[d] = result[d])
    BY <1>4 DEF PersistRejected, StorageFails, Drop, NextTarget, Finish, TypeInv, TypeOK
  <2> QED
    BY <1>1, <2>1, LossUnchanged
<1>5. CASE PublishFails(d) \/ Crash(d)
  <2>1. /\ UNCHANGED <<committed, bus>> /\ pc[d] # "done"
        /\ pc'[d] = "done" /\ result'[d] \in {"error", "crashed"}
    BY <1>5 DEF PublishFails, Crash, Finish, TypeInv, TypeOK
  <2> QED
    BY <2>1, LossUnchanged
<1>6. CASE PersistAccepted(d) \/ PersistRolledBack(d)
  <2>1. /\ pc[d] = "persist" /\ committed' \subseteq committed \union Changes(stream[d])
        /\ pc' = [pc EXCEPT ![d] = "publish"] /\ sent' = [sent EXCEPT ![d] = 0]
        /\ UNCHANGED <<stream, result, bus>>
    BY <1>6 DEF PersistAccepted, PersistRolledBack, StoreStream
  <2> QED
    BY <2>1, LossPersisted
<1> QED
  BY <1>2, <1>3, <1>4, <1>5, <1>6, LossUnanswered, LossPublishes, LossReturns DEF Step

\* No silent loss: a stored event that subscribers have not been sent belongs to
\* a call that is still publishing or that did not answer with success, for every
\* storage, even the one that answers nil for what it has not stored.
THEOREM NothingIsLostSilently == Spec => []NoSilentLoss
<1>1. Init => TypeInv /\ ChangesInv /\ LossInv
  <2> SUFFICES ASSUME Init PROVE ChangesInv /\ LossInv
    BY TypeInit
  <2>1. \A d \in Deliveries : stream[d].changes = <<>>
    BY DEF Init, Blank
  <2> QED
    BY <2>1 DEF Init, ChangesInv, LossInv, PendingUntilDone, SentInOrder
<1>2. TypeInv /\ ChangesInv /\ LossInv /\ [Next]_vars => (TypeInv /\ ChangesInv /\ LossInv)'
  <2> SUFFICES ASSUME TypeInv, ChangesInv, LossInv, [Next]_vars
               PROVE  (TypeInv /\ ChangesInv /\ LossInv)'
    OBVIOUS
  <2>1. CASE Next
    BY <2>1, TypeStep, ChangesStep, LossStep DEF Next
  <2>2. CASE UNCHANGED vars
    BY <2>2 DEF vars, TypeInv, TypeOK, HasTarget, ChangesInv, OwnChange, LossInv,
                PendingUntilDone, SentInOrder, Withheld, Delivered, Changes
  <2> QED
    BY <2>1, <2>2
<1>3. LossInv => NoSilentLoss
  BY DEF LossInv, NoSilentLoss, Withheld
<1> QED
  BY <1>1, <1>2, <1>3, PTL DEF Spec

-----------------------------------------------------------------------------
(***************************************************************************)
(* No event is published twice.                                            *)
(***************************************************************************)
\* What a call has yet to publish of a stream that was not dropped is not out.
Unsent ==
  \A d \in Deliveries : pc[d] = "publish" /\ stream[d].id \notin dropped =>
    \A k \in 1..Len(stream[d].changes) : k > sent[d] => stream[d].changes[k] \notin Delivered

Once ==
  \A i, j \in DOMAIN bus :
    /\ i # j
    /\ bus[i].streamID = bus[j].streamID
    /\ bus[i].streamID \notin dropped
    => bus[i].version # bus[j].version

OnceInv == NilMeansStored => Unsent /\ Once

\* Two stored events of a stream that was not dropped have different versions.
LEMMA CommittedOnce ==
  ASSUME TypeInv, HistoryInv, NEW e \in committed, NEW f \in committed,
         e.streamID = f.streamID, e.streamID \notin dropped, e.version = f.version
  PROVE  e = f
<1>1. e.streamID \in AllIDs
  BY DEF TypeInv, TypeOK, Event
<1>2. e \in data[e.streamID].state /\ f \in data[e.streamID].state
  BY <1>1 DEF HistoryInv, NoLostUpdate, EventsOf
<1> QED
  BY <1>1, <1>2 DEF HistoryInv, HistoryIsContiguous, Numbered

\* The steps that publish nothing and do not begin to
LEMMA OnceUnchanged ==
  ASSUME OnceInv, UNCHANGED <<backend, bus>>, dropped \subseteq dropped',
         \A c \in Deliveries : pc'[c] = "publish" =>
           pc[c] = "publish" /\ stream'[c] = stream[c] /\ sent'[c] = sent[c]
  PROVE  OnceInv'
  BY DEF OnceInv, NilMeansStored, Unsent, Once, Delivered

\* Accepted changes carry versions past every event that was stored before, and
\* only stored events were published.
LEMMA OncePersisted ==
  ASSUME TypeInv, HistoryInv, ChangesInv, PublishInv, OnceInv,
         NEW d \in Deliveries, PersistAccepted(d)
  PROVE  OnceInv'
<1> DEFINE s == stream[d]
<1>1. /\ pc[d] = "persist" /\ VersionMatches(s)
      /\ UNCHANGED <<backend, bus, stream, dropped>> /\ sent'[d] = 0
      /\ \A c \in Deliveries \ {d} : pc'[c] = pc[c] /\ sent'[c] = sent[c]
  BY DEF PersistAccepted, StoreStream, routing, TypeInv, TypeOK
<1>2. s.id \in AllIDs /\ s.version \in Nat /\ Len(s.changes) \in Nat
  BY StreamFields DEF TypeInv, TypeOK
<1>3. ASSUME NilMeansStored, s.id \notin dropped, NEW k \in 1..Len(s.changes)
      PROVE  s.changes[k] \notin Delivered
  <2>1. s.changes[k].streamID = s.id /\ s.changes[k].version = s.version + k
    BY DEF ChangesInv, OwnChange
  <2>2. data[s.id].version = s.version
    BY <1>1, <1>3, MatchedVersion
  <2>3. {f.version : f \in EventsOf(committed, s.id)} = 1..s.version
    BY <1>2, <1>3, <2>2 DEF HistoryInv, NoLostUpdate, HistoryIsContiguous, Numbered
  <2>4. s.version + k \notin 1..s.version
    BY <1>2
  <2>5. s.changes[k] \notin committed
    BY <2>1, <2>3, <2>4 DEF EventsOf
  <2> QED
    BY <1>3, <2>5 DEF PublishInv
<1>4. Delivered' = Delivered
  BY <1>1 DEF Delivered
<1> QED
  BY <1>1, <1>3, <1>4 DEF OnceInv, NilMeansStored, Unsent, Once

\* The event that goes out has not been out before, and it is none of those that
\* other calls, or this one, have yet to publish.
LEMMA OncePublishes ==
  ASSUME TypeInv, HistoryInv, ChangesInv, PublishInv, OnceInv,
         NEW d \in Deliveries, PublishEvent(d)
  PROVE  OnceInv'
<1> DEFINE s == stream[d]
           n == sent[d] + 1
           e == s.changes[n]
<1>1. Step(d)
  BY DEF Step
<1>2. n \in 1..Len(s.changes) /\ n > sent[d] /\ s.version \in Nat
  BY PublishFields, StreamFields DEF TypeInv, TypeOK
<1>3. e.cause = d /\ e.streamID = s.id /\ e.version = s.version + n
  BY <1>2 DEF ChangesInv, OwnChange
<1>4. SUFFICES ASSUME NilMeansStored PROVE Unsent' /\ Once'
  BY <1>1, SameBackend DEF OnceInv, NilMeansStored
<1>5. e \in committed /\ Delivered \subseteq committed
  <2>1. s.changes \in Seq(Event(AllIDs, Deliveries))
    BY StreamFields DEF TypeInv, TypeOK
  <2>2. e \in Changes(s)
    BY <1>2, <2>1 DEF Changes
  <2> QED
    BY <1>4, <2>2, PublishFields DEF PublishInv, PublishesCommitted
<1>6. Unsent /\ Once
  BY <1>4 DEF OnceInv
<1>7. s.id \notin dropped => e \notin Delivered
  BY <1>2, <1>6, PublishFields DEF Unsent
<1> HIDE DEF e, n
<1>8. Delivered' = Delivered \union {e}
  BY PublishFields DEF e, n
<1>9. Once'
  <2> DEFINE last == Len(bus) + 1
  <2>1. /\ \A i \in DOMAIN bus' : i \in DOMAIN bus \/ i = last
        /\ \A i \in DOMAIN bus : bus'[i] = bus[i] /\ bus[i] \in Delivered
        /\ bus'[last] = e /\ dropped' = dropped
    BY PublishFields DEF Delivered, e, n
  <2>2. ASSUME NEW i \in DOMAIN bus, bus[i].streamID = e.streamID, e.streamID \notin dropped
        PROVE  bus[i].version # e.version
    <3>1. bus[i] \in committed /\ bus[i] \in Delivered
      BY <1>5, <2>1
    <3>2. bus[i] # e
      BY <1>3, <1>7, <2>2, <3>1
    <3> QED
      BY <1>5, <2>2, <3>1, <3>2, CommittedOnce
  <2> HIDE DEF last
  <2> QED
    BY <1>6, <2>1, <2>2 DEF Once
<1>10. Unsent'
  <2> SUFFICES ASSUME NEW c \in Deliveries, pc[c] = "publish", stream[c].id \notin dropped,
                      NEW k \in 1..Len(stream[c].changes), k > sent'[c]
               PROVE  stream[c].changes[k] \notin Delivered'
    BY PublishFields DEF Unsent
  <2>1. sent[c] \in Nat
    BY DEF TypeInv, TypeOK
  <2>2. k > sent[c]
    BY <1>1, <2>1, PublishFields, OthersUnchanged
  <2>3. stream[c].changes[k] \notin Delivered
    BY <1>6, <2>2 DEF Unsent
  <2>4. stream[c].changes[k] # e
    <3>1. stream[c].changes[k].cause = c /\ stream[c].changes[k].version = stream[c].version + k
      BY DEF ChangesInv, OwnChange
    <3>2. CASE c # d
      BY <1>3, <3>1, <3>2
    <3>3. CASE c = d
      <4>1. k > n /\ n \in Nat
        BY <1>2, <3>3, PublishFields DEF n
      <4>2. s.version + k # s.version + n
        BY <1>2, <4>1
      <4> QED
        BY <1>3, <3>1, <3>3, <4>2
    <3> QED
      BY <3>2, <3>3
  <2> QED
    BY <1>8, <2>3, <2>4
<1> QED
  BY <1>9, <1>10

LEMMA OnceStep ==
  ASSUME TypeInv, HistoryInv, ChangesInv, PublishInv, OnceInv, NEW d \in Deliveries, Step(d)
  PROVE  OnceInv'
<1>1. ASSUME bus' = bus, dropped \subseteq dropped', ~PersistAccepted(d), ~PersistRolledBack(d)
      PROVE  OnceInv'
  <2>1. pc'[d] = "publish" => pc[d] = "publish" /\ stream'[d] = stream[d] /\ sent'[d] = sent[d]
    <3> USE DEF TypeInv, TypeOK
    <3>1. CASE \/ ReceiveCommand(d) \/ ReceiveEvent(d) \/ RejectCommand(d) \/ IgnoreEvent(d)
               \/ LoadNew(d) \/ LoadStored(d) \/ LoadNotFound(d) \/ ControllerMutates(d)
      BY <3>1 DEF ReceiveCommand, ReceiveEvent, Receive, RejectCommand, IgnoreEvent, LoadNew,
                  LoadStored, LoadNotFound, ControllerMutates, Finish
    <3>2. CASE \/ ControllerLeavesUnchanged(d) \/ ControllerChangesNil(d)
               \/ ControllerChanges(d) \/ ControllerFails(d) \/ PersistRejected(d)
               \/ PersistUnanswered(d) \/ StorageFails(d) \/ PublishFails(d) \/ Crash(d)
      BY <3>2 DEF ControllerLeavesUnchanged, ControllerChangesNil, ControllerChanges,
                  ControllerFails, PersistRejected, PersistUnanswered, StorageFails,
                  PublishFails, Crash, NextTarget, Finish
    <3>3. CASE PublishReturns(d) \/ Drop(d)
      BY <3>3 DEF PublishReturns, Drop, NextTarget, Finish
    <3>4. ~PublishEvent(d)
      <4> SUFFICES ASSUME PublishEvent(d) PROVE FALSE
        OBVIOUS
      <4>1. Len(bus) \in Nat /\ DOMAIN bus = 1..Len(bus) /\ DOMAIN bus' = 1..(Len(bus) + 1)
        BY PublishFields
      <4> QED
        BY <1>1, <4>1
    <3> QED
      BY <1>1, <3>1, <3>2, <3>3, <3>4 DEF Step
  <2> QED
    BY <1>1, <2>1, OthersUnchanged, SameBackend, OnceUnchanged
<1>2. CASE PersistAccepted(d)
  BY <1>2, OncePersisted
<1>3. CASE PublishEvent(d)
  BY <1>3, OncePublishes
<1>4. CASE PersistRolledBack(d)
  BY <1>4, SameBackend DEF PersistRolledBack, OnceInv, NilMeansStored
<1>5. CASE ~PersistAccepted(d) /\ ~PublishEvent(d) /\ ~PersistRolledBack(d)
  <2>1. bus' = bus /\ dropped \subseteq dropped'
    BY <1>5 DEF Step, ReceiveCommand, ReceiveEvent, Receive, RejectCommand, IgnoreEvent, LoadNew,
      LoadStored, LoadNotFound, ControllerMutates, ControllerLeavesUnchanged, ControllerChangesNil,
      ControllerChanges, ControllerFails, PersistRejected, PersistUnanswered, StorageFails,
      PublishFails, PublishReturns, Drop, Crash, StoreStream, store
  <2> QED
    BY <1>1, <1>5, <2>1
<1> QED
  BY <1>2, <1>3, <1>4, <1>5

\* With the in-memory storage or redis, no event is published twice, and no two
\* events go out under one version of a stream that was not dropped, whatever
\* calls race and however often a command is delivered.
THEOREM EventsArePublishedOnce == Spec => []PublishedOnce
<1> DEFINE I == TypeInv /\ HistoryInv /\ ChangesInv /\ PublishInv /\ OnceInv
<1>1. Init => I
  <2> SUFFICES ASSUME Init PROVE ChangesInv /\ PublishInv /\ OnceInv
    BY TypeInit, HistoryInit
  <2>1. \A d \in Deliveries : stream[d].changes = <<>>
    BY DEF Init, Blank
  <2> QED
    BY <2>1 DEF Init, ChangesInv, PublishInv, PublishesCommitted, Delivered, OnceInv, Unsent, Once
<1>2. I /\ [Next]_vars => I'
  <2> SUFFICES ASSUME I, [Next]_vars PROVE I'
    OBVIOUS
  <2>1. CASE Next
    BY <2>1, TypeStep, HistoryStep, ChangesStep, PublishStep, OnceStep DEF Next
  <2>2. CASE UNCHANGED vars
    <3>1. TypeInv' /\ HistoryInv'
      BY <2>2, HistoryUnchanged DEF vars, store, TypeInv, TypeOK, HasTarget
    <3>2. ChangesInv' /\ PublishInv' /\ OnceInv'
      BY <2>2 DEF vars, ChangesInv, OwnChange, PublishInv, NilMeansStored, PublishesCommitted,
                  Delivered, OnceInv, Unsent, Once
    <3> QED
      BY <3>1, <3>2
  <2> QED
    BY <2>1, <2>2
<1>3. I => PublishedOnce
  BY DEF OnceInv, Once, PublishedOnce
<1> QED
  BY <1>1, <1>2, <1>3, PTL DEF Spec

-----------------------------------------------------------------------------
(***************************************************************************)
(* What the version in a reply means.                                      *)
(***************************************************************************)
\* Everything in a stored state was stored by a Persist; everything in a copy
\* was, or is a change of the copy.
Sourced ==
  /\ \A id \in AllIDs : data[id].state \subseteq committed
  /\ \A d \in Deliveries : pc[d] \in {"sink", "persist"} =>
       stream[d].state \subseteq committed \union Changes(stream[d])

\* Only a command is answered with a version, that of the one stream it is about.
Quiet(d) ==
  /\ sink[d] = "event" => reply[d] = 0
  /\ sink[d] = "command" => Len(todo[d]) <= 1
  /\ pc[d] \in {"new", "load", "sink"} => reply[d] = 0
  /\ pc[d] = "persist" => reply[d] \in {0, Version(stream[d])}

Backed(d) ==
  (pc[d] \in {"publish", "drop"} \/ result[d] = "ok") /\ reply[d] > 0 =>
    \E e \in committed : e.streamID = stream[d].id /\ e.version = reply[d]

ReplyInv ==
  /\ \A d \in Deliveries : Quiet(d)
  /\ NilMeansStored => \A d \in Deliveries : Backed(d)

LEMMA CommittedGrows ==
  ASSUME NEW d \in Deliveries, Step(d)
  PROVE  committed \subseteq committed'
  BY DEF Step, ReceiveCommand, ReceiveEvent, Receive, RejectCommand, IgnoreEvent, LoadNew,
    LoadStored, LoadNotFound, ControllerMutates, ControllerLeavesUnchanged, ControllerChangesNil,
    ControllerChanges, ControllerFails, PersistAccepted, PersistRejected, PersistRolledBack,
    PersistUnanswered, StorageFails, PublishEvent, PublishFails, PublishReturns, Drop, Crash,
    StoreStream, store

LEMMA SourcedStep ==
  ASSUME TypeInv, Sourced, NEW d \in Deliveries, Step(d)
  PROVE  Sourced'
<1> USE DEF routing, store
<1>1. ASSUME \A id \in AllIDs : data'[id].state \subseteq committed',
             pc'[d] \in {"sink", "persist"} =>
               stream'[d].state \subseteq committed' \union Changes(stream'[d])
      PROVE  Sourced'
  BY <1>1, CommittedGrows, OthersUnchanged DEF Sourced, Changes
<1>2. ASSUME UNCHANGED <<data, committed>>,
             pc'[d] \in {"sink", "persist"} =>
               pc[d] \in {"sink", "persist"} /\ stream'[d] = stream[d]
      PROVE  Sourced'
  BY <1>1, <1>2 DEF Sourced, Changes
<1>3. CASE LoadNew(d)
  <2>1. stream'[d].state = {} /\ UNCHANGED <<data, committed>>
    BY <1>3 DEF LoadNew, Blank, TypeInv, TypeOK
  <2> QED
    BY <1>1, <2>1 DEF Sourced
<1>4. CASE LoadStored(d)
  <2>1. /\ stream'[d].state = data[Head1(d)].state /\ UNCHANGED <<data, committed>>
        /\ Head1(d) \in AllIDs
    BY <1>4, HeadType DEF LoadStored, Unmarshal, TypeInv, TypeOK
  <2> QED
    BY <1>1, <2>1 DEF Sourced
<1>5. CASE ControllerMutates(d)
  <2> DEFINE s == stream[d]
             e == NextEvent(s, d)
  <2>1. s \in Stream(AllIDs, Deliveries) /\ s.changes \in Seq(Event(AllIDs, Deliveries))
    BY StreamFields DEF TypeInv, TypeOK
  <2>2. /\ e \in Event(AllIDs, Deliveries) /\ UNCHANGED <<data, committed>> /\ pc[d] = "sink"
        /\ stream'[d].changes = Append(s.changes, e)
        /\ stream'[d].state = s.state \union {e}
    BY <1>5, <2>1, MutateFields DEF ControllerMutates, Mutate, TypeInv, TypeOK
  <2> HIDE DEF s, e
  <2>3. /\ DOMAIN s.changes = 1..Len(s.changes) /\ Len(s.changes) \in Nat
        /\ DOMAIN stream'[d].changes = 1..(Len(s.changes) + 1)
        /\ \A i \in 1..Len(s.changes) : stream'[d].changes[i] = s.changes[i]
        /\ stream'[d].changes[Len(s.changes) + 1] = e
    BY <2>1, <2>2
  <2>4. Changes(s) \union {e} \subseteq Changes(stream'[d])
    BY <2>3 DEF Changes
  <2>5. s.state \subseteq committed \union Changes(s)
    BY <2>2 DEF Sourced, s
  <2> QED
    BY <1>1, <2>2, <2>4, <2>5 DEF Sourced
<1>6. CASE PersistAccepted(d) \/ PersistUnanswered(d)
  <2> DEFINE s == stream[d]
  <2>1. /\ pc[d] = "persist" /\ pc'[d] \notin {"sink", "persist"}
        /\ data' = [data EXCEPT ![s.id] = Marshal(s)] /\ committed' = committed \union Changes(s)
    BY <1>6 DEF PersistAccepted, PersistUnanswered, StoreStream, Finish, TypeInv, TypeOK
  <2>2. Marshal(s).state \subseteq committed'
    BY <2>1 DEF Sourced, Marshal
  <2>3. \A id \in AllIDs : data'[id] = Marshal(s) \/ data'[id] = data[id]
    BY <2>1 DEF TypeInv, TypeOK
  <2> QED
    BY <1>1, <2>1, <2>2, <2>3 DEF Sourced
<1>7. CASE Drop(d)
  <2>1. /\ UNCHANGED committed /\ pc'[d] \notin {"sink", "persist"}
        /\ \A id \in AllIDs : data'[id] = Absent \/ data'[id] = data[id]
    BY <1>7 DEF Drop, NextTarget, Finish, TypeInv, TypeOK
  <2> QED
    BY <1>1, <2>1 DEF Sourced, Absent
<1>8. CASE \/ ReceiveCommand(d) \/ ReceiveEvent(d) \/ RejectCommand(d) \/ IgnoreEvent(d)
           \/ LoadNotFound(d) \/ ControllerLeavesUnchanged(d) \/ ControllerChangesNil(d)
           \/ ControllerChanges(d) \/ ControllerFails(d)
  BY <1>2, <1>8 DEF ReceiveCommand, ReceiveEvent, Receive, RejectCommand, IgnoreEvent,
                    LoadNotFound, ControllerLeavesUnchanged, ControllerChangesNil,
                    ControllerChanges, ControllerFails, NextTarget, Finish, TypeInv, TypeOK
<1>9. CASE \/ PersistRejected(d) \/ PersistRolledBack(d) \/ StorageFails(d) \/ PublishEvent(d)
           \/ PublishFails(d) \/ PublishReturns(d) \/ Crash(d)
  BY <1>2, <1>9 DEF PersistRejected, PersistRolledBack, StorageFails, PublishEvent, PublishFails,
                    PublishReturns, Crash, NextTarget, Finish, TypeInv, TypeOK
<1> QED
  BY <1>3, <1>4, <1>5, <1>6, <1>7, <1>8, <1>9 DEF Step

\* A copy that has no changes, or whose changes are stored, has its version in
\* the storage's history.
LEMMA VersionIsBacked ==
  ASSUME TypeInv, HistoryInv, Sourced, NEW d \in Deliveries, pc[d] \in {"sink", "persist"},
         NEW C, committed \union Changes(stream[d]) \subseteq C, Version(stream[d]) > 0
  PROVE  \E e \in C : e.streamID = stream[d].id /\ e.version = Version(stream[d])
<1> DEFINE s == stream[d]
<1>1. Version(s) \in Nat
  BY StreamFields DEF TypeInv, TypeOK
<1>2. Version(s) \in {e.version : e \in s.state}
  BY <1>1 DEF HistoryInv, CopyIsConsistent, ConsistentCopy, Numbered
<1>3. PICK e \in s.state : e.version = Version(s)
  BY <1>2
<1>4. e.streamID = s.id
  BY DEF HistoryInv, CopyIsConsistent, ConsistentCopy
<1>5. e \in C
  BY DEF Sourced
<1> QED
  BY <1>3, <1>4, <1>5

\* The end of a target keeps the reply quiet: only an event goes on.
LEMMA QuietNextTarget ==
  ASSUME TypeInv, NEW d \in Deliveries, NextTarget(d), UNCHANGED sink,
         sink[d] = "event" => reply'[d] = 0, sink[d] = "command" => Len(todo[d]) <= 1
  PROVE  Quiet(d)'
<1>1. sink[d] \in {"command", "event"} /\ Len(todo[d]) \in Nat
  BY DEF TypeInv, TypeOK
<1>2. CASE Len(todo[d]) = 1
  <2>1. ~(Len(todo[d]) > 1)
    BY <1>2
  <2>2. pc'[d] = "done" /\ todo' = todo
    BY <2>1 DEF NextTarget, Finish, TypeInv, TypeOK
  <2> QED
    BY <2>2 DEF Quiet
<1>3. CASE Len(todo[d]) > 1
  <2>1. sink[d] = "event"
    BY <1>1, <1>3
  <2> QED
    BY <1>3, <2>1 DEF NextTarget, Quiet, TypeInv, TypeOK
<1> QED
  BY <1>2, <1>3 DEF NextTarget

LEMMA ReplyStep ==
  ASSUME TypeInv, HistoryInv, LossInv, Sourced, ReplyInv, NEW d \in Deliveries, Step(d)
  PROVE  ReplyInv'
<1> USE DEF routing
<1>1. ASSUME Quiet(d)', NilMeansStored => Backed(d)'
      PROVE  ReplyInv'
  BY <1>1, CommittedGrows, OthersUnchanged, SameBackend DEF ReplyInv, Quiet, Backed, NilMeansStored
<1>2. /\ Quiet(d) /\ (NilMeansStored => Backed(d)) /\ reply[d] \in Nat
      /\ (pc[d] # "done" => result[d] = "pending")
  BY DEF ReplyInv, LossInv, PendingUntilDone, TypeInv, TypeOK
\* The steps that end the call without success
<1>3. ASSUME pc[d] # "done", pc'[d] = "done", result'[d] # "ok", UNCHANGED <<sink, reply, todo>>
      PROVE  ReplyInv'
  BY <1>1, <1>2, <1>3 DEF Quiet, Backed
<1>4. CASE ReceiveCommand(d)
  <2>1. PICK id \in AllIDs : todo'[d] = <<id>> /\ sink'[d] = "command" /\ pc[d] = "new"
                             /\ pc'[d] = "load" /\ UNCHANGED <<reply, result>>
    BY <1>4 DEF ReceiveCommand, Receive, TypeInv, TypeOK
  <2>2. Len(todo'[d]) = 1
    BY <2>1
  <2> QED
    BY <1>1, <1>2, <2>1, <2>2 DEF Quiet, Backed
<1>5. CASE ReceiveEvent(d)
  <2>1. /\ sink'[d] = "event" /\ pc[d] = "new" /\ pc'[d] = "load" /\ UNCHANGED <<reply, result>>
    BY <1>5 DEF ReceiveEvent, Receive, TypeInv, TypeOK
  <2> QED
    BY <1>1, <1>2, <2>1 DEF Quiet, Backed
<1>6. CASE IgnoreEvent(d)
  <2>1. pc[d] = "new" /\ pc'[d] = "done" /\ UNCHANGED <<sink, reply, todo>>
    BY <1>6 DEF IgnoreEvent, Finish, TypeInv, TypeOK
  <2> QED
    BY <1>1, <1>2, <2>1 DEF Quiet, Backed
<1>7. CASE \/ RejectCommand(d) \/ LoadNotFound(d) \/ ControllerChangesNil(d) \/ ControllerFails(d)
           \/ PersistRejected(d) \/ PersistUnanswered(d) \/ StorageFails(d) \/ PublishFails(d)
           \/ Crash(d)
  BY <1>3, <1>7 DEF RejectCommand, LoadNotFound, ControllerChangesNil, ControllerFails,
    PersistRejected, PersistUnanswered, StorageFails, PublishFails, Crash, Finish, TypeInv, TypeOK
<1>8. CASE LoadNew(d) \/ LoadStored(d) \/ ControllerMutates(d)
  <2>1. /\ pc[d] \in {"load", "sink"} /\ pc'[d] = "sink" /\ UNCHANGED <<sink, reply, result, todo>>
    BY <1>8 DEF LoadNew, LoadStored, ControllerMutates, TypeInv, TypeOK
  <2> QED
    BY <1>1, <1>2, <2>1 DEF Quiet, Backed
<1>9. CASE ControllerLeavesUnchanged(d)
  <2>1. /\ pc[d] = "sink" /\ stream[d].changes = <<>>
        /\ NextTarget(d) /\ reply'[d] \in ReplyVersions(d)
        /\ UNCHANGED <<sink, stream, committed>>
    BY <1>9 DEF ControllerLeavesUnchanged, store, TypeInv, TypeOK
  <2>2. Quiet(d)'
    BY <1>2, <2>1, QuietNextTarget DEF Quiet, ReplyVersions
  <2>3. reply'[d] \in {0, Version(stream[d])}
    BY <2>1 DEF ReplyVersions
  <2>4. Changes(stream[d]) = {}
    BY <2>1 DEF Changes
  <2>5. ASSUME reply'[d] > 0
        PROVE  \E e \in committed : e.streamID = stream[d].id /\ e.version = reply'[d]
    <3>1. Version(stream[d]) = reply'[d]
      BY <2>3, <2>5
    <3> QED
      BY <2>1, <2>4, <2>5, <3>1, VersionIsBacked
  <2> QED
    BY <1>1, <2>1, <2>2, <2>5 DEF Backed
<1>10. CASE ControllerChanges(d)
  <2>1. /\ pc[d] = "sink" /\ pc'[d] = "persist" /\ reply'[d] \in ReplyVersions(d)
        /\ UNCHANGED <<sink, stream, result, todo>>
    BY <1>10 DEF ControllerChanges, TypeInv, TypeOK
  <2> QED
    BY <1>1, <1>2, <2>1 DEF Quiet, Backed, ReplyVersions
<1>11. CASE PersistAccepted(d)
  <2>1. /\ pc[d] = "persist" /\ pc'[d] = "publish"
        /\ UNCHANGED <<sink, stream, reply, result, todo>>
        /\ committed' = committed \union Changes(stream[d])
    BY <1>11 DEF PersistAccepted, StoreStream, TypeInv, TypeOK
  <2>2. reply[d] \in {0, Version(stream[d])}
    BY <1>2, <2>1 DEF Quiet
  <2>3. reply[d] > 0 => \E e \in committed' : e.streamID = stream[d].id /\ e.version = reply[d]
    BY <2>1, <2>2, VersionIsBacked
  <2> QED
    BY <1>1, <1>2, <2>1, <2>3 DEF Quiet, Backed
<1>12. CASE PersistRolledBack(d)
  <2>1. /\ ~NilMeansStored /\ pc'[d] = "publish" /\ UNCHANGED <<sink, reply, todo>>
    BY <1>12 DEF PersistRolledBack, NilMeansStored, TypeInv, TypeOK
  <2> QED
    BY <1>1, <1>2, <2>1 DEF Quiet
<1>13. CASE PublishEvent(d)
  <2>1. pc[d] = "publish" /\ UNCHANGED <<pc, sink, stream, reply, result, todo, committed>>
    BY <1>13 DEF PublishEvent, store
  <2> QED
    BY <1>1, <1>2, <2>1 DEF Quiet, Backed
<1>14. CASE PublishReturns(d)
  <2>1. stream'[d].id = stream[d].id
    BY <1>14, ClearChangesType DEF PublishReturns, TypeInv, TypeOK
  <2>2. pc[d] = "publish" /\ UNCHANGED <<sink, reply, committed>>
    BY <1>14 DEF PublishReturns, store
  <2>3. CASE pc'[d] = "drop" /\ UNCHANGED <<todo, result>>
    BY <1>1, <1>2, <2>1, <2>2, <2>3 DEF Quiet, Backed
  <2>4. CASE NextTarget(d)
    <3>1. Quiet(d)'
      BY <1>2, <2>2, <2>4, QuietNextTarget DEF Quiet
    <3> QED
      BY <1>1, <1>2, <2>1, <2>2, <3>1 DEF Backed
  <2> QED
    BY <1>14, <2>3, <2>4 DEF PublishReturns, TypeInv, TypeOK
<1>15. CASE Drop(d)
  <2>1. pc[d] = "drop" /\ UNCHANGED <<sink, stream, reply, committed>> /\ NextTarget(d)
    BY <1>15 DEF Drop
  <2>2. Quiet(d)'
    BY <1>2, <2>1, QuietNextTarget DEF Quiet
  <2> QED
    BY <1>1, <1>2, <2>1, <2>2 DEF Backed
<1> QED
  BY <1>4, <1>5, <1>6, <1>7, <1>8, <1>9, <1>10, <1>11, <1>12, <1>13, <1>14, <1>15 DEF Step

\* With the in-memory storage or redis, a version that a caller reads in a reply
\* is one that the storage has had for that stream.
THEOREM ReplyVersionsAreCommitted == Spec => []ReplyVersionIsCommitted
<1> DEFINE I == TypeInv /\ HistoryInv /\ ChangesInv /\ LossInv /\ Sourced /\ ReplyInv
<1>1. Init => I
  <2> SUFFICES ASSUME Init PROVE ChangesInv /\ LossInv /\ Sourced /\ ReplyInv
    BY TypeInit, HistoryInit
  <2>1. \A d \in Deliveries : stream[d].changes = <<>>
    BY DEF Init, Blank
  <2>2. \A id \in AllIDs : data[id].state = {}
    BY DEF Init, Absent
  <2>3. \A d \in Deliveries : Len(todo[d]) = 0
    BY DEF Init
  <2> QED
    BY <2>1, <2>2, <2>3 DEF Init, ChangesInv, LossInv, PendingUntilDone, SentInOrder, Sourced,
                       ReplyInv, Quiet, Backed
<1>2. I /\ [Next]_vars => I'
  <2> SUFFICES ASSUME I, [Next]_vars PROVE I'
    OBVIOUS
  <2>1. CASE Next
    BY <2>1, TypeStep, HistoryStep, ChangesStep, LossStep, SourcedStep, ReplyStep DEF Next
  <2>2. CASE UNCHANGED vars
    <3>1. TypeInv' /\ HistoryInv'
      BY <2>2, HistoryUnchanged DEF vars, store, TypeInv, TypeOK, HasTarget
    <3>2. ChangesInv' /\ LossInv' /\ Sourced' /\ ReplyInv'
      BY <2>2 DEF vars, ChangesInv, OwnChange, LossInv, PendingUntilDone, SentInOrder, Withheld,
                  Delivered, Changes, Sourced, ReplyInv, Quiet, Backed, NilMeansStored, Version
    <3> QED
      BY <3>1, <3>2
  <2> QED
    BY <2>1, <2>2
<1>3. I => ReplyVersionIsCommitted
  BY DEF ReplyInv, Backed, ReplyVersionIsCommitted
<1> QED
  BY <1>1, <1>2, <1>3, PTL DEF Spec

-----------------------------------------------------------------------------
(***************************************************************************)
(* The mutator implements an event-sourced log: each step of a call is a   *)
(* step of EventSourcing or leaves its variables alone.                    *)
(***************************************************************************)
\* A dropped stream starts again from version 1.  Only the in-memory storage
\* drops anything, on behalf of controllers registered to do so.
NothingIsDropped ==
  "memory" \in Backends => \A ctrl \in CommandControllers \union EventControllers : ~ctrl.drop

NoDrops ==
  /\ dropped = {}
  /\ backend = "memory" => \A d \in Deliveries : ~opts[d].drop /\ pc[d] # "drop"

FewChanges == \A d \in Deliveries : Len(stream[d].changes) <= MaxChanges

LogInv ==
  TypeInv /\ HistoryInv /\ ChangesInv /\ PublishInv /\ OnceInv /\ NoDrops /\ FewChanges

LEMMA OtherOptions ==
  ASSUME TypeInv, NEW d \in Deliveries, Step(d), ~ReceiveCommand(d), ~ReceiveEvent(d)
  PROVE  opts' = opts
  BY DEF Step, RejectCommand, IgnoreEvent, LoadNew, LoadStored, LoadNotFound, ControllerMutates,
    ControllerLeavesUnchanged, ControllerChangesNil, ControllerChanges, ControllerFails,
    PersistAccepted, PersistRejected, PersistRolledBack, PersistUnanswered, StorageFails,
    PublishEvent, PublishFails, PublishReturns, Drop, Crash, routing

LEMMA NoDropsStep ==
  ASSUME NothingIsDropped, TypeInv, NoDrops, NEW d \in Deliveries, Step(d)
  PROVE  NoDrops'
<1> USE DEF routing, store, TypeInv, TypeOK
<1>1. dropped' = {}
  <2>1. CASE Drop(d)
    BY <2>1 DEF Drop, NoDrops
  <2>2. CASE ~Drop(d)
    BY <2>2 DEF NoDrops, Step, ReceiveCommand, ReceiveEvent, Receive, RejectCommand, IgnoreEvent,
      LoadNew, LoadStored, LoadNotFound, ControllerMutates, ControllerLeavesUnchanged,
      ControllerChangesNil, ControllerChanges, ControllerFails, PersistAccepted, PersistRejected,
      PersistRolledBack, PersistUnanswered, StorageFails, PublishEvent, PublishFails,
      PublishReturns, Crash, StoreStream
  <2> QED
    BY <2>1, <2>2
<1>2. ASSUME backend = "memory" PROVE \A c \in Deliveries : ~opts'[c].drop /\ pc'[c] # "drop"
  <2>1. /\ \A c \in Deliveries : ~opts[c].drop /\ pc[c] # "drop"
        /\ \A ctrl \in CommandControllers \union EventControllers : ~ctrl.drop
    BY <1>2 DEF NoDrops, NothingIsDropped
  <2>2. CASE ReceiveCommand(d) \/ ReceiveEvent(d)
    <3>1. PICK ctrl \in CommandControllers \union EventControllers :
            opts' = [opts EXCEPT ![d] = ctrl] /\ pc' = [pc EXCEPT ![d] = "load"]
      BY <2>2 DEF ReceiveCommand, ReceiveEvent, Receive
    <3> QED
      BY <2>1, <3>1
  <2>3. CASE ~ReceiveCommand(d) /\ ~ReceiveEvent(d)
    <3>1. opts' = opts
      BY <2>3, OtherOptions
    <3>2. pc'[d] # "drop"
      <4>1. CASE PublishReturns(d)
        BY <2>1, <4>1 DEF PublishReturns, NextTarget, Finish
      <4>2. CASE ~PublishReturns(d)
        <5>1. CASE RejectCommand(d) \/ IgnoreEvent(d) \/ LoadNew(d) \/ LoadStored(d)
                   \/ LoadNotFound(d) \/ ControllerMutates(d) \/ ControllerLeavesUnchanged(d)
                   \/ ControllerChangesNil(d) \/ ControllerChanges(d) \/ ControllerFails(d)
          BY <2>1, <5>1 DEF RejectCommand, IgnoreEvent, LoadNew, LoadStored, LoadNotFound,
            ControllerMutates, ControllerLeavesUnchanged, ControllerChangesNil,
            ControllerChanges, ControllerFails, NextTarget, Finish
        <5>2. CASE PersistAccepted(d) \/ PersistRejected(d) \/ PersistRolledBack(d)
                   \/ PersistUnanswered(d) \/ StorageFails(d) \/ PublishEvent(d)
                   \/ PublishFails(d) \/ Drop(d) \/ Crash(d)
          BY <2>1, <5>2 DEF PersistAccepted, PersistRejected, PersistRolledBack,
            PersistUnanswered, StorageFails, PublishEvent, PublishFails, Drop, Crash,
            NextTarget, Finish
        <5> QED
          BY <2>3, <4>2, <5>1, <5>2 DEF Step
      <4> QED
        BY <4>1, <4>2
    <3> QED
      BY <2>1, <3>1, <3>2, OthersUnchanged
  <2> QED
    BY <2>2, <2>3
<1> QED
  BY <1>1, <1>2, SameBackend DEF NoDrops

LEMMA FewChangesStep ==
  ASSUME TypeInv, FewChanges, NEW d \in Deliveries, Step(d)
  PROVE  FewChanges'
<1> USE DEF routing
<1>0. MaxChanges \in Nat
  BY ConstantsAssumption
<1>1. ASSUME Len(stream'[d].changes) <= MaxChanges PROVE FewChanges'
  BY <1>1, OthersUnchanged DEF FewChanges
<1>2. CASE LoadNew(d) \/ LoadStored(d) \/ PublishReturns(d)
  <2>1. stream'[d].changes = <<>>
    <3>1. CASE LoadNew(d)
      BY <3>1 DEF LoadNew, Blank, TypeInv, TypeOK
    <3>2. CASE LoadStored(d)
      BY <3>2 DEF LoadStored, Unmarshal, TypeInv, TypeOK
    <3>3. CASE PublishReturns(d)
      BY <3>3 DEF PublishReturns, ClearChanges, TypeInv, TypeOK, Stream
    <3> QED
      BY <1>2, <3>1, <3>2, <3>3
  <2> QED
    BY <1>0, <1>1, <2>1
<1>3. CASE ControllerMutates(d)
  <2>1. /\ stream[d] \in Stream(AllIDs, Deliveries)
        /\ stream[d].changes \in Seq(Event(AllIDs, Deliveries))
    BY StreamFields DEF TypeInv, TypeOK
  <2>2. stream'[d].changes = Append(stream[d].changes, NextEvent(stream[d], d))
    BY <1>3, <2>1, MutateFields DEF ControllerMutates, TypeInv, TypeOK
  <2>3. NextEvent(stream[d], d) \in Event(AllIDs, Deliveries)
    BY <2>1, MutateFields
  <2>4. Len(stream'[d].changes) = Len(stream[d].changes) + 1
    BY <2>1, <2>2, <2>3
  <2>5. Len(stream[d].changes) < MaxChanges /\ Len(stream[d].changes) \in Nat
    BY <1>3, <2>1 DEF ControllerMutates
  <2> QED
    BY <1>0, <1>1, <2>4, <2>5
<1>4. CASE \/ ReceiveCommand(d) \/ ReceiveEvent(d) \/ RejectCommand(d) \/ IgnoreEvent(d)
           \/ LoadNotFound(d) \/ ControllerLeavesUnchanged(d) \/ ControllerChangesNil(d)
           \/ ControllerChanges(d) \/ ControllerFails(d)
  BY <1>4 DEF FewChanges, ReceiveCommand, ReceiveEvent, Receive, RejectCommand, IgnoreEvent,
    LoadNotFound, ControllerLeavesUnchanged, ControllerChangesNil, ControllerChanges,
    ControllerFails
<1>5. CASE \/ PersistAccepted(d) \/ PersistRejected(d) \/ PersistRolledBack(d)
           \/ PersistUnanswered(d) \/ StorageFails(d) \/ PublishEvent(d) \/ PublishFails(d)
           \/ Drop(d) \/ Crash(d)
  BY <1>5 DEF FewChanges, PersistAccepted, PersistRejected, PersistRolledBack, PersistUnanswered,
    StorageFails, PublishEvent, PublishFails, Drop, Crash
<1> QED
  BY <1>2, <1>3, <1>4, <1>5 DEF Step

LEMMA LogInit == Init => LogInv
<1> SUFFICES ASSUME Init PROVE LogInv
  OBVIOUS
<1>1. \A d \in Deliveries : stream[d].changes = <<>> /\ ~opts[d].drop /\ pc[d] = "new"
  BY DEF Init, Blank
<1>2. ChangesInv /\ PublishInv /\ OnceInv
  BY <1>1 DEF Init, ChangesInv, PublishInv, PublishesCommitted, Delivered, OnceInv, Unsent, Once
<1>3. NoDrops /\ FewChanges
  BY <1>1, ConstantsAssumption DEF Init, NoDrops, FewChanges
<1> QED
  BY <1>2, <1>3, TypeInit, HistoryInit DEF LogInv

LEMMA LogInductive ==
  ASSUME NothingIsDropped
  PROVE  Spec => []LogInv
<1>1. LogInv /\ [Next]_vars => LogInv'
  <2> SUFFICES ASSUME LogInv, [Next]_vars PROVE LogInv'
    OBVIOUS
  <2>1. CASE Next
    BY <2>1, TypeStep, HistoryStep, ChangesStep, PublishStep, OnceStep, NoDropsStep,
       FewChangesStep DEF Next, LogInv
  <2>2. CASE UNCHANGED vars
    <3>1. TypeInv' /\ HistoryInv'
      BY <2>2, HistoryUnchanged DEF LogInv, vars, store, TypeInv, TypeOK, HasTarget
    <3>2. ChangesInv' /\ PublishInv' /\ OnceInv'
      BY <2>2 DEF LogInv, vars, ChangesInv, OwnChange, PublishInv, NilMeansStored,
        PublishesCommitted, Delivered, OnceInv, Unsent, Once
    <3>3. NoDrops' /\ FewChanges'
      BY <2>2 DEF LogInv, vars, NoDrops, FewChanges
    <3> QED
      BY <3>1, <3>2, <3>3 DEF LogInv
  <2> QED
    BY <2>1, <2>2
<1> QED
  BY LogInit, <1>1, PTL DEF Spec

\* What was stored of a stream ends at its stored version.
LEMMA LogEnds ==
  ASSUME LogInv, NEW id \in AllIDs
  PROVE  /\ data[id].version \in {0} \union {e.version : e \in committed}
         /\ Promise!EndsAt(id, data[id].version)
<1> DEFINE n == data[id].version
           own == {e \in committed : e.streamID = id}
<1>1. n \in Nat
  BY DEF LogInv, TypeInv, TypeOK, Stored
<1>2. data[id].state = own
  BY DEF LogInv, HistoryInv, NoLostUpdate, NoDrops, EventsOf
<1>3. {e.version : e \in own} = 1..n
  BY <1>2 DEF LogInv, HistoryInv, HistoryIsContiguous, Numbered
<1>4. \A e \in own : e.version <= n
  BY <1>1, <1>3
<1>5. n = 0 \/ n \in 1..n
  BY <1>1
<1>6. n = 0 \/ \E e \in own : e.version = n
  BY <1>3, <1>5
<1> HIDE DEF n
<1>7. n \in {0} \union {e.version : e \in committed}
  BY <1>6
<1>8. Promise!EndsAt(id, n)
  BY <1>4, <1>6 DEF Promise!EndsAt
<1> QED
  BY <1>7, <1>8 DEF n

\* Changes that are numbered on from the loaded version are a batch.
LEMMA ChangesAreBatch ==
  ASSUME NEW s \in Stream(AllIDs, Deliveries), NEW id, NEW c,
         \A i \in 1..Len(s.changes) :
           s.changes[i] = [streamID |-> id, version |-> s.version + i, cause |-> c]
  PROVE  Changes(s) = Promise!Batch(id, c, s.version, Len(s.changes))
<1>1. Changes(s) = {[streamID |-> id, version |-> v, cause |-> c] :
                      v \in s.version + 1 .. s.version + Len(s.changes)}
  BY NumberedChanges, SMTT(30)
<1> QED
  BY <1>1 DEF Promise!Batch

\* A Persist that takes effect, answered or not, appends the call's events.
LEMMA PersistAppends ==
  ASSUME LogInv, NEW d \in Deliveries, pc[d] = "persist", VersionMatches(stream[d]),
         StoreStream(stream[d]), UNCHANGED <<bus, backend>>
  PROVE  \E id \in AllIDs : Promise!Append1(id, d)
<1> DEFINE s == stream[d]
           k == Len(s.changes)
           n == s.version
<1>1. /\ s \in Stream(AllIDs, Deliveries) /\ s.id \in AllIDs /\ n \in Nat /\ k \in Nat
      /\ s.changes \in Seq(Event(AllIDs, Deliveries))
  BY StreamFields DEF LogInv, TypeInv, TypeOK
<1>2. k \in 1..MaxChanges
  <2>1. s.changes # <<>> /\ k <= MaxChanges /\ MaxChanges \in Nat
    BY ConstantsAssumption DEF LogInv, HistoryInv, PersistsChanges, FewChanges
  <2> QED
    BY <1>1, <2>1
<1>3. data[s.id].version = n
  BY MatchedVersion DEF LogInv, NoDrops
<1>4. \A i \in 1..k : s.changes[i] = [streamID |-> s.id, version |-> n + i, cause |-> d]
  <2> SUFFICES ASSUME NEW i \in 1..k
               PROVE  s.changes[i] = [streamID |-> s.id, version |-> n + i, cause |-> d]
    OBVIOUS
  <2>1. s.changes[i] \in Event(AllIDs, Deliveries)
    BY <1>1
  <2>2. /\ s.changes[i].cause = d /\ s.changes[i].streamID = s.id
        /\ s.changes[i].version = n + i
    BY DEF LogInv, ChangesInv, OwnChange
  <2> QED
    BY <2>1, <2>2 DEF Event
<1>5. Changes(s) = Promise!Batch(s.id, d, n, k)
  <2> HIDE DEF s
  <2> QED
    BY <1>1, <1>4, ChangesAreBatch
<1>6. committed' = committed \union Changes(s) /\ UNCHANGED (IF NilMeansStored THEN bus ELSE <<>>)
  BY DEF StoreStream, NilMeansStored
<1>7. n \in {0} \union {e.version : e \in committed} /\ Promise!EndsAt(s.id, n)
  BY <1>1, <1>3, LogEnds
<1> HIDE DEF s, k, n
<1>8. Promise!Append1(s.id, d)
  BY <1>2, <1>5, <1>6, <1>7 DEF Promise!Append1
<1> QED
  BY <1>1, <1>8

\* What Publish hands over is a stored event that was not passed on before.
LEMMA PublishPassesOn ==
  ASSUME LogInv, NEW d \in Deliveries, PublishEvent(d)
  PROVE  [Promise!PassOn]_<<committed, IF NilMeansStored THEN bus ELSE <<>>>>
<1> DEFINE e == NextChange(d)
<1>1. /\ pc[d] = "publish" /\ sent[d] \in Nat /\ sent[d] < Len(stream[d].changes)
      /\ Len(stream[d].changes) \in Nat /\ bus' = Append(bus, e)
      /\ UNCHANGED <<committed, backend>>
  BY StreamFields DEF PublishEvent, LogInv, TypeInv, TypeOK, store, routing
<1>2. CASE ~NilMeansStored
  BY <1>1, <1>2 DEF NilMeansStored
<1>3. CASE NilMeansStored
  <2>1. sent[d] + 1 \in 1..Len(stream[d].changes) /\ sent[d] + 1 > sent[d]
    BY <1>1
  <2>2. e \in Changes(stream[d])
    <3>1. stream[d].changes \in Seq(Event(AllIDs, Deliveries))
      BY StreamFields DEF LogInv, TypeInv, TypeOK
    <3> QED
      BY <2>1, <3>1 DEF Changes, NextChange
  <2>3. e \in committed
    BY <1>1, <1>3, <2>2 DEF LogInv, PublishInv, PublishesCommitted
  <2>4. e \notin Delivered
    BY <1>1, <1>3, <2>1 DEF LogInv, OnceInv, Unsent, NoDrops, NextChange
  <2> HIDE DEF e
  <2>5. Promise!PassOn
    BY <1>1, <1>3, <2>3, <2>4 DEF Promise!PassOn, Delivered, NilMeansStored
  <2> QED
    BY <2>5
<1> QED
  BY <1>2, <1>3

\* However many calls race, crash or lose their answers, the mutator does what
\* an append-only log with a feed does, as long as no stream is dropped.
THEOREM MutatorImplementsEventSourcing ==
  ASSUME NothingIsDropped
  PROVE  Spec => ImplementsEventSourcing
<1>1. Init => Promise!Init
  BY DEF Init, Promise!Init
<1>2. ASSUME LogInv, [Next]_vars
      PROVE  [Promise!Next]_<<committed, IF NilMeansStored THEN bus ELSE <<>>>>
  <2>1. CASE UNCHANGED vars
    BY <2>1 DEF vars, NilMeansStored
  <2>2. ASSUME NEW d \in Deliveries, Step(d)
        PROVE  [Promise!Next]_<<committed, IF NilMeansStored THEN bus ELSE <<>>>>
    <3>1. backend' = backend
      BY <2>2, SameBackend
    <3>2. CASE PersistAccepted(d) \/ PersistUnanswered(d)
      <4>1. \E id \in AllIDs : Promise!Append1(id, d)
        BY <1>2, <3>1, <3>2, PersistAppends DEF PersistAccepted, PersistUnanswered
      <4> QED
        BY <2>2, <4>1 DEF Promise!Next
    <3>3. CASE PublishEvent(d)
      BY <1>2, <3>3, PublishPassesOn DEF Promise!Next
    <3>4. CASE ~PersistAccepted(d) /\ ~PersistUnanswered(d) /\ ~PublishEvent(d)
      <4>1. UNCHANGED <<committed, bus>>
        BY <2>2, <3>4 DEF Step, ReceiveCommand, ReceiveEvent, Receive, RejectCommand, IgnoreEvent,
          LoadNew, LoadStored, LoadNotFound, ControllerMutates, ControllerLeavesUnchanged,
          ControllerChangesNil, ControllerChanges, ControllerFails, PersistRejected,
          PersistRolledBack, StorageFails, PublishFails, PublishReturns, Drop, Crash, store
      <4> QED
        BY <3>1, <4>1 DEF NilMeansStored
    <3> QED
      BY <3>2, <3>3, <3>4
  <2> QED
    BY <1>2, <2>1, <2>2 DEF Next
<1> QED
  BY LogInductive, <1>1, <1>2, PTL DEF Spec, ImplementsEventSourcing, Promise!Spec
=============================================================================
