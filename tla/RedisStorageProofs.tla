------------------------- MODULE RedisStorageProofs -------------------------
(***************************************************************************)
(* WATCH, GET and EXEC make Persist of the redis storage atomic, for any   *)
(* number of clients, rounds and changes: what an untouched client has     *)
(* compared is still the stored version when its EXEC takes effect.        *)
(***************************************************************************)
EXTENDS RedisStorage, StreamsProofs

\* A GET whose error is dropped reads as version 0: that does no harm where
\* every client has loaded the stream.
Harmless == \A d \in Deployments : "get" \in d.faults => d.creators = {}

RoundsLeft == \A c \in Clients : pc[c] # "done" => attempts[c] < deployment.rounds

TypeInv == TypeOK /\ RoundsLeft

LEMMA DeploymentFields ==
  ASSUME TypeOK
  PROVE  /\ deployment.rounds \in Nat \ {0}
         /\ deployment.changes \in 1..MaxChanges
         /\ deployment \in Deployments
BY ConstantsAssumption DEF TypeOK, Deployment

LEMMA FirstFields ==
  /\ First \in Stream({ID}, Callers)
  /\ First.version = 0 /\ Version(First) = 1
  /\ First.state = Changes(First)
  /\ Changes(First) = {NextEvent(Blank(ID), Setup)}
  /\ NextEvent(Blank(ID), Setup) \in Event({ID}, Callers)
  /\ NextEvent(Blank(ID), Setup).version = 1
<1>1. Setup \in Callers /\ Blank(ID) \in Stream({ID}, Callers)
  BY BlankType DEF Callers
<1>2. Blank(ID).version = 0 /\ Version(Blank(ID)) = 0 /\ Blank(ID).state = {}
      /\ Changes(Blank(ID)) = {}
  BY DEF Blank, Version, Changes
<1>3. LET s == Blank(ID)
          e == NextEvent(s, Setup)
      IN  /\ e \in Event({ID}, Callers) /\ e.version = Version(s) + 1
          /\ Mutate(s, Setup) \in Stream({ID}, Callers)
          /\ Mutate(s, Setup).version = s.version
          /\ Mutate(s, Setup).state = s.state \union {e}
          /\ Version(Mutate(s, Setup)) = Version(s) + 1
          /\ Changes(Mutate(s, Setup)) = Changes(s) \union {e}
  BY <1>1, MutateFields
<1> QED
  BY <1>2, <1>3 DEF First

LEMMA TypeInit == Init => TypeInv
<1> SUFFICES ASSUME Init PROVE TypeInv
  OBVIOUS
<1>1. deployment.rounds \in Nat \ {0}
  BY ConstantsAssumption DEF Init, Deployment
<1>2. /\ Absent \in Stored({ID}, Callers) /\ Marshal(First) \in Stored({ID}, Callers)
      /\ Version(First) \in Nat /\ Changes(First) \subseteq Event({ID}, Callers)
  BY FirstFields, MarshalType DEF Absent, Stored
<1>3. Blank(ID) \in Stream({ID}, Callers)
  BY BlankType
<1> QED
  BY <1>1, <1>2, <1>3 DEF Init, TypeInv, TypeOK, RoundsLeft

LEMMA TypeStep ==
  ASSUME TypeInv, NEW c \in Clients, Step(c)
  PROVE  TypeInv'
<1> USE DEF TypeInv, TypeOK, RoundsLeft, server
<1>0. deployment.rounds \in Nat \ {0} /\ c \in Callers
  BY DeploymentFields DEF Callers
<1>1. stream[c] \in Stream({ID}, Callers)
  OBVIOUS
<1>a. ASSUME StartOver(c), pc[c] # "done"
      PROVE  /\ attempts' \in [Clients -> 0..deployment.rounds]
             /\ pc' \in [Clients -> {"start", "mutate", "get", "exec", "done"}]
             /\ answer' \in [Clients -> {"none", "error", "stored"}]
             /\ \A o \in Clients : pc'[o] # "done" => attempts'[o] < deployment.rounds
  BY <1>a, <1>0 DEF StartOver
<1>b. ASSUME SetBoth(c)
      PROVE  /\ versionKey' \in Nat /\ stateKey' \in Stored({ID}, Callers)
             /\ touched' \in [Clients -> BOOLEAN]
  BY <1>b, <1>1, StreamFields, MarshalType DEF SetBoth
<1>2. CASE NewStream(c)
  BY <1>2, BlankType DEF NewStream, Obtain
<1>3. CASE Load(c)
  BY <1>3, UnmarshalType DEF Load, Obtain
<1>4. CASE LoadMissing(c) \/ ConnectionFails(c) \/ ExecAborted(c)
  <2>1. StartOver(c) /\ pc[c] # "done" /\ UNCHANGED <<deployment, server, stream, touched>>
    BY <1>4 DEF LoadMissing, ConnectionFails, ExecAborted
  <2> QED
    BY <2>1, <1>a
<1>5. CASE MutateStream(c)
  <2>1. Mutate(stream[c], c) \in Stream({ID}, Callers)
    BY <1>0, <1>1, MutateFields
  <2> QED
    BY <1>5, <2>1 DEF MutateStream
<1>6. CASE Watch(c)
  BY <1>6 DEF Watch
<1>7. CASE Get(c) \/ GetFails(c)
  <2>1. /\ pc[c] = "get" /\ UNCHANGED <<deployment, server, stream, touched>>
        /\ \/ StartOver(c)
           \/ pc' = [pc EXCEPT ![c] = "exec"] /\ UNCHANGED <<attempts, answer>>
    BY <1>7 DEF Get, GetFails, Compare
  <2> QED
    BY <2>1, <1>a
<1>8. CASE Exec(c)
  <2>1. Changes(stream[c]) \subseteq Event({ID}, Callers)
    BY <1>1, ChangesType
  <2> QED
    BY <1>8, <2>1, <1>b DEF Exec
<1>9. CASE ExecUnanswered(c)
  BY <1>9, <1>a, <1>b DEF ExecUnanswered
<1> QED
  BY <1>2, <1>3, <1>4, <1>5, <1>6, <1>7, <1>8, <1>9 DEF Step, Work, Fault

\* The variables keep their types, and nobody works on without a round left.
THEOREM TypeCorrect == Spec => []TypeOK
<1>1. TypeInv /\ [Next]_vars => TypeInv'
  BY TypeStep DEF Next, vars, TypeInv, TypeOK, RoundsLeft
<1>2. TypeInv => TypeOK
  BY DEF TypeInv
<1> QED
  BY TypeInit, <1>1, <1>2, PTL DEF Spec

-----------------------------------------------------------------------------
(***************************************************************************)
(* The keys and the copies.                                                *)
(***************************************************************************)
\* The two keys agree, the stored events are numbered up to the stored version,
\* and what was acknowledged is among them.
KeysAgree ==
  /\ versionKey = stateKey.version
  /\ \A e \in stateKey.state : e.version \in 1..versionKey
  /\ versionKey = 0 \/ \E e \in stateKey.state : e.version = versionKey
  /\ AcknowledgedIsKept

\* Whoever works on a copy loaded it at a version that is not ahead of the
\* stored one; while it is the stored one, the copy is the stored stream with
\* the client's own changes, which are numbered on from there.
CopyAgrees(c) ==
  LET s == stream[c]
  IN  /\ s.version <= versionKey
      /\ s.version = versionKey => s.state = stateKey.state \union Changes(s)
      /\ c \notin Creators => s.version > 0
      /\ \A i \in 1..Len(s.changes) :
           s.changes[i] = [streamID |-> ID, version |-> s.version + i, cause |-> c]
      /\ Len(s.changes) <= deployment.changes

\* Persist has changes to store; what an untouched client has compared is true.
Compared(c) ==
  /\ pc[c] \in {"get", "exec"} => stream[c].changes # <<>>
  /\ pc[c] = "exec" /\ ~touched[c] => versionKey = stream[c].version

StoreInv ==
  /\ KeysAgree
  /\ \A c \in Clients : pc[c] \in {"mutate", "get", "exec"} => CopyAgrees(c)
  /\ \A c \in Clients : Compared(c)

LEMMA StoreInit == Init => StoreInv
<1> SUFFICES ASSUME Init PROVE StoreInv
  OBVIOUS
<1>1. KeysAgree
  <2>1. CASE deployment.preloaded
    BY <2>1, FirstFields DEF Init, KeysAgree, AcknowledgedIsKept, Marshal
  <2>2. CASE ~deployment.preloaded
    BY <2>2 DEF Init, KeysAgree, AcknowledgedIsKept, Absent
  <2> QED
    BY <2>1, <2>2
<1>2. \A c \in Clients : pc[c] = "start"
  BY DEF Init
<1> QED
  BY <1>1, <1>2 DEF StoreInv, Compared

\* Steps that leave the keys alone, of a client that no longer works on a copy
\* or works on the same one
LEMMA StoreUnchanged ==
  ASSUME TypeInv, StoreInv, NEW c \in Clients, UNCHANGED <<deployment, server, stream, touched>>,
         NEW place, pc' = [pc EXCEPT ![c] = place],
         place \in {"start", "done"}
           \/ (place \in {"get", "exec"} /\ pc[c] \in {"mutate", "get", "exec"} /\ Compared(c)')
  PROVE  StoreInv'
<1> USE DEF StoreInv, server, TypeInv, TypeOK
<1>1. KeysAgree'
  BY DEF KeysAgree, AcknowledgedIsKept
<1>2. ASSUME NEW o \in Clients
      PROVE  (pc[o] \in {"mutate", "get", "exec"} => CopyAgrees(o))'
  <2>1. pc'[o] \in {"mutate", "get", "exec"} => pc[o] \in {"mutate", "get", "exec"}
    OBVIOUS
  <2>2. CopyAgrees(o) => CopyAgrees(o)'
    BY DEF CopyAgrees, Creators
  <2> QED
    BY <2>1, <2>2
<1>3. ASSUME NEW o \in Clients PROVE Compared(o)'
  <2>1. CASE o # c
    BY <2>1 DEF Compared
  <2>2. CASE o = c /\ place \in {"start", "done"}
    BY <2>2 DEF Compared
  <2> QED
    BY <2>1, <2>2
<1> QED
  BY <1>1, <1>2, <1>3

\* A client that has just obtained, or changed, its copy
LEMMA CopyMade ==
  ASSUME TypeInv, StoreInv, NEW c \in Clients, UNCHANGED <<deployment, server, touched>>,
         pc' = [pc EXCEPT ![c] = "mutate"],
         NEW s, stream' = [stream EXCEPT ![c] = s], CopyAgrees(c)'
  PROVE  StoreInv'
<1> USE DEF StoreInv, server, TypeInv, TypeOK
<1>1. KeysAgree'
  BY DEF KeysAgree, AcknowledgedIsKept
<1>2. ASSUME NEW o \in Clients, o # c
      PROVE  /\ (pc[o] \in {"mutate", "get", "exec"} => CopyAgrees(o))'
             /\ Compared(o)'
  <2>1. pc'[o] = pc[o] /\ stream'[o] = stream[o]
    BY <1>2
  <2>2. CopyAgrees(o) => CopyAgrees(o)'
    BY <2>1 DEF CopyAgrees, Creators
  <2>3. Compared(o)'
    BY <2>1 DEF Compared
  <2> QED
    BY <2>1, <2>2, <2>3
<1>3. Compared(c)'
  BY DEF Compared
<1> QED
  BY <1>1, <1>2, <1>3

\* An EXEC that takes effect appends the client's changes to the stored stream.
LEMMA ExecAppends ==
  ASSUME TypeInv, StoreInv, NEW c \in Clients, pc[c] = "exec", ~touched[c], SetBoth(c)
  PROVE  /\ versionKey = stream[c].version
         /\ Len(stream[c].changes) \in 1..MaxChanges
         /\ stateKey'.state = stateKey.state \union Changes(stream[c])
         /\ stateKey'.version = versionKey' /\ versionKey' = versionKey + Len(stream[c].changes)
         /\ Changes(stream[c]) =
              {[streamID |-> ID, version |-> v, cause |-> c] :
                 v \in versionKey + 1 .. versionKey + Len(stream[c].changes)}
<1> DEFINE s == stream[c]
<1>1. s \in Stream({ID}, Callers) /\ versionKey \in Nat
  BY DEF TypeInv, TypeOK
<1>2. /\ s.version \in Nat /\ s.changes \in Seq(Event({ID}, Callers)) /\ Len(s.changes) \in Nat
      /\ Version(s) \in Nat
  BY <1>1, StreamFields
<1>3. CopyAgrees(c) /\ s.changes # <<>> /\ versionKey = s.version
  BY DEF StoreInv, Compared
<1>4. Len(s.changes) \in 1..MaxChanges
  BY <1>2, <1>3, DeploymentFields, ConstantsAssumption DEF CopyAgrees, TypeInv
<1>5. /\ stateKey'.state = s.state /\ stateKey'.version = Version(s) /\ versionKey' = Version(s)
  BY DEF SetBoth, Marshal
<1>6. s.state = stateKey.state \union Changes(s)
  BY <1>3 DEF CopyAgrees
<1>7. Changes(s) = {[streamID |-> ID, version |-> v, cause |-> c] :
                      v \in versionKey + 1 .. versionKey + Len(s.changes)}
  <2>1. \A i \in 1..Len(s.changes) :
          s.changes[i] = [streamID |-> ID, version |-> s.version + i, cause |-> c]
    BY <1>3 DEF CopyAgrees
  <2> HIDE DEF s
  <2>2. Changes(s) = {[streamID |-> ID, version |-> v, cause |-> c] :
                        v \in s.version + 1 .. s.version + Len(s.changes)}
    BY <1>1, <2>1, NumberedChanges
  <2> QED
    BY <1>3, <2>2
<1> QED
  BY <1>2, <1>3, <1>4, <1>5, <1>6, <1>7 DEF Version

LEMMA StoreExec ==
  ASSUME TypeInv, StoreInv, NEW c \in Clients, pc[c] = "exec", ~touched[c], SetBoth(c),
         UNCHANGED <<deployment, stream>>,
         acknowledged' \subseteq acknowledged \union Changes(stream[c]),
         NEW place \in {"start", "done"}, pc' = [pc EXCEPT ![c] = place]
  PROVE  StoreInv'
<1> DEFINE k == Len(stream[c].changes)
<1>1. versionKey \in Nat /\ k \in Nat \ {0}
  <2>1. versionKey \in Nat /\ MaxChanges \in Nat
    BY ConstantsAssumption DEF TypeInv, TypeOK
  <2>2. k \in 1..MaxChanges
    BY ExecAppends
  <2> QED
    BY <2>1, <2>2
<1>2. /\ stateKey'.version = versionKey' /\ versionKey' = versionKey + k
      /\ stateKey'.state = stateKey.state \union Changes(stream[c])
      /\ Changes(stream[c]) = {[streamID |-> ID, version |-> v, cause |-> c] :
                                 v \in versionKey + 1 .. versionKey + k}
  BY ExecAppends
<1>3. KeysAgree'
  <2>1. \A e \in stateKey'.state : e.version \in 1..versionKey'
    BY <1>1, <1>2 DEF StoreInv, KeysAgree
  <2>2. \E e \in stateKey'.state : e.version = versionKey'
    <3> DEFINE e == [streamID |-> ID, version |-> versionKey + k, cause |-> c]
    <3>1. versionKey + k \in versionKey + 1 .. versionKey + k
      BY <1>1
    <3>2. e \in Changes(stream[c])
      BY <1>2, <3>1
    <3>3. e \in stateKey'.state /\ e.version = versionKey'
      BY <1>2, <3>2
    <3> QED
      BY <3>3
  <2>3. acknowledged' \subseteq stateKey'.state
    BY <1>2 DEF StoreInv, KeysAgree, AcknowledgedIsKept
  <2> QED
    BY <1>2, <2>1, <2>2, <2>3 DEF KeysAgree, AcknowledgedIsKept
<1>4. ASSUME NEW o \in Clients
      PROVE  /\ (pc[o] \in {"mutate", "get", "exec"} => CopyAgrees(o))'
             /\ Compared(o)'
  <2>1. pc'[o] \in {"mutate", "get", "exec"} => pc'[o] = pc[o]
    BY DEF TypeInv, TypeOK
  <2>2. stream[o].version \in Nat
    BY StreamFields DEF TypeInv, TypeOK
  <2>3. CopyAgrees(o) => CopyAgrees(o)'
    BY <1>1, <1>2, <2>2 DEF CopyAgrees, Creators
  <2>4. touched'[o]
    BY DEF SetBoth
  <2> QED
    BY <2>1, <2>3, <2>4 DEF StoreInv, Compared
<1> QED
  BY <1>3, <1>4 DEF StoreInv

LEMMA StoreStep ==
  ASSUME Harmless, TypeInv, StoreInv, NEW c \in Clients, Step(c)
  PROVE  StoreInv'
<1>0. /\ pc \in [Clients -> {"start", "mutate", "get", "exec", "done"}]
      /\ stream \in [Clients -> Stream({ID}, Callers)] /\ stream[c] \in Stream({ID}, Callers)
      /\ touched \in [Clients -> BOOLEAN]
      /\ stateKey \in Stored({ID}, Callers) /\ versionKey \in Nat /\ c \in Callers
      /\ deployment.changes \in Nat
  <2>1. deployment.changes \in 1..MaxChanges /\ MaxChanges \in Nat
    BY DeploymentFields, ConstantsAssumption DEF TypeInv
  <2>2. deployment.changes \in Nat
    BY <2>1
  <2> QED
    BY <2>2 DEF TypeInv, TypeOK, Callers
<1>a. StartOver(c) => \E place \in {"start", "done"} : pc' = [pc EXCEPT ![c] = place]
  BY DEF StartOver
<1>1. CASE NewStream(c)
  <2>1. CopyAgrees(c)'
    BY <1>0, <1>1 DEF NewStream, Obtain, CopyAgrees, Creators, Blank, Changes, StoreInv, KeysAgree,
                      server
  <2> QED
    BY <1>1, <2>1, CopyMade DEF NewStream, Obtain
<1>2. CASE Load(c)
  <2>1. stateKey.version = versionKey /\ versionKey # 0
    BY <1>0, <1>2 DEF Load, StoreInv, KeysAgree, Stored, Absent
  <2>2. stream'[c] = Unmarshal(ID, stateKey) /\ UNCHANGED <<versionKey, stateKey, deployment>>
    BY <1>0, <1>2 DEF Load, Obtain, server
  <2>3. CopyAgrees(c)'
    BY <1>0, <2>1, <2>2 DEF CopyAgrees, Unmarshal, Changes
  <2> QED
    BY <1>2, <2>3, CopyMade DEF Load, Obtain
<1>3. CASE LoadMissing(c) \/ ConnectionFails(c) \/ ExecAborted(c)
  BY <1>3, <1>a, StoreUnchanged DEF LoadMissing, ConnectionFails, ExecAborted
<1>4. CASE MutateStream(c)
  <2> DEFINE s == stream[c]
             e == NextEvent(s, c)
             t == Mutate(s, c)
  <2>1. pc[c] = "mutate" /\ CopyAgrees(c) /\ Len(s.changes) < deployment.changes
        /\ stream' = [stream EXCEPT ![c] = t]
        /\ UNCHANGED <<deployment, server, pc, touched>>
    BY <1>4 DEF MutateStream, StoreInv
  <2>2. /\ e.streamID = s.id /\ e.version = Version(s) + 1 /\ e.cause = c
        /\ t.version = s.version /\ t.changes = Append(s.changes, e)
        /\ t.state = s.state \union {e} /\ Changes(t) = Changes(s) \union {e}
    BY <1>0, MutateFields
  <2>3. /\ s.id = ID /\ s.version \in Nat /\ s.changes \in Seq(Event({ID}, Callers))
        /\ Len(s.changes) \in Nat
    BY <1>0, StreamFields
  <2>4. e = [streamID |-> ID, version |-> s.version + (Len(s.changes) + 1), cause |-> c]
    BY <2>2, <2>3 DEF NextEvent, Version
  <2>5. /\ Len(t.changes) = Len(s.changes) + 1
        /\ \A i \in 1..Len(s.changes) : t.changes[i] = s.changes[i]
        /\ t.changes[Len(s.changes) + 1] = e
    <3>1. e \in Event({ID}, Callers)
      BY <1>0, MutateFields
    <3> HIDE DEF e
    <3> QED
      BY <2>2, <2>3, <3>1
  <2> HIDE DEF e, t
  <2>6. \A i \in 1..Len(t.changes) :
          t.changes[i] = [streamID |-> ID, version |-> t.version + i, cause |-> c]
    BY <2>1, <2>2, <2>3, <2>4, <2>5 DEF CopyAgrees
  <2>7. t.version = versionKey => t.state = stateKey.state \union Changes(t)
    BY <2>1, <2>2 DEF CopyAgrees
  <2>8. stream'[c] = t
    BY <1>0, <2>1
  <2>9. CopyAgrees(c)'
    <3>1. UNCHANGED <<versionKey, stateKey, deployment>>
      BY <2>1 DEF server
    <3>2. /\ t.version <= versionKey /\ (c \notin Creators => t.version > 0)
          /\ Len(t.changes) <= deployment.changes
      BY <1>0, <2>1, <2>2, <2>3, <2>5 DEF CopyAgrees
    <3> QED
      BY <2>6, <2>7, <2>8, <3>1, <3>2 DEF CopyAgrees, Creators
  <2>10. pc' = [pc EXCEPT ![c] = "mutate"]
    BY <1>0, <2>1
  <2> QED
    BY <2>1, <2>9, <2>10, CopyMade
<1>5. CASE Watch(c)
  <2>1. KeysAgree'
    BY <1>5 DEF Watch, server, StoreInv, KeysAgree, AcknowledgedIsKept
  <2>2. ASSUME NEW o \in Clients
        PROVE  /\ (pc[o] \in {"mutate", "get", "exec"} => CopyAgrees(o))'
               /\ Compared(o)'
    <3>1. pc'[o] \in {"mutate", "get", "exec"} => pc[o] \in {"mutate", "get", "exec"}
      BY <1>0, <1>5 DEF Watch
    <3>2. CopyAgrees(o) => CopyAgrees(o)'
      BY <1>5 DEF Watch, server, CopyAgrees, Creators
    <3>3. ASSUME o = c PROVE Compared(o)'
      <4>1. pc'[c] = "get" /\ stream' = stream /\ stream[c].changes # <<>>
        BY <1>0, <1>5 DEF Watch
      <4>2. Compared(c)'
        BY <4>1 DEF Compared
      <4> QED
        BY <3>3, <4>2
    <3>4. ASSUME o # c PROVE Compared(o)'
      <4>1. /\ pc'[o] = pc[o] /\ touched'[o] = touched[o]
            /\ stream' = stream /\ versionKey' = versionKey
        BY <1>0, <1>5, <3>4 DEF Watch, server
      <4>2. Compared(o)
        BY DEF StoreInv
      <4> QED
        BY <4>1, <4>2 DEF Compared
    <3> QED
      BY <3>1, <3>2, <3>3, <3>4 DEF StoreInv
  <2> QED
    BY <2>1, <2>2 DEF StoreInv
<1>6. CASE Get(c) \/ GetFails(c)
  <2>1. /\ pc[c] = "get" /\ UNCHANGED <<deployment, server, stream, touched>>
        /\ CopyAgrees(c) /\ stream[c].changes # <<>>
    BY <1>6 DEF Get, GetFails, Compare, StoreInv, Compared
  <2>2. CASE StartOver(c)
    BY <2>1, <2>2, <1>a, StoreUnchanged
  <2>3. CASE pc' = [pc EXCEPT ![c] = "exec"] /\ Get(c) /\ ~Mismatch(c, versionKey)
    <3>1. Compared(c)'
      BY <2>1, <2>3 DEF Compared, Mismatch, PreviousVersion, server
    <3> QED
      BY <2>1, <2>3, <3>1, StoreUnchanged
  <2>4. GetFails(c) => Mismatch(c, 0)
    <3>1. GetFails(c) => Creators = {}
      BY DeploymentFields DEF GetFails, MayFail, Harmless, TypeInv, Creators
    <3> QED
      BY <2>1, <3>1 DEF CopyAgrees, Mismatch, PreviousVersion
  <2> QED
    BY <1>6, <2>2, <2>3, <2>4 DEF Get, GetFails, Compare
<1>7. CASE Exec(c)
  BY <1>7, StoreExec DEF Exec
<1>8. CASE ExecUnanswered(c)
  BY <1>8, <1>a, StoreExec DEF ExecUnanswered
<1> QED
  BY <1>1, <1>2, <1>3, <1>4, <1>5, <1>6, <1>7, <1>8 DEF Step, Work, Fault

LEMMA StoreInductive ==
  ASSUME Harmless
  PROVE  Spec => [](TypeInv /\ StoreInv)
<1>1. TypeInv /\ StoreInv /\ [Next]_vars => (TypeInv /\ StoreInv)'
  <2> SUFFICES ASSUME TypeInv, StoreInv, [Next]_vars PROVE (TypeInv /\ StoreInv)'
    OBVIOUS
  <2>1. CASE Next
    BY <2>1, TypeStep, StoreStep DEF Next
  <2>2. CASE UNCHANGED vars
    <3>1. TypeInv'
      BY <2>2 DEF vars, TypeInv, TypeOK, RoundsLeft
    <3>2. StoreInv'
      BY <2>2 DEF vars, StoreInv, KeysAgree, AcknowledgedIsKept, CopyAgrees, Compared, Creators
    <3> QED
      BY <3>1, <3>2
  <2> QED
    BY <2>1, <2>2
<1> QED
  BY TypeInit, StoreInit, <1>1, PTL DEF Spec

\* However many clients race between WATCH, GET and EXEC, and whatever fails, no
\* Persist overwrites what an earlier one has acknowledged.
THEOREM AcknowledgedStays ==
  ASSUME Harmless
  PROVE  Spec => []AcknowledgedIsKept
<1>1. StoreInv => AcknowledgedIsKept
  BY DEF StoreInv, KeysAgree
<1> QED
  BY StoreInductive, <1>1, PTL

\* A Persist that returns nil has stored its stream onto the version it was
\* loaded with.
THEOREM PersistComparesVersions ==
  ASSUME Harmless
  PROVE  Spec => StoredOnItsVersion
<1>1. ASSUME TypeInv, StoreInv, [Next]_vars, NEW c \in Clients,
             answer[c] # "stored", answer'[c] = "stored"
      PROVE  versionKey = PreviousVersion(stream[c])
  <2>1. answer \in [Clients -> {"none", "error", "stored"}]
    BY <1>1 DEF TypeInv, TypeOK
  <2>2. PICK d \in Clients : Step(d)
    BY <1>1 DEF Next, vars
  <2>3. StartOver(d) => answer'[c] # "stored"
    BY <1>1, <2>1 DEF StartOver
  <2>4. Exec(d)
    BY <1>1, <2>2, <2>3 DEF Step, Work, Fault, NewStream, Load, LoadMissing, MutateStream, Watch,
      Obtain, Get, GetFails, Compare, ExecAborted, ConnectionFails, ExecUnanswered
  <2>5. d = c
    BY <1>1, <2>1, <2>4 DEF Exec
  <2> QED
    BY <1>1, <2>4, <2>5 DEF Exec, StoreInv, Compared, PreviousVersion
<1>2. TypeInv /\ StoreInv /\ [Next]_vars =>
        [\A c \in Clients : answer[c] # "stored" /\ answer'[c] = "stored" =>
           versionKey = PreviousVersion(stream[c])]_vars
  BY <1>1
<1> QED
  BY StoreInductive, <1>2, PTL DEF Spec, StoredOnItsVersion

\* Each step leaves the stored stream alone or appends all the changes of one
\* Persist at its end: as the abstract log does in one step.
THEOREM PersistIsOneStep ==
  ASSUME Harmless
  PROVE  Spec => PersistIsAtomic
<1>1. ASSUME TypeInv, StoreInv, NEW c \in Clients, pc[c] = "exec", ~touched[c], SetBoth(c)
      PROVE  Promise!Append1(ID, c)
  <2> DEFINE k == Len(stream[c].changes)
  <2>1. k \in 1..MaxChanges
    BY <1>1, ExecAppends
  <2>2. stateKey'.state = stateKey.state \union Promise!Batch(ID, c, versionKey, k)
    BY <1>1, ExecAppends DEF Promise!Batch
  <2>3. versionKey \in {0} \union {e.version : e \in stateKey.state}
    BY <1>1 DEF StoreInv, KeysAgree
  <2>4. Promise!EndsAt(ID, versionKey)
    <3>1. stateKey \in Stored({ID}, Callers) /\ versionKey \in Nat
      BY <1>1 DEF TypeInv, TypeOK
    <3>2. \A e \in stateKey.state : e.streamID = ID /\ e.version <= versionKey
      BY <1>1, <3>1 DEF StoreInv, KeysAgree, Stored, Event
    <3> QED
      BY <1>1, <3>2 DEF StoreInv, KeysAgree, Promise!EndsAt
  <2> HIDE DEF k
  <2> QED
    BY <2>1, <2>2, <2>3, <2>4 DEF Promise!Append1
<1>2. ASSUME TypeInv, StoreInv, [Next]_vars
      PROVE  [\E c \in Callers : Promise!Append1(ID, c)]_(stateKey.state)
  <2>1. CASE UNCHANGED vars
    BY <2>1 DEF vars
  <2>2. ASSUME NEW c \in Clients, Step(c)
        PROVE  \/ stateKey' = stateKey
               \/ pc[c] = "exec" /\ ~touched[c] /\ SetBoth(c)
    BY <2>2 DEF Step, Work, Fault, NewStream, Load, LoadMissing, MutateStream, Watch, Obtain, Get,
      GetFails, Compare, Exec, ExecAborted, ConnectionFails, ExecUnanswered, server
  <2> QED
    BY <1>1, <1>2, <2>1, <2>2 DEF Next, Callers
<1> QED
  BY StoreInductive, <1>2, PTL DEF Spec, PersistIsAtomic
=============================================================================
