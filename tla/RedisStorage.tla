---------------------------- MODULE RedisStorage ----------------------------
(***************************************************************************)
(* The redis storage of pkg/storage/redis/storage.go, one redis command    *)
(* per step.                                                               *)
(*                                                                         *)
(* A stream has two keys, its version and its encoded state.  Persist      *)
(* watches the version key, reads it, compares it with the version the     *)
(* stream was loaded with, and sets both keys in a transaction that redis  *)
(* aborts when the version key has been written since the watch.           *)
(*                                                                         *)
(* The clients run the loop of tests/storage/redis_test.go                 *)
(* (TestPersistWithConcurrency): get a stream, mutate it, persist it, and  *)
(* start over when Persist fails.                                          *)
(***************************************************************************)
EXTENDS Streams, FiniteSets

CONSTANTS
  Clients,      \* the callers of the storage, each on a connection of its own
  Setup,        \* the call that may have stored the stream beforehand
  ID,           \* the stream; keys of different streams never meet
  MaxChanges,   \* bound: changes per call
  Deployments   \* the circumstances the clients may find, see below

Callers == Clients \union {Setup}

\* Which clients start from NewStream, where the others load the stream;
\* whether Setup has run; what may fail; and, as bounds, the rounds of a
\* client and the changes it makes in each.
Deployment ==
  [creators : SUBSET Clients, preloaded : BOOLEAN, faults : SUBSET {"connection", "get"},
   rounds : Nat \ {0}, changes : 1..MaxChanges]

ASSUME ConstantsAssumption ==
  /\ Setup \notin Clients
  /\ MaxChanges \in Nat \ {0}
  /\ Deployments \subseteq Deployment

VARIABLES
  deployment,    \* one of Deployments, throughout
  versionKey,    \* gs.v.<name><id>; 0 when missing
  stateKey,      \* gs.s.<name><id>
  pc,            \* "start", "mutate", "get", "exec", "done"
  stream,        \* the client's copy
  touched,       \* whether redis has seen a write to a client's watched key
  attempts,      \* failed rounds
  answer,        \* the answer of the client's last Persist
  acknowledged   \* history: the events whose Persist returned nil

vars == <<deployment, versionKey, stateKey, pc, stream, touched, attempts, answer, acknowledged>>

server == <<versionKey, stateKey, acknowledged>>

Creators == deployment.creators

MayFail(what) == what \in deployment.faults

First == Mutate(Blank(ID), Setup)

-----------------------------------------------------------------------------
\* Mutant: the client of a conflict does not try again
GiveUp(c) ==
  /\ attempts' = [attempts EXCEPT ![c] = @ + 1]
  /\ pc' = [pc EXCEPT ![c] = "done"]
  /\ answer' = [answer EXCEPT ![c] = "error"]

\* A failed call: the client starts over, while it has rounds left.
StartOver(c) ==
  /\ attempts' = [attempts EXCEPT ![c] = @ + 1]
  /\ pc' = [pc EXCEPT ![c] = IF attempts'[c] < deployment.rounds THEN "start" ELSE "done"]
  /\ answer' = [answer EXCEPT ![c] = "error"]

Obtain(c) ==
  /\ pc[c] = "start"
  /\ pc' = [pc EXCEPT ![c] = "mutate"]
  /\ UNCHANGED <<deployment, server, touched, attempts, answer>>

NewStream(c) ==
  /\ c \in Creators
  /\ Obtain(c)
  /\ stream' = [stream EXCEPT ![c] = Blank(ID)]

Load(c) ==
  /\ c \notin Creators
  /\ stateKey # Absent
  /\ Obtain(c)
  /\ stream' = [stream EXCEPT ![c] = Unmarshal(ID, stateKey)]

\* a missing key reads as no data, which does not decode
LoadMissing(c) ==
  /\ c \notin Creators
  /\ pc[c] = "start"
  /\ stateKey = Absent
  /\ StartOver(c)
  /\ UNCHANGED <<deployment, server, stream, touched>>

MutateStream(c) ==
  /\ pc[c] = "mutate"
  /\ Len(stream[c].changes) < deployment.changes
  /\ stream' = [stream EXCEPT ![c] = Mutate(@, c)]
  /\ UNCHANGED <<deployment, server, pc, touched, attempts, answer>>

-----------------------------------------------------------------------------
(***************************************************************************)
(* Persist: WATCH, GET, MULTI ... EXEC.                                    *)
(***************************************************************************)
Watch(c) ==
  /\ pc[c] = "mutate"
  /\ stream[c].changes # <<>>
  /\ touched' = [touched EXCEPT ![c] = FALSE]
  /\ pc' = [pc EXCEPT ![c] = "get"]
  /\ UNCHANGED <<deployment, server, stream, attempts, answer>>

\* Mutant: only "already exists" is checked
AlreadyExists(c, currentVersion) == currentVersion > Version(stream[c])

Mismatch(c, currentVersion) ==
  \/ currentVersion > Version(stream[c])
  \/ currentVersion # PreviousVersion(stream[c])

Compare(c, currentVersion) ==
  /\ IF Mismatch(c, currentVersion)
     THEN StartOver(c)
     ELSE pc' = [pc EXCEPT ![c] = "exec"] /\ UNCHANGED <<attempts, answer>>
  /\ UNCHANGED <<deployment, server, stream, touched>>

Get(c) ==
  /\ pc[c] = "get"
  /\ Compare(c, versionKey)

\* Val() drops the error of a failed GET: the version reads as 0.
GetFails(c) ==
  /\ pc[c] = "get"
  /\ MayFail("get")
  /\ Compare(c, 0)

SetBoth(c) ==
  /\ versionKey' = Version(stream[c])
  /\ stateKey' = Marshal(stream[c])
  /\ touched' = [o \in Clients |-> TRUE]

Exec(c) ==
  /\ pc[c] = "exec"
  /\ ~touched[c]
  /\ SetBoth(c)
  /\ pc' = [pc EXCEPT ![c] = "done"]
  /\ answer' = [answer EXCEPT ![c] = "stored"]
  /\ acknowledged' = acknowledged \union Changes(stream[c])
  /\ UNCHANGED <<deployment, stream, attempts>>

\* TxFailedErr is not redis.Nil: it reaches the caller.
ExecAborted(c) ==
  /\ pc[c] = "exec"
  /\ touched[c]
  /\ StartOver(c)
  /\ UNCHANGED <<deployment, server, stream, touched>>

\* The connection fails before a command takes effect, or EXEC takes effect
\* and its answer is lost.  Either way Load or Persist returns an error.
ConnectionFails(c) ==
  /\ MayFail("connection")
  /\ pc[c] \in {"start", "mutate", "get", "exec"}
  /\ StartOver(c)
  /\ UNCHANGED <<deployment, server, stream, touched>>

ExecUnanswered(c) ==
  /\ MayFail("connection")
  /\ pc[c] = "exec"
  /\ ~touched[c]
  /\ SetBoth(c)
  /\ StartOver(c)
  /\ UNCHANGED <<deployment, stream, acknowledged>>

-----------------------------------------------------------------------------
Init ==
  /\ deployment \in Deployments
  /\ IF deployment.preloaded
     THEN versionKey = Version(First) /\ stateKey = Marshal(First) /\ acknowledged = Changes(First)
     ELSE versionKey = 0 /\ stateKey = Absent /\ acknowledged = {}
  /\ pc = [c \in Clients |-> "start"]
  /\ stream = [c \in Clients |-> Blank(ID)]
  /\ touched = [c \in Clients |-> FALSE]
  /\ attempts = [c \in Clients |-> 0]
  /\ answer = [c \in Clients |-> "none"]

Work(c) ==
  \/ NewStream(c) \/ Load(c) \/ LoadMissing(c) \/ MutateStream(c)
  \/ Watch(c) \/ Get(c) \/ Exec(c) \/ ExecAborted(c)

Fault(c) == GetFails(c) \/ ConnectionFails(c) \/ ExecUnanswered(c)

Step(c) == Work(c) \/ Fault(c)

Next == \E c \in Clients : Step(c)

Spec == Init /\ [][Next]_vars

\* Goroutines are scheduled and the server answers; no fault ever has to happen.
FairSpec == Spec /\ \A c \in Clients : WF_vars(Work(c))

-----------------------------------------------------------------------------
TypeOK ==
  /\ deployment \in Deployments
  /\ versionKey \in Nat
  /\ stateKey \in Stored({ID}, Callers)
  /\ acknowledged \subseteq Event({ID}, Callers)
  /\ pc \in [Clients -> {"start", "mutate", "get", "exec", "done"}]
  /\ stream \in [Clients -> Stream({ID}, Callers)]
  /\ touched \in [Clients -> BOOLEAN]
  /\ attempts \in [Clients -> 0..deployment.rounds]
  /\ answer \in [Clients -> {"none", "error", "stored"}]

\* What Persist acknowledged stays in the stream: no later Persist, however it
\* raced between its WATCH, GET and EXEC, overwrites it.
AcknowledgedIsKept == acknowledged \subseteq stateKey.state

\* Persist stores a stream only onto the version it was loaded with, though it
\* compares at GET and stores at EXEC: otherwise it returns an error that says
\* "mismatch stream version" or "already exists".
StoredOnItsVersion ==
  [][\A c \in Clients : answer[c] # "stored" /\ answer'[c] = "stored" =>
       versionKey = PreviousVersion(stream[c])]_vars

\* The abstract specification; a storage publishes nothing, so the feed is empty.
Promise == INSTANCE EventSourcing WITH
  IDs <- {ID}, Causes <- Callers, MaxBatch <- MaxChanges,
  log <- stateKey.state, feed <- <<>>

\* The stored stream grows only at its end and by all the changes of a Persist
\* at once, though WATCH, GET and EXEC are steps of their own: every step of a
\* client is a step of the abstract log or leaves it alone, from whatever
\* deployment it starts.
PersistIsAtomic == [][\E c \in Callers : Promise!Append1(ID, c)]_(stateKey.state)

\* A client that keeps retrying gets its changes stored: a Persist fails only
\* because another one succeeded, so nobody runs out of rounds.
EveryoneStores ==
  Creators = {} /\ deployment.faults = {} => <>(\A c \in Clients : answer[c] = "stored")
=============================================================================
