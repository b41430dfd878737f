----------------------------- MODULE CommandBus -----------------------------
(***************************************************************************)
(* Commands from callers to mutators in other processes, over one of the   *)
(* three command buses of pkg/commandbus.  They have the same course: the  *)
(* client encodes the command and sends it, a server decodes it, calls the *)
(* mutator's CommandSink and sends back the reply or the text of an error. *)
(* They differ in what can get lost and in when the client gives up:       *)
(*                                                                         *)
(*   nats  a queue group of servers that handle a message at a time; the   *)
(*         client waits for a limited time and then may return neither a   *)
(*         reply nor an error; the mark that tells an error from a reply   *)
(*         is not sent back                                                *)
(*   http  a goroutine for every request; the client waits for a limited   *)
(*         time, and notices a broken connection                           *)
(*   grpc  the same, without a limit unless the caller's context has one   *)
(*                                                                         *)
(* A caller sends its commands one after the other and repeats, as a new   *)
(* call, a command that it got no reply for.  The networks are external.   *)
(***************************************************************************)
EXTENDS Integers, Sequences, FiniteSets

CONSTANTS
  Transports,   \* those considered, of "nats", "http" and "grpc"
  Callers,
  Servers,
  CommandCount, \* the commands of each caller, numbered in order
  MaxCalls      \* bound: the calls made by all callers, repeats included

Calls == Callers \X (1..MaxCalls)

ASSUME ConstantsAssumption ==
  /\ Transports \subseteq {"nats", "http", "grpc"}
  /\ "none" \notin Servers
  /\ CommandCount \in Nat \ {0} /\ MaxCalls \in Nat \ {0}

VARIABLES
  transport,  \* the command bus
  attempt,    \* the number of each caller's latest call, 0 before the first
  goal,       \* the command each caller is at
  command,    \* the command of each call, 0 before it is made
  stage,      \* where each call is, see Stages
  server,     \* the server that handles it, or "none"
  log,        \* the mutator's stream: the calls that stored an event
  version,    \* the stream version in the reply to a call, 0 without a reply
  result      \* what the client returned

Stages ==
  {"new",       \* not made
   "asked",     \* the request is under way
   "serving",   \* a server handles it
   "executed",  \* CommandSink has returned a reply
   "failed",    \* the server has an error to report
   "replied",   \* the reply is under way
   "refused",   \* the text of an error is under way
   "over"}      \* nothing is under way

Results == {"none", "nothing", "error", "reply"}

caller == <<attempt, goal, command>>

vars == <<transport, caller, stage, server, log, version, result>>

Latest(c) == <<c, attempt[c]>>

-----------------------------------------------------------------------------
(***************************************************************************)
(* The caller and the client's CommandSink.                                *)
(***************************************************************************)
\* A caller is free when its latest call, if any, has returned.
Free(c) == attempt[c] > 0 => result[Latest(c)] # "none"

NoMoreCalls == Cardinality({k \in Calls : stage[k] # "new"}) >= MaxCalls

NextCall(c) ==
  /\ Free(c) /\ ~NoMoreCalls /\ goal[c] <= CommandCount
  /\ attempt' = [attempt EXCEPT ![c] = @ + 1]
  /\ command' = [command EXCEPT ![<<c, attempt[c] + 1>>] = goal[c]]

Call(c) ==
  /\ NextCall(c)
  /\ stage' = [stage EXCEPT ![<<c, attempt[c] + 1>>] = "asked"]
  /\ UNCHANGED <<transport, goal, server, log, version, result>>

\* The command does not encode, there is no connection, or no request.
CallFails(c) ==
  /\ NextCall(c)
  /\ stage' = [stage EXCEPT ![<<c, attempt[c] + 1>>] = "over"]
  /\ result' = [result EXCEPT ![<<c, attempt[c] + 1>>] = "error"]
  /\ UNCHANGED <<transport, goal, server, log, version>>

Waiting(k) == stage[k] # "new" /\ result[k] = "none"

Return(k, r) ==
  /\ Waiting(k)
  /\ result' = [result EXCEPT ![k] = r]
  /\ UNCHANGED <<transport, attempt, command, server, log, version>>

\* The answer says that it is an error: a status, or a field of the response.
\* The nats server marks the header of the request, and sends back none.
Marked(k) == stage[k] = "refused" /\ transport \in {"http", "grpc"}

\* Mutant: whatever comes back is taken for a reply
AnyReply(k) == stage[k] \in {"replied", "refused"}

\* Only a reply decodes as one: the text of an error has no magic number.
Decodes(k) == stage[k] = "replied"

ReceiveReply(k) ==
  /\ Decodes(k) /\ ~Marked(k)
  /\ Return(k, "reply")
  /\ stage' = [stage EXCEPT ![k] = "over"]
  /\ goal' = [goal EXCEPT ![k[1]] = @ + 1]

ReceiveError(k) ==
  /\ stage[k] \in {"replied", "refused"}
  /\ Marked(k) \/ ~Decodes(k)
  /\ Return(k, "error")
  /\ stage' = [stage EXCEPT ![k] = "over"]
  /\ UNCHANGED goal

\* Mutant: the caller, who got no error, goes on
TimeOutUnnoticed(k) ==
  /\ transport \in {"nats", "http"}
  /\ \E r \in IF transport = "nats" THEN {"nothing", "error"} ELSE {"error"} :
       /\ Return(k, r)
       /\ goal' = [goal EXCEPT ![k[1]] = IF r = "nothing" THEN @ + 1 ELSE @]
  /\ UNCHANGED stage

\* The nats client returns the connection's last error, if there is any.  The
\* request, the server and the answer are left to themselves.
TimeOut(k) ==
  /\ transport \in {"nats", "http"}
  /\ \E r \in IF transport = "nats" THEN {"nothing", "error"} ELSE {"error"} : Return(k, r)
  /\ UNCHANGED <<stage, goal>>

\* The connection breaks, or the context is cancelled; the server goes on.
BreakOff(k) ==
  /\ transport \in {"http", "grpc"}
  /\ Return(k, "error")
  /\ UNCHANGED <<stage, goal>>

-----------------------------------------------------------------------------
(***************************************************************************)
(* The server.                                                             *)
(***************************************************************************)
AtServer(v) == {k \in Calls : server[k] = v}

\* The call leaves its server, if it was at one, or stays there.
Leave(k, place) ==
  /\ stage' = [stage EXCEPT ![k] = place]
  /\ server' = [server EXCEPT ![k] = "none"]

Stay(k, place) ==
  /\ stage' = [stage EXCEPT ![k] = place]
  /\ UNCHANGED server

\* Mutant: each server of the group gets the message
DeliverToAll(v, k) ==
  /\ stage[k] \in {"asked", "replied"}
  /\ transport = "nats" => AtServer(v) = {}
  /\ stage' = [stage EXCEPT ![k] = "serving"]
  /\ server' = [server EXCEPT ![k] = v]
  /\ UNCHANGED <<transport, caller, log, version, result>>

Deliver(v, k) ==
  /\ stage[k] = "asked"
  /\ transport = "nats" => AtServer(v) = {}
  /\ stage' = [stage EXCEPT ![k] = "serving"]
  /\ server' = [server EXCEPT ![k] = v]
  /\ UNCHANGED <<transport, caller, log, version, result>>

DecodeFails(k) ==
  /\ stage[k] = "serving"
  /\ Stay(k, "failed")
  /\ UNCHANGED <<transport, caller, log, version, result>>

\* Mutator.CommandSink, see module Mutator, of a command that changes the
\* stream: an event is stored and its version returned.
CommandSink(k) ==
  /\ stage[k] = "serving"
  /\ log' = Append(log, k)
  /\ version' = [version EXCEPT ![k] = Len(log) + 1]
  /\ Stay(k, "executed")
  /\ UNCHANGED <<transport, caller, result>>

\* The command is refused, or fails after its event has been stored.
CommandSinkFails(k) ==
  /\ stage[k] = "serving"
  /\ log' \in {log, Append(log, k)}
  /\ Stay(k, "failed")
  /\ UNCHANGED <<transport, caller, version, result>>

MarshalFails(k) ==
  /\ stage[k] = "executed"
  /\ Stay(k, "failed")
  /\ version' = [version EXCEPT ![k] = 0]
  /\ UNCHANGED <<transport, caller, log, result>>

\* Mutant: the server writes the reply and goes on
WriteAndGoOn(k) ==
  /\ stage[k] = "executed"
  /\ Stay(k, "replied")
  /\ UNCHANGED <<transport, caller, log, version, result>>

Write(k) ==
  /\ stage[k] = "executed"
  /\ Leave(k, "replied")
  /\ UNCHANGED <<transport, caller, log, version, result>>

\* Mutant: the server forgets to answer
WriteErrorOnly(k) ==
  /\ stage[k] = "failed"
  /\ UNCHANGED <<transport, caller, stage, server, log, version, result>>

WriteError(k) ==
  /\ stage[k] = "failed"
  /\ Leave(k, "refused")
  /\ UNCHANGED <<transport, caller, log, version, result>>

-----------------------------------------------------------------------------
\* A message of the network is lost.
Lose(k) ==
  /\ stage[k] \in {"asked", "replied", "refused"}
  /\ Stay(k, "over")
  /\ version' = [version EXCEPT ![k] = 0]
  /\ UNCHANGED <<transport, caller, log, result>>

\* The process of a server dies and is started again.
Crash(v) ==
  /\ AtServer(v) # {}
  /\ stage' = [k \in Calls |-> IF k \in AtServer(v) THEN "over" ELSE stage[k]]
  /\ server' = [k \in Calls |-> IF k \in AtServer(v) THEN "none" ELSE server[k]]
  /\ version' = [k \in Calls |-> IF k \in AtServer(v) THEN 0 ELSE version[k]]
  /\ UNCHANGED <<transport, caller, log, result>>

Init ==
  /\ transport \in Transports
  /\ attempt = [c \in Callers |-> 0]
  /\ goal = [c \in Callers |-> 1]
  /\ command = [k \in Calls |-> 0]
  /\ stage = [k \in Calls |-> "new"]
  /\ server = [k \in Calls |-> "none"]
  /\ log = <<>>
  /\ version = [k \in Calls |-> 0]
  /\ result = [k \in Calls |-> "none"]

Client(k) == ReceiveReply(k) \/ ReceiveError(k) \/ TimeOut(k)

HandleMsg(k) == DecodeFails(k) \/ CommandSink(k) \/ CommandSinkFails(k) \/ MarshalFails(k)

Answer(k) == Write(k) \/ WriteError(k)

Handle(k) == HandleMsg(k) \/ Answer(k)

Next ==
  \/ \E c \in Callers : Call(c) \/ CallFails(c)
  \/ \E k \in Calls : Client(k) \/ BreakOff(k) \/ Handle(k) \/ Lose(k)
  \/ \E v \in Servers : Crash(v)
  \/ \E v \in Servers, k \in Calls : Deliver(v, k)

Spec == Init /\ [][Next]_vars

\* Something goes on as long as it can: clients and servers run, messages that
\* are not lost arrive, time limits pass, and a client notices when nothing is
\* left to come over its connection.  No message has to be lost and no server
\* has to fail.
Running ==
  \/ \E c \in Callers : Call(c)
  \/ \E k \in Calls : Client(k) \/ Handle(k) \/ (stage[k] = "over" /\ BreakOff(k))
  \/ \E v \in Servers, k \in Calls : Deliver(v, k)

FairSpec == Spec /\ WF_vars(Running)

-----------------------------------------------------------------------------
TypeOK ==
  /\ transport \in Transports
  /\ attempt \in [Callers -> 0..MaxCalls]
  /\ goal \in [Callers -> 1..CommandCount+1]
  /\ command \in [Calls -> 0..CommandCount]
  /\ stage \in [Calls -> Stages]
  /\ server \in [Calls -> Servers \union {"none"}]
  /\ log \in Seq(Calls)
  /\ version \in [Calls -> Nat]
  /\ result \in [Calls -> Results]
  /\ \A k \in Calls : server[k] # "none" <=> stage[k] \in {"serving", "executed", "failed"}

\* Whatever is lost, late or repeated, each call takes effect at most once, and
\* a reply carries the version of the event that its own call has stored.
Service == INSTANCE CommandService WITH
  made <- {k \in Calls : stage[k] # "new"},
  answer <- [k \in Calls |-> CASE result[k] = "none"  -> "none"
                               [] result[k] = "reply" -> "reply"
                               [] OTHER               -> "failure"],
  version <- [k \in Calls |-> IF result[k] = "reply" THEN version[k] ELSE 0]

ImplementsCommandService == Service!Spec

Executions(c, n) == {i \in DOMAIN log : log[i][1] = c /\ command[log[i]] = n}

Unanswered(c, n) ==
  {k \in Calls : k[1] = c /\ command[k] = n /\ result[k] \in {"nothing", "error"}}

\* A command is executed again only because its caller has repeated it: once
\* more, at most, than it was told of a failure or told nothing.
DuplicatesAreRepeats ==
  \A c \in Callers, n \in 1..CommandCount :
    Cardinality(Executions(c, n)) <= 1 + Cardinality(Unanswered(c, n))

\* A caller's commands are first executed in the order in which it gave them,
\* and none is left out, though single calls are answered late or not at all.
FirstExecutionsInOrder ==
  \A c \in Callers, n \in 2..CommandCount :
    \A i \in Executions(c, n) : \E j \in Executions(c, n - 1) : j < i

\* Every call returns, over grpc without any limit on its time: each caller
\* gets through its commands, unless the calls run out.
EveryCallReturns ==
  <>(\A c \in Callers : Free(c) /\ (goal[c] > CommandCount \/ NoMoreCalls))
=============================================================================
