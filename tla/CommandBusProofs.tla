-------------------------- MODULE CommandBusProofs --------------------------
(***************************************************************************)
(* Every command bus implements CommandService: for any number of callers, *)
(* servers and calls, whichever messages are lost, and whenever clients    *)
(* give up and servers crash.                                              *)
(***************************************************************************)
EXTENDS CommandBus, FiniteSetTheorems, TLAPS

BusType ==
  /\ transport \in Transports
  /\ attempt \in [Callers -> Nat]
  /\ stage \in [Calls -> Stages]
  /\ server \in [Calls -> Servers \union {"none"}]
  /\ log \in Seq(Calls)
  /\ version \in [Calls -> Nat]
  /\ result \in [Calls -> Results]

Executed(k) == version[k] \in DOMAIN log /\ log[version[k]] = k

\* The course of a call: the callers number their calls without a gap; nothing
\* is executed before a server has it; what a reply under way says is true; and
\* nothing more happens to a call that was answered with a reply.
Course(k) ==
  /\ stage[k] = "new" <=> attempt[k[1]] < k[2]
  /\ stage[k] = "new" => result[k] = "none"
  /\ server[k] # "none" <=> stage[k] \in {"serving", "executed", "failed"}
  /\ stage[k] \in {"new", "asked", "serving"} => \A i \in DOMAIN log : log[i] # k
  /\ stage[k] \in {"executed", "replied"} => Executed(k)
  /\ result[k] = "reply" => stage[k] = "over"

BusInv == BusType /\ \A k \in Calls : Course(k)

LEMMA CallFields ==
  ASSUME NEW k \in Calls
  PROVE  /\ k[1] \in Callers /\ k[2] \in Nat /\ k = <<k[1], k[2]>>
         /\ \A c \in Callers, n \in Nat : k = <<c, n>> <=> k[1] = c /\ k[2] = n
  BY ConstantsAssumption DEF Calls

LEMMA BusInit == Init => BusInv
<1> SUFFICES ASSUME Init PROVE BusInv
  OBVIOUS
<1>1. BusType
  BY DEF Init, BusType, Stages, Results
<1>2. ASSUME NEW k \in Calls PROVE Course(k)
  <2>1. 0 < k[2]
    BY ConstantsAssumption DEF Calls
  <2> QED
    BY <2>1, CallFields DEF Init, Course
<1> QED
  BY <1>1, <1>2 DEF BusInv

\* The steps that touch one call which was made, and leave the log alone
LEMMA CourseOfOne ==
  ASSUME BusInv, NEW k \in Calls, BusType', Course(k)', UNCHANGED <<attempt, log>>,
         \A j \in Calls \ {k} : /\ stage'[j] = stage[j] /\ server'[j] = server[j]
                                /\ version'[j] = version[j] /\ result'[j] = result[j]
  PROVE  BusInv'
  BY DEF BusInv, Course, Executed

LEMMA BusStep ==
  ASSUME BusInv, [Next]_vars
  PROVE  BusInv'
<1> USE DEF BusInv, BusType, caller
<1>1. ASSUME NEW c \in Callers, Call(c) \/ CallFails(c)
      PROVE  BusInv'
  <2> DEFINE k == <<c, attempt[c] + 1>>
  <2>1. /\ attempt' = [attempt EXCEPT ![c] = @ + 1] /\ UNCHANGED <<transport, server, log, version>>
        /\ \/ stage' = [stage EXCEPT ![k] = "asked"] /\ result' = result
           \/ /\ stage' = [stage EXCEPT ![k] = "over"]
              /\ result' = [result EXCEPT ![k] = "error"]
    BY <1>1 DEF Call, CallFails, NextCall
  <2>2. BusType'
    <3> HIDE DEF k
    <3>1. attempt' \in [Callers -> Nat]
      BY <2>1
    <3>2. stage' \in [Calls -> Stages]
      BY <2>1 DEF Stages
    <3>3. result' \in [Calls -> Results]
      BY <2>1 DEF Results
    <3> QED
      BY <2>1, <3>1, <3>2, <3>3
  <2>3. ASSUME NEW j \in Calls PROVE Course(j)'
    <3>1. j[1] \in Callers /\ j[2] \in Nat /\ attempt[c] \in Nat /\ Course(j)
      BY CallFields
    <3>2. CASE j = k
      <4>1. j[1] = c /\ j[2] = attempt[c] + 1 /\ attempt'[c] = attempt[c] + 1
        BY <2>1, <3>2
      <4>2. stage[j] = "new"
        BY <3>1, <4>1 DEF Course
      <4>3. stage'[j] \in {"asked", "over"} /\ result'[j] \in {"none", "error"}
        BY <2>1, <3>1, <3>2, <4>2 DEF Course
      <4> QED
        BY <2>1, <3>1, <4>1, <4>2, <4>3 DEF Course
    <3>3. CASE j # k
      <4>1. /\ stage'[j] = stage[j] /\ result'[j] = result[j] /\ server'[j] = server[j]
            /\ version'[j] = version[j] /\ log' = log
        BY <2>1, <3>3
      <4>2. attempt'[j[1]] < j[2] <=> attempt[j[1]] < j[2]
        <5>1. CASE j[1] = c
          <6>1. j[2] # attempt[c] + 1
            BY <3>1, <3>3, <5>1, CallFields
          <6> QED
            BY <2>1, <3>1, <5>1, <6>1
        <5>2. CASE j[1] # c
          BY <2>1, <3>1, <5>2
        <5> QED
          BY <5>1, <5>2
      <4> QED
        BY <3>1, <4>1, <4>2 DEF Course, Executed
    <3> QED
      BY <3>2, <3>3
  <2> QED
    BY <2>2, <2>3
<1>2. ASSUME NEW k \in Calls, Client(k) \/ BreakOff(k)
      PROVE  BusInv'
  <2>1. /\ UNCHANGED <<transport, attempt, server, log, version>> /\ stage[k] # "new"
        /\ \E r \in Results : /\ result' = [result EXCEPT ![k] = r]
                              /\ r = "reply" => stage'[k] = "over"
        /\ \/ stage' = stage
           \/ stage[k] \in {"replied", "refused"} /\ stage' = [stage EXCEPT ![k] = "over"]
    BY <1>2 DEF Client, ReceiveReply, ReceiveError, TimeOut, BreakOff, Return, Waiting, Decodes,
                Results
  <2>2. BusType'
    BY <2>1 DEF Stages
  <2>3. Course(k)'
    BY <2>1 DEF Course, Executed
  <2> QED
    BY <2>1, <2>2, <2>3, CourseOfOne
<1>3. ASSUME NEW v \in Servers, NEW k \in Calls, Deliver(v, k)
      PROVE  BusInv'
  <2>1. /\ UNCHANGED <<transport, attempt, log, version, result>>
        /\ stage[k] = "asked" /\ stage' = [stage EXCEPT ![k] = "serving"]
        /\ server' = [server EXCEPT ![k] = v] /\ v # "none"
    BY <1>3, ConstantsAssumption DEF Deliver
  <2>2. BusType'
    BY <2>1 DEF Stages
  <2>3. Course(k)'
    BY <2>1 DEF Course
  <2> QED
    BY <2>1, <2>2, <2>3, CourseOfOne
<1>4. ASSUME NEW k \in Calls,
             DecodeFails(k) \/ MarshalFails(k) \/ Write(k) \/ WriteError(k) \/ Lose(k)
      PROVE  BusInv'
  <2>1. /\ UNCHANGED <<transport, attempt, log, result>> /\ stage[k] # "new"
        /\ \/ /\ stage[k] = "serving" /\ stage' = [stage EXCEPT ![k] = "failed"]
              /\ UNCHANGED <<server, version>>
           \/ /\ stage[k] = "executed" /\ stage' = [stage EXCEPT ![k] = "failed"]
              /\ UNCHANGED server /\ version' = [version EXCEPT ![k] = 0]
           \/ /\ stage[k] = "executed" /\ stage' = [stage EXCEPT ![k] = "replied"]
              /\ UNCHANGED version /\ server' = [server EXCEPT ![k] = "none"]
           \/ /\ stage[k] = "failed" /\ stage' = [stage EXCEPT ![k] = "refused"]
              /\ UNCHANGED version /\ server' = [server EXCEPT ![k] = "none"]
           \/ /\ stage[k] \in {"asked", "replied", "refused"}
              /\ stage' = [stage EXCEPT ![k] = "over"]
              /\ UNCHANGED server /\ version' = [version EXCEPT ![k] = 0]
    BY <1>4 DEF DecodeFails, MarshalFails, Write, WriteError, Lose, Stay, Leave
  <2>2. BusType'
    <3>1. stage' \in [Calls -> Stages]
      BY <2>1 DEF Stages
    <3>2. server' \in [Calls -> Servers \union {"none"}]
      BY <2>1
    <3>3. version' \in [Calls -> Nat]
      BY <2>1
    <3> QED
      BY <2>1, <3>1, <3>2, <3>3
  <2>3. Course(k)'
    BY <2>1 DEF Course, Executed
  <2>4. \A j \in Calls \ {k} : /\ stage'[j] = stage[j] /\ server'[j] = server[j]
                               /\ version'[j] = version[j] /\ result'[j] = result[j]
    BY <2>1
  <2> QED
    BY <2>1, <2>2, <2>3, <2>4, CourseOfOne
<1>5. ASSUME NEW k \in Calls, CommandSink(k) \/ CommandSinkFails(k)
      PROVE  BusInv'
  <2>1. /\ stage[k] = "serving" /\ UNCHANGED <<transport, attempt, server, result>>
        /\ \/ /\ log' = Append(log, k) /\ version' = [version EXCEPT ![k] = Len(log) + 1]
              /\ stage' = [stage EXCEPT ![k] = "executed"]
           \/ /\ log' \in {log, Append(log, k)} /\ UNCHANGED version
              /\ stage' = [stage EXCEPT ![k] = "failed"]
    BY <1>5 DEF CommandSink, CommandSinkFails, Stay
  <2>2. /\ Len(log) \in Nat /\ DOMAIN log = 1..Len(log) /\ log' \in Seq(Calls)
        /\ log' = Append(log, k) => /\ DOMAIN log' = 1..(Len(log) + 1) /\ log'[Len(log) + 1] = k
                                    /\ \A i \in 1..Len(log) : log'[i] = log[i]
    <3> DEFINE C == Calls
    <3>1. log \in Seq(C) /\ k \in C
      OBVIOUS
    <3> HIDE DEF C
    <3>2. /\ Len(log) \in Nat /\ DOMAIN log = 1..Len(log) /\ Append(log, k) \in Seq(C)
          /\ DOMAIN Append(log, k) = 1..(Len(log) + 1) /\ Append(log, k)[Len(log) + 1] = k
          /\ \A i \in 1..Len(log) : Append(log, k)[i] = log[i]
      BY <3>1
    <3> QED
      BY <2>1, <3>1, <3>2 DEF C
  <2>3. BusType'
    <3>1. version' \in [Calls -> Nat]
      BY <2>1, <2>2
    <3>2. stage' \in [Calls -> Stages]
      BY <2>1 DEF Stages
    <3> QED
      BY <2>1, <2>2, <3>1, <3>2
  <2>4. Course(k)'
    BY <2>1, <2>2 DEF Course, Executed
  <2>5. ASSUME NEW j \in Calls \ {k} PROVE Course(j)'
    <3>1. /\ stage'[j] = stage[j] /\ server'[j] = server[j]
          /\ version'[j] = version[j] /\ result'[j] = result[j] /\ attempt' = attempt
      BY <2>1
    <3>2. \A i \in DOMAIN log' : log'[i] = j => i \in DOMAIN log /\ log[i] = j
      BY <2>1, <2>2
    <3>3. \A i \in DOMAIN log : i \in DOMAIN log' /\ log'[i] = log[i]
      BY <2>1, <2>2
    <3> QED
      BY <3>1, <3>2, <3>3 DEF Course, Executed
  <2> QED
    BY <2>3, <2>4, <2>5
<1>6. ASSUME NEW v \in Servers, Crash(v)
      PROVE  BusInv'
  <2>1. BusType'
    BY <1>6 DEF Crash, Stages
  <2>2. v # "none"
    BY ConstantsAssumption
  <2>3. ASSUME NEW k \in Calls PROVE Course(k)'
    <3>1. CASE server[k] = v
      <4>1. stage[k] \in {"serving", "executed", "failed"}
        BY <2>2, <3>1 DEF Course
      <4> QED
        BY <1>6, <3>1, <4>1 DEF Crash, AtServer, Course
    <3>2. CASE server[k] # v
      BY <1>6, <3>2 DEF Crash, AtServer, Course, Executed
    <3> QED
      BY <3>1, <3>2
  <2> QED
    BY <2>1, <2>3
<1>7. CASE UNCHANGED vars
  BY <1>7 DEF vars, Course, Executed
<1> QED
  BY <1>1, <1>2, <1>3, <1>4, <1>5, <1>6, <1>7 DEF Next, Handle, HandleMsg, Answer

LEMMA BusInductive == Spec => []BusInv
  BY BusInit, BusStep, PTL DEF Spec

-----------------------------------------------------------------------------
(***************************************************************************)
(* The refinement mapping, step by step.                                   *)
(***************************************************************************)
Made == {k \in Calls : stage[k] # "new"}

Answered == [k \in Calls |-> CASE result[k] = "none"  -> "none"
                               [] result[k] = "reply" -> "reply"
                               [] OTHER               -> "failure"]

Told == [k \in Calls |-> IF result[k] = "reply" THEN version[k] ELSE 0]

LEMMA ServiceInit == Init => Service!Init
  BY DEF Init, Service!Init

\* A step on calls that are already made, which changes no answer and no
\* version that was told
LEMMA ServiceStutters ==
  ASSUME UNCHANGED <<log, result>>, \A k \in Calls : stage'[k] = "new" <=> stage[k] = "new",
         \A k \in Calls : result[k] = "reply" => version'[k] = version[k]
  PROVE  UNCHANGED Service!vars
<1>1. Made' = Made /\ Answered' = Answered /\ Told' = Told
  BY DEF Made, Answered, Told
<1> QED
  BY <1>1 DEF Service!vars, Made, Answered, Told

\* Call(c), CallFails(c): the call is made; or, past the last call, nothing.
LEMMA ServiceMakes ==
  ASSUME BusInv, NEW c \in Callers, Call(c) \/ CallFails(c)
  PROVE  [Service!Next]_Service!vars
<1> DEFINE next == <<c, attempt[c] + 1>>
<1>1. /\ UNCHANGED <<log, version>>
      /\ \/ stage' = [stage EXCEPT ![next] = "asked"] /\ result' = result
         \/ /\ stage' = [stage EXCEPT ![next] = "over"]
            /\ result' = [result EXCEPT ![next] = "error"]
  BY DEF Call, CallFails, NextCall, caller
<1>2. stage \in [Calls -> Stages] /\ result \in [Calls -> Results]
  BY DEF BusInv, BusType
<1>3. ASSUME NEW k \in Calls, k = next
      PROVE  Service!Next
  <2>1. k[1] = c /\ k[2] = attempt[c] + 1 /\ attempt[c] \in Nat /\ Course(k)
    BY <1>3 DEF BusInv, BusType
  <2>2. stage[k] = "new" /\ result[k] = "none"
    BY <2>1 DEF Course
  <2> HIDE DEF next
  <2>3. k \notin Made /\ Made' = Made \union {k}
    BY <1>1, <1>2, <1>3, <2>2 DEF Made
  <2>4. Answered' \in {Answered, [Answered EXCEPT ![k] = "failure"]}
    <3>1. CASE result' = result
      BY <3>1 DEF Answered
    <3>2. CASE result' = [result EXCEPT ![k] = "error"]
      BY <1>2, <1>3, <3>2 DEF Answered
    <3> QED
      BY <1>1, <1>3, <3>1, <3>2
  <2>5. Told' = Told
    BY <1>1, <1>2, <1>3, <2>2 DEF Told
  <2>6. Service!Make(k)
    BY <1>1, <2>3, <2>4, <2>5 DEF Service!Make, Made, Answered, Told
  <2> QED
    BY <2>6 DEF Service!Next
<1>4. CASE next \notin Calls
  <2> HIDE DEF next
  <2>1. stage' = stage /\ result' = result
    BY <1>1, <1>2, <1>4
  <2> QED
    BY <1>1, <2>1, ServiceStutters
<1> QED
  BY <1>3, <1>4

\* The client returns: the call is answered with its own reply, or it fails.
LEMMA ServiceAnswers ==
  ASSUME BusInv, NEW k \in Calls, Client(k) \/ BreakOff(k)
  PROVE  Service!Next
<1>1. /\ UNCHANGED <<log, version>> /\ stage[k] # "new" /\ result[k] = "none"
      /\ stage' = stage \/ stage' = [stage EXCEPT ![k] = "over"]
  BY DEF Client, ReceiveReply, ReceiveError, TimeOut, BreakOff, Return, Waiting
<1>2. stage \in [Calls -> Stages] /\ result \in [Calls -> Results]
  BY DEF BusInv, BusType
<1>3. k \in Made /\ Made' = Made /\ Answered[k] = "none"
  BY <1>1, <1>2 DEF Made, Answered
<1>4. CASE ReceiveReply(k)
  <2>1. result' = [result EXCEPT ![k] = "reply"] /\ stage[k] = "replied"
    BY <1>4 DEF ReceiveReply, Return, Decodes
  <2>2. Answered' = [Answered EXCEPT ![k] = "reply"]
    BY <1>2, <2>1 DEF Answered
  <2>3. Told' = [Told EXCEPT ![k] = version[k]]
    BY <1>1, <1>2, <2>1 DEF Told
  <2>4. version[k] \in DOMAIN log /\ log[version[k]] = k
    BY <2>1 DEF BusInv, Course, Executed
  <2>5. Service!Reply(k)
    BY <1>1, <1>3, <2>2, <2>3, <2>4 DEF Service!Reply, Made, Answered, Told
  <2> QED
    BY <2>5 DEF Service!Next
<1>5. CASE ReceiveError(k) \/ TimeOut(k) \/ BreakOff(k)
  <2>1. PICK r \in {"nothing", "error"} : result' = [result EXCEPT ![k] = r]
    BY <1>5 DEF ReceiveError, TimeOut, BreakOff, Return
  <2>2. Answered' = [Answered EXCEPT ![k] = "failure"]
    BY <1>2, <2>1 DEF Answered
  <2>3. Told' = Told
    BY <1>1, <1>2, <2>1 DEF Told
  <2>4. Service!Fail(k)
    BY <1>1, <1>3, <2>2, <2>3 DEF Service!Fail, Made, Answered, Told
  <2> QED
    BY <2>4 DEF Service!Next
<1> QED
  BY <1>4, <1>5 DEF Client

\* The mutator stores the event: the call takes effect, for the first time.
LEMMA ServiceTakesEffect ==
  ASSUME BusInv, NEW k \in Calls, CommandSink(k) \/ CommandSinkFails(k)
  PROVE  [Service!Next]_Service!vars
<1>1. /\ stage[k] = "serving" /\ UNCHANGED result /\ log' \in {log, Append(log, k)}
      /\ UNCHANGED version \/ version' = [version EXCEPT ![k] = Len(log) + 1]
      /\ \/ stage' = [stage EXCEPT ![k] = "executed"]
         \/ stage' = [stage EXCEPT ![k] = "failed"]
  BY DEF CommandSink, CommandSinkFails, Stay
<1>2. /\ stage \in [Calls -> Stages] /\ result \in [Calls -> Results]
      /\ version \in [Calls -> Nat] /\ Course(k)
  BY DEF BusInv, BusType
<1>3. result[k] # "reply" /\ \A i \in DOMAIN log : log[i] # k
  BY <1>1, <1>2 DEF Course
<1>4. \A j \in Calls : /\ stage'[j] = "new" <=> stage[j] = "new"
                       /\ result[j] = "reply" => version'[j] = version[j]
  BY <1>1, <1>2, <1>3
<1>5. CASE log' = log
  BY <1>1, <1>4, <1>5, ServiceStutters
<1>6. CASE log' = Append(log, k)
  <2>1. k \in Made /\ Made' = Made
    BY <1>1, <1>4 DEF Made
  <2>2. Answered' = Answered /\ Answered[k] # "reply"
    BY <1>1, <1>2, <1>3 DEF Answered
  <2>3. Told' = Told
    BY <1>1, <1>4 DEF Told
  <2>4. Service!TakeEffect(k)
    BY <1>3, <1>6, <2>1, <2>2, <2>3 DEF Service!TakeEffect, Service!TookEffect, Made, Answered, Told
  <2> QED
    BY <2>4 DEF Service!Next
<1> QED
  BY <1>1, <1>5, <1>6

\* The rest of the servers' and the network's work is nothing that callers see.
LEMMA ServiceUnaware ==
  ASSUME BusInv, NEW k \in Calls,
         \/ DecodeFails(k) \/ MarshalFails(k) \/ Answer(k) \/ Lose(k)
         \/ \E v \in Servers : Deliver(v, k)
  PROVE  UNCHANGED Service!vars
<1>1. /\ UNCHANGED <<log, result>> /\ stage[k] \notin {"new", "over"}
      /\ UNCHANGED version \/ version' = [version EXCEPT ![k] = 0]
      /\ \E s \in Stages \ {"new"} : stage' = [stage EXCEPT ![k] = s]
  BY DEF DecodeFails, MarshalFails, Answer, Write, WriteError, Lose, Deliver, Stay, Leave, Stages
<1>2. /\ stage \in [Calls -> Stages] /\ version \in [Calls -> Nat] /\ Course(k)
  BY DEF BusInv, BusType
<1>3. result[k] # "reply"
  BY <1>1, <1>2 DEF Course
<1>4. \A j \in Calls : /\ stage'[j] = "new" <=> stage[j] = "new"
                       /\ result[j] = "reply" => version'[j] = version[j]
  BY <1>1, <1>2, <1>3
<1> QED
  BY <1>1, <1>4, ServiceStutters

LEMMA ServiceCrash ==
  ASSUME BusInv, NEW v \in Servers, Crash(v)
  PROVE  UNCHANGED Service!vars
<1>1. v # "none"
  BY ConstantsAssumption
<1>2. ASSUME NEW k \in Calls
      PROVE  /\ stage'[k] = "new" <=> stage[k] = "new"
             /\ result[k] = "reply" => version'[k] = version[k]
  <2>1. Course(k)
    BY DEF BusInv
  <2>2. CASE server[k] = v
    BY <1>1, <2>1, <2>2 DEF Crash, AtServer, Course
  <2>3. CASE server[k] # v
    BY <2>3 DEF Crash, AtServer
  <2> QED
    BY <2>2, <2>3
<1> QED
  BY <1>2, ServiceStutters DEF Crash

\* Whatever is lost, late, given up or repeated, each call takes effect at most
\* once, and a reply carries the version that its own call has made.
THEOREM CommandBusesImplementService == Spec => ImplementsCommandService
<1>1. BusInv /\ [Next]_vars => [Service!Next]_Service!vars
  <2> SUFFICES ASSUME BusInv, [Next]_vars PROVE [Service!Next]_Service!vars
    OBVIOUS
  <2>1. CASE \E c \in Callers : Call(c) \/ CallFails(c)
    BY <2>1, ServiceMakes
  <2>2. CASE \E k \in Calls : Client(k) \/ BreakOff(k)
    BY <2>2, ServiceAnswers
  <2>3. CASE \E k \in Calls : CommandSink(k) \/ CommandSinkFails(k)
    BY <2>3, ServiceTakesEffect
  <2>4. CASE \E k \in Calls : \/ DecodeFails(k) \/ MarshalFails(k) \/ Answer(k) \/ Lose(k)
                              \/ \E v \in Servers : Deliver(v, k)
    BY <2>4, ServiceUnaware
  <2>5. CASE \E v \in Servers : Crash(v)
    BY <2>5, ServiceCrash
  <2>6. CASE UNCHANGED vars
    BY <2>6, ServiceStutters DEF vars
  <2> QED
    BY <2>1, <2>2, <2>3, <2>4, <2>5, <2>6 DEF Next, Handle, HandleMsg
<1> QED
  BY ServiceInit, <1>1, BusInductive, PTL DEF ImplementsCommandService, Spec, Service!Spec

-----------------------------------------------------------------------------
(***************************************************************************)
(* What the callers know.  A caller has at most one call under way, its    *)
(* latest, for the command it is at; and it has left behind every command  *)
(* below that one with exactly one reply.                                  *)
(***************************************************************************)
Asked(k) ==
  /\ stage[k] = "new" => command[k] = 0
  /\ stage[k] # "new" => command[k] \in 1..goal[k[1]]
  /\ Waiting(k) => command[k] = goal[k[1]] /\ k[2] = attempt[k[1]]
  /\ result[k] = "reply" => command[k] < goal[k[1]]

RepliedOnce ==
  \A j, k \in Calls :
    /\ result[j] = "reply" /\ result[k] = "reply"
    /\ j[1] = k[1] /\ command[j] = command[k]
    => j = k

CallerType ==
  /\ attempt \in [Callers -> 0..MaxCalls]
  /\ goal \in [Callers -> 1..CommandCount+1]
  /\ command \in [Calls -> 0..CommandCount]

\* The set of calls made is what the bound on them counts.
CallerInv ==
  /\ CallerType
  /\ IsFiniteSet(Made)
  /\ \A k \in Calls : Asked(k)
  /\ RepliedOnce

\* The bound leaves a call to every caller that may make one.
LEMMA RoomForACall ==
  ASSUME BusInv, CallerInv, NEW c \in Callers, ~NoMoreCalls
  PROVE  <<c, attempt[c] + 1>> \in Calls /\ attempt[c] + 1 \in 1..MaxCalls
<1> DEFINE a == attempt[c]
           earlier == [n \in 1..a |-> <<c, n>>]
<1>1. a \in 0..MaxCalls /\ MaxCalls \in Nat
  BY ConstantsAssumption DEF CallerInv, CallerType
<1>2. Cardinality(Made) \in Nat /\ Cardinality(Made) < MaxCalls
  <2>1. Cardinality(Made) \in Nat
    BY FS_CardinalityType DEF CallerInv
  <2> QED
    BY <1>1, <2>1 DEF NoMoreCalls, Made
<1>3. ASSUME NEW n \in 1..a PROVE <<c, n>> \in Made
  <2>1. <<c, n>> \in Calls
    BY <1>1 DEF Calls
  <2>2. Course(<<c, n>>) /\ ~(attempt[c] < n)
    BY <1>1, <2>1 DEF BusInv
  <2> QED
    BY <2>1, <2>2 DEF Course, Made
<1>4. earlier \in Injection(1..a, Made)
  <2>1. earlier \in [1..a -> Made]
    BY <1>3
  <2>2. \A m, n \in 1..a : earlier[m] = earlier[n] => m = n
    OBVIOUS
  <2> HIDE DEF earlier
  <2> QED
    BY <2>1, <2>2 DEF Injection, IsInjective
<1>5. Cardinality(1..a) <= Cardinality(Made)
  BY <1>4, FS_Injection DEF CallerInv
<1>6. Cardinality(1..a) = a
  BY <1>1, FS_Interval
<1> QED
  BY <1>1, <1>2, <1>5, <1>6 DEF Calls

LEMMA CallerInit == Init => CallerInv
<1> SUFFICES ASSUME Init PROVE CallerInv
  OBVIOUS
<1>1. CallerType
  BY ConstantsAssumption DEF Init, CallerType
<1>2. Made = {}
  BY DEF Init, Made
<1>3. IsFiniteSet(Made)
  BY <1>2, FS_EmptySet
<1>4. \A k \in Calls : Asked(k)
  BY DEF Init, Asked, Waiting
<1>5. RepliedOnce
  BY DEF Init, RepliedOnce
<1> QED
  BY <1>1, <1>3, <1>4, <1>5 DEF CallerInv

\* A step after which the callers know what they knew before
LEMMA CallerUnaware ==
  ASSUME CallerInv, UNCHANGED <<caller, result>>,
         \A k \in Calls : stage'[k] = "new" <=> stage[k] = "new"
  PROVE  CallerInv'
<1>1. Made' = Made
  BY DEF Made
<1>2. \A k \in Calls : Asked(k)'
  BY DEF CallerInv, Asked, Waiting, caller
<1>3. CallerType' /\ RepliedOnce'
  BY DEF CallerInv, CallerType, RepliedOnce, caller
<1> QED
  BY <1>1, <1>2, <1>3 DEF CallerInv

LEMMA CallerCalls ==
  ASSUME BusInv, CallerInv, NEW c \in Callers, Call(c) \/ CallFails(c)
  PROVE  CallerInv'
<1> DEFINE k == <<c, attempt[c] + 1>>
<1>1. /\ attempt' = [attempt EXCEPT ![c] = @ + 1] /\ goal' = goal
      /\ command' = [command EXCEPT ![k] = goal[c]]
      /\ Free(c) /\ ~NoMoreCalls /\ goal[c] <= CommandCount
      /\ \/ stage' = [stage EXCEPT ![k] = "asked"] /\ result' = result
         \/ /\ stage' = [stage EXCEPT ![k] = "over"]
            /\ result' = [result EXCEPT ![k] = "error"]
  BY DEF Call, CallFails, NextCall
<1>2. k \in Calls /\ attempt[c] + 1 \in 1..MaxCalls /\ k[1] = c /\ k[2] = attempt[c] + 1
  BY <1>1, RoomForACall
<1>3. /\ stage \in [Calls -> Stages] /\ result \in [Calls -> Results] /\ CallerType
      /\ CommandCount \in Nat
  BY ConstantsAssumption DEF BusInv, BusType, CallerInv
<1>4. stage[k] = "new" /\ result[k] = "none"
  <2>1. Course(k) /\ attempt[c] \in Nat
    BY <1>2 DEF BusInv, BusType
  <2> QED
    BY <1>2, <2>1 DEF Course
<1>5. goal[c] \in 1..CommandCount
  BY <1>1, <1>3 DEF CallerType
<1> HIDE DEF k
<1>6. CallerType'
  <2>1. attempt' \in [Callers -> 0..MaxCalls]
    BY <1>1, <1>2, <1>3 DEF CallerType
  <2>2. command' \in [Calls -> 0..CommandCount]
    <3>1. command \in [Calls -> 0..CommandCount] /\ goal[c] \in 0..CommandCount
      BY <1>3, <1>5 DEF CallerType
    <3> QED
      BY <1>1, <3>1
  <2> QED
    BY <1>1, <1>3, <2>1, <2>2 DEF CallerType
<1>7. IsFiniteSet(Made')
  <2>1. Made' = Made \union {k}
    BY <1>1, <1>2, <1>3, <1>4 DEF Made
  <2> QED
    BY <2>1, FS_AddElement DEF CallerInv
<1>8. stage'[k] # "new" /\ result'[k] \in {"none", "error"} /\ command'[k] = goal[c]
  BY <1>1, <1>2, <1>3, <1>4 DEF CallerType
<1>9. ASSUME NEW j \in Calls PROVE Asked(j)'
  <2>1. CASE j = k
    BY <1>1, <1>2, <1>3, <1>5, <1>8, <2>1 DEF Asked, Waiting, CallerType
  <2>2. CASE j # k
    <3>1. stage'[j] = stage[j] /\ result'[j] = result[j] /\ command'[j] = command[j] /\ Asked(j)
      BY <1>1, <1>3, <2>2 DEF CallerInv, CallerType
    <3>2. CASE j[1] # c
      BY <1>1, <3>1, <3>2 DEF Asked, Waiting
    <3>3. CASE j[1] = c
      <4>1. ~Waiting(j)
        <5> SUFFICES ASSUME Waiting(j) PROVE FALSE
          OBVIOUS
        <5>1. j[2] = attempt[c] /\ j[2] > 0
          BY <3>1, <3>3, ConstantsAssumption DEF Asked, Calls
        <5>2. j = <<c, attempt[c]>>
          BY <3>3, <5>1, CallFields
        <5> QED
          BY <1>1, <5>1, <5>2 DEF Free, Latest, Waiting
      <4> QED
        BY <1>1, <3>1, <4>1 DEF Asked, Waiting
    <3> QED
      BY <3>2, <3>3
  <2> QED
    BY <2>1, <2>2
<1>10. RepliedOnce'
  <2>1. \A j \in Calls : result'[j] = "reply" =>
          j # k /\ result[j] = "reply" /\ command'[j] = command[j]
    BY <1>1, <1>3, <1>8 DEF CallerType
  <2> QED
    BY <2>1 DEF CallerInv, RepliedOnce
<1> QED
  BY <1>6, <1>7, <1>9, <1>10 DEF CallerInv

LEMMA CallerReturns ==
  ASSUME BusInv, CallerInv, NEW k \in Calls, Client(k) \/ BreakOff(k)
  PROVE  CallerInv'
<1> DEFINE c == k[1]
<1>1. PICK r \in Results \ {"none"} :
        /\ UNCHANGED <<attempt, command>> /\ Waiting(k)
        /\ result' = [result EXCEPT ![k] = r]
        /\ goal' = IF r = "reply" THEN [goal EXCEPT ![c] = @ + 1] ELSE goal
        /\ stage' = stage \/ stage' = [stage EXCEPT ![k] = "over"]
  <2>1. CASE ReceiveReply(k)
    BY <2>1 DEF ReceiveReply, Return, Results
  <2>2. CASE ReceiveError(k) \/ TimeOut(k) \/ BreakOff(k)
    BY <2>2 DEF ReceiveError, TimeOut, BreakOff, Return, Results
  <2> QED
    BY <2>1, <2>2 DEF Client
<1>2. /\ stage \in [Calls -> Stages] /\ result \in [Calls -> Results] /\ CallerType
      /\ CommandCount \in Nat /\ c \in Callers /\ Asked(k)
  BY ConstantsAssumption, CallFields DEF BusInv, BusType, CallerInv
<1>3. /\ stage[k] # "new" /\ result[k] = "none" /\ command[k] = goal[c] /\ k[2] = attempt[c]
  BY <1>1, <1>2 DEF Asked, Waiting
<1>4. goal[c] \in 1..CommandCount
  BY <1>2, <1>3 DEF CallerType
<1> HIDE DEF c
<1>5. goal' \in [Callers -> 1..CommandCount+1] /\ \A d \in Callers : goal'[d] >= goal[d]
  <2>1. \A d \in Callers : goal[d] \in 1..CommandCount+1
    BY <1>2 DEF CallerType
  <2> QED
    BY <1>1, <1>2, <1>4, <2>1 DEF CallerType
<1>6. \A j \in Calls : (stage'[j] = "new" <=> stage[j] = "new") /\ (j # k => result'[j] = result[j])
  BY <1>1, <1>2, <1>3
<1>7. IsFiniteSet(Made')
  <2>1. Made' = Made
    BY <1>6 DEF Made
  <2> QED
    BY <2>1 DEF CallerInv
<1>8. ASSUME NEW j \in Calls PROVE Asked(j)'
  <2>1. /\ Asked(j) /\ j[1] \in Callers /\ command'[j] = command[j] /\ command[j] \in Nat
        /\ goal[j[1]] \in Nat /\ goal'[j[1]] \in Nat /\ goal'[j[1]] >= goal[j[1]]
    BY <1>1, <1>2, <1>5, CallFields DEF CallerInv, CallerType
  <2>2. CASE j = k
    <3>1. result'[k] = r
      BY <1>1, <1>2
    <3>2. r = "reply" => goal'[c] = goal[c] + 1
      BY <1>1, <1>2 DEF CallerType
    <3>3. stage'[k] # "new" /\ command'[k] = goal[c] /\ goal[c] \in Nat /\ r # "none"
      BY <1>1, <1>3, <1>4, <1>6, <2>1, <2>2
    <3>4. /\ command'[k] \in 1..goal'[c]
          /\ r = "reply" => command'[k] < goal'[c]
      BY <1>4, <2>1, <2>2, <3>2, <3>3 DEF c
    <3> QED
      BY <2>2, <3>1, <3>3, <3>4 DEF Asked, Waiting, c
  <2>3. CASE j # k
    <3>1. result'[j] = result[j] /\ (stage'[j] = "new" <=> stage[j] = "new")
      BY <1>6, <2>3
    <3>2. Waiting(j) => j[1] # c
      BY <1>3, <2>1, <2>3, CallFields DEF Asked, c
    <3>3. j[1] # c => goal'[j[1]] = goal[j[1]]
      BY <1>1, <2>1
    <3> QED
      BY <1>1, <2>1, <3>1, <3>2, <3>3 DEF Asked, Waiting
  <2> QED
    BY <2>2, <2>3
<1>9. RepliedOnce'
  <2>1. ASSUME NEW j \in Calls, j # k, result'[j] = "reply", j[1] = c
        PROVE  command[j] # command[k]
    BY <1>2, <1>3, <1>4, <1>6, <2>1 DEF CallerInv, CallerType, Asked
  <2> SUFFICES ASSUME NEW j \in Calls, NEW l \in Calls,
                      result'[j] = "reply", result'[l] = "reply",
                      j[1] = l[1], command[j] = command[l]
               PROVE  j = l
    BY <1>1 DEF RepliedOnce
  <2>2. CASE j # k /\ l # k
    BY <1>6, <2>2 DEF CallerInv, RepliedOnce
  <2>3. CASE j = k \/ l = k
    BY <2>1, <2>3 DEF c
  <2> QED
    BY <2>2, <2>3
<1> QED
  BY <1>1, <1>2, <1>5, <1>7, <1>8, <1>9 DEF CallerInv, CallerType

\* The servers and the network change nothing of that.
LEMMA CallerStep ==
  ASSUME BusInv, CallerInv, [Next]_vars
  PROVE  CallerInv'
<1>1. CASE \E c \in Callers : Call(c) \/ CallFails(c)
  BY <1>1, CallerCalls
<1>2. CASE \E k \in Calls : Client(k) \/ BreakOff(k)
  BY <1>2, CallerReturns
<1>3. CASE \E k \in Calls : Handle(k) \/ Lose(k) \/ \E v \in Servers : Deliver(v, k)
  <2>1. PICK k \in Calls : Handle(k) \/ Lose(k) \/ \E v \in Servers : Deliver(v, k)
    BY <1>3
  <2>2. /\ UNCHANGED <<caller, result>> /\ stage[k] # "new"
        /\ \E s \in Stages \ {"new"} : stage' = [stage EXCEPT ![k] = s]
    BY <2>1 DEF Handle, HandleMsg, Answer, DecodeFails, CommandSink, CommandSinkFails,
                MarshalFails, Write, WriteError, Lose, Deliver, Stay, Leave, Stages
  <2>3. \A j \in Calls : stage'[j] = "new" <=> stage[j] = "new"
    BY <2>2 DEF BusInv, BusType
  <2> QED
    BY <2>2, <2>3, CallerUnaware
<1>4. CASE \E v \in Servers : Crash(v)
  <2>1. PICK v \in Servers : Crash(v)
    BY <1>4
  <2>2. v # "none"
    BY ConstantsAssumption
  <2>3. ASSUME NEW j \in Calls PROVE stage'[j] = "new" <=> stage[j] = "new"
    <3>1. server[j] = v => stage[j] # "new"
      BY <2>2 DEF BusInv, Course
    <3> QED
      BY <2>1, <3>1 DEF Crash, AtServer
  <2> QED
    BY <2>1, <2>3, CallerUnaware DEF Crash
<1>5. CASE UNCHANGED vars
  BY <1>5, CallerUnaware DEF vars
<1> QED
  BY <1>1, <1>2, <1>3, <1>4, <1>5 DEF Next

LEMMA CallerInductive == Spec => [](BusInv /\ CallerInv)
  BY BusInit, BusStep, CallerInit, CallerStep, PTL DEF Spec

\* Every variable keeps its type: no caller makes more calls than there may be,
\* or goes on past its last command, and a server that is named has the call.
THEOREM TypeCorrect == Spec => []TypeOK
<1>1. BusInv /\ CallerInv => TypeOK
  BY DEF BusInv, BusType, CallerInv, CallerType, Course, TypeOK
<1> QED
  BY <1>1, CallerInductive, PTL

-----------------------------------------------------------------------------
(***************************************************************************)
(* What the stream holds.  A command that its caller has left behind was   *)
(* executed: the reply that let the caller go on says so.                  *)
(***************************************************************************)
LeftBehindIsExecuted ==
  \A c \in Callers, n \in 1..CommandCount : n < goal[c] => Executions(c, n) # {}

EachCallOnce == \A i, j \in DOMAIN log : log[i] = log[j] => i = j

LogInv ==
  /\ LeftBehindIsExecuted
  /\ EachCallOnce
  /\ FirstExecutionsInOrder

\* The calls in the stream were made; they keep their commands.
LEMMA InTheLog ==
  ASSUME BusInv, CallerInv, NEW i \in DOMAIN log
  PROVE  /\ log[i] \in Calls /\ stage[log[i]] \notin {"new", "asked", "serving"}
         /\ i \in Nat /\ i <= Len(log) /\ Len(log) \in Nat
<1>1. log \in Seq(Calls)
  BY DEF BusInv, BusType
<1>2. log[i] \in Calls /\ i \in Nat /\ i <= Len(log) /\ Len(log) \in Nat
  <2> DEFINE C == Calls
  <2>1. log \in Seq(C)
    BY <1>1
  <2> HIDE DEF C
  <2>2. log[i] \in C /\ i \in Nat /\ i <= Len(log) /\ Len(log) \in Nat
    BY <2>1
  <2> QED
    BY <2>2 DEF C
<1>3. Course(log[i])
  BY <1>2 DEF BusInv
<1> QED
  BY <1>2, <1>3 DEF Course

LEMMA LogInit == Init => LogInv
<1> SUFFICES ASSUME Init PROVE LogInv
  OBVIOUS
<1>1. log = <<>> /\ \A c \in Callers : goal[c] = 1
  BY DEF Init
<1>2. DOMAIN log = {} /\ \A c, n : Executions(c, n) = {}
  BY <1>1 DEF Executions
<1> QED
  BY <1>1, <1>2 DEF LogInv, LeftBehindIsExecuted, EachCallOnce, FirstExecutionsInOrder

\* The steps that execute nothing.  A caller that goes on knows of its command
\* that it was executed.
LEMMA LogStays ==
  ASSUME BusInv, CallerInv, LogInv, log' = log,
         \A i \in DOMAIN log : command'[log[i]] = command[log[i]],
         \A c \in Callers : \/ goal'[c] = goal[c]
                            \/ goal'[c] = goal[c] + 1 /\ Executions(c, goal[c]) # {}
  PROVE  LogInv'
<1>1. ASSUME NEW c, NEW n PROVE Executions(c, n)' = Executions(c, n)
  BY DEF Executions
<1>2. LeftBehindIsExecuted'
  <2> SUFFICES ASSUME NEW c \in Callers, NEW n \in 1..CommandCount, n < goal'[c]
               PROVE  Executions(c, n) # {}
    BY <1>1 DEF LeftBehindIsExecuted
  <2>1. goal[c] \in Nat /\ n \in Nat
    BY ConstantsAssumption DEF CallerInv, CallerType
  <2>2. n < goal[c] \/ (n = goal[c] /\ Executions(c, goal[c]) # {})
    BY <2>1
  <2> QED
    BY <2>2 DEF LogInv, LeftBehindIsExecuted
<1>3. EachCallOnce'
  BY DEF LogInv, EachCallOnce
<1>4. FirstExecutionsInOrder'
  BY <1>1 DEF LogInv, FirstExecutionsInOrder
<1> QED
  BY <1>2, <1>3, <1>4 DEF LogInv

\* A call is executed, for a command whose predecessor was left behind.
LEMMA LogGrows ==
  ASSUME BusInv, CallerInv, LogInv, NEW k \in Calls, stage[k] = "serving",
         log' = Append(log, k), UNCHANGED caller
  PROVE  LogInv'
<1> DEFINE last == Len(log) + 1
<1>1. /\ Len(log) \in Nat /\ DOMAIN log = 1..Len(log)
      /\ DOMAIN log' = DOMAIN log \union {last} /\ log'[last] = k
      /\ \A i \in DOMAIN log : log'[i] = log[i] /\ i # last /\ i < last /\ log[i] # k
  <2> DEFINE C == Calls
  <2>1. log \in Seq(C) /\ k \in C
    BY DEF BusInv, BusType
  <2>2. \A i \in DOMAIN log : log[i] # k
    BY DEF BusInv, Course
  <2> HIDE DEF C
  <2>3. /\ Len(log) \in Nat /\ DOMAIN log = 1..Len(log)
        /\ DOMAIN log' = 1..(Len(log) + 1) /\ log'[Len(log) + 1] = k
        /\ \A i \in 1..Len(log) : log'[i] = log[i]
    BY <2>1
  <2> QED
    BY <2>2, <2>3
<1>2. Asked(k) /\ k[1] \in Callers /\ command[k] \in 1..goal[k[1]] /\ goal[k[1]] \in Nat
  BY CallFields, ConstantsAssumption DEF CallerInv, CallerType, Asked
<1> HIDE DEF last
<1>3. ASSUME NEW c, NEW n
      PROVE  /\ Executions(c, n) \subseteq Executions(c, n)'
             /\ \A i \in Executions(c, n)' :
                  i \in Executions(c, n) \/ (i = last /\ k[1] = c /\ command[k] = n)
  BY <1>1 DEF Executions, caller
<1>4. LeftBehindIsExecuted'
  <2>1. goal' = goal
    BY DEF caller
  <2> QED
    BY <1>3, <2>1 DEF LogInv, LeftBehindIsExecuted
<1>5. EachCallOnce'
  BY <1>1 DEF LogInv, EachCallOnce
<1>6. FirstExecutionsInOrder'
  <2> SUFFICES ASSUME NEW c \in Callers, NEW n \in 2..CommandCount, NEW i \in Executions(c, n)'
               PROVE  \E j \in Executions(c, n - 1) : j < i
    BY <1>3 DEF FirstExecutionsInOrder
  <2>1. CASE i \in Executions(c, n)
    BY <2>1 DEF LogInv, FirstExecutionsInOrder
  <2>2. CASE i = last /\ k[1] = c /\ command[k] = n
    <3>1. n - 1 \in 1..CommandCount /\ n - 1 < goal[c]
      BY <1>2, <2>2, ConstantsAssumption
    <3>2. PICK j \in Executions(c, n - 1) : TRUE
      BY <3>1 DEF LogInv, LeftBehindIsExecuted
    <3>3. j \in DOMAIN log
      BY DEF Executions
    <3> QED
      BY <1>1, <2>2, <3>3
  <2> QED
    BY <1>3, <2>1, <2>2
<1> QED
  BY <1>4, <1>5, <1>6 DEF LogInv

LEMMA LogStep ==
  ASSUME BusInv, CallerInv, LogInv, [Next]_vars
  PROVE  LogInv'
<1>1. CASE \E c \in Callers : Call(c) \/ CallFails(c)
  <2>1. PICK c \in Callers : Call(c) \/ CallFails(c)
    BY <1>1
  <2> DEFINE k == <<c, attempt[c] + 1>>
  <2>2. /\ command' = [command EXCEPT ![k] = goal[c]] /\ log' = log /\ goal' = goal
        /\ ~NoMoreCalls
    BY <2>1 DEF Call, CallFails, NextCall
  <2>3. k \in Calls /\ k[1] = c /\ k[2] = attempt[c] + 1 /\ attempt[c] \in Nat
    BY <2>2, RoomForACall DEF BusInv, BusType
  <2>4. stage[k] = "new"
    BY <2>3 DEF BusInv, Course
  <2> HIDE DEF k
  <2>5. ASSUME NEW i \in DOMAIN log PROVE command'[log[i]] = command[log[i]]
    <3>1. log[i] \in Calls /\ log[i] # k
      BY <2>4, InTheLog
    <3> QED
      BY <2>2, <3>1 DEF CallerInv, CallerType
  <2> QED
    BY <2>2, <2>5, LogStays
<1>2. CASE \E k \in Calls : ReceiveReply(k)
  <2>1. PICK k \in Calls : ReceiveReply(k)
    BY <1>2
  <2>2. /\ log' = log /\ command' = command /\ goal' = [goal EXCEPT ![k[1]] = @ + 1]
        /\ stage[k] = "replied" /\ Waiting(k)
    BY <2>1 DEF ReceiveReply, Return, Decodes
  <2>3. k[1] \in Callers /\ Course(k) /\ Asked(k)
    BY CallFields DEF BusInv, CallerInv
  <2>4. version[k] \in Executions(k[1], goal[k[1]])
    BY <2>2, <2>3 DEF Course, Executed, Asked, Executions
  <2>5. \A c \in Callers : \/ goal'[c] = goal[c]
                           \/ goal'[c] = goal[c] + 1 /\ Executions(c, goal[c]) # {}
    BY <2>2, <2>3, <2>4 DEF CallerInv, CallerType
  <2> QED
    BY <2>2, <2>5, LogStays
<1>3. CASE \E k \in Calls : ReceiveError(k) \/ TimeOut(k) \/ BreakOff(k)
  <2>1. log' = log /\ command' = command /\ goal' = goal
    BY <1>3 DEF ReceiveError, TimeOut, BreakOff, Return
  <2> QED
    BY <2>1, LogStays
<1>4. CASE \E k \in Calls : CommandSink(k) \/ CommandSinkFails(k)
  <2>1. PICK k \in Calls : CommandSink(k) \/ CommandSinkFails(k)
    BY <1>4
  <2>2. stage[k] = "serving" /\ UNCHANGED caller /\ log' \in {log, Append(log, k)}
    BY <2>1 DEF CommandSink, CommandSinkFails
  <2>3. CASE log' = log
    BY <2>2, <2>3, LogStays DEF caller
  <2> QED
    BY <2>2, <2>3, LogGrows
<1>5. CASE \/ \E k \in Calls : \/ DecodeFails(k) \/ MarshalFails(k) \/ Answer(k) \/ Lose(k)
                               \/ \E v \in Servers : Deliver(v, k)
           \/ \E v \in Servers : Crash(v)
           \/ UNCHANGED vars
  <2>1. UNCHANGED <<caller, log>>
    BY <1>5 DEF DecodeFails, MarshalFails, Answer, Write, WriteError, Lose, Deliver, Crash, vars
  <2> QED
    BY <2>1, LogStays DEF caller
<1> QED
  BY <1>1, <1>2, <1>3, <1>4, <1>5 DEF Next, Client, Handle, HandleMsg

LEMMA LogInductive == Spec => [](BusInv /\ CallerInv /\ LogInv)
  BY BusInit, BusStep, CallerInit, CallerStep, LogInit, LogStep, PTL DEF Spec

\* A caller's commands are first executed in the order in which it gave them,
\* and none is left out, though single calls are answered late or not at all:
\* only the reply to a command lets the caller go on to the next.
THEOREM CommandsInOrder == Spec => []FirstExecutionsInOrder
<1>1. LogInv => FirstExecutionsInOrder
  BY DEF LogInv
<1> QED
  BY <1>1, LogInductive, PTL

\* Of the calls for a command that are not failed, there is one at most: the
\* reply to the one lets the caller go on, and while it waits it makes no other.
LEMMA OneNotFailed ==
  ASSUME BusInv, CallerInv, NEW j \in Calls, NEW k \in Calls,
         stage[j] # "new", stage[k] # "new", j[1] = k[1], command[j] = command[k],
         result[j] \notin {"nothing", "error"}, result[k] \notin {"nothing", "error"}
  PROVE  j = k
<1>1. Asked(j) /\ Asked(k) /\ result[j] \in {"none", "reply"} /\ result[k] \in {"none", "reply"}
  BY DEF BusInv, BusType, Results, CallerInv
<1>2. j[1] \in Callers /\ goal[j[1]] \in Nat
  BY CallFields, ConstantsAssumption DEF CallerInv, CallerType
<1>3. CASE result[j] = "reply" /\ result[k] = "reply"
  BY <1>3 DEF CallerInv, RepliedOnce
<1>4. CASE result[j] = "none" /\ result[k] = "none"
  BY <1>1, <1>4, CallFields DEF Asked, Waiting
<1>5. CASE result[j] # result[k]
  BY <1>1, <1>2, <1>5 DEF Asked, Waiting
<1> QED
  BY <1>1, <1>3, <1>4, <1>5

\* The executions of a command are calls for it, and all of them but one, at
\* most, have failed.
LEMMA ExecutionsAreCalls ==
  ASSUME BusInv, CallerInv, LogInv, NEW c \in Callers, NEW n \in 1..CommandCount
  PROVE  Cardinality(Executions(c, n)) <= 1 + Cardinality(Unanswered(c, n))
<1> DEFINE E == Executions(c, n)
           U == Unanswered(c, n)
           S == {log[i] : i \in E}
           f == [i \in E |-> log[i]]
<1>1. E \subseteq DOMAIN log
  BY DEF Executions
<1>2. \A k \in S : k \in Calls /\ stage[k] # "new" /\ k[1] = c /\ command[k] = n
  BY InTheLog DEF Executions
<1>3. U \subseteq Made
  BY ConstantsAssumption DEF Unanswered, Made, CallerInv, Asked
<1>4. IsFiniteSet(U) /\ Cardinality(U) \in Nat
  BY <1>3, FS_Subset, FS_CardinalityType DEF CallerInv
<1>5. \E x : S \subseteq U \union {x}
  <2>1. CASE S \subseteq U
    BY <2>1
  <2>2. CASE ~(S \subseteq U)
    <3>1. PICK x \in S : x \notin U
      BY <2>2
    <3>2. ASSUME NEW k \in S, k \notin U PROVE k = x
      <4>1. result[k] \notin {"nothing", "error"} /\ result[x] \notin {"nothing", "error"}
        BY <1>2, <3>1, <3>2 DEF Unanswered
      <4> QED
        BY <1>2, <4>1, OneNotFailed
    <3> QED
      BY <3>2
  <2> QED
    BY <2>1, <2>2
<1>6. PICK x : S \subseteq U \union {x}
  BY <1>5
<1>7. /\ IsFiniteSet(U \union {x}) /\ Cardinality(U \union {x}) \in Nat
      /\ Cardinality(U \union {x}) <= 1 + Cardinality(U)
  <2>1. /\ IsFiniteSet(U \union {x})
        /\ \/ Cardinality(U \union {x}) = Cardinality(U)
           \/ Cardinality(U \union {x}) = Cardinality(U) + 1
    BY <1>4, FS_AddElement
  <2> HIDE DEF U
  <2> QED
    BY <1>4, <2>1
<1>8. f \in Injection(E, U \union {x})
  <2>1. f \in [E -> U \union {x}]
    BY <1>6
  <2>2. \A i, j \in E : f[i] = f[j] => i = j
    BY <1>1 DEF LogInv, EachCallOnce
  <2> HIDE DEF f
  <2> QED
    BY <2>1, <2>2 DEF Injection, IsInjective
<1> HIDE DEF E, U, S, f
<1>9. IsFiniteSet(E) /\ Cardinality(E) \in Nat /\ Cardinality(E) <= Cardinality(U \union {x})
  BY <1>7, <1>8, FS_Injection, FS_CardinalityType
<1>10. Cardinality(E) <= 1 + Cardinality(U)
  BY <1>4, <1>7, <1>9
<1> QED
  BY <1>10 DEF E, U

\* A command is executed again only because its caller has repeated it: once
\* more, at most, than it was told of a failure or told nothing.
THEOREM DuplicatesAreDueToRepeats == Spec => []DuplicatesAreRepeats
<1>1. BusInv /\ CallerInv /\ LogInv => DuplicatesAreRepeats
  BY ExecutionsAreCalls DEF DuplicatesAreRepeats
<1> QED
  BY <1>1, LogInductive, PTL

=============================================================================
