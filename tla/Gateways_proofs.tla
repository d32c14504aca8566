-------------------------- MODULE Gateways_proofs --------------------------
(***************************************************************************)
(* Proofs about Gateways, for any number of gateways, of requests, and of  *)
(* requests served together.                                               *)
(***************************************************************************)
EXTENDS Gateways, TLAPS

-----------------------------------------------------------------------------
(***************************************************************************)
(* The type invariant.                                                     *)
(***************************************************************************)
OpenCall == [pc : {"open", "start", "add"}, gateway : Gateway, add : BOOLEAN,
             thread : Thread]

CloseCall == [pc : {"close", "socket", "remove", "clear"}, gateway : Gateway,
              then : {"return", "remove", "clear"}, index : Nat \ {0},
              list : Seq(Gateway)]

\* What a request holds at each of its steps.
LEMMA CallKinds ==
  ASSUME NEW call \in Call
  PROVE  /\ call.pc \in {"open", "start", "add"} => call \in OpenCall
         /\ call.pc \in {"close", "socket", "remove", "clear"} => call \in CloseCall
         /\ call.pc \in {"free", "open", "start", "add", "close", "socket",
                         "remove", "clear"}
         /\ call.pc = "free" <=> call = Free
<1>1. Call = {Free} \cup OpenCall \cup CloseCall
  BY DEF Call, OpenCall, CloseCall
<1>2. CASE call = Free
  BY <1>2 DEF Free
<1>3. CASE call \in OpenCall
  BY <1>3 DEF OpenCall, Free
<1>4. CASE call \in CloseCall
  BY <1>4 DEF CloseCall, Free
<1> QED
  BY <1>1, <1>2, <1>3, <1>4

\* A request that goes on, or returns, or starts, is a request.
LEMMA CallSteps ==
  ASSUME calls \in [Client -> Call], NEW c \in Client
  PROVE  /\ \A to \in {"open", "start", "add"} :
              calls[c] \in OpenCall /\ Goto(c, to) => calls' \in [Client -> Call]
         /\ \A to \in {"close", "socket", "remove", "clear"} :
              calls[c] \in CloseCall /\ Goto(c, to) => calls' \in [Client -> Call]
         /\ Return(c) => calls' \in [Client -> Call]
         /\ \A call \in OpenCall \cup CloseCall :
              calls' = [calls EXCEPT ![c] = call] => calls' \in [Client -> Call]
<1>1. Call = {Free} \cup OpenCall \cup CloseCall
  BY DEF Call, OpenCall, CloseCall
<1>2. ASSUME NEW to \in {"open", "start", "add"}, calls[c] \in OpenCall
      PROVE  [calls[c] EXCEPT !.pc = to] \in OpenCall
  BY <1>2 DEF OpenCall
<1>3. ASSUME NEW to \in {"close", "socket", "remove", "clear"},
             calls[c] \in CloseCall
      PROVE  [calls[c] EXCEPT !.pc = to] \in CloseCall
  BY <1>3 DEF CloseCall
<1>4. \A to : Goto(c, to) =>
                calls' = [calls EXCEPT ![c] = [calls[c] EXCEPT !.pc = to]]
  BY DEF Goto
<1> QED
  BY <1>1, <1>2, <1>3, <1>4 DEF Return

\* What is left of a list without the element at an index.
LEMMA RemoveAtType ==
  ASSUME NEW s \in Seq(Gateway), NEW i \in DOMAIN s
  PROVE  RemoveAt(s, i) \in Seq(Gateway)
BY DEF RemoveAt

\* What the next call of close of removeAllGateways holds.
LEMMA ClosingType ==
  ASSUME listed \in Seq(Gateway), NEW i \in DOMAIN listed,
         NEW then \in {"return", "remove", "clear"}
  PROVE  Closing(i, then) \in CloseCall
BY DEF Closing, CloseCall

\* The steps of a thread only change its place, its gateway's state and socket.
LEMMA StepType ==
  ASSUME threads \in [Gateway -> [Thread -> ThreadPC]],
         NEW g \in Gateway, NEW i \in Thread, NEW from, NEW to \in ThreadPC,
         Step(g, i, from, to)
  PROVE  threads' \in [Gateway -> [Thread -> ThreadPC]]
BY DEF Step

\* A step of a request keeps the types.
LEMMA ServeType ==
  ASSUME TypeOK, NEW c \in Client, ServeCall(c)
  PROVE  TypeOK'
<1> USE DEF TypeOK, At
<1>1. /\ calls[c] \in Call
      /\ calls[c].pc \in {"open", "start", "add"} => calls[c] \in OpenCall
      /\ calls[c].pc \in {"close", "socket", "remove", "clear"} => calls[c] \in CloseCall
  BY CallKinds
<1>2. \A g \in Gateway, i \in Thread :
        Spawn(g, i) => threads' \in [Gateway -> [Thread -> ThreadPC]]
  BY DEF Spawn, ThreadPC
<1>3. CASE OpenCheck(c)
  BY <1>1, <1>3, CallSteps DEF OpenCheck
<1>4. CASE OpenStart(c)
  BY <1>1, <1>2, <1>4, CallSteps DEF OpenStart, RunnableState, OpenCall
<1>5. CASE OpenSipro(c)
  BY <1>1, <1>2, <1>5, CallSteps DEF OpenSipro, OpenCall
<1>6. CASE AddToList(c)
  <2>1. calls[c] \in OpenCall /\ calls' \in [Client -> Call]
    BY <1>1, <1>6, CallSteps DEF AddToList
  <2>2. calls[c].gateway \in Gateway
    BY <2>1 DEF OpenCall
  <2>3. listed' = Append(listed, calls[c].gateway) \/ UNCHANGED listed
    BY <1>6 DEF AddToList
  <2>4. listed' \in Seq(Gateway)
    BY <2>2, <2>3
  <2> QED
    BY <1>6, <2>1, <2>4 DEF AddToList
<1>7. CASE CloseState(c)
  BY <1>1, <1>7, CallSteps DEF CloseState, RunnableState, CloseCall
<1>8. CASE CloseSocket(c)
  <2>1. server' \in [Gateway -> Socket]
    BY <1>8 DEF CloseSocket, Socket
  <2>2. calls' \in [Client -> Call]
    BY <1>1, <1>8, CallSteps DEF CloseSocket, CloseCall
  <2> QED
    BY <1>8, <2>1, <2>2 DEF CloseSocket
<1>9. CASE RemoveFromList(c)
  <2>1. listed' \in Seq(Gateway)
    BY <1>9, RemoveAtType DEF RemoveFromList
  <2> QED
    BY <1>9, <2>1, CallSteps DEF RemoveFromList
<1>10. CASE NextOrClear(c)
  <2> DEFINE i == calls[c].index
  <2>1. calls[c] \in CloseCall
    BY <1>1, <1>10 DEF NextOrClear
  <2>2. i \in Nat \ {0}
    BY <2>1 DEF CloseCall
  <2>3. CASE /\ i < Len(listed) /\ listed = calls[c].list
             /\ calls' = [calls EXCEPT ![c] = Closing(i + 1, "clear")]
             /\ UNCHANGED listed
    <3>1. i + 1 \in DOMAIN listed
      BY <2>2, <2>3
    <3> QED
      BY <1>10, <2>3, <3>1, ClosingType, CallSteps DEF NextOrClear
  <2>4. CASE Return(c) /\ (UNCHANGED listed \/ listed' = <<>>)
    <3>1. calls' \in [Client -> Call]
      BY <2>4, CallSteps
    <3>2. <<>> \in Seq(Gateway)
      OBVIOUS
    <3>3. listed' \in Seq(Gateway)
      BY <2>4, <3>2
    <3> QED
      BY <1>10, <3>1, <3>3 DEF NextOrClear
  <2> QED
    BY <1>10, <2>3, <2>4 DEF NextOrClear
<1> QED
  BY <1>3, <1>4, <1>5, <1>6, <1>7, <1>8, <1>9, <1>10 DEF ServeCall

\* A request that starts keeps the types.
LEMMA NewCallType ==
  ASSUME TypeOK, NEW c \in Client, NewCall(c)
  PROVE  TypeOK'
<1> USE DEF TypeOK, Request
<1>1. made' \in 0 .. MaxCalls /\ made' \in Thread
  BY MaxCallsAssumption DEF NewCall, PostGateway, CallOpen, CallClose, Thread
<1>2. UNCHANGED <<listed, state, threads, server>>
  BY DEF NewCall, PostGateway, CallOpen, CallClose
<1>3. \A i \in DOMAIN listed : listed[i] \in Gateway
  OBVIOUS
<1>4. \E call \in OpenCall \cup CloseCall : calls' = [calls EXCEPT ![c] = call]
  <2>1. CASE \E g \in Gateway : PostGateway(c, g)
    BY <1>1, <2>1 DEF PostGateway, OpenCall
  <2>2. CASE CallOpen(c)
    BY <1>1, <1>3, <2>2 DEF CallOpen, OpenCall, Found
  <2>3. ASSUME NEW then \in {"return", "remove", "clear"}, CallClose(c, then)
        PROVE  \E call \in OpenCall \cup CloseCall : calls' = [calls EXCEPT ![c] = call]
    <3>1. PICK i \in DOMAIN listed : calls' = [calls EXCEPT ![c] = Closing(i, then)]
      BY <2>3 DEF CallClose
    <3> QED
      BY <3>1, ClosingType
  <2> QED
    BY <2>1, <2>2, <2>3 DEF NewCall
<1> QED
  BY <1>1, <1>2, <1>4, CallSteps

\* A step of a thread, or of its device, keeps the types.
LEMMA ThreadType ==
  ASSUME TypeOK, NEW g \in Gateway, NEW i \in Thread,
         ThreadStep(g, i) \/ Device(g, i)
  PROVE  TypeOK'
<1> USE DEF TypeOK
<1>1. UNCHANGED <<listed, calls, made>>
  BY DEF ThreadStep, Device, Run, Loop, Bind, Connect, AcceptFails, ServeEnds,
         Disconnect, Finally, Stopped
<1>2. state' \in [Gateway -> RunnableState]
  BY DEF ThreadStep, Device, Run, Loop, Bind, Connect, AcceptFails, ServeEnds,
         Disconnect, Finally, Stopped, RunnableState
<1>3. server' \in [Gateway -> Socket]
  <2>1. [thread |-> i, open |-> TRUE] \in Socket
    BY MaxCallsAssumption DEF Socket, Thread
  <2>2. [server[g] EXCEPT !.open = FALSE] \in Socket
    BY DEF Socket
  <2>3. CASE Finally(g, i)
    BY <2>2, <2>3 DEF Finally
  <2> QED
    BY <2>1, <2>3 DEF ThreadStep, Device, Run, Loop, Bind, Connect, AcceptFails,
         ServeEnds, Disconnect, Stopped
<1>4. \E from \in ThreadPC, to \in ThreadPC : Step(g, i, from, to)
  BY DEF ThreadStep, Device, Run, Loop, Bind, Connect, AcceptFails, ServeEnds,
         Disconnect, Finally, Stopped, ThreadPC
<1> QED
  BY <1>1, <1>2, <1>3, <1>4, StepType

\* Every step keeps the types.
LEMMA TypeInvariant == Init => TypeOK
BY MaxCallsAssumption DEF Init, TypeOK, RunnableState, ThreadPC, Socket, Null,
   Call, Free

LEMMA TypeStep == TypeOK /\ [Next]_vars => TypeOK'
<1> SUFFICES ASSUME TypeOK, [Next]_vars PROVE TypeOK'
  OBVIOUS
<1>1. CASE Next
  BY <1>1, NewCallType, ServeType, ThreadType DEF Next
<1>2. CASE UNCHANGED vars
  BY <1>2 DEF vars, TypeOK
<1> QED
  BY <1>1, <1>2

\* The variables keep their types: the steps of a request and of a thread, as
\* Gateway and HubContext take them, apply to what they find.
THEOREM TypeCorrect == Spec => []TypeOK
BY TypeInvariant, TypeStep, PTL DEF Spec

-----------------------------------------------------------------------------
(***************************************************************************)
(* No thread leaves a port bound.  The thread that bound the open socket   *)
(* of a gateway is still there, and no request restarts that thread: the   *)
(* thread of a request that opens is new.                                  *)
(***************************************************************************)

\* The requests that are to start a thread.
Opening(c) == calls[c].pc \in {"open", "start"}

\* The thread that a request is to start was not started, by it or another.
NewThreads ==
  /\ \A g \in Gateway, i \in Thread : i > made => threads[g][i] = "none"
  /\ \A c \in Client : Opening(c) =>
       /\ calls[c].thread <= made
       /\ \A g \in Gateway : threads[g][calls[c].thread] = "none"
  /\ \A c, d \in Client :
       Opening(c) /\ Opening(d) /\ calls[c].thread = calls[d].thread => c = d

\* The thread that bound the open socket waits on it, serves or closes it.
BoundByThread ==
  \A g \in Gateway : server[g].open =>
    /\ server[g].thread \in Thread
    /\ threads[g][server[g].thread] \in {"accept", "serve", "finally"}

\* The threads of a SIPROGateway bind no port.
SiproBindsNothing ==
  \A g \in Sipro : /\ ~server[g].open
                   /\ \A i \in Thread : threads[g][i] # "bind"

PortInv == TypeOK /\ NewThreads /\ BoundByThread /\ SiproBindsNothing

\* A step of a request.
LEMMA ServePort ==
  ASSUME PortInv, NEW c \in Client, ServeCall(c)
  PROVE  NewThreads' /\ BoundByThread'
<1> USE DEF PortInv, TypeOK, At
<1>1. /\ calls[c] \in Call
      /\ calls[c].pc \in {"open", "start", "add"} => calls[c] \in OpenCall
      /\ calls[c].pc \in {"close", "socket", "remove", "clear"} => calls[c] \in CloseCall
  BY CallKinds
<1>2. ASSUME ~Opening(c)', \A d \in Client : d # c => calls'[d] = calls[d],
             UNCHANGED <<threads, made>>
      PROVE  NewThreads'
  BY <1>2 DEF NewThreads, Opening
<1>3. ASSUME UNCHANGED threads,
             \A g \in Gateway : server'[g].open =>
               server[g].open /\ server'[g].thread = server[g].thread
      PROVE  BoundByThread'
  BY <1>3 DEF BoundByThread
<1>4. ASSUME OpenStart(c) \/ OpenSipro(c)
      PROVE  NewThreads' /\ BoundByThread'
  <2> DEFINE g == calls[c].gateway
             i == calls[c].thread
  <2>1. g \in Gateway /\ i \in Thread /\ Opening(c)
    BY <1>1, <1>4 DEF OpenStart, OpenSipro, OpenCall, Opening
  <2>2. threads' = [threads EXCEPT ![g][i] = "run"]
    BY <1>4 DEF OpenStart, OpenSipro, Spawn
  <2>3. UNCHANGED <<server, made>>
    BY <1>4 DEF OpenStart, OpenSipro
  <2>4. ~Opening(c)' /\ \A d \in Client : d # c => calls'[d] = calls[d]
    BY <1>1, <1>4 DEF OpenStart, OpenSipro, OpenCall, Opening, Goto, Return, Free
  <2>5. \A h \in Gateway, j \in Thread : j # i => threads'[h][j] = threads[h][j]
    BY <2>1, <2>2
  <2>6. BoundByThread'
    <3>1. \A h \in Gateway : server[h].open => server[h].thread # i
      BY <2>1 DEF NewThreads, BoundByThread
    <3> QED
      BY <2>3, <2>5, <3>1 DEF BoundByThread
  <2>7. i <= made
    BY <2>1 DEF NewThreads
  <2>8. \A d \in Client : Opening(d)' =>
          d # c /\ Opening(d) /\ calls'[d] = calls[d] /\ calls[d].thread # i
    BY <2>1, <2>4 DEF NewThreads, Opening
  <2>9. \A d \in Client : Opening(d) => calls[d].thread \in Thread
    BY CallKinds DEF Opening, OpenCall
  <2>10. \A j \in Thread : j > made => j # i
    BY <2>7, MaxCallsAssumption DEF Thread
  <2> QED
    BY <2>3, <2>5, <2>6, <2>8, <2>9, <2>10 DEF NewThreads
<1>5. CASE OpenCheck(c)
  <2>1. BoundByThread'
    BY <1>3, <1>5 DEF OpenCheck
  <2>2. CASE Return(c)
    BY <1>2, <1>5, <2>1, <2>2 DEF OpenCheck, Return, Opening, Free
  <2>3. CASE Goto(c, "start")
    <3>1. calls[c] \in OpenCall /\ Opening(c)
      BY <1>1, <1>5 DEF OpenCheck, Opening
    <3>2. \A d \in Client : Opening(d)' =>
            Opening(d) /\ calls'[d].thread = calls[d].thread
      BY <2>3, <3>1 DEF Goto, OpenCall, Opening
    <3>3. UNCHANGED <<threads, made>>
      BY <1>5 DEF OpenCheck
    <3>4. NewThreads'
      BY <3>2, <3>3 DEF NewThreads
    <3> QED
      BY <2>1, <3>4
  <2> QED
    BY <1>5, <2>2, <2>3 DEF OpenCheck
<1>6. CASE AddToList(c)
  BY <1>2, <1>3, <1>6 DEF AddToList, Return, Opening, Free
<1>7. CASE CloseState(c)
  BY <1>2, <1>3, <1>7 DEF CloseState, Goto, Opening
<1>8. CASE CloseSocket(c)
  <2>1. ~Opening(c)' /\ \A d \in Client : d # c => calls'[d] = calls[d]
    BY <1>1, <1>8 DEF CloseSocket, CloseCall, Goto, Return, Opening, Free
  <2>2. BoundByThread'
    BY <1>3, <1>8 DEF CloseSocket, Socket
  <2> QED
    BY <1>2, <1>8, <2>1, <2>2 DEF CloseSocket
<1>9. CASE RemoveFromList(c)
  BY <1>2, <1>3, <1>9 DEF RemoveFromList, Return, Opening, Free
<1>10. CASE NextOrClear(c)
  <2>1. ~Opening(c)' /\ \A d \in Client : d # c => calls'[d] = calls[d]
    BY <1>10 DEF NextOrClear, Return, Opening, Free, Closing
  <2> QED
    BY <1>2, <1>3, <1>10, <2>1 DEF NextOrClear
<1> QED
  BY <1>4, <1>5, <1>6, <1>7, <1>8, <1>9, <1>10 DEF ServeCall

\* A request that starts gets a number that no thread has.
LEMMA NewCallPort ==
  ASSUME PortInv, NEW c \in Client, NewCall(c)
  PROVE  NewThreads' /\ BoundByThread'
<1> USE DEF PortInv, TypeOK
<1>1. /\ made' = made + 1 /\ made' \in Thread
      /\ UNCHANGED <<threads, server>>
  BY MaxCallsAssumption
  DEF NewCall, PostGateway, CallOpen, CallClose, Request, Thread
<1>2. /\ \A d \in Client : d # c => calls'[d] = calls[d]
      /\ Opening(c)' => calls'[c].thread = made'
  BY DEF NewCall, PostGateway, CallOpen, CallClose, Closing, Opening
<1>3. \A d \in Client : Opening(d) => calls[d].thread \in Thread
  BY CallKinds DEF Opening, OpenCall
<1>4. \A d \in Client : Opening(d) => calls[d].thread < made'
  BY <1>1, <1>3, MaxCallsAssumption DEF NewThreads, Thread
<1>5. \A d \in Client : Opening(d)' =>
        \/ d = c /\ calls'[d].thread = made'
        \/ d # c /\ Opening(d) /\ calls'[d].thread = calls[d].thread
  BY <1>2 DEF Opening
<1>6. \A j \in Thread : j > made' => j > made
  BY <1>1, MaxCallsAssumption DEF Thread
<1>7. \A g \in Gateway : threads[g][made'] = "none"
  BY <1>1 DEF NewThreads
<1>8. NewThreads'
  <2>1. \A d \in Client : Opening(d)' =>
          /\ calls'[d].thread <= made'
          /\ \A g \in Gateway : threads'[g][calls'[d].thread] = "none"
    BY <1>1, <1>3, <1>4, <1>5, <1>7, MaxCallsAssumption DEF NewThreads, Thread
  <2>2. \A d, e \in Client :
          Opening(d)' /\ Opening(e)' /\ calls'[d].thread = calls'[e].thread => d = e
    BY <1>1, <1>3, <1>4, <1>5, MaxCallsAssumption DEF NewThreads, Thread
  <2> QED
    BY <1>1, <1>6, <2>1, <2>2 DEF NewThreads
<1>9. BoundByThread'
  BY <1>1 DEF BoundByThread
<1> QED
  BY <1>8, <1>9

\* A step of a thread: the socket it leaves open is its own, and in use.
LEMMA ThreadPort ==
  ASSUME PortInv, NEW g \in Gateway, NEW i \in Thread,
         ThreadStep(g, i) \/ Device(g, i)
  PROVE  NewThreads' /\ BoundByThread' /\ SiproBindsNothing'
<1> USE DEF PortInv, TypeOK
<1>1. UNCHANGED <<calls, made>>
  BY DEF ThreadStep, Device, Run, Loop, Bind, Connect, AcceptFails, ServeEnds,
         Disconnect, Finally, Stopped
<1>2. PICK from \in ThreadPC \ {"none"}, to \in ThreadPC :
        threads[g][i] = from /\ threads' = [threads EXCEPT ![g][i] = to]
  BY DEF ThreadStep, Device, Run, Loop, Bind, Connect, AcceptFails, ServeEnds,
         Disconnect, Finally, Stopped, ThreadPC, Step
<1>3. \A h \in Gateway, j \in Thread :
        h # g \/ j # i => threads'[h][j] = threads[h][j]
  BY <1>2
<1>4. NewThreads'
  <2>1. \A h \in Gateway, j \in Thread : threads[h][j] = "none" => threads'[h][j] = "none"
    BY <1>2, <1>3
  <2>2. \A c \in Client : Opening(c) => calls[c].thread \in Thread
    BY CallKinds DEF Opening, OpenCall
  <2> QED
    BY <1>1, <2>1, <2>2 DEF NewThreads, Opening
<1>5. BoundByThread'
  <2>1. ASSUME UNCHANGED server,
               threads[g][i] \in {"accept", "serve", "finally"} =>
                 threads'[g][i] \in {"accept", "serve", "finally"}
        PROVE  BoundByThread'
    BY <1>3, <2>1 DEF BoundByThread
  <2>2. CASE Run(g, i)
    BY <2>1, <2>2 DEF Run, Step
  <2>3. CASE Loop(g, i)
    BY <2>1, <2>3 DEF Loop, Step
  <2>4. CASE Bind(g, i)
    <3>1. CASE Step(g, i, "bind", "accept")
                 /\ server' = [server EXCEPT ![g] = [thread |-> i, open |-> TRUE]]
      BY <1>3, <3>1 DEF Step, BoundByThread
    <3> QED
      BY <2>1, <2>4, <3>1 DEF Bind, Step
  <2>5. CASE Connect(g, i)
    BY <2>1, <2>5 DEF Connect, Step
  <2>6. CASE AcceptFails(g, i)
    BY <2>1, <2>6 DEF AcceptFails, Step
  <2>7. CASE ServeEnds(g, i) \/ Disconnect(g, i)
    <3>1. CASE g \in Sipro
      <4>1. ~server'[g].open /\ UNCHANGED server
        BY <2>7, <3>1 DEF ServeEnds, Disconnect, SiproBindsNothing
      <4> QED
        BY <1>3, <4>1 DEF BoundByThread
    <3>2. CASE g \notin Sipro
      BY <2>1, <2>7, <3>2 DEF ServeEnds, Disconnect, Step
    <3> QED
      BY <3>1, <3>2
  <2>9. CASE Finally(g, i)
    <3>1. /\ ~server'[g].open
          /\ \A h \in Gateway : h # g => server'[h] = server[h]
      BY <2>9 DEF Finally, Socket
    <3> QED
      BY <1>3, <3>1 DEF BoundByThread
  <2>10. CASE Stopped(g, i)
    BY <2>1, <2>10 DEF Stopped, Step
  <2> QED
    BY <2>2, <2>3, <2>4, <2>5, <2>6, <2>7, <2>9, <2>10 DEF ThreadStep, Device
<1>6. SiproBindsNothing'
  <2>1. CASE Bind(g, i)
    <3>1. g \notin Sipro
      BY <2>1 DEF Bind, Step, SiproBindsNothing
    <3>2. \A h \in Sipro : h # g /\ UNCHANGED <<server[h], threads[h]>>
      BY <2>1, <3>1, GatewayAssumption DEF Bind, Step
    <3> QED
      BY <3>2 DEF SiproBindsNothing
  <2>2. CASE ~Bind(g, i)
    <3>1. \A h \in Gateway : ~server[h].open => ~server'[h].open
      BY <2>2 DEF ThreadStep, Device, Run, Loop, Connect, AcceptFails, ServeEnds,
         Disconnect, Finally, Stopped, Socket
    <3>2. g \in Sipro => threads'[g][i] # "bind"
      BY <2>2 DEF ThreadStep, Device, Run, Loop, Connect, AcceptFails, ServeEnds,
         Disconnect, Finally, Stopped, Step
    <3> QED
      BY <1>3, <3>1, <3>2, GatewayAssumption DEF SiproBindsNothing
  <2> QED
    BY <2>1, <2>2
<1> QED
  BY <1>4, <1>5, <1>6

LEMMA PortInit == Init => PortInv
<1> SUFFICES ASSUME Init PROVE PortInv
  OBVIOUS
<1>1. TypeOK
  BY TypeInvariant
<1>2. /\ \A c \in Client : ~Opening(c)
      /\ \A g \in Gateway : ~server[g].open
      /\ \A g \in Gateway, i \in Thread : threads[g][i] = "none"
  BY DEF Init, Opening, Free, Null
<1> QED
  BY <1>1, <1>2, GatewayAssumption
  DEF PortInv, NewThreads, BoundByThread, SiproBindsNothing

LEMMA PortStep == PortInv /\ [Next]_vars => PortInv'
<1> SUFFICES ASSUME PortInv, [Next]_vars PROVE PortInv'
  OBVIOUS
<1>1. TypeOK'
  BY TypeStep DEF PortInv
<1>2. ASSUME NEW c \in Client, NewCall(c) \/ ServeCall(c)
      PROVE  SiproBindsNothing'
  <2>1. \A h \in Gateway : ~server[h].open => ~server'[h].open
    BY <1>2 DEF NewCall, PostGateway, CallOpen, CallClose, ServeCall, OpenCheck,
       OpenStart, OpenSipro, AddToList, CloseState, CloseSocket, RemoveFromList,
       NextOrClear, PortInv, TypeOK, Socket
  <2>2. UNCHANGED threads \/ \E h, j : threads' = [threads EXCEPT ![h][j] = "run"]
    BY <1>2 DEF NewCall, PostGateway, CallOpen, CallClose, ServeCall, OpenCheck,
       OpenStart, OpenSipro, AddToList, CloseState, CloseSocket, RemoveFromList,
       NextOrClear, Spawn
  <2>3. \A h \in Gateway, j \in Thread :
          threads[h][j] # "bind" => threads'[h][j] # "bind"
    BY <2>2 DEF PortInv, TypeOK
  <2> QED
    BY <2>1, <2>3, GatewayAssumption DEF PortInv, SiproBindsNothing
<1>3. CASE Next
  BY <1>1, <1>2, <1>3, NewCallPort, ServePort, ThreadPort DEF Next, PortInv
<1>4. CASE UNCHANGED vars
  <2>1. NewThreads' /\ BoundByThread' /\ SiproBindsNothing'
    BY <1>4
    DEF vars, PortInv, NewThreads, Opening, BoundByThread, SiproBindsNothing
  <2> QED
    BY <1>1, <2>1 DEF PortInv
<1> QED
  BY <1>3, <1>4

\* No thread of Gateway.run ends or dies and leaves its port bound, however
\* many requests open and close the gateways together.
THEOREM NoLeakedPortCorrect == Spec => []NoLeakedPort
<1>1. PortInv => NoLeakedPort
  BY DEF PortInv, BoundByThread, NoLeakedPort
<1> QED
  BY <1>1, PortInit, PortStep, PTL DEF Spec

-----------------------------------------------------------------------------
(***************************************************************************)
(* One thread for each XBeeGateway, when requests are served one at a      *)
(* time.  A stopped gateway has no thread, and a request that is to start  *)
(* one found the gateway stopped, which only another request could change. *)
(***************************************************************************)
OneAtATime == \A c, d \in Client : c = d

StoppedHasNone ==
  \A g \in Gateway \ Sipro : state[g] = "STOPPED" =>
    \A i \in Thread : ~Alive(g, i)

StartOfStopped ==
  \A c \in Client : calls[c].pc = "start" =>
    /\ calls[c].gateway \in Gateway \ Sipro
    /\ state[calls[c].gateway] = "STOPPED"

SingleInv == TypeOK /\ SingleThread /\ StoppedHasNone /\ StartOfStopped

\* A step of the only request.
LEMMA ServeSingle ==
  ASSUME OneAtATime, SingleInv, NEW c \in Client, ServeCall(c)
  PROVE  SingleThread' /\ StoppedHasNone' /\ StartOfStopped'
<1> USE DEF SingleInv, TypeOK, At
<1>1. \A d \in Client : d = c
  BY DEF OneAtATime
<1>2. /\ calls[c] \in Call
      /\ calls[c].pc \in {"open", "start", "add"} => calls[c] \in OpenCall
      /\ calls[c].pc \in {"close", "socket", "remove", "clear"} => calls[c] \in CloseCall
  BY CallKinds
<1>3. ASSUME UNCHANGED threads,
             \A g \in Gateway : state'[g] = "STOPPED" => state[g] = "STOPPED",
             calls'[c].pc # "start"
      PROVE  SingleThread' /\ StoppedHasNone' /\ StartOfStopped'
  BY <1>1, <1>3 DEF SingleThread, StoppedHasNone, StartOfStopped, Alive
<1>4. CASE OpenCheck(c)
  <2>1. CASE Return(c)
    BY <1>3, <1>4, <2>1 DEF OpenCheck, Return, Free
  <2>2. CASE Goto(c, "start") /\ state[calls[c].gateway] = "STOPPED"
    <3>1. calls'[c].gateway = calls[c].gateway /\ calls[c] \in OpenCall
      BY <1>2, <1>4, <2>2 DEF OpenCheck, Goto, OpenCall
    <3>2. UNCHANGED <<state, threads>> /\ calls[c].gateway \notin Sipro
      BY <1>4 DEF OpenCheck
    <3>3. StartOfStopped'
      BY <1>1, <2>2, <3>1, <3>2 DEF StartOfStopped, OpenCall
    <3> QED
      BY <3>2, <3>3 DEF SingleThread, StoppedHasNone, Alive
  <2> QED
    BY <1>4, <2>1, <2>2 DEF OpenCheck
<1>5. CASE OpenStart(c)
  <2>1. PICK g \in Gateway \ Sipro, i \in Thread :
          g = calls[c].gateway /\ i = calls[c].thread /\ state[g] = "STOPPED"
    BY <1>2, <1>5 DEF OpenStart, OpenCall, StartOfStopped
  <2>2. /\ threads' = [threads EXCEPT ![g][i] = "run"]
        /\ state' = [state EXCEPT ![g] = "STARTING"]
        /\ calls'[c].pc # "start"
    BY <1>2, <1>5, <2>1 DEF OpenStart, Spawn, OpenCall, Goto, Return, Free
  <2>3. \A j \in Thread : j # i => ~Alive(g, j)'
    <3>1. \A j \in Thread : ~Alive(g, j)
      BY <2>1 DEF StoppedHasNone
    <3> QED
      BY <2>1, <2>2, <3>1 DEF Alive
  <2>4. \A h \in Gateway, j \in Thread : h # g => Alive(h, j)' = Alive(h, j)
    BY <2>1, <2>2 DEF Alive
  <2>5. SingleThread'
    <3> SUFFICES ASSUME NEW h \in Gateway \ Sipro, NEW j \in Thread, NEW k \in Thread,
                        Alive(h, j)', Alive(h, k)'
                 PROVE  j = k
      BY DEF SingleThread
    <3>1. CASE h = g
      BY <2>3, <3>1
    <3>2. CASE h # g
      BY <2>4, <3>2 DEF SingleThread
    <3> QED
      BY <3>1, <3>2
  <2>6. StoppedHasNone'
    BY <2>1, <2>2, <2>4 DEF StoppedHasNone
  <2>7. StartOfStopped'
    BY <1>1, <2>2 DEF StartOfStopped
  <2> QED
    BY <2>5, <2>6, <2>7
<1>6. CASE OpenSipro(c)
  <2> DEFINE g == calls[c].gateway
  <2>1. /\ g \in Sipro
        /\ threads' = [threads EXCEPT ![g][calls[c].thread] = "run"]
        /\ calls'[c].pc # "start" /\ UNCHANGED state
    BY <1>2, <1>6 DEF OpenSipro, Spawn, OpenCall, Goto, Return, Free
  <2>2. \A h \in Gateway \ Sipro, j \in Thread : Alive(h, j)' = Alive(h, j)
    BY <2>1 DEF Alive
  <2>3. SingleThread' /\ StoppedHasNone'
    BY <2>1, <2>2 DEF SingleThread, StoppedHasNone
  <2> QED
    BY <1>1, <2>1, <2>3 DEF StartOfStopped
<1>7. CASE AddToList(c)
  BY <1>3, <1>7 DEF AddToList, Return, Free
<1>8. CASE CloseState(c)
  BY <1>2, <1>3, <1>8 DEF CloseState, CloseCall, Goto
<1>9. CASE CloseSocket(c)
  BY <1>2, <1>3, <1>9 DEF CloseSocket, CloseCall, Goto, Return, Free
<1>10. CASE RemoveFromList(c)
  BY <1>3, <1>10 DEF RemoveFromList, Return, Free
<1>11. CASE NextOrClear(c)
  BY <1>3, <1>11 DEF NextOrClear, Return, Free, Closing
<1> QED
  BY <1>4, <1>5, <1>6, <1>7, <1>8, <1>9, <1>10, <1>11 DEF ServeCall

\* A request that starts.
LEMMA NewCallSingle ==
  ASSUME OneAtATime, SingleInv, NEW c \in Client, NewCall(c)
  PROVE  SingleThread' /\ StoppedHasNone' /\ StartOfStopped'
<1> USE DEF SingleInv, TypeOK
<1>1. calls'[c].pc # "start" /\ UNCHANGED <<state, threads>>
  BY DEF NewCall, PostGateway, CallOpen, CallClose, Closing
<1>2. \A d \in Client : d = c
  BY DEF OneAtATime
<1> QED
  BY <1>1, <1>2 DEF SingleThread, StoppedHasNone, StartOfStopped, Alive

\* A step of a thread: it starts no other, and its gateway is stopped only
\* when the thread ends.
LEMMA ThreadSingle ==
  ASSUME SingleInv, NEW g \in Gateway, NEW i \in Thread,
         ThreadStep(g, i) \/ Device(g, i)
  PROVE  SingleThread' /\ StoppedHasNone' /\ StartOfStopped'
<1> USE DEF SingleInv, TypeOK
<1>1. PICK to \in ThreadPC :
        threads' = [threads EXCEPT ![g][i] = to]
  BY DEF ThreadStep, Device, Run, Loop, Bind, Connect, AcceptFails, ServeEnds,
         Disconnect, Finally, Stopped, ThreadPC, Step
<1>2. Alive(g, i)
  BY DEF ThreadStep, Device, Run, Loop, Bind, Connect, AcceptFails, ServeEnds,
         Disconnect, Finally, Stopped, Step, Alive
<1>3. \A h \in Gateway, j \in Thread : Alive(h, j)' => Alive(h, j)
  BY <1>1, <1>2 DEF Alive
<1>4. \A h \in Gateway : h # g => state'[h] = state[h]
  BY DEF ThreadStep, Device, Run, Loop, Bind, Connect, AcceptFails, ServeEnds,
         Disconnect, Finally, Stopped
<1>5. state'[g] = "STOPPED" => state[g] = "STOPPED" \/ threads'[g][i] = "ended"
  BY DEF ThreadStep, Device, Run, Loop, Bind, Connect, AcceptFails, ServeEnds,
         Disconnect, Finally, Stopped, Step
<1>6. SingleThread'
  BY <1>3 DEF SingleThread
<1>7. StoppedHasNone'
  <2> SUFFICES ASSUME NEW h \in Gateway \ Sipro, state'[h] = "STOPPED",
                      NEW j \in Thread
               PROVE  ~Alive(h, j)'
    BY DEF StoppedHasNone
  <2>1. CASE state[h] = "STOPPED"
    BY <1>3, <2>1 DEF StoppedHasNone
  <2>2. CASE state[h] # "STOPPED"
    <3>1. h = g /\ threads'[g][i] = "ended"
      BY <1>4, <1>5, <2>2
    <3>2. Alive(g, j) => j = i
      BY <1>2, <3>1 DEF SingleThread
    <3> QED
      BY <1>3, <3>1, <3>2 DEF Alive
  <2> QED
    BY <2>1, <2>2
<1>8. StartOfStopped'
  <2>1. UNCHANGED calls
    BY DEF ThreadStep, Device, Run, Loop, Bind, Connect, AcceptFails, ServeEnds,
           Disconnect, Finally, Stopped
  <2>2. \A c \in Client : calls[c].pc = "start" => calls[c].gateway # g
    BY <1>2 DEF StartOfStopped, StoppedHasNone
  <2> QED
    BY <1>4, <2>1, <2>2 DEF StartOfStopped
<1> QED
  BY <1>6, <1>7, <1>8

LEMMA SingleInit == Init => SingleInv
<1> SUFFICES ASSUME Init PROVE SingleInv
  OBVIOUS
<1>1. TypeOK
  BY TypeInvariant
<1>2. \A c \in Client : calls[c].pc # "start"
  BY DEF Init, Free
<1>3. \A g \in Gateway, i \in Thread : ~Alive(g, i)
  BY DEF Init, Alive
<1> QED
  BY <1>1, <1>2, <1>3 DEF SingleInv, SingleThread, StoppedHasNone, StartOfStopped

LEMMA SingleStep == ASSUME OneAtATime PROVE SingleInv /\ [Next]_vars => SingleInv'
<1> SUFFICES ASSUME SingleInv, [Next]_vars PROVE SingleInv'
  OBVIOUS
<1>1. TypeOK'
  BY TypeStep DEF SingleInv
<1>2. CASE Next
  BY <1>1, <1>2, OneAtATime, NewCallSingle, ServeSingle, ThreadSingle
  DEF Next, SingleInv
<1>3. CASE UNCHANGED vars
  <2>1. SingleThread' /\ StoppedHasNone' /\ StartOfStopped'
    BY <1>3 DEF vars, SingleInv, SingleThread, StoppedHasNone, StartOfStopped, Alive
  <2> QED
    BY <1>1, <2>1 DEF SingleInv
<1> QED
  BY <1>2, <1>3

\* When requests are served one at a time, an XBeeGateway never has two
\* threads (open, close and run of Gateway).
THEOREM SingleThreadCorrect == ASSUME OneAtATime PROVE Spec => []SingleThread
<1>1. SingleInv => SingleThread
  BY DEF SingleInv
<1> QED
  BY <1>1, SingleInit, SingleStep, PTL DEF Spec

=============================================================================
