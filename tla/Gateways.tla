------------------------------ MODULE Gateways ------------------------------
(***************************************************************************)
(* The gateways of the hub: HubContext, the requests of GatewayResource    *)
(* that add, open, close and remove a gateway, and the thread of Gateway,  *)
(* which binds the port, waits for the device to connect and serves it.    *)
(* A request is served by a thread of its own; HubContext takes no lock,   *)
(* and a gateway shares only its volatile state and its server socket with *)
(* its thread.  SIPROGateway overrides open and run: it binds nothing.     *)
(***************************************************************************)
EXTENDS Naturals, Sequences, SequencesExt

CONSTANTS
  Gateway,     \* the gateways that requests may add, one object each
  Client,      \* the requests that may be served at the same time
  Sipro,       \* the gateways that are SIPROGateway, the others XBeeGateway
  Id, Port,    \* the identifier and the port of each gateway
  MaxCalls     \* bound: the requests of a run

ASSUME GatewayAssumption == Sipro \subseteq Gateway

ASSUME MaxCallsAssumption == MaxCalls \in Nat

VARIABLES
  listed,      \* HubContext.gateways, an ArrayList without a lock
  state,       \* the run state of each gateway
  threads,     \* the threads of each gateway: where each thread is
  server,      \* the server socket of each gateway
  calls,       \* where each request is
  made         \* the requests made so far

vars == <<listed, state, threads, server, calls, made>>

RunnableState == {"STARTING", "STARTED", "STOPPING", "STOPPED"}

\* A gateway has one thread for each request that opened it: the thread has
\* the number of that request.
Thread == 1 .. MaxCalls

\* "none" is a thread that was not started, "dead" one that an exception
\* ended, "ended" one that ran to its end.
ThreadPC == {"none", "run", "loop", "bind", "accept", "serve", "finally",
             "stopped", "ended", "dead"}

Alive(g, i) == threads[g][i] \notin {"none", "ended", "dead"}

\* A server socket is the thread that bound it, and whether it is open.
Socket == [thread : 0 .. MaxCalls, open : BOOLEAN]

Null == [thread |-> 0, open |-> FALSE]

Free == [pc |-> "free"]

\* A request refers to the gateway.
Held(g) == \E c \in Client : calls[c] # Free /\ calls[c].gateway = g

Init ==
  /\ listed = <<>>
  /\ state = [g \in Gateway |-> "STOPPED"]
  /\ threads = [g \in Gateway |-> [i \in Thread |-> "none"]]
  /\ server = [g \in Gateway |-> Null]
  /\ calls = [c \in Client |-> Free]
  /\ made = 0

\* The gateways whose server socket holds the port.
Binding(p) == {g \in Gateway : Port[g] = p /\ server[g].open}

\* The index that the loops over the list find for the identifier of a gateway.
Found(i) == /\ i \in DOMAIN listed
            /\ \A j \in 1 .. i - 1 : Id[listed[j]] # Id[listed[i]]
-----------------------------------------------------------------------------
(***************************************************************************)
(* The requests.                                                           *)
(***************************************************************************)
Request(c) == /\ calls[c] = Free /\ made < MaxCalls
              /\ made' = made + 1

At(c, pc) == calls[c].pc = pc

Goto(c, pc) == calls' = [calls EXCEPT ![c].pc = pc]

\* Mutant: a request that returned keeps its gateway.
ReturnKeeping(c) == calls' = [calls EXCEPT ![c].pc = "free"]

Return(c) == calls' = [calls EXCEPT ![c] = Free]

\* Thread thr = new Thread(this); thr.start();
Spawn(g, i) == threads' = [threads EXCEPT ![g][i] = "run"]

\* addGateway: the checks on the list; a new object is created by each call.
PostGateway(c, g) ==
  /\ Request(c)
  /\ ~Held(g) /\ \A i \in Thread : threads[g][i] = "none"
  /\ \A i \in DOMAIN listed : Port[listed[i]] # Port[g] /\ Id[listed[i]] # Id[g]
  /\ calls' = [calls EXCEPT ![c] = [pc |-> "open", gateway |-> g, add |-> TRUE,
                                    thread |-> made']]
  /\ UNCHANGED <<listed, state, threads, server>>

CallOpen(c) ==
  /\ Request(c)
  /\ \E i \in DOMAIN listed :
       /\ Found(i)
       /\ calls' = [calls EXCEPT ![c] = [pc |-> "open", gateway |-> listed[i],
                                         add |-> FALSE, thread |-> made']]
  /\ UNCHANGED <<listed, state, threads, server>>

\* What closeGateway, removeGateway and removeAllGateways do after the close:
\* the index and the list that the loop is at.
Closing(i, then) == [pc |-> "close", gateway |-> listed[i], then |-> then,
                     index |-> i, list |-> listed]

CallClose(c, then) ==
  /\ Request(c)
  /\ \E i \in DOMAIN listed :
       /\ IF then = "clear" THEN i = 1 ELSE Found(i)
       /\ calls' = [calls EXCEPT ![c] = Closing(i, then)]
  /\ UNCHANGED <<listed, state, threads, server>>

\* Mutant: open does not check the state, as that of SIPROGateway.
OpenUnchecked(c) ==
  /\ At(c, "open") /\ calls[c].gateway \notin Sipro
  /\ Goto(c, "start")
  /\ UNCHANGED <<listed, state, threads, server, made>>

\* open of an XBeeGateway checks the state, and only then sets it.
OpenCheck(c) ==
  LET g == calls[c].gateway
  IN  /\ At(c, "open") /\ g \notin Sipro
      /\ IF state[g] = "STOPPED" THEN Goto(c, "start") ELSE Return(c)
      /\ UNCHANGED <<listed, state, threads, server, made>>

OpenStart(c) ==
  LET g == calls[c].gateway
  IN  /\ At(c, "start")
      /\ state' = [state EXCEPT ![g] = "STARTING"]
      /\ Spawn(g, calls[c].thread)
      /\ IF calls[c].add THEN Goto(c, "add") ELSE Return(c)
      /\ UNCHANGED <<listed, server, made>>

\* SIPROGateway.open.
OpenSipro(c) ==
  LET g == calls[c].gateway
  IN  /\ At(c, "open") /\ g \in Sipro
      /\ Spawn(g, calls[c].thread)
      /\ IF calls[c].add THEN Goto(c, "add") ELSE Return(c)
      /\ UNCHANGED <<listed, state, server, made>>

\* Two additions at once may leave one element in the list.
AddToList(c) ==
  /\ At(c, "add")
  /\ \/ listed' = Append(listed, calls[c].gateway)
     \/ (\E d \in Client \ {c} : At(d, "add")) /\ UNCHANGED listed
  /\ Return(c)
  /\ UNCHANGED <<state, threads, server, made>>

\* close: the state first, then the socket, if there is one.
CloseState(c) ==
  LET g == calls[c].gateway
  IN  /\ At(c, "close")
      /\ state' = [state EXCEPT ![g] = "STOPPING"]
      /\ Goto(c, "socket")
      /\ UNCHANGED <<listed, threads, server, made>>

CloseSocket(c) ==
  LET g == calls[c].gateway
  IN  /\ At(c, "socket")
      /\ server' = [server EXCEPT ![g].open = FALSE]
      /\ IF calls[c].then = "return" THEN Return(c) ELSE Goto(c, calls[c].then)
      /\ UNCHANGED <<listed, state, threads, made>>

\* removeGateway removes by the index it found, whatever is there by now.
RemoveFromList(c) ==
  /\ At(c, "remove")
  /\ listed' = IF calls[c].index \in DOMAIN listed
               THEN RemoveAt(listed, calls[c].index) ELSE listed
  /\ Return(c)
  /\ UNCHANGED <<state, threads, server, made>>

\* removeAllGateways iterates over the list: the next gateway is closed, or
\* the list cleared, or a list that changed is an exception.
NextOrClear(c) ==
  LET i == calls[c].index
  IN  /\ At(c, "clear")
      /\ \/ /\ i < Len(listed) /\ listed = calls[c].list
            /\ calls' = [calls EXCEPT ![c] = Closing(i + 1, "clear")]
            /\ UNCHANGED listed
         \/ i # Len(listed) /\ listed # calls[c].list /\ Return(c) /\ UNCHANGED listed
         \/ i = Len(listed) /\ Return(c) /\ listed' = <<>>
      /\ UNCHANGED <<state, threads, server, made>>
-----------------------------------------------------------------------------
(***************************************************************************)
(* run.                                                                    *)
(***************************************************************************)
Step(g, i, from, to) ==
  /\ threads[g][i] = from
  /\ threads' = [threads EXCEPT ![g][i] = to]

Run(g, i) ==
  /\ Step(g, i, "run", "loop")
  /\ state' = [state EXCEPT ![g] = "STARTED"]
  /\ UNCHANGED <<listed, server, calls, made>>

\* Mutant: the outer loop does not end.
LoopForever(g, i) ==
  /\ Step(g, i, "loop", IF g \in Sipro THEN "serve" ELSE "bind")
  /\ UNCHANGED <<listed, state, server, calls, made>>

\* The outer loop.
Loop(g, i) ==
  /\ \/ /\ state[g] # "STOPPING"
        /\ Step(g, i, "loop", IF g \in Sipro THEN "serve" ELSE "bind")
     \/ /\ state[g] = "STOPPING"
        /\ Step(g, i, "loop", "stopped")
  /\ UNCHANGED <<listed, state, server, calls, made>>

\* new ServerSocket(port): a port in use is a SocketException.
Bind(g, i) ==
  /\ \/ /\ Binding(Port[g]) = {}
        /\ Step(g, i, "bind", "accept")
        /\ server' = [server EXCEPT ![g] = [thread |-> i, open |-> TRUE]]
     \/ /\ Binding(Port[g]) # {}
        /\ Step(g, i, "bind", "finally")
        /\ UNCHANGED server
  /\ UNCHANGED <<listed, state, calls, made>>

\* The device connects, or the socket is closed under the thread.  The thread
\* accepts on the field: on a socket that another thread bound meanwhile, too.
Connect(g, i) ==
  /\ server[g].open
  /\ Step(g, i, "accept", "serve")
  /\ UNCHANGED <<listed, state, server, calls, made>>

AcceptFails(g, i) ==
  /\ server[g] # [thread |-> i, open |-> TRUE]
  /\ Step(g, i, "accept", "finally")
  /\ UNCHANGED <<listed, state, server, calls, made>>

\* The inner loop ends when the gateway is stopping, or with the connection.
ServeEnds(g, i) ==
  /\ state[g] = "STOPPING"
  /\ Step(g, i, "serve", IF g \in Sipro THEN "loop" ELSE "finally")
  /\ UNCHANGED <<listed, state, server, calls, made>>

Disconnect(g, i) ==
  /\ Step(g, i, "serve", IF g \in Sipro THEN "loop" ELSE "finally")
  /\ UNCHANGED <<listed, state, server, calls, made>>

\* Mutant: the thread leaves the server socket open.
FinallyLeaving(g, i) ==
  /\ Step(g, i, "finally", IF server[g] = Null THEN "dead" ELSE "loop")
  /\ UNCHANGED <<listed, state, server, calls, made>>

\* The finally block closes the server socket of the gateway; when the port
\* could not be bound the first time there is none, and the
\* NullPointerException ends the thread.
Finally(g, i) ==
  /\ Step(g, i, "finally", IF server[g] = Null THEN "dead" ELSE "loop")
  /\ server' = [server EXCEPT ![g].open = FALSE]
  /\ UNCHANGED <<listed, state, calls, made>>

Stopped(g, i) ==
  /\ Step(g, i, "stopped", "ended")
  /\ state' = [state EXCEPT ![g] = "STOPPED"]
  /\ UNCHANGED <<listed, server, calls, made>>

ThreadStep(g, i) ==
  \/ Run(g, i) \/ Loop(g, i) \/ Bind(g, i) \/ AcceptFails(g, i)
  \/ ServeEnds(g, i) \/ Finally(g, i) \/ Stopped(g, i)

Device(g, i) == Connect(g, i) \/ Disconnect(g, i)

ServeCall(c) ==
  \/ OpenCheck(c) \/ OpenStart(c) \/ OpenSipro(c) \/ AddToList(c)
  \/ CloseState(c) \/ CloseSocket(c) \/ RemoveFromList(c) \/ NextOrClear(c)

NewCall(c) == \/ \E g \in Gateway : PostGateway(c, g)
              \/ CallOpen(c)
              \/ \E then \in {"return", "remove", "clear"} : CallClose(c, then)

Next == \/ \E c \in Client : NewCall(c) \/ ServeCall(c)
        \/ \E g \in Gateway, i \in Thread : ThreadStep(g, i) \/ Device(g, i)

Spec == Init /\ [][Next]_vars

\* The threads of the container and of the gateways run; the devices connect
\* and disconnect when they like.
Fairness == /\ \A c \in Client : WF_vars(ServeCall(c))
            /\ \A g \in Gateway, i \in Thread : WF_vars(ThreadStep(g, i))

FairSpec == Spec /\ Fairness
-----------------------------------------------------------------------------
\* Where a request is.
Call == {Free}
  \cup [pc : {"open", "start", "add"}, gateway : Gateway, add : BOOLEAN,
        thread : Thread]
  \cup [pc : {"close", "socket", "remove", "clear"}, gateway : Gateway,
        then : {"return", "remove", "clear"}, index : Nat \ {0},
        list : Seq(Gateway)]

\* Every variable holds values of the shape that the actions assume.
TypeOK ==
  /\ listed \in Seq(Gateway)
  /\ state \in [Gateway -> RunnableState]
  /\ threads \in [Gateway -> [Thread -> ThreadPC]]
  /\ server \in [Gateway -> Socket]
  /\ calls \in [Client -> Call]
  /\ made \in 0 .. MaxCalls

\* An XBeeGateway has one thread at a time, whatever is opened, closed and
\* lost in between: open is refused until the last thread has run to its end.
\* (Requests served one at a time: two that open the gateway together both
\* find it stopped.)
SingleThread ==
  \A g \in Gateway \ Sipro : \A i, j \in Thread :
    Alive(g, i) /\ Alive(g, j) => i = j

\* A bound port has a thread that waits on it, serves its connection or is
\* about to close it: no thread ends, or dies, and leaves the port bound.
NoLeakedPort ==
  \A g \in Gateway : server[g].open =>
    \E i \in Thread : threads[g][i] \in {"accept", "serve", "finally"}

\* A gateway that is closed while it serves its device stops, and can be
\* opened again, even if the device stays connected.
ClosedWhileServing ==
  \A g \in Gateway \ Sipro, i \in Thread :
    threads[g][i] = "serve" /\ state[g] = "STOPPING"
      ~> threads[g][i] = "ended" /\ state[g] = "STOPPED"

\* A gateway that was removed, and that no request refers to any more.
Gone(g) == /\ \A i \in DOMAIN listed : listed[i] # g
           /\ \E i \in Thread : threads[g][i] # "none"
           /\ ~Held(g)

\* "Close the server" (Gateway.close): the port of a removed gateway is free,
\* sooner or later and for good.
RemovedServerCloses == \A g \in Gateway : Gone(g) ~> [](~server[g].open)
=============================================================================
