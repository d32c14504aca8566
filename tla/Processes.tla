----------------------------- MODULE Processes -----------------------------
(***************************************************************************)
(* The life of the processes: the requests of ProcessResource that post,   *)
(* delete and clear them, and the thread that each one runs (Process).     *)
(* A process is stopped by its state and by a null message, which wakes it *)
(* from the topic that it waits on.  The requests share the list and the   *)
(* counter of the pids, without a lock; a request shares with the thread   *)
(* only the volatile state and the topics.                                 *)
(***************************************************************************)
EXTENDS Naturals, Sequences, SequencesExt

CONSTANTS
  Proc,        \* the processes that requests may post, one object each
  Client,      \* the requests that may be served at the same time
  WaitsOn,     \* for each process, the topic that it receives from
  MaxCalls,    \* bound: the requests of a run
  MaxMessages  \* bound: the packets and events published in a run

\* Registration processes receive from the inbound packets; request processes
\* from the network events, or from nothing: they sleep.
ASSUME WaitsOnAssumption == WaitsOn \in [Proc -> {"inbound", "events", "nothing"}]

ASSUME BoundsAssumption == MaxCalls \in Nat /\ MaxMessages \in Nat

VARIABLES
  listed,      \* ProcessResource.processes, an ArrayList without a lock
  pidCounter,  \* ProcessResource.pidCounter
  pid,         \* the pid of each process, 0 before it is posted
  runState,    \* the state of each process
  thread,      \* where the thread of each process is
  inbox,       \* the messages waiting for each process on its topic
  calls,       \* where each request is
  made,        \* the requests made so far
  published    \* the packets and events published so far

shared == <<listed, pidCounter, pid>>
counts == <<made, published>>
vars   == <<shared, runState, thread, inbox, calls, counts>>

RunnableState == {"STARTING", "STARTED", "STOPPING", "STOPPED"}

\* "none" is a process that was not posted, "new" one whose thread was not
\* started, "dead" one whose thread was ended by a RuntimeException.
ThreadPC == {"none", "new", "run", "loop", "process", "receive", "finally",
             "unwind", "closed", "ended", "dead"}

\* Its consumers are registered and its connection is open.
Connected(p) == thread[p] \notin {"none", "closed", "ended", "dead"}

\* The topics that a process has a consumer of: each has one of the inbound
\* packets, used or not.
Consumed(p) == {"inbound", WaitsOn[p]} \ {"nothing"}

Free == [pc |-> "free"]

Init ==
  /\ listed = <<>> /\ pidCounter = 0
  /\ pid = [p \in Proc |-> 0]
  /\ runState = [p \in Proc |-> "STOPPED"]
  /\ thread = [p \in Proc |-> "none"]
  /\ inbox = [p \in Proc |-> 0]
  /\ calls = [c \in Client |-> Free]
  /\ made = 0 /\ published = 0

\* Every process whose connection is open and waits on one of the topics has
\* one more message.
Deliver(topics) ==
  inbox' = [q \in Proc |-> IF Connected(q) /\ WaitsOn[q] \in topics
                           THEN inbox[q] + 1 ELSE inbox[q]]
-----------------------------------------------------------------------------
(***************************************************************************)
(* The requests.                                                           *)
(***************************************************************************)
Request(c) == /\ calls[c] = Free /\ made < MaxCalls
              /\ made' = made + 1
              /\ UNCHANGED published

At(c, pc) == calls[c].pc = pc

Goto(c, pc) == calls' = [calls EXCEPT ![c].pc = pc]

Return(c) == calls' = [calls EXCEPT ![c] = Free]

\* ++pidCounter is a read and a write.
PostRead(c) ==
  /\ Request(c)
  /\ calls' = [calls EXCEPT ![c] = [pc |-> "count", pid |-> pidCounter + 1]]
  /\ UNCHANGED <<shared, runState, thread, inbox>>

\* The constructor registers the consumers and starts the connection.
PostNew(c, p) ==
  /\ At(c, "count")
  /\ thread[p] = "none"
  /\ pidCounter' = calls[c].pid
  /\ pid' = [pid EXCEPT ![p] = calls[c].pid]
  /\ thread' = [thread EXCEPT ![p] = "new"]
  /\ calls' = [calls EXCEPT ![c] = [pc |-> "add", process |-> p]]
  /\ UNCHANGED <<listed, runState, inbox, counts>>

\* Two additions at once may leave one element in the list.
PostAdd(c) ==
  /\ At(c, "add")
  /\ \/ listed' = Append(listed, calls[c].process)
     \/ (\E d \in Client \ {c} : At(d, "add")) /\ UNCHANGED listed
  /\ Goto(c, "start")
  /\ UNCHANGED <<pidCounter, pid, runState, thread, inbox, counts>>

\* start: nothing happens to a process that was stopped since it was listed.
PostStart(c) ==
  LET p == calls[c].process
  IN  /\ At(c, "start")
      /\ IF runState[p] = "STOPPED"
         THEN /\ runState' = [runState EXCEPT ![p] = "STARTING"]
              /\ thread' = [thread EXCEPT ![p] = "run"]
         ELSE UNCHANGED <<runState, thread>>
      /\ Return(c)
      /\ UNCHANGED <<shared, inbox, counts>>

\* The loop over the list is at the process with the index i; then says what
\* the request does after its stop.
Stopping(i, then) == [pc |-> "stop", process |-> listed[i], then |-> then,
                      index |-> i, list |-> listed]

\* deleteProcess: the first process with a pid.
CallDelete(c) ==
  /\ Request(c)
  /\ \E i \in DOMAIN listed :
       /\ \A j \in 1 .. i - 1 : pid[listed[j]] # pid[listed[i]]
       /\ calls' = [calls EXCEPT ![c] = Stopping(i, "remove")]
  /\ UNCHANGED <<shared, runState, thread, inbox>>

CallClear(c) ==
  /\ Request(c)
  /\ listed # <<>>
  /\ calls' = [calls EXCEPT ![c] = Stopping(1, "clear")]
  /\ UNCHANGED <<shared, runState, thread, inbox>>

StopState(c) ==
  /\ At(c, "stop")
  /\ runState' = [runState EXCEPT ![calls[c].process] = "STOPPING"]
  /\ Goto(c, "null")
  /\ UNCHANGED <<shared, thread, inbox, counts>>

\* Mutant: the null message goes to the inbound packets alone.
StopNullInbound(c) ==
  /\ At(c, "null")
  /\ IF Connected(calls[c].process)
     THEN Deliver({"inbound"}) ELSE UNCHANGED inbox
  /\ Goto(c, calls[c].then)
  /\ UNCHANGED <<shared, runState, thread, counts>>

\* sendNullMessageToConsumers: to the topics of the process, hence to every
\* process that waits on one of them.  On a closed connection it fails, and
\* the exception is swallowed.
StopNull(c) ==
  LET p == calls[c].process
  IN  /\ At(c, "null")
      /\ IF Connected(p) THEN Deliver(Consumed(p)) ELSE UNCHANGED inbox
      /\ Goto(c, calls[c].then)
      /\ UNCHANGED <<shared, runState, thread, counts>>

\* The index is removed, whatever is there by now.
RemoveFromList(c) ==
  /\ At(c, "remove")
  /\ listed' = IF calls[c].index \in DOMAIN listed
               THEN RemoveAt(listed, calls[c].index) ELSE listed
  /\ Return(c)
  /\ UNCHANGED <<pidCounter, pid, runState, thread, inbox, counts>>

\* The iterator goes to the next process or, at the end, the list is cleared;
\* on a list that changed it is an exception.
NextOrClear(c) ==
  LET i == calls[c].index
  IN  /\ At(c, "clear")
      /\ \/ /\ i < Len(listed) /\ listed = calls[c].list
            /\ calls' = [calls EXCEPT ![c] = Stopping(i + 1, "clear")]
            /\ UNCHANGED listed
         \/ /\ i # Len(listed) /\ listed # calls[c].list
            /\ Return(c)
            /\ UNCHANGED listed
         \/ i = Len(listed) /\ Return(c) /\ listed' = <<>>
      /\ UNCHANGED <<pidCounter, pid, runState, thread, inbox, counts>>
-----------------------------------------------------------------------------
(***************************************************************************)
(* run.                                                                    *)
(***************************************************************************)
Step(p, from, to) ==
  /\ thread[p] = from
  /\ thread' = [thread EXCEPT ![p] = to]

\* A stop that came since the start is overwritten.
Run(p) ==
  /\ Step(p, "run", "loop")
  /\ runState' = [runState EXCEPT ![p] = "STARTED"]
  /\ UNCHANGED <<shared, inbox, calls, counts>>

\* Mutant: the loop waits for the state that only its end sets.
LoopUntilStopped(p) ==
  /\ Step(p, "loop", IF runState[p] = "STOPPED" THEN "finally" ELSE "process")
  /\ UNCHANGED <<shared, runState, inbox, calls, counts>>

Loop(p) ==
  /\ Step(p, "loop", IF runState[p] = "STOPPING" THEN "finally" ELSE "process")
  /\ UNCHANGED <<shared, runState, inbox, calls, counts>>

\* process: it may wait for one message (a request process with jobs to serve
\* does not), and its work, with its sleeps, ends.
Work(p) ==
  /\ Step(p, "process", "loop")
  /\ WaitsOn[p] # "inbound"
  /\ UNCHANGED <<shared, runState, inbox, calls, counts>>

Wait(p) ==
  /\ Step(p, "process", "receive")
  /\ WaitsOn[p] # "nothing"
  /\ UNCHANGED <<shared, runState, inbox, calls, counts>>

\* Mutant: receiveNoWait.
ReceiveNoWait(p) ==
  /\ Step(p, "receive", "loop")
  /\ inbox' = [inbox EXCEPT ![p] = @ - 1]
  /\ UNCHANGED <<shared, runState, calls, counts>>

\* A null message is handled as one that is not for the process.
Receive(p) ==
  /\ Step(p, "receive", "loop")
  /\ inbox[p] > 0
  /\ inbox' = [inbox EXCEPT ![p] = @ - 1]
  /\ UNCHANGED <<shared, runState, calls, counts>>

\* A broker or a server that fails: a checked exception is caught, another one
\* (of a REST call outside of a try) goes through the finally block.
Fail(p) ==
  /\ \/ Step(p, "process", "finally") \/ Step(p, "process", "unwind")
     \/ Step(p, "receive", "finally")
  /\ UNCHANGED <<shared, runState, inbox, calls, counts>>

\* The finally block closes the connection.
Finally(p) ==
  /\ Step(p, "finally", "closed") \/ Step(p, "unwind", "dead")
  /\ inbox' = [inbox EXCEPT ![p] = 0]
  /\ UNCHANGED <<shared, runState, calls, counts>>

Stopped(p) ==
  /\ Step(p, "closed", "ended")
  /\ runState' = [runState EXCEPT ![p] = "STOPPED"]
  /\ UNCHANGED <<shared, inbox, calls, counts>>

\* A packet or an event.
Publish(topic) ==
  /\ published < MaxMessages /\ published' = published + 1
  /\ Deliver({topic})
  /\ UNCHANGED <<shared, runState, thread, calls, made>>

Post(c) == \/ PostRead(c) \/ PostAdd(c) \/ PostStart(c)
           \/ \E p \in Proc : PostNew(c, p)

Stop(c) == \/ CallDelete(c) \/ CallClear(c) \/ StopState(c) \/ StopNull(c)
           \/ RemoveFromList(c) \/ NextOrClear(c)

ThreadStep(p) == \/ Run(p) \/ Loop(p) \/ Work(p) \/ Wait(p) \/ Receive(p)
                 \/ Finally(p) \/ Stopped(p)

Next == \/ \E c \in Client : Post(c) \/ Stop(c)
        \/ \E p \in Proc : ThreadStep(p) \/ Fail(p)
        \/ \E topic \in {"inbound", "events"} : Publish(topic)

Spec == Init /\ [][Next]_vars

\* The threads of the processes run, and a stop that was begun goes on.
\* Nothing is asked of the devices or of the users.
Fairness == /\ \A p \in Proc : WF_vars(ThreadStep(p))
            /\ \A c \in Client : WF_vars(StopState(c) \/ StopNull(c))

FairSpec == Spec /\ Fairness
-----------------------------------------------------------------------------
\* Where a request is.
Call == {Free}
  \cup [pc : {"count"}, pid : Nat]
  \cup [pc : {"add", "start"}, process : Proc]
  \cup [pc : {"stop", "null", "remove", "clear"}, process : Proc,
        then : {"remove", "clear"}, index : Nat \ {0}, list : Seq(Proc)]

\* Every variable holds values of the shape that the actions assume.
TypeOK ==
  /\ listed \in Seq(Proc) /\ pidCounter \in Nat
  /\ pid \in [Proc -> Nat]
  /\ runState \in [Proc -> RunnableState]
  /\ thread \in [Proc -> ThreadPC]
  /\ inbox \in [Proc -> Nat]
  /\ calls \in [Client -> Call]
  /\ made \in Nat /\ published \in Nat

\* No wakeup is lost: a process that was told to stop and still waits has a
\* message to wake it, or the null message is about to be sent.
NoLostWakeup ==
  \A p \in Proc : thread[p] = "receive" /\ runState[p] = "STOPPING" =>
    \/ inbox[p] > 0
    \/ \E c \in Client : At(c, "null") /\ calls[c].process = p

\* A process that is told to stop once it runs comes to its end, whatever it
\* waits for, and whoever else is stopped in the same moment.  (A stop that
\* comes before run is lost.)
StoppedEnds ==
  \A p \in Proc :
    runState[p] = "STOPPING" /\ thread[p] \in {"loop", "process", "receive"}
      ~> thread[p] \in {"ended", "dead"}
=============================================================================
