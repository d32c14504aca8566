---------------------------- MODULE PowerLevels ----------------------------
(***************************************************************************)
(* The power levels of the infrastructural nodes: the REST call            *)
(* changePower, NodePowerLevelSetIssueProcess, which sends a level to a    *)
(* node and repeats it, NodePowerLevelSetAcknowledgmentProcess, which      *)
(* writes an acknowledged level to the row of the node,                    *)
(* NodePowerLevelRegistrationProcess, which writes there the level that    *)
(* the node was read to have, and NetworkGraphMinimizationProcess, which   *)
(* lowers the levels one by one while the network stays whole.             *)
(*                                                                         *)
(* Each REST call of a process is an action.  The radio is external: it    *)
(* may delay, reorder or lose the packets.  The sleeps between two calls   *)
(* are left out: whatever happens in them may happen between two actions.  *)
(***************************************************************************)
EXTENDS Integers, Sequences, FiniteSets

CONSTANTS
  Nodes,            \* the coordinates of the nodes
  Infrastructural,  \* those of the routers and of the coordinator
  Newcomers,        \* the nodes that have no row at first
  Users,            \* the requests that users may make at the same time
  Minimizer,        \* NetworkGraphMinimizationProcess, as a caller
  MaxLevel,         \* the highest power level, 4 in the code
  InitialLevel,     \* the level that the nodes start with
  MaxIssueRetries,  \* MAX_PL_SET_ISS_RETRIES, 3 in the code
  MaxAckRetries,    \* MAX_PL_SET_ACK_RETRIES, 3 in the code
  UpdateVerb,       \* the HTTP verb that nodes/update serves
  MaxRequests,      \* bound: the levels that users ask for in a run
  MaxRounds,        \* bound: the minimisations of a run
  MaxLeaves,        \* bound: the rows that a run removes
  MaxReadings,      \* bound: the levels that the nodes report in a run
  MaxEvents         \* bound: when so many wait, none is repeated

Level == 0 .. MaxLevel

ASSUME NodesAssumption == /\ Infrastructural \subseteq Nodes
                          /\ Newcomers \subseteq Nodes
                          /\ IsFiniteSet(Nodes)
ASSUME CallerAssumption == Minimizer \notin Users
ASSUME LevelAssumption == MaxLevel \in Nat /\ InitialLevel \in Level
ASSUME RetryAssumption == MaxIssueRetries \in Nat \ {0}
                          /\ MaxAckRetries \in Nat \ {0}
ASSUME VerbAssumption == UpdateVerb \in {"PUT", "POST"}
ASSUME BoundAssumption ==
  /\ MaxRequests \in Nat /\ MaxRounds \in Nat /\ MaxLeaves \in Nat
  /\ MaxReadings \in Nat /\ MaxEvents \in Nat

VARIABLES
  present,   \* the nodes that have a row
  power,     \* the power level of each row, -1 when it is unknown
  jobs,      \* for each node, its latest NODE_POWER_LEVEL_SET_ISSUE job
  events,    \* the events that wait for the issue process
  change,    \* where each call of changePower is
  issue,     \* where the issue process is
  ack,       \* where the acknowledgment process is
  reg,       \* where the registration process of the levels read is
  min,       \* where the minimisation process is
  queue,     \* the entries that it has still to reduce
  numNodes,  \* the size that it found the network to have
  air,       \* the levels sent and not delivered
  acks,      \* the acknowledgments that wait, with the level that was set
  readings,  \* the levels read and not registered, each with its node
  device,    \* the level that each node really has
  away,      \* the nodes that have yet to join
  requests, rounds, leaves, reports,
  \* Histories: the level of each node that changePower accepted last, the
  \* nodes whose row has a reading that was no longer true when it was
  \* written, and the nodes whose row was removed.
  ordered, misread, removed

rows    == <<present, power>>
server  == <<rows, jobs, events>>
radio   == <<air, acks, readings, device>>
graph   == <<min, queue, numNodes>>
counts  == <<away, requests, rounds, leaves, reports>>
history == <<ordered, misread, removed>>
vars    == <<server, change, issue, ack, reg, graph, radio, counts, history>>

Callers == Users \cup {Minimizer}

NoJob == [state |-> "none", level |-> 0]

Free == [pc |-> "free", status |-> "OK"]

Init ==
  /\ present = Nodes \ Newcomers /\ away = Newcomers
  /\ power = [n \in Nodes |-> IF n \in Newcomers THEN -1 ELSE InitialLevel]
  /\ device = [n \in Nodes |-> InitialLevel]
  /\ jobs = [n \in Nodes |-> NoJob]
  /\ events = <<>>
  /\ change = [c \in Callers |-> Free]
  /\ issue = [pc |-> "poll"]
  /\ ack = [pc |-> "receive"] /\ reg = [pc |-> "receive"]
  /\ min = [pc |-> "receive"] /\ queue = <<>> /\ numNodes = 0
  /\ air = {} /\ acks = {} /\ readings = {}
  /\ requests = 0 /\ rounds = 0 /\ leaves = 0 /\ reports = 0
  /\ ordered = [n \in Nodes |-> -1] /\ misread = {} /\ removed = {}
-----------------------------------------------------------------------------
(***************************************************************************)
(* changePower: the level is checked, then the node; the job is posted and *)
(* then the event dispatched.  The issue process may serve the two.        *)
(***************************************************************************)
UserChange(c, n, l) ==
  /\ change[c].pc = "free" /\ requests < MaxRequests
  /\ requests' = requests + 1
  /\ change' = [change EXCEPT ![c] = [pc |-> "check", node |-> n, level |-> l]]
  /\ UNCHANGED <<server, issue, ack, reg, graph, radio, away, rounds, leaves,
                 reports, history>>

Reply(c, status) ==
  change' = [change EXCEPT ![c] = [pc |-> "free", status |-> status]]

\* Mutant: the level is not checked.
ChangeNoRange(c) ==
  /\ change[c].pc = "check"
  /\ IF change[c].node \notin present THEN Reply(c, "NOT_FOUND")
     ELSE change' = [change EXCEPT ![c].pc = "job"]
  /\ UNCHANGED <<server, issue, ack, reg, graph, radio, counts, history>>

ChangeCheck(c) ==
  LET n == change[c].node
      l == change[c].level
  IN  /\ change[c].pc = "check"
      /\ \/ l \notin Level /\ Reply(c, "BAD_REQUEST") /\ UNCHANGED ordered
         \/ /\ l \in Level /\ n \notin present
            /\ Reply(c, "NOT_FOUND") /\ UNCHANGED ordered
         \/ /\ l \in Level /\ n \in present
            /\ change' = [change EXCEPT ![c].pc = "job"]
            /\ ordered' = [ordered EXCEPT ![n] = l]
      /\ UNCHANGED <<server, issue, ack, reg, graph, radio, counts, misread,
                     removed>>

ChangeJob(c) ==
  /\ change[c].pc = "job"
  /\ jobs' = [jobs EXCEPT ![change[c].node] =
                [state |-> "first", level |-> change[c].level]]
  /\ change' = [change EXCEPT ![c].pc = "event"]
  /\ UNCHANGED <<rows, events, issue, ack, reg, graph, radio, counts, history>>

ChangeEvent(c) ==
  /\ change[c].pc = "event"
  /\ LET e == <<change[c].node, change[c].level>>
         full == Len(events) >= MaxEvents
     IN  events' = IF full /\ \E i \in DOMAIN events : events[i] = e
                   THEN events ELSE Append(events, e)
  /\ Reply(c, "OK")
  /\ UNCHANGED <<rows, jobs, issue, ack, reg, graph, radio, counts, history>>
-----------------------------------------------------------------------------
(***************************************************************************)
(* NodePowerLevelSetIssueProcess: with no job at all it waits for an       *)
(* event; otherwise it serves a snapshot of the jobs that are first or     *)
(* overdue.  doRequest posts the job again, with a sequence number that is *)
(* not 0 (but for one in 256), and sends the level.                        *)
(***************************************************************************)
Due == {n \in Nodes : jobs[n].state \in {"first", "overdue"}}

IssuePoll ==
  /\ issue.pc = "poll"
  /\ issue' = IF \A n \in Nodes : jobs[n] = NoJob THEN [pc |-> "receive"]
              ELSE [pc |-> "serve", due |-> {<<n, jobs[n].level>> : n \in Due}]
  /\ UNCHANGED <<server, change, ack, reg, graph, radio, counts, history>>

IssueReceive ==
  /\ issue.pc = "receive" /\ events # <<>>
  /\ issue' = [pc |-> "serve", due |-> {Head(events)}]
  /\ events' = Tail(events)
  /\ UNCHANGED <<rows, jobs, change, ack, reg, graph, radio, counts, history>>

\* doRequest: GET of the node, which must be there and infrastructural.
IssueGet(r) ==
  /\ issue.pc = "serve" /\ r \in issue.due
  /\ issue' = IF r[1] \in present \cap Infrastructural
              THEN [pc |-> "post", due |-> issue.due \ {r}, request |-> r]
              ELSE [issue EXCEPT !.due = @ \ {r}]
  /\ UNCHANGED <<server, change, ack, reg, graph, radio, counts, history>>

\* Mutant: the job posted again has no payload.
IssuePostNoPayload ==
  /\ issue.pc = "post"
  /\ jobs' = [jobs EXCEPT ![issue.request[1]] =
                [state |-> "repeated", level |-> 0]]
  /\ issue' = [issue EXCEPT !.pc = "send"]
  /\ UNCHANGED <<rows, events, change, ack, reg, graph, radio, counts, history>>

IssuePost ==
  /\ issue.pc = "post"
  /\ \E state \in {"first", "repeated"} :
       jobs' = [jobs EXCEPT ![issue.request[1]] =
                  [state |-> state, level |-> issue.request[2]]]
  /\ issue' = [issue EXCEPT !.pc = "send"]
  /\ UNCHANGED <<rows, events, change, ack, reg, graph, radio, counts, history>>

IssueSend ==
  /\ issue.pc = "send"
  /\ air' = air \cup {issue.request}
  /\ issue' = [pc |-> "serve", due |-> issue.due]
  /\ UNCHANGED <<server, change, ack, reg, graph, acks, readings, device,
                 counts, history>>

IssueDone ==
  /\ issue.pc = "serve" /\ issue.due = {}
  /\ issue' = [pc |-> "poll"]
  /\ UNCHANGED <<server, change, ack, reg, graph, radio, counts, history>>
-----------------------------------------------------------------------------
(***************************************************************************)
(* NodePowerLevelSetAcknowledgmentProcess: an acknowledgment says who set  *)
(* its level but not which level: that of the latest job of the node is    *)
(* taken.  The row is then read, filled and sent back under the lock of    *)
(* the registration processes, and the jobs of the node are deleted.       *)
(***************************************************************************)
AckReceive(a) ==
  LET n == a[1]
  IN  /\ ack.pc = "receive" /\ a \in acks
      /\ acks' = acks \ {a}
      /\ ack' = IF jobs[n] = NoJob THEN ack
                ELSE [pc |-> "get", node |-> n, level |-> jobs[n].level]
      /\ UNCHANGED <<server, change, issue, reg, graph, air, readings, device,
                     counts, history>>

\* Who is inside nodesLock, which the two registrations share.
AckLocks == ack.pc \in {"exists", "merge", "clean"}
RegLocks == reg.pc \in {"exists", "merge"}

AckGet ==
  /\ ack.pc = "get" /\ ~RegLocks
  /\ ack' = IF ack.node \in present THEN [ack EXCEPT !.pc = "exists"]
            ELSE [pc |-> "receive"]
  /\ UNCHANGED <<server, change, issue, reg, graph, radio, counts, history>>

\* nodes/update, before its lock: the POST is refused where it serves PUT.
AckExists ==
  /\ ack.pc = "exists"
  /\ ack' = IF UpdateVerb = "POST" /\ ack.node \in present
            THEN [ack EXCEPT !.pc = "merge"] ELSE [pc |-> "receive"]
  /\ UNCHANGED <<server, change, issue, reg, graph, radio, counts, history>>

\* em.merge inserts the copy when the row is gone.
AckMerge ==
  /\ ack.pc = "merge"
  /\ present' = present \cup {ack.node}
  /\ power' = [power EXCEPT ![ack.node] = ack.level]
  /\ misread' = misread \ {ack.node}
  /\ ack' = [ack EXCEPT !.pc = "clean"]
  /\ UNCHANGED <<jobs, events, change, issue, reg, graph, radio, counts,
                 ordered, removed>>

AckClean ==
  /\ ack.pc = "clean"
  /\ jobs' = [jobs EXCEPT ![ack.node] = NoJob]
  /\ ack' = [pc |-> "receive"]
  /\ UNCHANGED <<rows, events, change, issue, reg, graph, radio, counts,
                 history>>
-----------------------------------------------------------------------------
(***************************************************************************)
(* NodePowerLevelRegistrationProcess: the level of a reading is written to *)
(* the row under the same lock, whatever job the node has.  (The jobs that *)
(* it deletes then, those of the reading, are in Acquisition.)             *)
(***************************************************************************)
\* A node that is described, or described again, is asked for its level, and
\* asked again until it answers (NodePowerLevelRequestProcess).
Report(n) ==
  /\ n \in Infrastructural \ away /\ reports < MaxReadings
  /\ reports' = reports + 1
  /\ readings' = readings \cup {<<n, device[n]>>}
  /\ UNCHANGED <<server, change, issue, ack, reg, graph, air, acks, device,
                 away, requests, rounds, leaves, history>>

RegReceive(a) ==
  /\ reg.pc = "receive" /\ a \in readings
  /\ readings' = readings \ {a}
  /\ reg' = [pc |-> "get", node |-> a[1], level |-> a[2]]
  /\ UNCHANGED <<server, change, issue, ack, graph, air, acks, device, counts,
                 history>>

RegGet ==
  /\ reg.pc = "get" /\ ~AckLocks
  /\ reg' = IF reg.node \in present THEN [reg EXCEPT !.pc = "exists"]
            ELSE [pc |-> "receive"]
  /\ UNCHANGED <<server, change, issue, ack, graph, radio, counts, history>>

RegExists ==
  /\ reg.pc = "exists"
  /\ reg' = IF UpdateVerb = "POST" /\ reg.node \in present
            THEN [reg EXCEPT !.pc = "merge"] ELSE [pc |-> "receive"]
  /\ UNCHANGED <<server, change, issue, ack, graph, radio, counts, history>>

RegMerge ==
  /\ reg.pc = "merge"
  /\ present' = present \cup {reg.node}
  /\ power' = [power EXCEPT ![reg.node] = reg.level]
  /\ misread' = IF reg.level = device[reg.node] THEN misread \ {reg.node}
                ELSE misread \cup {reg.node}
  /\ reg' = [pc |-> "receive"]
  /\ UNCHANGED <<jobs, events, change, issue, ack, graph, radio, counts,
                 ordered, removed>>
-----------------------------------------------------------------------------
(***************************************************************************)
(* NetworkGraphMinimizationProcess.  requestPowerLevelChange asks for a    *)
(* level up to MaxIssueRetries times, and looks at the row up to           *)
(* MaxAckRetries times after each; when it gives up it says nothing.  goal *)
(* is what the level was asked for: "max", "reduce" or "restore".          *)
(***************************************************************************)
Graph == present \cap Infrastructural

Waiting == [pc |-> "receive"]

\* requestPowerLevelChange.
Ask(n, l, goal) ==
  min' = [pc |-> "ask", node |-> n, level |-> l, goal |-> goal,
          issues |-> 0, polls |-> 0]

\* Where the caller of requestPowerLevelChange goes on.
Asked == min' = CASE min.goal = "max"     -> [pc |-> "maximize"]
                  [] min.goal = "reduce"  ->
                       [pc |-> "size", node |-> min.node, level |-> min.level]
                  [] min.goal = "restore" -> [pc |-> "loop"]

\* The event of minimizeGraph.
MinStart ==
  /\ min.pc = "receive" /\ rounds < MaxRounds
  /\ rounds' = rounds + 1
  /\ min' = [pc |-> "maximize"]
  /\ UNCHANGED <<server, change, issue, ack, reg, queue, numNodes, radio, away,
                 requests, leaves, reports, history>>

\* Mutant: the level asked for is not the one that is waited for.
MinMaximizeBelow ==
  /\ min.pc = "maximize"
  /\ IF \A n \in Graph : power[n] = MaxLevel THEN min' = [pc |-> "snapshot"]
     ELSE \E n \in {m \in Graph : power[m] # MaxLevel} :
            Ask(n, MaxLevel - 1, "max")
  /\ UNCHANGED <<server, change, issue, ack, reg, queue, numNodes, radio,
                 counts, history>>

MinMaximize ==
  /\ min.pc = "maximize"
  /\ IF \A n \in Graph : power[n] = MaxLevel THEN min' = [pc |-> "snapshot"]
     ELSE \E n \in {m \in Graph : power[m] # MaxLevel} :
            Ask(n, MaxLevel, "max")
  /\ UNCHANGED <<server, change, issue, ack, reg, queue, numNodes, radio,
                 counts, history>>

\* The rows are queued in the order that the query returns them.
Orders(S) ==
  {s \in [1 .. Cardinality(S) -> S] :
     \A i, j \in DOMAIN s : s[i] = s[j] => i = j}

MinSnapshot ==
  /\ min.pc = "snapshot"
  /\ numNodes' = Cardinality(Graph)
  /\ \E s \in Orders(Graph) :
       queue' = [i \in DOMAIN s |-> [node |-> s[i], level |-> power[s[i]]]]
  /\ min' = [pc |-> "loop"]
  /\ UNCHANGED <<server, change, issue, ack, reg, radio, counts, history>>

\* reducePowerLevel, or the end.
MinLoop ==
  /\ min.pc = "loop"
  /\ IF queue = <<>> THEN min' = Waiting /\ UNCHANGED queue
     ELSE /\ Ask(Head(queue).node, Head(queue).level - 1, "reduce")
          /\ queue' = Tail(queue)
  /\ UNCHANGED <<server, change, issue, ack, reg, numNodes, radio, counts,
                 history>>

\* changePower is called, and its answer awaited.
MinAsk ==
  /\ min.pc = "ask"
  /\ change' = [change EXCEPT ![Minimizer] =
                  [pc |-> "check", node |-> min.node, level |-> min.level]]
  /\ min' = [min EXCEPT !.pc = "answer", !.polls = 0]
  /\ UNCHANGED <<server, issue, ack, reg, queue, numNodes, radio, counts,
                 history>>

\* A node that is not found ends the procedure.
MinAnswer ==
  /\ min.pc = "answer" /\ change[Minimizer].pc = "free"
  /\ IF change[Minimizer].status = "NOT_FOUND"
     THEN min' = Waiting /\ queue' = <<>>
     ELSE min' = [min EXCEPT !.pc = "look"] /\ UNCHANGED queue
  /\ UNCHANGED <<server, change, issue, ack, reg, numNodes, radio, counts,
                 history>>

MinLook ==
  /\ min.pc = "look"
  /\ IF min.node \notin present THEN min' = Waiting /\ queue' = <<>>
     ELSE /\ UNCHANGED queue
          /\ CASE power[min.node] = min.level -> Asked
               [] /\ power[min.node] # min.level
                  /\ min.polls + 1 < MaxAckRetries ->
                    min' = [min EXCEPT !.polls = @ + 1]
               [] /\ power[min.node] # min.level
                  /\ min.polls + 1 >= MaxAckRetries
                  /\ min.issues + 1 < MaxIssueRetries ->
                    min' = [min EXCEPT !.pc = "ask", !.issues = @ + 1]
               [] OTHER -> Asked
  /\ UNCHANGED <<server, change, issue, ack, reg, numNodes, radio, counts,
                 history>>

\* Mutant: the entry is queued again whatever power it has left.
MinSizeAnyPower ==
  /\ min.pc = "size"
  /\ IF Cardinality(Graph) < numNodes
     THEN Ask(min.node, min.level - 1, "restore") /\ UNCHANGED queue
     ELSE /\ min' = [pc |-> "loop"]
          /\ queue' = Append(queue, [node |-> min.node, level |-> min.level])
  /\ UNCHANGED <<server, change, issue, ack, reg, numNodes, radio, counts,
                 history>>

\* increasePowerLevel, which decrements, when the network has shrunk since the
\* snapshot; otherwise the entry is queued again until it has no power left.
MinSize ==
  /\ min.pc = "size"
  /\ IF Cardinality(Graph) < numNodes
     THEN Ask(min.node, min.level - 1, "restore") /\ UNCHANGED queue
     ELSE /\ min' = [pc |-> "loop"]
          /\ queue' = IF min.level > 0
                      THEN Append(queue, [node |-> min.node,
                                          level |-> min.level])
                      ELSE queue
  /\ UNCHANGED <<server, change, issue, ack, reg, numNodes, radio, counts,
                 history>>
-----------------------------------------------------------------------------
(***************************************************************************)
(* The radio, the clock, and the rows that other processes insert (with an *)
(* unknown level) and remove.                                              *)
(***************************************************************************)
Deliver(p) ==
  /\ p \in air
  /\ air' = air \ {p}
  /\ device' = [device EXCEPT ![p[1]] = p[2]]
  /\ acks' = acks \cup {p}
  /\ UNCHANGED <<server, change, issue, ack, reg, graph, readings, counts,
                 history>>

Lose ==
  /\ \/ \E p \in air : air' = air \ {p} /\ UNCHANGED <<acks, readings>>
     \/ \E a \in acks : acks' = acks \ {a} /\ UNCHANGED <<air, readings>>
     \/ \E a \in readings :
          readings' = readings \ {a} /\ UNCHANGED <<air, acks>>
  /\ UNCHANGED <<server, change, issue, ack, reg, graph, device, counts,
                 history>>

AgeJob(n) ==
  /\ jobs[n].state = "repeated"
  /\ jobs' = [jobs EXCEPT ![n].state = "overdue"]
  /\ UNCHANGED <<rows, events, change, issue, ack, reg, graph, radio, counts,
                 history>>

Join(n) ==
  /\ n \in away
  /\ away' = away \ {n}
  /\ present' = present \cup {n}
  /\ UNCHANGED <<power, jobs, events, change, issue, ack, reg, graph, radio,
                 requests, rounds, leaves, reports, history>>

Leave(n) ==
  /\ n \in present /\ leaves < MaxLeaves
  /\ present' = present \ {n}
  /\ leaves' = leaves + 1
  /\ removed' = removed \cup {n}
  /\ UNCHANGED <<power, jobs, events, change, issue, ack, reg, graph, radio,
                 away, requests, rounds, reports, ordered, misread>>

\* jobs/cleanup removes the jobs of the nodes that have no row.
CleanupJobs ==
  /\ \E n \in Nodes \ present : jobs[n] # NoJob
  /\ jobs' = [n \in Nodes |-> IF n \in present THEN jobs[n] ELSE NoJob]
  /\ UNCHANGED <<rows, events, change, issue, ack, reg, graph, radio, counts,
                 history>>

Change(c) == ChangeCheck(c) \/ ChangeJob(c) \/ ChangeEvent(c)
Issue == \/ IssuePoll \/ IssueReceive
         \/ \E r \in Nodes \X Level : IssueGet(r)
         \/ IssuePost \/ IssueSend \/ IssueDone
Acknowledge == AckGet \/ AckExists \/ AckMerge \/ AckClean
Register == RegGet \/ RegExists \/ RegMerge
Minimize == \/ MinMaximize \/ MinSnapshot \/ MinLoop \/ MinAsk \/ MinAnswer
            \/ MinLook \/ MinSize

Next ==
  \/ \E c \in Users, n \in Nodes, l \in -1 .. MaxLevel + 1 :
       UserChange(c, n, l)
  \/ \E c \in Callers : Change(c)
  \/ Issue
  \/ \E a \in Nodes \X Level : AckReceive(a)
  \/ Acknowledge
  \/ \E n \in Nodes : Report(n)
  \/ \E a \in Nodes \X Level : RegReceive(a)
  \/ Register
  \/ MinStart \/ Minimize
  \/ \E p \in Nodes \X Level : Deliver(p)
  \/ Lose
  \/ \E n \in Nodes : AgeJob(n) \/ Join(n) \/ Leave(n)
  \/ CleanupJobs

Spec == Init /\ [][Next]_vars

\* The threads and the clock run, and the radio does not lose every packet.
Fairness ==
  /\ \A c \in Callers : WF_vars(Change(c))
  /\ WF_vars(Issue) /\ WF_vars(Acknowledge) /\ WF_vars(Register)
  /\ WF_vars(Minimize) /\ WF_vars(CleanupJobs)
  /\ \A n \in Nodes : WF_vars(AgeJob(n))
  /\ SF_vars(\E p \in Nodes \X Level : Deliver(p))
  /\ SF_vars(\E a \in Nodes \X Level : AckReceive(a))

FairSpec == Spec /\ Fairness
-----------------------------------------------------------------------------
Request == Nodes \X Int

\* What the minimisation process may ask for: a row whose level is unknown is
\* reduced to -2, and "restored" to -3.  No byte is decremented below that.
Asks == -3 .. MaxLevel

ChangeState ==
  [pc : {"free"}, status : {"OK", "BAD_REQUEST", "NOT_FOUND"}]
    \cup [pc : {"check", "job", "event"}, node : Nodes, level : Int]
IssueState ==
  [pc : {"poll", "receive"}] \cup [pc : {"serve"}, due : SUBSET Request]
    \cup [pc : {"post", "send"}, due : SUBSET Request, request : Request]
AckState ==
  [pc : {"receive"}]
    \cup [pc : {"get", "exists", "merge", "clean"}, node : Nodes, level : Int]
RegState ==
  [pc : {"receive"}]
    \cup [pc : {"get", "exists", "merge"}, node : Nodes, level : Int]
MinState ==
  [pc : {"receive", "maximize", "snapshot", "loop"}]
    \cup [pc : {"size"}, node : Nodes, level : Asks]
    \cup [pc : {"ask", "answer", "look"}, node : Nodes, level : Asks,
          goal : {"max", "reduce", "restore"}, issues : Nat, polls : Nat]

\* Every variable holds values of the shape that the actions assume.
TypeOK ==
  /\ present \subseteq Nodes /\ power \in [Nodes -> Int]
  /\ jobs \in [Nodes -> [state : {"none", "first", "repeated", "overdue"},
                         level : Int]]
  /\ events \in Seq(Request)
  /\ change \in [Callers -> ChangeState]
  /\ issue \in IssueState /\ ack \in AckState /\ reg \in RegState
  /\ min \in MinState
  /\ queue \in Seq([node : Nodes, level : -1 .. MaxLevel])
  /\ numNodes \in Nat
  /\ air \subseteq Request /\ acks \subseteq Request
  /\ readings \subseteq Request
  /\ device \in [Nodes -> Int]
  /\ away \subseteq Nodes
  /\ requests \in Nat /\ rounds \in Nat /\ leaves \in Nat
  /\ reports \in Nat
  /\ ordered \in [Nodes -> Int]
  /\ misread \subseteq Nodes /\ removed \subseteq Nodes

\* No level but 0 .. MaxLevel is ever posted in a job, sent to a node, set by
\* it or written to its row, although users ask for any and the minimisation
\* computes levels down to -3: changePower alone keeps them out, and what
\* comes after it (jobs, events, repetitions, acknowledgments matched with
\* jobs, readings) makes no level up.  Newcomers keep -1 until then.
LevelsInRange ==
  /\ \A n \in Nodes : /\ jobs[n].level \in Level /\ device[n] \in Level
                      /\ power[n] \in -1 .. MaxLevel
  /\ \A i \in DOMAIN events : events[i][2] \in Level
  /\ \A c \in Callers :
       change[c].pc \in {"job", "event"} => change[c].level \in Level
  /\ issue.pc \in {"serve", "post", "send"} =>
       \A r \in issue.due : r[2] \in Level
  /\ issue.pc \in {"post", "send"} => issue.request[2] \in Level
  /\ ack.pc # "receive" => ack.level \in Level
  /\ reg.pc # "receive" => reg.level \in Level
  /\ \A r \in air \cup acks \cup readings : r[2] \in Level

\* Nothing about node n is under way.
Quiet(n) ==
  /\ jobs[n] = NoJob
  /\ \A i \in DOMAIN events : events[i][1] # n
  /\ \A r \in air \cup acks \cup readings : r[1] # n
  /\ \A c \in Callers : change[c].pc = "free" \/ change[c].node # n
  /\ \/ issue.pc \in {"poll", "receive"}
     \/ issue.pc = "serve" /\ \A r \in issue.due : r[1] # n
  /\ ack.pc = "receive" \/ ack.node # n
  /\ reg.pc = "receive" \/ reg.node # n

\* When nothing is under way, a row has the level that its node has.
QuietAgrees ==
  \A n \in present \cap Infrastructural :
    Quiet(n) /\ power[n] # -1 => power[n] = device[n]

\* One level was asked for at most, and no minimisation was begun.
OneAsked == requests <= 1 /\ rounds = 0

\* A node has the level that was asked for, and so has its row, unless what
\* was written there last is a reading that was no longer true: no job keeps
\* NodePowerLevelRegistrationProcess from writing a late one.
Settled(n) ==
  ordered[n] # -1 => /\ device[n] = ordered[n]
                     /\ power[n] = ordered[n] \/ n \in misread

\* A level that changePower accepted is repeated until it is set, whatever
\* packets are lost and readings registered in between: in the end the node
\* and its row have it, unless the row is removed, and its job does not stay.
\* (The job may come back: a request that read it before an acknowledgment
\* deleted it posts it again.  Stated of the runs with one request:
\* QuietAgrees says what goes wrong with two.)
PowerSettles ==
  []OneAsked =>
    /\ <>[](\A n \in (present \cap Infrastructural) \ removed : Settled(n))
    /\ \A n \in Infrastructural : []<>(jobs[n] = NoJob)

\* A minimisation ends: no lost packet, and no request that it has given up,
\* keeps the process in the loop of the maximisation or in that of its entries.
MinimizationEnds == (min.pc # "receive") ~> (min.pc = "receive")
=============================================================================
