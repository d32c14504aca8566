------------------------- MODULE PowerLevels_proofs -------------------------
(***************************************************************************)
(* Proofs about PowerLevels, for any number of nodes, users and retries,   *)
(* and for both verbs of nodes/update.                                     *)
(***************************************************************************)
EXTENDS PowerLevels, FiniteSetTheorems, TLAPS

-----------------------------------------------------------------------------
(***************************************************************************)
(* The inductive invariant: the types, with the levels that have passed    *)
(* the check of changePower in Level.                                      *)
(***************************************************************************)
Order == Nodes \X Level

Job == [state : {"none", "first", "repeated", "overdue"}, level : Level]

Answered == [pc : {"free"}, status : {"OK", "BAD_REQUEST", "NOT_FOUND"}]
Unchecked == [pc : {"check"}, node : Nodes, level : Int]
Checked == [pc : {"job", "event"}, node : Nodes, level : Level]
Call == Answered \cup Unchecked \cup Checked

Idle == [pc : {"poll", "receive"}]
Serving == [pc : {"serve"}, due : SUBSET Order]
Requesting == [pc : {"post", "send"}, due : SUBSET Order, request : Order]

Merging == [pc : {"get", "exists", "merge", "clean"}, node : Nodes,
            level : Level]

Registering == [pc : {"get", "exists", "merge"}, node : Nodes,
                level : Level]

Entry == [node : Nodes, level : -1 .. MaxLevel]
AtStart == [pc : {"receive", "maximize", "snapshot", "loop"}]
Sizing == [pc : {"size"}, node : Nodes, level : -2 .. MaxLevel]
Reducing == [pc : {"ask", "answer", "look"}, node : Nodes,
             level : -2 .. MaxLevel, goal : {"max", "reduce"},
             issues : Nat, polls : Nat]
Restoring == [pc : {"ask", "answer", "look"}, node : Nodes, level : Asks,
              goal : {"restore"}, issues : Nat, polls : Nat]

RowsOK == present \subseteq Nodes /\ power \in [Nodes -> -1 .. MaxLevel]
JobsOK == jobs \in [Nodes -> Job]
EventsOK == events \in Seq(Order)
ChangeOK == change \in [Callers -> Call]
IssueOK == issue \in Idle \cup Serving \cup Requesting
AckOK == ack \in [pc : {"receive"}] \cup Merging
RegOK == reg \in [pc : {"receive"}] \cup Registering
MinOK == min \in AtStart \cup Sizing \cup Reducing \cup Restoring
QueueOK == queue \in Seq(Entry) /\ numNodes \in Nat
RadioOK == /\ air \subseteq Order /\ acks \subseteq Order
           /\ readings \subseteq Order
           /\ device \in [Nodes -> Level]
CountsOK == /\ away \subseteq Nodes /\ requests \in Nat /\ rounds \in Nat
            /\ leaves \in Nat /\ reports \in Nat
HistoryOK == /\ ordered \in [Nodes -> -1 .. MaxLevel]
             /\ misread \subseteq Nodes /\ removed \subseteq Nodes

Inv == /\ RowsOK /\ JobsOK /\ EventsOK /\ ChangeOK /\ IssueOK /\ AckOK
       /\ RegOK /\ MinOK /\ QueueOK /\ RadioOK /\ CountsOK /\ HistoryOK

\* The levels of the network are integers, and so are those it asks for.
LEMMA Levels ==
  /\ MaxLevel \in Nat /\ InitialLevel \in Level /\ 0 \in Level
  /\ MaxLevel \in Level /\ Level \subseteq -1 .. MaxLevel /\ Level \subseteq Int
  /\ MaxLevel \in -2 .. MaxLevel /\ -1 \in -1 .. MaxLevel
  /\ NoJob \in Job
BY LevelAssumption DEF Level, NoJob, Job

\* A pair of a node and a level.
LEMMA Pairs ==
  ASSUME NEW r \in Order
  PROVE  r[1] \in Nodes /\ r[2] \in Level
BY DEF Order

\* What a call of changePower holds at each of its steps.
LEMMA CallKinds ==
  ASSUME NEW c \in Call
  PROVE  /\ c.pc = "check" => c \in Unchecked
         /\ c.pc \in {"job", "event"} => c \in Checked
BY DEF Call, Answered, Unchecked, Checked

\* What the issue process holds at each of its steps.
LEMMA IssueKinds ==
  ASSUME IssueOK
  PROVE  /\ issue.pc = "serve" => issue \in Serving
         /\ issue.pc \in {"post", "send"} => issue \in Requesting
BY DEF IssueOK, Idle, Serving, Requesting

\* What the acknowledgment process holds once it has a packet.
LEMMA AckKinds ==
  ASSUME AckOK, ack.pc # "receive"
  PROVE  ack \in Merging
BY DEF AckOK

\* What the registration process holds once it has a reading.
LEMMA RegKinds ==
  ASSUME RegOK, reg.pc # "receive"
  PROVE  reg \in Registering
BY DEF RegOK

\* What the minimisation process holds at each of its steps.
LEMMA MinKinds ==
  ASSUME MinOK
  PROVE  /\ min.pc = "size" => min \in Sizing
         /\ min.pc \in {"ask", "answer", "look"} =>
              min \in Reducing \cup Restoring
BY DEF MinOK, AtStart, Sizing, Reducing, Restoring

-----------------------------------------------------------------------------
\* The invariant holds at first.
LEMMA InitInv == Init => Inv
<1> SUFFICES ASSUME Init PROVE Inv
  OBVIOUS
<1> USE Levels, NodesAssumption
<1>1. RowsOK
  BY DEF Init, RowsOK
<1>2. JobsOK /\ EventsOK
  BY DEF Init, JobsOK, EventsOK
<1>3. ChangeOK
  BY DEF Init, ChangeOK, Call, Answered, Free
<1>4. IssueOK /\ AckOK /\ MinOK
  BY DEF Init, IssueOK, Idle, AckOK, MinOK, AtStart
<1>5. QueueOK /\ RadioOK /\ CountsOK
  BY DEF Init, QueueOK, RadioOK, CountsOK
<1>6. RegOK /\ HistoryOK
  BY DEF Init, RegOK, HistoryOK
<1> QED
  BY <1>1, <1>2, <1>3, <1>4, <1>5, <1>6 DEF Inv

\* A step of changePower keeps the invariant.
LEMMA ChangeInv ==
  ASSUME Inv, NEW c \in Callers, Change(c)
  PROVE  Inv'
<1> USE DEF Inv
<1>1. change[c] \in Call
  BY DEF ChangeOK
<1>2. \A k \in Call : change' = [change EXCEPT ![c] = k] => ChangeOK'
  BY DEF ChangeOK
<1>3. \A status \in {"OK", "BAD_REQUEST", "NOT_FOUND"} :
        Reply(c, status) => ChangeOK'
  BY <1>2 DEF Reply, Call, Answered
<1>4. CASE ChangeCheck(c)
  <2>1. change[c] \in Unchecked
    BY <1>1, <1>4, CallKinds DEF ChangeCheck
  <2>2. CASE change[c].level \in Level /\ change[c].node \in present
    <3>1. [change[c] EXCEPT !.pc = "job"] \in Checked
      BY <2>1, <2>2 DEF Unchecked, Checked
    <3>2. change' = [change EXCEPT ![c] = [change[c] EXCEPT !.pc = "job"]]
      BY <1>4, <2>2 DEF ChangeCheck
    <3>3. /\ ordered' = [ordered EXCEPT ![change[c].node] = change[c].level]
          /\ UNCHANGED <<misread, removed>>
      BY <1>4, <2>2 DEF ChangeCheck
    <3>4. HistoryOK'
      BY <2>2, <3>3, Levels DEF HistoryOK
    <3> QED
      BY <1>2, <1>4, <3>1, <3>2, <3>4
      DEF ChangeCheck, Call, server, rows, graph, radio, counts, history,
          RowsOK, JobsOK, EventsOK, IssueOK, AckOK, MinOK, QueueOK, RadioOK,
          RegOK, CountsOK, HistoryOK
  <2>3. CASE ~(change[c].level \in Level /\ change[c].node \in present)
    <3>1. /\ Reply(c, "BAD_REQUEST") \/ Reply(c, "NOT_FOUND")
          /\ UNCHANGED ordered
      BY <1>4, <2>3 DEF ChangeCheck
    <3> QED
      BY <1>3, <1>4, <3>1
      DEF ChangeCheck, server, rows, graph, radio, counts, history, RowsOK,
          JobsOK, EventsOK, IssueOK, AckOK, MinOK, QueueOK, RadioOK, RegOK,
          CountsOK, HistoryOK
  <2> QED
    BY <2>2, <2>3
<1>5. CASE ChangeJob(c)
  <2>1. change[c] \in Checked
    BY <1>1, <1>5, CallKinds DEF ChangeJob
  <2>2. [change[c] EXCEPT !.pc = "event"] \in Checked
    BY <2>1 DEF Checked
  <2>3. change' = [change EXCEPT ![c] = [change[c] EXCEPT !.pc = "event"]]
    BY <1>5 DEF ChangeJob
  <2>4. [state |-> "first", level |-> change[c].level] \in Job
    BY <2>1 DEF Checked, Job
  <2>5. JobsOK'
    BY <1>5, <2>4 DEF ChangeJob, JobsOK
  <2> QED
    BY <1>2, <1>5, <2>2, <2>3, <2>5
    DEF ChangeJob, Call, rows, graph, radio, counts, history, RowsOK, EventsOK,
        IssueOK, AckOK, MinOK, QueueOK, RadioOK, RegOK, CountsOK, HistoryOK
<1>6. CASE ChangeEvent(c)
  <2>1. change[c] \in Checked
    BY <1>1, <1>6, CallKinds DEF ChangeEvent
  <2> DEFINE e == <<change[c].node, change[c].level>>
  <2>2. e \in Order
    BY <2>1 DEF Checked, Order
  <2>3. Append(events, e) \in Seq(Order)
    BY <2>2 DEF EventsOK
  <2>4. events' = events \/ events' = Append(events, e)
    BY <1>6 DEF ChangeEvent
  <2>5. EventsOK'
    BY <2>3, <2>4 DEF EventsOK
  <2>6. ChangeOK'
    BY <1>3, <1>6 DEF ChangeEvent
  <2> QED
    BY <1>6, <2>5, <2>6
    DEF ChangeEvent, rows, graph, radio, counts, history, RowsOK, JobsOK,
        IssueOK, AckOK, MinOK, QueueOK, RadioOK, RegOK, CountsOK, HistoryOK
<1> QED
  BY <1>4, <1>5, <1>6 DEF Change

\* A step of the issue process keeps the invariant.
LEMMA IssueInv ==
  ASSUME Inv, Issue
  PROVE  Inv'
<1> USE DEF Inv
<1>1. CASE IssuePoll
  <2>1. \A n \in Nodes : <<n, jobs[n].level>> \in Order
    BY DEF JobsOK, Job, Order
  <2>2. {<<n, jobs[n].level>> : n \in Due} \subseteq Order
    BY <2>1 DEF Due
  <2>3. IssueOK'
    BY <1>1, <2>2 DEF IssuePoll, IssueOK, Idle, Serving
  <2> QED
    BY <1>1, <2>3
    DEF IssuePoll, server, rows, graph, radio, counts, history, RowsOK, JobsOK,
        EventsOK, ChangeOK, AckOK, MinOK, QueueOK, RadioOK, RegOK, CountsOK,
        HistoryOK
<1>2. CASE IssueReceive
  <2>1. Head(events) \in Order /\ Tail(events) \in Seq(Order)
    BY <1>2 DEF IssueReceive, EventsOK
  <2>2. EventsOK' /\ IssueOK'
    BY <1>2, <2>1 DEF IssueReceive, EventsOK, IssueOK, Serving
  <2> QED
    BY <1>2, <2>2
    DEF IssueReceive, rows, graph, radio, counts, history, RowsOK, JobsOK,
        ChangeOK, AckOK, MinOK, QueueOK, RadioOK, RegOK, CountsOK, HistoryOK
<1>3. ASSUME NEW r \in Nodes \X Level, IssueGet(r) PROVE Inv'
  <2>1. issue \in Serving
    BY <1>3, IssueKinds DEF IssueGet
  <2>2. IssueOK'
    BY <1>3, <2>1 DEF IssueGet, IssueOK, Serving, Requesting, Order
  <2> QED
    BY <1>3, <2>2
    DEF IssueGet, server, rows, graph, radio, counts, history, RowsOK, JobsOK,
        EventsOK, ChangeOK, AckOK, MinOK, QueueOK, RadioOK, RegOK, CountsOK,
        HistoryOK
<1>4. CASE IssuePost
  <2>1. issue \in Requesting
    BY <1>4, IssueKinds DEF IssuePost
  <2>2. issue.request \in Order
    BY <2>1 DEF Requesting
  <2>3. issue.request[2] \in Level
    BY <2>2, Pairs
  <2>4. \A state \in {"first", "repeated"} :
          [state |-> state, level |-> issue.request[2]] \in Job
    BY <2>3 DEF Job
  <2>5. JobsOK'
    BY <1>4, <2>4 DEF IssuePost, JobsOK
  <2>6. IssueOK'
    BY <1>4, <2>1 DEF IssuePost, IssueOK, Requesting
  <2> QED
    BY <1>4, <2>5, <2>6
    DEF IssuePost, rows, graph, radio, counts, history, RowsOK, EventsOK,
        ChangeOK, AckOK, MinOK, QueueOK, RadioOK, RegOK, CountsOK, HistoryOK
<1>5. CASE IssueSend
  <2>1. issue \in Requesting
    BY <1>5, IssueKinds DEF IssueSend
  <2>2. issue.request \in Order /\ issue.due \in SUBSET Order
    BY <2>1 DEF Requesting
  <2>3. IssueOK'
    BY <1>5, <2>2 DEF IssueSend, IssueOK, Serving
  <2>4. RadioOK'
    BY <1>5, <2>2 DEF IssueSend, RadioOK
  <2> QED
    BY <1>5, <2>3, <2>4
    DEF IssueSend, server, rows, graph, counts, history, RowsOK, JobsOK,
        EventsOK, ChangeOK, AckOK, MinOK, QueueOK, RegOK, CountsOK, HistoryOK
<1>6. CASE IssueDone
  BY <1>6
  DEF IssueDone, server, rows, graph, radio, counts, history, RowsOK, JobsOK,
      EventsOK, ChangeOK, IssueOK, Idle, AckOK, MinOK, QueueOK, RadioOK, RegOK,
      CountsOK, HistoryOK
<1> QED
  BY <1>1, <1>2, <1>3, <1>4, <1>5, <1>6 DEF Issue

\* A step of the acknowledgment process keeps the invariant.
LEMMA AckInv ==
  ASSUME Inv, Acknowledge \/ \E a \in Nodes \X Level : AckReceive(a)
  PROVE  Inv'
<1> USE DEF Inv
<1>1. ASSUME NEW a \in Nodes \X Level, AckReceive(a) PROVE Inv'
  <2>1. a[1] \in Nodes /\ jobs[a[1]].level \in Level
    BY DEF JobsOK, Job
  <2>2. AckOK'
    BY <1>1, <2>1 DEF AckReceive, AckOK, Merging
  <2>3. RadioOK'
    BY <1>1 DEF AckReceive, RadioOK
  <2> QED
    BY <1>1, <2>2, <2>3
    DEF AckReceive, server, rows, graph, counts, history, RowsOK, JobsOK,
        EventsOK, ChangeOK, IssueOK, MinOK, QueueOK, RegOK, CountsOK, HistoryOK
<1>2. CASE AckGet \/ AckExists
  <2>1. ack \in Merging
    BY <1>2, AckKinds DEF AckGet, AckExists
  <2>2. AckOK'
    BY <1>2, <2>1 DEF AckGet, AckExists, AckOK, Merging
  <2> QED
    BY <1>2, <2>2
    DEF AckGet, AckExists, server, rows, graph, radio, counts, history, RowsOK,
        JobsOK, EventsOK, ChangeOK, IssueOK, MinOK, QueueOK, RadioOK, RegOK,
        CountsOK, HistoryOK
<1>3. CASE AckMerge
  <2>1. ack \in Merging
    BY <1>3, AckKinds DEF AckMerge
  <2>2. ack.node \in Nodes /\ ack.level \in -1 .. MaxLevel
    BY <2>1, Levels DEF Merging
  <2>3. RowsOK'
    BY <1>3, <2>2 DEF AckMerge, RowsOK
  <2>4. AckOK'
    BY <1>3, <2>1 DEF AckMerge, AckOK, Merging
  <2>5. HistoryOK'
    BY <1>3 DEF AckMerge, HistoryOK
  <2> QED
    BY <1>3, <2>3, <2>4, <2>5
    DEF AckMerge, graph, radio, counts, history, JobsOK, EventsOK, ChangeOK,
        IssueOK, MinOK, QueueOK, RadioOK, RegOK, CountsOK, HistoryOK
<1>4. CASE AckClean
  <2>1. JobsOK'
    BY <1>4, Levels DEF AckClean, JobsOK
  <2>2. AckOK'
    BY <1>4 DEF AckClean, AckOK
  <2> QED
    BY <1>4, <2>1, <2>2
    DEF AckClean, rows, graph, radio, counts, history, RowsOK, EventsOK,
        ChangeOK, IssueOK, MinOK, QueueOK, RadioOK, RegOK, CountsOK, HistoryOK
<1> QED
  BY <1>1, <1>2, <1>3, <1>4 DEF Acknowledge

\* The rows of the network are finitely many, and may be put in a queue.
LEMMA Queued ==
  ASSUME Inv
  PROVE  /\ Cardinality(Graph) \in Nat
         /\ \A s \in Orders(Graph) :
              [i \in DOMAIN s |-> [node |-> s[i], level |-> power[s[i]]]]
                \in Seq(Entry)
<1>1. Graph \subseteq Nodes
  BY DEF Inv, RowsOK, Graph
<1>2. Cardinality(Graph) \in Nat
  BY <1>1, NodesAssumption, FS_Subset, FS_CardinalityType
<1>3. ASSUME NEW s \in Orders(Graph)
      PROVE  [i \in DOMAIN s |-> [node |-> s[i], level |-> power[s[i]]]]
               \in Seq(Entry)
  <2>1. s \in [1 .. Cardinality(Graph) -> Graph]
    BY <1>3 DEF Orders
  <2>2. \A i \in DOMAIN s : [node |-> s[i], level |-> power[s[i]]] \in Entry
    BY <1>1, <2>1 DEF Inv, RowsOK, Entry
  <2> DEFINE q == [i \in DOMAIN s |-> [node |-> s[i], level |-> power[s[i]]]]
  <2>3. q \in [1 .. Cardinality(Graph) -> Entry]
    BY <2>1, <2>2
  <2> HIDE DEF q
  <2>4. q \in Seq(Entry)
    BY <1>2, <2>3
  <2> QED
    BY <2>4 DEF q
<1> QED
  BY <1>2, <1>3

\* What requestPowerLevelChange holds is right, and so is what its caller
\* goes on with.
LEMMA AskType ==
  ASSUME Inv
  PROVE  /\ \A n \in Nodes, l \in -2 .. MaxLevel, goal \in {"max", "reduce"} :
              Ask(n, l, goal) => MinOK'
         /\ \A n \in Nodes, l \in Asks : Ask(n, l, "restore") => MinOK'
         /\ min \in Reducing \cup Restoring /\ Asked => MinOK'
<1>1. ASSUME NEW n \in Nodes, NEW l \in -2 .. MaxLevel,
             NEW goal \in {"max", "reduce"}, Ask(n, l, goal)
      PROVE  MinOK'
  BY <1>1 DEF Ask, MinOK, Reducing
<1>2. ASSUME NEW n \in Nodes, NEW l \in Asks, Ask(n, l, "restore")
      PROVE  MinOK'
  BY <1>2 DEF Ask, MinOK, Restoring
<1>3. ASSUME min \in Reducing, Asked PROVE MinOK'
  <2>1. min.node \in Nodes /\ min.level \in -2 .. MaxLevel
        /\ min.goal \in {"max", "reduce"}
    BY <1>3 DEF Reducing
  <2> QED
    BY <1>3, <2>1 DEF Asked, MinOK, AtStart, Sizing
<1>4. ASSUME min \in Restoring, Asked PROVE MinOK'
  <2>1. min.goal = "restore"
    BY <1>4 DEF Restoring
  <2> QED
    BY <1>4, <2>1 DEF Asked, MinOK, AtStart
<1> QED
  BY <1>1, <1>2, <1>3, <1>4

\* A step of the minimisation process keeps the invariant.
LEMMA MinInv ==
  ASSUME Inv, MinStart \/ Minimize
  PROVE  Inv'
<1> USE DEF Inv
<1> DEFINE Rest == /\ RowsOK /\ JobsOK /\ EventsOK /\ IssueOK /\ AckOK
                   /\ RegOK /\ RadioOK /\ HistoryOK
<1>1. ASSUME UNCHANGED <<server, issue, ack, reg, radio, history>>
      PROVE  Rest'
  BY <1>1 DEF server, rows, radio, history, RowsOK, JobsOK, EventsOK, IssueOK,
              AckOK, RegOK, RadioOK, HistoryOK
<1>2. ASSUME UNCHANGED counts PROVE CountsOK'
  BY <1>2 DEF counts, CountsOK
<1>3. ASSUME UNCHANGED change PROVE ChangeOK'
  BY <1>3 DEF ChangeOK
<1>4. /\ queue \in Seq(Entry) /\ numNodes \in Nat
      /\ UNCHANGED <<queue, numNodes>> => QueueOK'
      /\ queue' = <<>> /\ UNCHANGED numNodes => QueueOK'
  <2>1. queue \in Seq(Entry) /\ numNodes \in Nat
    BY DEF QueueOK
  <2>2. <<>> \in Seq(Entry)
    OBVIOUS
  <2> QED
    BY <2>1, <2>2 DEF QueueOK
<1>5. ASSUME min' = Waiting PROVE MinOK'
  BY <1>5 DEF Waiting, MinOK, AtStart
<1> HIDE DEF Rest
<1>6. CASE MinStart
  <2>1. CountsOK' /\ MinOK'
    BY <1>6 DEF MinStart, CountsOK, MinOK, AtStart
  <2> QED
    BY <1>1, <1>3, <1>4, <1>6, <2>1 DEF MinStart, Rest
<1>7. CASE MinMaximize
  <2>1. MinOK'
    <3>1. Graph \subseteq Nodes
      BY DEF Graph, RowsOK
    <3>2. CASE \A n \in Graph : power[n] = MaxLevel
      BY <1>7, <3>2 DEF MinMaximize, MinOK, AtStart
    <3>3. CASE ~(\A n \in Graph : power[n] = MaxLevel)
      <4>1. PICK n \in Graph : Ask(n, MaxLevel, "max")
        BY <1>7, <3>3 DEF MinMaximize
      <4> QED
        BY <3>1, <4>1, AskType, Levels
    <3> QED
      BY <3>2, <3>3
  <2> QED
    BY <1>1, <1>2, <1>3, <1>4, <1>7, <2>1 DEF MinMaximize, Rest
<1>8. CASE MinSnapshot
  <2>1. QueueOK'
    BY <1>8, Queued DEF MinSnapshot, QueueOK
  <2>2. MinOK'
    BY <1>8 DEF MinSnapshot, MinOK, AtStart
  <2> QED
    BY <1>1, <1>2, <1>3, <1>8, <2>1, <2>2 DEF MinSnapshot, Rest
<1>9. CASE MinLoop
  <2>1. CASE queue = <<>>
    BY <1>1, <1>2, <1>3, <1>4, <1>5, <1>9, <2>1 DEF MinLoop, Rest
  <2>2. CASE queue # <<>>
    <3>1. Head(queue) \in Entry /\ Tail(queue) \in Seq(Entry)
      BY <1>4, <2>2
    <3>2. Head(queue).node \in Nodes /\ Head(queue).level - 1 \in -2 .. MaxLevel
      BY <3>1, Levels DEF Entry
    <3>3. Ask(Head(queue).node, Head(queue).level - 1, "reduce")
          /\ queue' = Tail(queue) /\ UNCHANGED numNodes
      BY <1>9, <2>2 DEF MinLoop
    <3>4. MinOK'
      BY <3>2, <3>3, AskType
    <3>5. QueueOK'
      BY <1>4, <3>1, <3>3 DEF QueueOK
    <3> QED
      BY <1>1, <1>2, <1>3, <1>9, <3>4, <3>5 DEF MinLoop, Rest
  <2> QED
    BY <2>1, <2>2
<1>10. CASE MinAsk
  <2>1. min \in Reducing \cup Restoring
    BY <1>10, MinKinds DEF MinAsk
  <2>2. MinOK'
    BY <1>10, <2>1 DEF MinAsk, MinOK, Reducing, Restoring
  <2>3. min.node \in Nodes /\ min.level \in Int
    BY <2>1, Levels DEF Reducing, Restoring, Asks
  <2>4. [pc |-> "check", node |-> min.node, level |-> min.level] \in Call
    BY <2>3 DEF Call, Unchecked
  <2>5. ChangeOK'
    BY <1>10, <2>4 DEF MinAsk, ChangeOK
  <2> QED
    BY <1>1, <1>2, <1>4, <1>10, <2>2, <2>5 DEF MinAsk, Rest
<1>11. CASE MinAnswer
  <2>1. min \in Reducing \cup Restoring
    BY <1>11, MinKinds DEF MinAnswer
  <2>2. [min EXCEPT !.pc = "look"] \in Reducing \cup Restoring
    BY <2>1 DEF Reducing, Restoring
  <2>3. \/ min' = Waiting /\ queue' = <<>>
        \/ min' = [min EXCEPT !.pc = "look"] /\ UNCHANGED queue
    BY <1>11 DEF MinAnswer
  <2>4. MinOK'
    BY <1>5, <2>2, <2>3 DEF MinOK
  <2>5. QueueOK'
    BY <1>4, <1>11, <2>3 DEF MinAnswer
  <2> QED
    BY <1>1, <1>2, <1>3, <1>11, <2>4, <2>5 DEF MinAnswer, Rest
<1>12. CASE MinLook
  <2>1. min \in Reducing \cup Restoring
    BY <1>12, MinKinds DEF MinLook
  <2>2. [min EXCEPT !.polls = @ + 1] \in Reducing \cup Restoring
    BY <2>1 DEF Reducing, Restoring
  <2>3. [min EXCEPT !.pc = "ask", !.issues = @ + 1] \in Reducing \cup Restoring
    <3>1. min.issues + 1 \in Nat
      BY <2>1 DEF Reducing, Restoring
    <3>2. CASE min \in Reducing
      BY <3>1, <3>2 DEF Reducing
    <3>3. CASE min \in Restoring
      BY <3>1, <3>3 DEF Restoring
    <3> QED
      BY <2>1, <3>2, <3>3
  <2>4. /\ queue' = <<>> \/ UNCHANGED queue
        /\ \/ min' = Waiting
           \/ Asked
           \/ min' = [min EXCEPT !.polls = @ + 1]
           \/ min' = [min EXCEPT !.pc = "ask", !.issues = @ + 1]
    BY <1>12 DEF MinLook
  <2>5. MinOK'
    BY <1>5, <2>1, <2>2, <2>3, <2>4, AskType DEF MinOK
  <2>6. QueueOK'
    BY <1>4, <1>12, <2>4 DEF MinLook
  <2> QED
    BY <1>1, <1>2, <1>3, <1>12, <2>5, <2>6 DEF MinLook, Rest
<1>13. CASE MinSize
  <2>1. min \in Sizing
    BY <1>13, MinKinds DEF MinSize
  <2>2. min.node \in Nodes /\ min.level \in -2 .. MaxLevel
        /\ min.level - 1 \in Asks
    BY <2>1, Levels DEF Sizing, Asks
  <2>3. CASE Cardinality(Graph) < numNodes
    <3>1. /\ Ask(min.node, min.level - 1, "restore")
          /\ UNCHANGED <<queue, numNodes>>
      BY <1>13, <2>3 DEF MinSize
    <3> QED
      BY <1>1, <1>2, <1>3, <1>4, <1>13, <2>2, <3>1, AskType DEF MinSize, Rest
  <2>4. CASE ~(Cardinality(Graph) < numNodes)
    <3>1. MinOK'
      BY <1>13, <2>4 DEF MinSize, MinOK, AtStart
    <3>2. min.level > 0 =>
            Append(queue, [node |-> min.node, level |-> min.level])
              \in Seq(Entry)
      <4>1. min.level > 0 => [node |-> min.node, level |-> min.level] \in Entry
        BY <2>2, Levels DEF Entry
      <4> QED
        BY <1>4, <4>1
    <3>3. queue' = IF min.level > 0
                   THEN Append(queue, [node |-> min.node, level |-> min.level])
                   ELSE queue
      BY <1>13, <2>4 DEF MinSize
    <3>4. QueueOK'
      BY <1>4, <1>13, <3>2, <3>3 DEF MinSize, QueueOK
    <3> QED
      BY <1>1, <1>2, <1>3, <1>13, <3>1, <3>4 DEF MinSize, Rest
  <2> QED
    BY <2>3, <2>4
<1> QED
  BY <1>6, <1>7, <1>8, <1>9, <1>10, <1>11, <1>12, <1>13 DEF Minimize

\* A step of the radio, of the clock or of the rows keeps the invariant.
LEMMA WorldInv ==
  ASSUME Inv, NEW n \in Nodes,
         \/ \E p \in Nodes \X Level : Deliver(p)
         \/ Lose \/ AgeJob(n) \/ Join(n) \/ Leave(n) \/ CleanupJobs
  PROVE  Inv'
<1> USE DEF Inv
<1>1. ASSUME NEW p \in Nodes \X Level, Deliver(p) PROVE Inv'
  <2>1. RadioOK'
    BY <1>1 DEF Deliver, RadioOK, Order
  <2> QED
    BY <1>1, <2>1
    DEF Deliver, server, rows, graph, counts, history, RowsOK, JobsOK,
        EventsOK, ChangeOK, IssueOK, AckOK, MinOK, QueueOK, RegOK, CountsOK,
        HistoryOK
<1>2. CASE Lose
  <2>1. RadioOK'
    BY <1>2 DEF Lose, RadioOK
  <2> QED
    BY <1>2, <2>1
    DEF Lose, server, rows, graph, counts, history, RowsOK, JobsOK, EventsOK,
        ChangeOK, IssueOK, AckOK, MinOK, QueueOK, RegOK, CountsOK, HistoryOK
<1>3. CASE AgeJob(n)
  <2>1. [jobs[n] EXCEPT !.state = "overdue"] \in Job
    BY DEF JobsOK, Job
  <2>2. jobs' = [jobs EXCEPT ![n] = [jobs[n] EXCEPT !.state = "overdue"]]
    BY <1>3 DEF AgeJob
  <2>3. JobsOK'
    BY <2>1, <2>2 DEF JobsOK
  <2> QED
    BY <1>3, <2>3
    DEF AgeJob, rows, graph, radio, counts, history, RowsOK, EventsOK,
        ChangeOK, IssueOK, AckOK, MinOK, QueueOK, RadioOK, RegOK, CountsOK,
        HistoryOK
<1>4. CASE Join(n) \/ Leave(n)
  <2>1. RowsOK' /\ CountsOK' /\ HistoryOK'
    BY <1>4 DEF Join, Leave, history, RowsOK, CountsOK, HistoryOK
  <2> QED
    BY <1>4, <2>1
    DEF Join, Leave, graph, radio, JobsOK, EventsOK, ChangeOK, IssueOK, AckOK,
        MinOK, QueueOK, RadioOK, RegOK
<1>5. CASE CleanupJobs
  <2>1. JobsOK'
    BY <1>5, Levels DEF CleanupJobs, JobsOK
  <2> QED
    BY <1>5, <2>1
    DEF CleanupJobs, rows, graph, radio, counts, history, RowsOK, EventsOK,
        ChangeOK, IssueOK, AckOK, MinOK, QueueOK, RadioOK, RegOK, CountsOK,
        HistoryOK
<1> QED
  BY <1>1, <1>2, <1>3, <1>4, <1>5

\* A call of a user keeps the invariant.
LEMMA UserInv ==
  ASSUME Inv, NEW c \in Users, NEW n \in Nodes,
         NEW l \in -1 .. MaxLevel + 1, UserChange(c, n, l)
  PROVE  Inv'
<1> USE DEF Inv
<1>1. [pc |-> "check", node |-> n, level |-> l] \in Call
  BY Levels DEF Call, Unchecked
<1>2. ChangeOK'
  BY <1>1 DEF UserChange, ChangeOK
<1> QED
  BY <1>2
  DEF UserChange, server, rows, graph, radio, history, RowsOK, JobsOK, EventsOK,
      IssueOK, AckOK, MinOK, QueueOK, RadioOK, RegOK, CountsOK, HistoryOK

\* A reading, or a step of its registration, keeps the invariant.
LEMMA RegInv ==
  ASSUME Inv,
         \/ \E n \in Nodes : Report(n)
         \/ \E a \in Nodes \X Level : RegReceive(a)
         \/ Register
  PROVE  Inv'
<1> USE DEF Inv
<1>1. ASSUME NEW n \in Nodes, Report(n) PROVE Inv'
  <2>1. <<n, device[n]>> \in Order
    BY DEF RadioOK, Order
  <2>2. RadioOK' /\ CountsOK'
    BY <1>1, <2>1 DEF Report, RadioOK, CountsOK
  <2> QED
    BY <1>1, <2>2
    DEF Report, server, rows, graph, history, RowsOK, JobsOK, EventsOK,
        ChangeOK, IssueOK, AckOK, RegOK, MinOK, QueueOK, HistoryOK
<1>2. ASSUME NEW a \in Nodes \X Level, RegReceive(a) PROVE Inv'
  <2>1. RegOK' /\ RadioOK'
    BY <1>2 DEF RegReceive, RegOK, RadioOK, Registering
  <2> QED
    BY <1>2, <2>1
    DEF RegReceive, server, rows, graph, counts, history, RowsOK, JobsOK,
        EventsOK, ChangeOK, IssueOK, AckOK, MinOK, QueueOK, CountsOK, HistoryOK
<1>3. CASE RegGet \/ RegExists
  <2>1. reg \in Registering
    BY <1>3, RegKinds DEF RegGet, RegExists
  <2>2. RegOK'
    BY <1>3, <2>1 DEF RegGet, RegExists, RegOK, Registering
  <2> QED
    BY <1>3, <2>2
    DEF RegGet, RegExists, server, rows, graph, radio, counts, history, RowsOK,
        JobsOK, EventsOK, ChangeOK, IssueOK, AckOK, MinOK, QueueOK, RadioOK,
        CountsOK, HistoryOK
<1>4. CASE RegMerge
  <2>1. reg \in Registering
    BY <1>4, RegKinds DEF RegMerge
  <2>2. reg.node \in Nodes /\ reg.level \in -1 .. MaxLevel
    BY <2>1, Levels DEF Registering
  <2>3. RowsOK' /\ HistoryOK' /\ RegOK'
    BY <1>4, <2>2 DEF RegMerge, RowsOK, HistoryOK, RegOK
  <2> QED
    BY <1>4, <2>3
    DEF RegMerge, graph, radio, counts, JobsOK, EventsOK, ChangeOK, IssueOK,
        AckOK, MinOK, QueueOK, RadioOK, CountsOK
<1> QED
  BY <1>1, <1>2, <1>3, <1>4 DEF Register

\* A step that changes nothing keeps the invariant.
LEMMA StutterInv == ASSUME Inv, UNCHANGED vars PROVE Inv'
BY DEF vars, server, rows, graph, radio, counts, history, Inv, RowsOK, JobsOK,
       EventsOK, ChangeOK, IssueOK, AckOK, MinOK, QueueOK, RadioOK, RegOK,
       CountsOK, HistoryOK

\* The invariant is inductive.
LEMMA InvCorrect == Spec => []Inv
<1>1. ASSUME Inv, [Next]_vars PROVE Inv'
  <2>1. ASSUME NEW c \in Users, NEW n \in Nodes, NEW l \in -1 .. MaxLevel + 1,
               UserChange(c, n, l)
        PROVE  Inv'
    BY <1>1, <2>1, UserInv
  <2>2. ASSUME NEW c \in Callers, Change(c) PROVE Inv'
    BY <1>1, <2>2, ChangeInv
  <2>3. CASE Issue
    BY <1>1, <2>3, IssueInv
  <2>4. CASE Acknowledge \/ \E a \in Nodes \X Level : AckReceive(a)
    BY <1>1, <2>4, AckInv
  <2>5. CASE MinStart \/ Minimize
    BY <1>1, <2>5, MinInv
  <2>6. ASSUME NEW n \in Nodes, AgeJob(n) \/ Join(n) \/ Leave(n) PROVE Inv'
    BY <1>1, <2>6, WorldInv
  <2>7. CASE (\E p \in Nodes \X Level : Deliver(p)) \/ Lose \/ CleanupJobs
    <3>1. \E n \in Nodes : TRUE
      BY <1>1, <2>7 DEF Lose, CleanupJobs, Inv, RadioOK, Order
    <3> QED
      BY <1>1, <2>7, <3>1, WorldInv
  <2>8. CASE UNCHANGED vars
    BY <1>1, <2>8, StutterInv
  <2>9. CASE \/ \E n \in Nodes : Report(n)
             \/ \E a \in Nodes \X Level : RegReceive(a)
             \/ Register
    BY <1>1, <2>9, RegInv
  <2> QED
    BY <1>1, <2>1, <2>2, <2>3, <2>4, <2>5, <2>6, <2>7, <2>8, <2>9 DEF Next
<1> QED
  BY <1>1, InitInv, PTL DEF Spec
-----------------------------------------------------------------------------
\* Every variable of the power levels holds values of its type.
THEOREM TypeCorrect == Spec => []TypeOK
<1>1. Inv => TypeOK
  <2> SUFFICES ASSUME Inv PROVE TypeOK
    OBVIOUS
  <2> USE DEF Inv
  <2>1. present \subseteq Nodes /\ power \in [Nodes -> Int]
        /\ device \in [Nodes -> Int]
    <3>1. -1 .. MaxLevel \subseteq Int /\ Level \subseteq Int
      BY Levels
    <3> QED
      BY <3>1 DEF RowsOK, RadioOK
  <2>2. jobs \in [Nodes -> [state : {"none", "first", "repeated", "overdue"},
                            level : Int]]
    BY Levels DEF JobsOK, Job
  <2>3. Order \subseteq Request
    BY Levels DEF Order, Request
  <2>4. /\ events \in Seq(Request) /\ air \subseteq Request
        /\ acks \subseteq Request /\ readings \subseteq Request
    BY <2>3 DEF EventsOK, RadioOK
  <2>5. change \in [Callers -> ChangeState]
    <3>1. Call \subseteq ChangeState
      BY Levels DEF Call, Answered, Unchecked, Checked, ChangeState
    <3> QED
      BY <3>1 DEF ChangeOK
  <2>6. issue \in IssueState
    BY <2>3 DEF IssueOK, Idle, Serving, Requesting, IssueState
  <2>7. ack \in AckState /\ reg \in RegState
    BY Levels DEF AckOK, Merging, AckState, RegOK, Registering, RegState
  <2>8. min \in MinState
    BY Levels DEF MinOK, AtStart, Sizing, Reducing, Restoring, MinState, Asks
  <2>9. /\ queue \in Seq([node : Nodes, level : -1 .. MaxLevel])
        /\ numNodes \in Nat
    BY DEF QueueOK, Entry
  <2>10. /\ ordered \in [Nodes -> Int]
         /\ misread \subseteq Nodes /\ removed \subseteq Nodes
    BY Levels DEF HistoryOK
  <2> QED
    BY <2>1, <2>2, <2>4, <2>5, <2>6, <2>7, <2>8, <2>9, <2>10
    DEF TypeOK, CountsOK
<1> QED
  BY <1>1, InvCorrect, PTL

\* Whatever users ask for and however far the minimisation decrements, no
\* level but 0 .. MaxLevel is posted, sent, set or written.
THEOREM LevelsInRangeCorrect == Spec => []LevelsInRange
<1>1. Inv => LevelsInRange
  <2> SUFFICES ASSUME Inv PROVE LevelsInRange
    OBVIOUS
  <2> USE DEF Inv
  <2>1. \A n \in Nodes : /\ jobs[n].level \in Level /\ device[n] \in Level
                         /\ power[n] \in -1 .. MaxLevel
    BY DEF JobsOK, Job, RadioOK, RowsOK
  <2>2. \A i \in DOMAIN events : events[i][2] \in Level
    BY Pairs DEF EventsOK
  <2>3. \A c \in Callers :
          change[c].pc \in {"job", "event"} => change[c].level \in Level
    BY CallKinds DEF ChangeOK, Checked
  <2>4. issue.pc \in {"serve", "post", "send"} =>
          \A r \in issue.due : r[2] \in Level
    BY IssueKinds, Pairs DEF Serving, Requesting
  <2>5. issue.pc \in {"post", "send"} => issue.request[2] \in Level
    BY IssueKinds, Pairs DEF Requesting
  <2>6. ack.pc # "receive" => ack.level \in Level
    BY AckKinds DEF Merging
  <2>7. reg.pc # "receive" => reg.level \in Level
    BY RegKinds DEF Registering
  <2>8. \A r \in air \cup acks \cup readings : r[2] \in Level
    BY Pairs DEF RadioOK
  <2> QED
    BY <2>1, <2>2, <2>3, <2>4, <2>5, <2>6, <2>7, <2>8 DEF LevelsInRange
<1> QED
  BY <1>1, InvCorrect, PTL
-----------------------------------------------------------------------------
(***************************************************************************)
(* The verb as it is built: nodes/update serves PUT and its client sends   *)
(* POST, so that no acknowledgment and no reading comes to its merge.      *)
(***************************************************************************)
FirstPower == [n \in Nodes |-> IF n \in Newcomers THEN -1 ELSE InitialLevel]

Unmerged == /\ ack.pc \in {"receive", "get", "exists"}
            /\ reg.pc \in {"receive", "get", "exists"}

LEMMA UnmergedStays ==
  ASSUME UpdateVerb = "PUT", Inv, Unmerged, [Next]_vars
  PROVE  Unmerged'
<1>1. CASE AckGet
  <2>1. ack \in Merging
    BY <1>1, AckKinds DEF AckGet, Inv
  <2> QED
    BY <1>1, <2>1 DEF AckGet, Merging, Unmerged
<1>2. ASSUME NEW a \in Nodes \X Level, AckReceive(a) PROVE Unmerged'
  BY <1>2 DEF AckReceive, Unmerged
<1>3. CASE AckExists \/ AckMerge \/ AckClean
  BY <1>3 DEF AckExists, AckMerge, AckClean, Unmerged
<1>4. CASE RegGet
  <2>1. reg \in Registering
    BY <1>4, RegKinds DEF RegGet, Inv
  <2> QED
    BY <1>4, <2>1 DEF RegGet, Registering, Unmerged
<1>5. ASSUME NEW a \in Nodes \X Level, RegReceive(a) PROVE Unmerged'
  BY <1>5 DEF RegReceive, Unmerged
<1>6. CASE RegExists \/ RegMerge
  BY <1>6 DEF RegExists, RegMerge, Unmerged
<1>7. CASE ack' = ack /\ reg' = reg
  BY <1>7 DEF Unmerged
<1> QED
  BY <1>1, <1>2, <1>3, <1>4, <1>5, <1>6, <1>7
  DEF Next, UserChange, Change, ChangeCheck, ChangeJob, ChangeEvent, Issue,
      IssuePoll, IssueReceive, IssueGet, IssuePost, IssueSend, IssueDone,
      Acknowledge, Report, Register, MinStart, Minimize, MinMaximize,
      MinSnapshot, MinLoop, MinAsk, MinAnswer, MinLook, MinSize, Deliver, Lose,
      AgeJob, Join, Leave, CleanupJobs, vars

\* Every step but the merges leaves the levels of the rows, and every step but
\* the deletion after one and the cleanup leaves a job where there is one.
LEMMA UnmergedSteps ==
  ASSUME Inv, Unmerged, [Next]_vars
  PROVE  /\ power' = power
         /\ \A n \in Nodes :
              jobs[n] # NoJob /\ jobs'[n] = NoJob => n \notin present
<1> USE DEF Unmerged
<1>1. power' = power
  BY DEF Next, UserChange, Change, ChangeCheck, ChangeJob, ChangeEvent, Issue,
     IssuePoll, IssueReceive, IssueGet, IssuePost, IssueSend, IssueDone,
     AckReceive, Acknowledge, AckGet, AckExists, AckMerge, AckClean, Report,
     RegReceive, Register, RegGet, RegExists, RegMerge, MinStart, Minimize,
     MinMaximize, MinSnapshot, MinLoop, MinAsk, MinAnswer, MinLook, MinSize,
     Deliver, Lose, AgeJob, Join, Leave, CleanupJobs, server, rows, vars
<1>2. \/ jobs' = jobs
      \/ jobs' = [n \in Nodes |-> IF n \in present THEN jobs[n] ELSE NoJob]
      \/ \E n \in Nodes : \E j :
           jobs' = [jobs EXCEPT ![n] = j] /\ j.state # "none"
  <2>1. ASSUME NEW c \in Callers, ChangeJob(c)
        PROVE  \E n \in Nodes : \E j :
                 jobs' = [jobs EXCEPT ![n] = j] /\ j.state # "none"
    <3>1. change[c] \in Checked
      BY <2>1, CallKinds DEF ChangeJob, Inv, ChangeOK
    <3> DEFINE j == [state |-> "first", level |-> change[c].level]
    <3>2. /\ change[c].node \in Nodes /\ j.state # "none"
          /\ jobs' = [jobs EXCEPT ![change[c].node] = j]
      BY <2>1, <3>1 DEF ChangeJob, Checked
    <3> HIDE DEF j
    <3> QED
      BY <3>2
  <2>2. ASSUME IssuePost
        PROVE  \E n \in Nodes : \E j :
                 jobs' = [jobs EXCEPT ![n] = j] /\ j.state # "none"
    <3>1. issue.request \in Order
      BY <2>2, IssueKinds DEF IssuePost, Inv, Requesting
    <3>2. PICK state \in {"first", "repeated"} :
            jobs' = [jobs EXCEPT ![issue.request[1]] =
                       [state |-> state, level |-> issue.request[2]]]
      BY <2>2 DEF IssuePost
    <3>3. [state |-> state, level |-> issue.request[2]].state # "none"
      OBVIOUS
    <3>4. issue.request[1] \in Nodes
      BY <3>1, Pairs
    <3> QED
      BY <3>2, <3>3, <3>4
  <2>3. ASSUME NEW n \in Nodes, AgeJob(n)
        PROVE  \E m \in Nodes : \E j :
                 jobs' = [jobs EXCEPT ![m] = j] /\ j.state # "none"
    <3>1. jobs' = [jobs EXCEPT ![n] = [jobs[n] EXCEPT !.state = "overdue"]]
      BY <2>3 DEF AgeJob
    <3>2. [jobs[n] EXCEPT !.state = "overdue"].state # "none"
      BY DEF Inv, JobsOK, Job
    <3> QED
      BY <3>1, <3>2
  <2>4. CASE CleanupJobs
    BY <2>4 DEF CleanupJobs
  <2>5. ASSUME AckClean PROVE FALSE
    BY <2>5 DEF AckClean
  <2> QED
    BY <2>1, <2>2, <2>3, <2>4, <2>5
    DEF Next, UserChange, Change, ChangeCheck, ChangeEvent, Issue, IssuePoll,
        IssueReceive, IssueGet, IssueSend, IssueDone, AckReceive, Acknowledge,
        AckGet, AckExists, AckMerge, Report, RegReceive, Register, RegGet,
        RegExists, RegMerge, MinStart, Minimize, MinMaximize, MinSnapshot,
        MinLoop, MinAsk, MinAnswer, MinLook, MinSize, Deliver, Lose, Join,
        Leave, server, vars
<1>3. ASSUME NEW n \in Nodes, NEW j, j.state # "none",
             jobs' = [jobs EXCEPT ![n] = j]
      PROVE  \A m \in Nodes : jobs[m] # NoJob => jobs'[m] # NoJob
  BY <1>3 DEF Inv, JobsOK, NoJob
<1> QED
  BY <1>1, <1>2, <1>3

\* In the system as it is built no level, acknowledged or read, is ever written
\* to a row: the levels that the rows show are those of the first day.
THEOREM NeverWritten ==
  ASSUME UpdateVerb = "PUT"
  PROVE  Spec => [](power = FirstPower)
<1>1. Init => Unmerged /\ power = FirstPower
  BY DEF Init, Unmerged, FirstPower
<1>2. Inv /\ Unmerged /\ power = FirstPower /\ [Next]_vars
        => Unmerged' /\ (power = FirstPower)'
  BY UnmergedStays, UnmergedSteps DEF FirstPower
<1> QED
  BY <1>1, <1>2, InvCorrect, PTL DEF Spec

\* Nor does an acknowledgment ever end the job of a level that was asked for:
\* it is sent again and again until the row of its node is removed.
THEOREM NeverCleared ==
  ASSUME UpdateVerb = "PUT"
  PROVE  Spec => [][\A n \in Nodes : jobs[n] # NoJob /\ jobs'[n] = NoJob
                                       => n \notin present]_vars
<1>1. Init => Unmerged
  BY DEF Init, Unmerged
<1>2. Inv /\ Unmerged /\ [Next]_vars => Unmerged'
  BY UnmergedStays
<1>3. Inv /\ Unmerged /\ [Next]_vars =>
        [\A n \in Nodes : jobs[n] # NoJob /\ jobs'[n] = NoJob
                            => n \notin present]_vars
  BY UnmergedSteps
<1> QED
  BY <1>1, <1>2, <1>3, InvCorrect, PTL DEF Spec
-----------------------------------------------------------------------------
(***************************************************************************)
(* A single request.  Until a second level is asked for, by a user or by   *)
(* the minimisation, everything that carries a level to a node carries     *)
(* that of one order, <<n, l>>; and from the moment that changePower has   *)
(* accepted it something is left to repeat it, until the node has the      *)
(* level and its row has it, or has a reading that was late.  NotLost is   *)
(* the point: a level may be set in the node long before the row says so,  *)
(* and only the job remembers it.                                          *)
(***************************************************************************)

\* No call and no packet, job or event is under way, and none ever was.
Still ==
  /\ \A c \in Callers : change[c].pc = "free"
  /\ \A m \in Nodes : jobs[m] = NoJob /\ ordered[m] = -1
  /\ events = <<>> /\ issue.pc \in {"poll", "receive"}
  /\ ack.pc = "receive" /\ air = {} /\ acks = {}

\* All that carries a level carries the level l, for the node n; what is
\* acknowledged is the level that the device has.
CallsCarry(n, l) ==
  \A c \in Callers :
    change[c].pc # "free" => change[c].node = n /\ change[c].level = l
JobsCarry(n, l) ==
  \A m \in Nodes : jobs[m] # NoJob => m = n /\ jobs[m].level = l
EventsCarry(n, l) == \A i \in DOMAIN events : events[i] = <<n, l>>
IssueCarries(n, l) ==
  /\ issue.pc \in {"serve", "post", "send"} => issue.due \subseteq {<<n, l>>}
  /\ issue.pc \in {"post", "send"} => issue.request = <<n, l>>
RadioCarries(n, l) ==
  /\ air \subseteq {<<n, l>>} /\ acks \subseteq {<<n, l>>}
  /\ acks # {} => device[n] = l

\* The row has the level, but for a late reading.
RowHas(n, l) == power[n] = l \/ n \in misread

AckCarries(n, l) ==
  ack.pc # "receive" => /\ ack.node = n /\ ack.level = l /\ device[n] = l
                        /\ ack.pc = "clean" => RowHas(n, l)

\* The order is the only one that was accepted, for a node that had a row.
OrderedOf(n, l) ==
  /\ \A m \in Nodes : ordered[m] # -1 => m = n /\ ordered[m] = l
  /\ ordered[n] # -1 => n \in present \cup removed

\* It is about to be posted, or has a job, or is carried out.
Kept(n, l) == \/ \E c \in Callers : change[c].pc = "job"
              \/ jobs[n] # NoJob
              \/ device[n] = l /\ RowHas(n, l)
NotLost(n, l) == ordered[n] # -1 /\ n \notin removed => Kept(n, l)

OneOrder(n, l) ==
  /\ CallsCarry(n, l) /\ JobsCarry(n, l) /\ EventsCarry(n, l)
  /\ IssueCarries(n, l) /\ RadioCarries(n, l) /\ AckCarries(n, l)
  /\ OrderedOf(n, l) /\ NotLost(n, l)

OneInv ==
  OneAsked => /\ min.pc = "receive"
              /\ IF requests = 0 THEN Still
                 ELSE \E n \in Nodes, l \in Int : OneOrder(n, l)

\* It holds at first.
LEMMA OneInit == Init => OneInv
<1> SUFFICES ASSUME Init PROVE OneInv
  OBVIOUS
<1>1. \A c \in Callers : change[c].pc = "free"
  BY DEF Init, Free
<1>2. \A m \in Nodes : jobs[m] = NoJob /\ ordered[m] = -1
  BY DEF Init
<1>3. Still
  BY <1>1, <1>2 DEF Init, Still
<1> QED
  BY <1>3 DEF Init, OneInv

\* The call of the first order carries it, and nothing else does.
LEMMA FirstOrder ==
  ASSUME Inv, Still, NEW c \in Users, NEW n \in Nodes, NEW l \in Int,
         UserChange(c, n, l)
  PROVE  OneOrder(n, l)'
<1>1. CallsCarry(n, l)'
  <2>1. change' = [change EXCEPT ![c] =
                     [pc |-> "check", node |-> n, level |-> l]]
    BY DEF UserChange
  <2>2. change \in [Callers -> Call] /\ c \in Callers
    BY DEF Inv, ChangeOK, Callers
  <2> QED
    BY <2>1, <2>2 DEF Still, CallsCarry
<1>2. /\ jobs' = jobs /\ events' = events /\ issue' = issue /\ ack' = ack
      /\ air' = air /\ acks' = acks /\ ordered' = ordered
  BY DEF UserChange, server, radio, history
<1>3. /\ JobsCarry(n, l)' /\ EventsCarry(n, l)' /\ IssueCarries(n, l)'
      /\ RadioCarries(n, l)' /\ AckCarries(n, l)'
  BY <1>2 DEF Still, JobsCarry, EventsCarry, IssueCarries, RadioCarries,
              AckCarries
<1>4. OrderedOf(n, l)' /\ NotLost(n, l)'
  BY <1>2 DEF Still, OrderedOf, NotLost
<1> QED
  BY <1>1, <1>3, <1>4 DEF OneOrder

\* While nothing was asked for, nothing comes of itself.
LEMMA StillStays ==
  ASSUME Inv, Still, min.pc = "receive", [Next]_vars,
         requests' = requests, rounds' = rounds
  PROVE  Still'
<1> USE DEF Still
<1>1. ASSUME NEW c \in Users, NEW n \in Nodes, NEW l \in -1 .. MaxLevel + 1,
             UserChange(c, n, l)
      PROVE  FALSE
  BY <1>1 DEF UserChange, Inv, CountsOK
<1>2. ASSUME NEW c \in Callers, Change(c) PROVE FALSE
  BY <1>2 DEF Change, ChangeCheck, ChangeJob, ChangeEvent
<1>3. CASE Issue
  <2>1. IssuePoll
    BY <1>3 DEF Issue, IssueReceive, IssueGet, IssuePost, IssueSend, IssueDone
  <2>2. issue'.pc = "receive"
    BY <2>1 DEF IssuePoll
  <2> QED
    BY <2>1, <2>2 DEF IssuePoll, server, radio, history
<1>4. ASSUME NEW a \in Nodes \X Level, AckReceive(a) PROVE FALSE
  BY <1>4 DEF AckReceive
<1>5. CASE Acknowledge
  BY <1>5 DEF Acknowledge, AckGet, AckExists, AckMerge, AckClean
<1>6. CASE MinStart \/ Minimize
  BY <1>6 DEF MinStart, Minimize, MinMaximize, MinSnapshot, MinLoop, MinAsk,
              MinAnswer, MinLook, MinSize, Inv, CountsOK
<1>7. ASSUME NEW p \in Nodes \X Level, Deliver(p) PROVE FALSE
  BY <1>7 DEF Deliver
<1>8. CASE Lose \/ CleanupJobs
  BY <1>8 DEF Lose, CleanupJobs, server, radio, history
<1>9. ASSUME NEW n \in Nodes, AgeJob(n) \/ Join(n) \/ Leave(n) PROVE Still'
  <2>1. ~AgeJob(n)
    BY DEF AgeJob, NoJob
  <2> QED
    BY <1>9, <2>1 DEF Join, Leave, radio, history
<1>10. CASE \/ \E n \in Nodes : Report(n)
            \/ \E a \in Nodes \X Level : RegReceive(a)
  BY <1>10 DEF Report, RegReceive, server, history
<1>11. CASE Register
  BY <1>11 DEF Register, RegGet, RegExists, RegMerge, server, radio, history
<1>12. CASE UNCHANGED vars
  BY <1>12 DEF vars, server, radio, history
<1> QED
  BY <1>1, <1>2, <1>3, <1>4, <1>5, <1>6, <1>7, <1>8, <1>9, <1>10, <1>11, <1>12
  DEF Next

\* A step of changePower keeps the order: accepted, it is about to be posted,
\* and then it has its job.
LEMMA ChangeOrder ==
  ASSUME Inv, NEW n \in Nodes, NEW l \in Int, OneOrder(n, l),
         NEW c \in Callers, Change(c)
  PROVE  OneOrder(n, l)'
<1> USE DEF OneOrder
<1>1. /\ issue' = issue /\ ack' = ack /\ air' = air /\ acks' = acks
      /\ device' = device /\ power' = power /\ present' = present
      /\ misread' = misread /\ removed' = removed
  BY DEF Change, ChangeCheck, ChangeJob, ChangeEvent, server, rows, radio,
         history
<1>2. /\ IssueCarries(n, l)' /\ RadioCarries(n, l)' /\ AckCarries(n, l)'
      /\ RowHas(n, l)' = RowHas(n, l)
  BY <1>1 DEF IssueCarries, RadioCarries, AckCarries, RowHas
<1>3. change[c].pc # "free" /\ change[c].node = n /\ change[c].level = l
  BY DEF Change, ChangeCheck, ChangeJob, ChangeEvent, CallsCarry
<1>4. change \in [Callers -> Call]
  BY DEF Inv, ChangeOK
<1>5. \A status : Reply(c, status) =>
        /\ CallsCarry(n, l)'
        /\ \A d \in Callers \ {c} : change'[d] = change[d]
  BY <1>4 DEF Reply, CallsCarry
<1>6. \A p \in {"job", "event"} : change' = [change EXCEPT ![c].pc = p] =>
        /\ CallsCarry(n, l)'
        /\ \A d \in Callers \ {c} : change'[d] = change[d]
        /\ change'[c].pc = p
  <2>1. change[c] \in Unchecked \cup Checked
    BY <1>3, <1>4 DEF Call, Answered
  <2> TAKE p \in {"job", "event"}
  <2> HAVE change' = [change EXCEPT ![c].pc = p]
  <2>2. change'[c].node = n /\ change'[c].level = l /\ change'[c].pc = p
    BY <1>3, <1>4, <2>1 DEF Unchecked, Checked
  <2>3. \A d \in Callers \ {c} : change'[d] = change[d]
    BY <1>4
  <2> QED
    BY <2>2, <2>3 DEF CallsCarry
<1>7. CASE ChangeCheck(c)
  <2>1. jobs' = jobs /\ events' = events /\ change[c].pc = "check"
    BY <1>7 DEF ChangeCheck, server
  <2>2. JobsCarry(n, l)' /\ EventsCarry(n, l)'
    BY <2>1 DEF JobsCarry, EventsCarry
  <2>3. CASE l \in Level /\ n \in present
    <3>1. /\ change' = [change EXCEPT ![c].pc = "job"]
          /\ ordered' = [ordered EXCEPT ![n] = l]
      BY <1>3, <1>7, <2>3 DEF ChangeCheck
    <3>2. /\ ordered'[n] = l
          /\ \A m \in Nodes \ {n} : ordered'[m] = ordered[m]
      BY <3>1 DEF Inv, HistoryOK
    <3>3. OrderedOf(n, l)'
      BY <1>1, <2>3, <3>2 DEF OrderedOf
    <3>4. NotLost(n, l)'
      BY <1>6, <3>1 DEF NotLost, Kept
    <3> QED
      BY <1>2, <1>6, <2>2, <3>1, <3>3, <3>4
  <2>4. CASE ~(l \in Level /\ n \in present)
    <3>1. (\E status : Reply(c, status)) /\ ordered' = ordered
      BY <1>3, <1>7, <2>4 DEF ChangeCheck
    <3>2. OrderedOf(n, l)'
      BY <1>1, <3>1 DEF OrderedOf
    <3>3. NotLost(n, l)'
      BY <1>1, <1>2, <1>5, <2>1, <3>1 DEF NotLost, Kept
    <3> QED
      BY <1>2, <1>5, <2>2, <3>1, <3>2, <3>3
  <2> QED
    BY <2>3, <2>4
<1>8. CASE ChangeJob(c) \/ ChangeEvent(c)
  <2>1. ordered' = ordered /\ OrderedOf(n, l)'
    BY <1>1, <1>8 DEF ChangeJob, ChangeEvent, history, OrderedOf
  <2>2. CASE ChangeJob(c)
    <3>1. jobs' = [jobs EXCEPT ![n] = [state |-> "first", level |-> l]]
      BY <1>3, <2>2 DEF ChangeJob
    <3>2. jobs'[n] = [state |-> "first", level |-> l] /\ jobs'[n] # NoJob
          /\ \A m \in Nodes \ {n} : jobs'[m] = jobs[m]
      BY <3>1 DEF Inv, JobsOK, NoJob
    <3>3. JobsCarry(n, l)' /\ NotLost(n, l)'
      BY <3>2 DEF JobsCarry, NotLost, Kept
    <3>4. events' = events /\ EventsCarry(n, l)'
      BY <2>2 DEF ChangeJob, EventsCarry
    <3>5. change' = [change EXCEPT ![c].pc = "event"]
      BY <2>2 DEF ChangeJob
    <3> QED
      BY <1>2, <1>6, <2>1, <3>3, <3>4, <3>5
  <2>3. CASE ChangeEvent(c)
    <3>1. jobs' = jobs /\ JobsCarry(n, l)'
      BY <2>3 DEF ChangeEvent, JobsCarry
    <3>2. events' = events \/ events' = Append(events, <<n, l>>)
      BY <1>3, <2>3 DEF ChangeEvent
    <3>3. EventsCarry(n, l)'
      <4>1. events \in Seq(Order)
        BY DEF Inv, EventsOK
      <4>2. <<n, l>> \in Order
        BY <1>3, <1>4, <2>3 DEF ChangeEvent, Call, Answered, Unchecked,
                                Checked, Order
      <4> QED
        BY <3>2, <4>1, <4>2 DEF EventsCarry
    <3>4. Reply(c, "OK") /\ change[c].pc = "event"
      BY <2>3 DEF ChangeEvent
    <3>5. NotLost(n, l)'
      BY <1>1, <1>2, <1>5, <2>1, <3>1, <3>4 DEF NotLost, Kept
    <3> QED
      BY <1>2, <1>5, <2>1, <3>1, <3>3, <3>4, <3>5
  <2> QED
    BY <1>8, <2>2, <2>3
<1> QED
  BY <1>7, <1>8 DEF Change

\* So does a step of the issue process: what it takes and sends is the order,
\* and the job that it posts again keeps it.
LEMMA IssueOrder ==
  ASSUME Inv, NEW n \in Nodes, NEW l \in Int, OneOrder(n, l), Issue
  PROVE  OneOrder(n, l)'
<1> USE DEF OneOrder
<1>1. /\ change' = change /\ ack' = ack /\ acks' = acks /\ device' = device
      /\ power' = power /\ present' = present /\ ordered' = ordered
      /\ misread' = misread /\ removed' = removed
  BY DEF Issue, IssuePoll, IssueReceive, IssueGet, IssuePost, IssueSend,
         IssueDone, server, rows, radio, history
<1>2. CallsCarry(n, l)' /\ AckCarries(n, l)' /\ OrderedOf(n, l)'
  BY <1>1 DEF CallsCarry, AckCarries, RowHas, OrderedOf
<1>3. ASSUME jobs[n] # NoJob => jobs'[n] # NoJob PROVE NotLost(n, l)'
  BY <1>1, <1>3 DEF NotLost, Kept, RowHas
<1>4. CASE IssuePoll
  <2>1. jobs' = jobs /\ events' = events /\ air' = air
    BY <1>4 DEF IssuePoll, server, radio
  <2>2. \A m \in Due : m = n /\ jobs[m].level = l
    BY DEF Due, JobsCarry, NoJob
  <2>3. issue'.pc = "serve" => issue'.due \subseteq {<<n, l>>}
    <3> SUFFICES ASSUME issue'.pc = "serve"
                 PROVE  issue'.due \subseteq {<<n, l>>}
      OBVIOUS
    <3>1. issue'.due = {<<m, jobs[m].level>> : m \in Due}
      BY <1>4 DEF IssuePoll
    <3> QED
      BY <2>2, <3>1
  <2>4. issue'.pc \in {"receive", "serve"}
    BY <1>4 DEF IssuePoll
  <2>5. /\ JobsCarry(n, l)' /\ EventsCarry(n, l)' /\ IssueCarries(n, l)'
        /\ RadioCarries(n, l)'
    BY <1>1, <2>1, <2>3, <2>4 DEF JobsCarry, EventsCarry, IssueCarries,
                                  RadioCarries
  <2> QED
    BY <1>2, <1>3, <2>1, <2>5
<1>5. CASE IssueReceive
  <2>1. /\ jobs' = jobs /\ air' = air /\ events # <<>> /\ events' = Tail(events)
        /\ issue' = [pc |-> "serve", due |-> {Head(events)}]
    BY <1>5 DEF IssueReceive, radio
  <2>2. Head(events) = <<n, l>> /\ EventsCarry(n, l)'
    <3>1. events \in Seq(Order)
      BY DEF Inv, EventsOK
    <3> QED
      BY <2>1, <3>1 DEF EventsCarry
  <2>3. JobsCarry(n, l)' /\ IssueCarries(n, l)' /\ RadioCarries(n, l)'
    BY <1>1, <2>1, <2>2 DEF JobsCarry, IssueCarries, RadioCarries
  <2> QED
    BY <1>2, <1>3, <2>1, <2>2, <2>3
<1>6. ASSUME NEW r \in Nodes \X Level, IssueGet(r) PROVE OneOrder(n, l)'
  <2>1. jobs' = jobs /\ events' = events /\ air' = air
    BY <1>6 DEF IssueGet, server, radio
  <2>2. issue \in Serving /\ r \in issue.due /\ issue.pc = "serve"
    BY <1>6, IssueKinds DEF IssueGet, Inv
  <2>3. r = <<n, l>>
    BY <2>2 DEF IssueCarries
  <2>4. IssueCarries(n, l)'
    BY <1>6, <2>2, <2>3 DEF IssueGet, IssueCarries, Serving
  <2>5. JobsCarry(n, l)' /\ EventsCarry(n, l)' /\ RadioCarries(n, l)'
    BY <1>1, <2>1 DEF JobsCarry, EventsCarry, RadioCarries
  <2> QED
    BY <1>2, <1>3, <2>1, <2>4, <2>5
<1>7. CASE IssuePost
  <2>1. /\ issue.pc = "post" /\ issue.request = <<n, l>>
        /\ issue.due \subseteq {<<n, l>>} /\ issue \in Requesting
    BY <1>7, IssueKinds DEF IssuePost, IssueCarries, Inv
  <2>2. \E state \in {"first", "repeated"} :
          jobs' = [jobs EXCEPT ![n] = [state |-> state, level |-> l]]
    <3>1. issue.request[1] = n /\ issue.request[2] = l
      BY <2>1
    <3> QED
      BY <1>7, <3>1 DEF IssuePost
  <2>3. jobs'[n].level = l /\ jobs'[n] # NoJob
        /\ \A m \in Nodes \ {n} : jobs'[m] = jobs[m]
    BY <2>2 DEF Inv, JobsOK, NoJob
  <2>4. JobsCarry(n, l)'
    BY <2>3 DEF JobsCarry
  <2>5. IssueCarries(n, l)'
    BY <1>7, <2>1 DEF IssuePost, IssueCarries, Requesting
  <2>6. EventsCarry(n, l)' /\ RadioCarries(n, l)'
    BY <1>7 DEF IssuePost, radio, EventsCarry, RadioCarries
  <2> QED
    BY <1>2, <1>3, <2>3, <2>4, <2>5, <2>6
<1>8. CASE IssueSend
  <2>1. /\ issue.pc = "send" /\ issue.request = <<n, l>>
        /\ issue.due \subseteq {<<n, l>>}
    BY <1>8 DEF IssueSend, IssueCarries
  <2>2. jobs' = jobs /\ events' = events /\ air' = air \cup {<<n, l>>}
        /\ issue' = [pc |-> "serve", due |-> issue.due]
    BY <1>8, <2>1 DEF IssueSend, server
  <2>3. JobsCarry(n, l)' /\ EventsCarry(n, l)' /\ IssueCarries(n, l)'
        /\ RadioCarries(n, l)'
    BY <1>1, <2>1, <2>2 DEF JobsCarry, EventsCarry, IssueCarries, RadioCarries
  <2> QED
    BY <1>2, <1>3, <2>2, <2>3
<1>9. CASE IssueDone
  <2>1. jobs' = jobs /\ events' = events /\ air' = air /\ issue'.pc = "poll"
    BY <1>9 DEF IssueDone, server, radio
  <2>2. JobsCarry(n, l)' /\ EventsCarry(n, l)' /\ IssueCarries(n, l)'
        /\ RadioCarries(n, l)'
    BY <1>1, <2>1 DEF JobsCarry, EventsCarry, IssueCarries, RadioCarries
  <2> QED
    BY <1>2, <1>3, <2>1, <2>2
<1> QED
  BY <1>4, <1>5, <1>6, <1>7, <1>8, <1>9 DEF Issue

\* So does a step of the acknowledgment process: it writes the level before it
\* deletes the job that remembers it.
LEMMA AckOrder ==
  ASSUME Inv, NEW n \in Nodes, NEW l \in Int, OneOrder(n, l),
         Acknowledge \/ \E a \in Nodes \X Level : AckReceive(a)
  PROVE  OneOrder(n, l)'
<1> USE DEF OneOrder
<1>1. /\ change' = change /\ events' = events /\ issue' = issue
      /\ air' = air /\ device' = device
      /\ ordered' = ordered /\ removed' = removed
  BY DEF Acknowledge, AckReceive, AckGet, AckExists, AckMerge, AckClean, server,
         radio, history
<1>2. /\ CallsCarry(n, l)' /\ EventsCarry(n, l)' /\ IssueCarries(n, l)'
  BY <1>1 DEF CallsCarry, EventsCarry, IssueCarries
<1>3. ASSUME NEW a \in Nodes \X Level, AckReceive(a) PROVE OneOrder(n, l)'
  <2>1. /\ jobs' = jobs /\ power' = power /\ present' = present
        /\ misread' = misread /\ a \in acks /\ acks' = acks \ {a}
    BY <1>3 DEF AckReceive, server, rows, history
  <2>2. a = <<n, l>> /\ device[n] = l
    BY <2>1 DEF RadioCarries
  <2>3. a[1] = n
    BY <2>2
  <2>4. \/ ack' = ack
        \/ /\ jobs[n] # NoJob
           /\ ack' = [pc |-> "get", node |-> n, level |-> jobs[n].level]
    BY <1>3, <2>3 DEF AckReceive
  <2>5. JobsCarry(n, l)' /\ RadioCarries(n, l)'
    BY <1>1, <2>1, <2>2 DEF JobsCarry, RadioCarries
  <2>6. AckCarries(n, l)'
    BY <1>1, <2>1, <2>2, <2>4 DEF AckCarries, RowHas, JobsCarry
  <2>7. OrderedOf(n, l)' /\ NotLost(n, l)'
    BY <1>1, <2>1 DEF OrderedOf, NotLost, Kept, RowHas
  <2> QED
    BY <1>2, <2>5, <2>6, <2>7
<1>4. ASSUME Acknowledge
      PROVE  /\ ack \in Merging /\ ack.node = n /\ ack.level = l
             /\ device[n] = l /\ RadioCarries(n, l)'
  <2>1. ack.pc # "receive"
    BY <1>4 DEF Acknowledge, AckGet, AckExists, AckMerge, AckClean
  <2>2. acks' = acks
    BY <1>4 DEF Acknowledge, AckGet, AckExists, AckMerge, AckClean, radio
  <2> QED
    BY <1>1, <2>1, <2>2, AckKinds DEF Inv, AckCarries, RadioCarries
<1>5. CASE AckGet \/ AckExists
  <2>1. jobs' = jobs /\ power' = power /\ present' = present
        /\ misread' = misread
    BY <1>5 DEF AckGet, AckExists, server, rows, history
  <2>2. ack'.pc \in {"receive", "exists", "merge"}
        /\ (ack'.pc # "receive" => ack'.node = n /\ ack'.level = l)
    BY <1>4, <1>5 DEF Acknowledge, AckGet, AckExists, Merging
  <2>3. JobsCarry(n, l)' /\ AckCarries(n, l)'
    BY <1>1, <1>4, <1>5, <2>1, <2>2 DEF Acknowledge, JobsCarry, AckCarries
  <2>4. OrderedOf(n, l)' /\ NotLost(n, l)'
    BY <1>1, <2>1 DEF OrderedOf, NotLost, Kept, RowHas
  <2> QED
    BY <1>2, <1>4, <1>5, <2>3, <2>4 DEF Acknowledge
<1>6. CASE AckMerge
  <2>1. Acknowledge
    BY <1>6 DEF Acknowledge
  <2>2. /\ jobs' = jobs /\ present' = present \cup {n}
        /\ power' = [power EXCEPT ![n] = l]
        /\ ack' = [ack EXCEPT !.pc = "clean"]
    BY <1>4, <1>6, <2>1 DEF AckMerge
  <2>3. power'[n] = l /\ RowHas(n, l)'
    BY <2>2 DEF Inv, RowsOK, RowHas
  <2>4. ack'.node = n /\ ack'.level = l
    BY <1>4, <2>1, <2>2 DEF Merging
  <2>5. JobsCarry(n, l)' /\ AckCarries(n, l)'
    BY <1>1, <1>4, <2>1, <2>2, <2>3, <2>4 DEF JobsCarry, AckCarries
  <2>6. OrderedOf(n, l)' /\ NotLost(n, l)'
    BY <1>1, <1>4, <2>1, <2>2, <2>3 DEF OrderedOf, NotLost, Kept
  <2> QED
    BY <1>2, <1>4, <2>1, <2>5, <2>6
<1>7. CASE AckClean
  <2>1. Acknowledge
    BY <1>7 DEF Acknowledge
  <2>2. /\ jobs' = [jobs EXCEPT ![n] = NoJob] /\ present' = present
        /\ power' = power /\ misread' = misread /\ RowHas(n, l)
        /\ ack' = [pc |-> "receive"]
    BY <1>4, <1>7, <2>1 DEF AckClean, rows, history, AckCarries
  <2>3. JobsCarry(n, l)'
    BY <2>2 DEF Inv, JobsOK, JobsCarry
  <2>4. AckCarries(n, l)' /\ OrderedOf(n, l)'
    BY <1>1, <2>2 DEF AckCarries, OrderedOf
  <2>5. NotLost(n, l)'
    BY <1>1, <1>4, <2>1, <2>2 DEF NotLost, Kept, RowHas
  <2> QED
    BY <1>2, <1>4, <2>1, <2>3, <2>4, <2>5
<1> QED
  BY <1>3, <1>5, <1>6, <1>7 DEF Acknowledge

\* So does a reading, or a step of its registration: where the device has the
\* level, the reading that is written says so, or is late.
LEMMA RegOrder ==
  ASSUME Inv, NEW n \in Nodes, NEW l \in Int, OneOrder(n, l),
         \/ \E m \in Nodes : Report(m)
         \/ \E a \in Nodes \X Level : RegReceive(a)
         \/ Register
  PROVE  OneOrder(n, l)'
<1> USE DEF OneOrder
<1>1. /\ change' = change /\ jobs' = jobs /\ events' = events /\ issue' = issue
      /\ ack' = ack /\ air' = air /\ acks' = acks /\ device' = device
      /\ ordered' = ordered /\ removed' = removed
  BY DEF Report, RegReceive, Register, RegGet, RegExists, RegMerge, server,
         radio, history
<1>2. /\ CallsCarry(n, l)' /\ JobsCarry(n, l)' /\ EventsCarry(n, l)'
      /\ IssueCarries(n, l)' /\ RadioCarries(n, l)'
  BY <1>1 DEF CallsCarry, JobsCarry, EventsCarry, IssueCarries, RadioCarries
<1>3. present \subseteq present'
  BY DEF Report, RegReceive, Register, RegGet, RegExists, RegMerge, server, rows
<1>4. device[n] = l /\ RowHas(n, l) => RowHas(n, l)'
  <2>1. CASE RegMerge
    <3>1. reg \in Registering
      BY <2>1, RegKinds DEF RegMerge, Inv
    <3>2. reg.node \in Nodes
      BY <3>1 DEF Registering
    <3>3. CASE reg.node = n
      BY <2>1, <3>3 DEF RegMerge, RowHas, Inv, RowsOK
    <3>4. CASE reg.node # n
      BY <2>1, <3>2, <3>4 DEF RegMerge, RowHas, Inv, RowsOK
    <3> QED
      BY <3>3, <3>4
  <2>2. CASE ~RegMerge
    BY <2>2 DEF Report, RegReceive, Register, RegGet, RegExists, server, rows,
                history, RowHas
  <2> QED
    BY <2>1, <2>2
<1>5. AckCarries(n, l)' /\ OrderedOf(n, l)'
  BY <1>1, <1>3, <1>4 DEF AckCarries, OrderedOf
<1>6. NotLost(n, l)'
  BY <1>1, <1>4 DEF NotLost, Kept
<1> QED
  BY <1>2, <1>5, <1>6

\* So do the radio, the clock and the rows that come and go: the jobs that are
\* cleaned up are those of the nodes without a row, which was removed.
LEMMA WorldOrder ==
  ASSUME Inv, NEW n \in Nodes, NEW l \in Int, OneOrder(n, l),
         \/ (\E p \in Nodes \X Level : Deliver(p)) \/ Lose \/ CleanupJobs
         \/ \E m \in Nodes : AgeJob(m) \/ Join(m) \/ Leave(m)
         \/ UNCHANGED vars
  PROVE  OneOrder(n, l)'
<1> USE DEF OneOrder
<1>1. /\ change' = change /\ events' = events /\ issue' = issue /\ ack' = ack
      /\ power' = power /\ ordered' = ordered /\ misread' = misread
  BY DEF Deliver, Lose, CleanupJobs, AgeJob, Join, Leave, server, rows, radio,
         history, vars
<1>2. /\ CallsCarry(n, l)' /\ EventsCarry(n, l)' /\ IssueCarries(n, l)'
      /\ RowHas(n, l)' = RowHas(n, l)
  BY <1>1 DEF CallsCarry, EventsCarry, IssueCarries, RowHas
<1>3. ASSUME NEW p \in Nodes \X Level, Deliver(p) PROVE OneOrder(n, l)'
  <2>1. /\ p \in air /\ air' = air \ {p} /\ acks' = acks \cup {p}
        /\ device' = [device EXCEPT ![p[1]] = p[2]]
        /\ jobs' = jobs /\ present' = present /\ removed' = removed
    BY <1>3 DEF Deliver, server, rows, history
  <2>2. p = <<n, l>>
    BY <2>1 DEF RadioCarries
  <2>3. device'[n] = l
    BY <2>1, <2>2 DEF Inv, RadioOK
  <2>4. JobsCarry(n, l)' /\ RadioCarries(n, l)' /\ AckCarries(n, l)'
    BY <1>1, <1>2, <2>1, <2>2, <2>3 DEF JobsCarry, RadioCarries, AckCarries
  <2>5. OrderedOf(n, l)' /\ NotLost(n, l)'
    BY <1>1, <1>2, <2>1, <2>3 DEF OrderedOf, NotLost, Kept
  <2> QED
    BY <1>2, <2>4, <2>5
<1>4. ASSUME \/ Lose \/ CleanupJobs \/ UNCHANGED vars
             \/ \E m \in Nodes : AgeJob(m)
      PROVE  OneOrder(n, l)'
  <2>1. /\ device' = device /\ present' = present /\ removed' = removed
        /\ air' \subseteq air /\ acks' \subseteq acks
    BY <1>4 DEF Lose, CleanupJobs, AgeJob, server, rows, radio, history, vars
  <2>2. \A m \in Nodes :
          \/ jobs'[m] = jobs[m]
          \/ jobs'[m] = NoJob /\ m \notin present
          \/ /\ jobs[m] # NoJob /\ jobs'[m] # NoJob
             /\ jobs'[m].level = jobs[m].level
    <3>1. CASE Lose \/ UNCHANGED vars
      BY <3>1 DEF Lose, server, vars
    <3>2. CASE CleanupJobs
      BY <3>2 DEF CleanupJobs
    <3>3. ASSUME NEW m \in Nodes, AgeJob(m)
          PROVE  /\ \A k \in Nodes \ {m} : jobs'[k] = jobs[k]
                 /\ jobs[m] # NoJob /\ jobs'[m] # NoJob
                 /\ jobs'[m].level = jobs[m].level
      <4>1. jobs[m] \in Job
        BY DEF Inv, JobsOK
      <4> QED
        BY <3>3, <4>1 DEF AgeJob, Inv, JobsOK, Job, NoJob
    <3> QED
      BY <1>4, <3>1, <3>2, <3>3
  <2>3. JobsCarry(n, l)' /\ RadioCarries(n, l)' /\ AckCarries(n, l)'
    BY <1>1, <1>2, <2>1, <2>2 DEF JobsCarry, RadioCarries, AckCarries
  <2>4. OrderedOf(n, l)'
    BY <1>1, <2>1 DEF OrderedOf
  <2>5. NotLost(n, l)'
    <3> SUFFICES ASSUME ordered[n] # -1, n \notin removed PROVE Kept(n, l)'
      BY <1>1, <2>1 DEF NotLost
    <3>1. n \in present /\ Kept(n, l)
      BY DEF OrderedOf, NotLost
    <3>2. jobs[n] # NoJob => jobs'[n] # NoJob
      BY <2>2, <3>1
    <3> QED
      BY <1>1, <1>2, <2>1, <3>1, <3>2 DEF Kept
  <2> QED
    BY <1>2, <2>3, <2>4, <2>5
<1>5. ASSUME NEW m \in Nodes, Join(m) \/ Leave(m) PROVE OneOrder(n, l)'
  <2>1. jobs' = jobs /\ device' = device /\ air' = air /\ acks' = acks
    BY <1>5 DEF Join, Leave, radio
  <2>2. \/ present' = present \cup {m} /\ removed' = removed
        \/ present' = present \ {m} /\ removed' = removed \cup {m}
    BY <1>5 DEF Join, Leave, history
  <2>3. JobsCarry(n, l)' /\ RadioCarries(n, l)' /\ AckCarries(n, l)'
    BY <1>1, <1>2, <2>1 DEF JobsCarry, RadioCarries, AckCarries
  <2>4. OrderedOf(n, l)' /\ NotLost(n, l)'
    BY <1>1, <1>2, <2>1, <2>2 DEF OrderedOf, NotLost, Kept
  <2> QED
    BY <1>2, <2>3, <2>4
<1> QED
  BY <1>3, <1>4, <1>5

\* No step loses what was asked for, while it is all that was asked for.
LEMMA OneNext == Inv /\ OneInv /\ [Next]_vars => OneInv'
<1> SUFFICES ASSUME Inv, OneInv, [Next]_vars, OneAsked' PROVE OneInv'
  BY DEF OneInv
<1>1. /\ requests' = requests
         \/ (requests' = requests + 1
             /\ \E c \in Users, n \in Nodes, l \in -1 .. MaxLevel + 1 :
                  UserChange(c, n, l))
      /\ rounds' = rounds \/ rounds' = rounds + 1
  BY DEF Next, UserChange, MinStart, Change, ChangeCheck, ChangeJob,
         ChangeEvent, Issue, IssuePoll, IssueReceive, IssueGet, IssuePost,
         IssueSend, IssueDone, AckReceive, Acknowledge, AckGet, AckExists,
         AckMerge, AckClean, Report, RegReceive, Register, RegGet, RegExists,
         RegMerge, Minimize, MinMaximize, MinSnapshot, MinLoop, MinAsk,
         MinAnswer, MinLook, MinSize, Deliver, Lose, AgeJob, Join, Leave,
         CleanupJobs, counts, vars
<1>2. OneAsked /\ rounds' = rounds
  BY <1>1 DEF OneAsked, Inv, CountsOK
<1>3. min.pc = "receive"
  BY <1>2 DEF OneInv
<1>4. ~MinStart /\ ~Minimize
  BY <1>2, <1>3 DEF MinStart, Minimize, MinMaximize, MinSnapshot, MinLoop,
                    MinAsk, MinAnswer, MinLook, MinSize, Inv, CountsOK
<1>5. min'.pc = "receive"
  BY <1>3, <1>4
  DEF Next, UserChange, Change, ChangeCheck, ChangeJob, ChangeEvent, Issue,
      IssuePoll, IssueReceive, IssueGet, IssuePost, IssueSend, IssueDone,
      AckReceive, Acknowledge, AckGet, AckExists, AckMerge, AckClean, Report,
      RegReceive, Register, RegGet, RegExists, RegMerge, Deliver, Lose, AgeJob,
      Join, Leave, CleanupJobs, graph, vars
<1>6. CASE requests = 0 /\ requests' = requests
  <2>1. Still
    BY <1>2, <1>6 DEF OneInv
  <2>2. Still'
    BY <1>2, <1>3, <1>6, <2>1, StillStays
  <2> QED
    BY <1>5, <1>6, <2>2 DEF OneInv
<1>7. CASE requests' = requests + 1
             /\ \E c \in Users, n \in Nodes, l \in -1 .. MaxLevel + 1 :
                  UserChange(c, n, l)
  <2>1. PICK c \in Users, n \in Nodes, l \in -1 .. MaxLevel + 1 :
          UserChange(c, n, l)
    BY <1>7
  <2>2. requests = 0 /\ requests' # 0
    BY <1>7 DEF OneAsked, Inv, CountsOK
  <2>3. Still
    BY <1>2, <2>2 DEF OneInv
  <2>4. l \in Int
    BY Levels
  <2>5. OneOrder(n, l)'
    BY <2>1, <2>3, <2>4, FirstOrder
  <2> QED
    BY <1>5, <2>2, <2>4, <2>5 DEF OneInv
<1>8. CASE requests # 0 /\ requests' = requests
  <2>1. PICK n \in Nodes, l \in Int : OneOrder(n, l)
    BY <1>2, <1>8 DEF OneInv
  <2>2. OneOrder(n, l)'
    <3>1. ASSUME NEW c \in Users, NEW m \in Nodes,
                 NEW k \in -1 .. MaxLevel + 1, UserChange(c, m, k)
          PROVE  FALSE
      BY <1>8, <3>1 DEF UserChange, Inv, CountsOK
    <3>2. ASSUME NEW c \in Callers, Change(c) PROVE OneOrder(n, l)'
      BY <2>1, <3>2, ChangeOrder
    <3>3. CASE Issue
      BY <2>1, <3>3, IssueOrder
    <3>4. CASE Acknowledge \/ \E a \in Nodes \X Level : AckReceive(a)
      BY <2>1, <3>4, AckOrder
    <3>5. CASE \/ \E m \in Nodes : Report(m)
               \/ \E a \in Nodes \X Level : RegReceive(a)
               \/ Register
      BY <2>1, <3>5, RegOrder
    <3>6. CASE \/ (\E p \in Nodes \X Level : Deliver(p)) \/ Lose
               \/ CleanupJobs \/ UNCHANGED vars
               \/ \E m \in Nodes : AgeJob(m) \/ Join(m) \/ Leave(m)
      BY <2>1, <3>6, WorldOrder
    <3> QED
      BY <1>4, <3>1, <3>2, <3>3, <3>4, <3>5, <3>6 DEF Next
  <2> QED
    BY <1>5, <1>8, <2>1, <2>2 DEF OneInv
<1> QED
  BY <1>1, <1>6, <1>7, <1>8

\* The nodes whose row was never removed, and for which nothing is under way,
\* have what was asked for.
QuietSettled ==
  \A n \in (present \cap Infrastructural) \ removed : Quiet(n) => Settled(n)

\* The level of one request is never lost, whatever packets are, and whatever
\* readings are registered in between: when nothing is under way for a node
\* whose row was not removed, the node has the level that changePower accepted
\* for it, and so has its row, unless a reading that was no longer true was
\* written there (NodePowerLevelRegistrationProcess asks for no job).  It
\* takes two requests, or one and a minimisation, for an acknowledgment to be
\* matched with another's job.
THEOREM OneRequestSettles == Spec => [](OneAsked => QuietSettled)
<1>1. ASSUME Inv, OneInv, OneAsked PROVE QuietSettled
  <2> SUFFICES ASSUME NEW m \in (present \cap Infrastructural) \ removed,
                      Quiet(m), ordered[m] # -1
               PROVE  device[m] = ordered[m] /\ RowHas(m, ordered[m])
    BY DEF QuietSettled, Settled, RowHas
  <2>1. m \in Nodes
    BY <1>1 DEF Inv, RowsOK
  <2>2. requests # 0
    BY <1>1, <2>1 DEF OneInv, Still
  <2>3. PICK n \in Nodes, l \in Int : OneOrder(n, l)
    BY <1>1, <2>2 DEF OneInv
  <2>4. m = n /\ ordered[m] = l
    BY <2>1, <2>3 DEF OneOrder, OrderedOf
  <2>5. Kept(n, l)
    BY <2>3, <2>4 DEF OneOrder, NotLost
  <2>6. \A c \in Callers : change[c].pc # "job"
    BY <2>3, <2>4 DEF OneOrder, CallsCarry, Quiet
  <2>7. jobs[n] = NoJob
    BY <2>4 DEF Quiet
  <2> QED
    BY <2>4, <2>5, <2>6, <2>7 DEF Kept
<1> QED
  BY <1>1, InvCorrect, OneInit, OneNext, PTL DEF Spec
=============================================================================
