----------------------------- MODULE Neighbours -----------------------------
(***************************************************************************)
(* The neighbours of the routers and coordinators.                         *)
(* NodeNeighRequestProcess asks each of them in turn, for ever, and posts  *)
(* a job with the sequence number of the request.                          *)
(* NodeNeighRegistrationProcess finds out whose neighbours an answer holds *)
(* from the jobs with its sequence number: it does not look at its source. *)
(* The number is a byte; 0 in a query of the jobs means any number.        *)
(*                                                                         *)
(* Each REST call is an action.  The two nodesLock sections around the row *)
(* exclude only processes that change its other parts (Acquisition).       *)
(***************************************************************************)
EXTENDS Naturals, FiniteSets

CONSTANTS
  Nodes,        \* the addresses of the routers and coordinators
  Lists,        \* the lists of neighbours that a device may have
  None,         \* the empty list of a new row
  Registered,   \* the rows at the start
  LastId,       \* their highest id
  Hears,        \* the neighbours of each device at the start
  Byte,         \* the number of values of a byte, 256 in the code
  UpdateVerb,   \* the HTTP verb that nodes/update serves
  MaxPending,   \* bound: the packets on their way
  MaxChanges,   \* bound: the changes of the neighbours of the devices
  MaxFaults     \* bound: the packets lost, the rows removed, the restarts

ASSUME NodesAssumption == IsFiniteSet(Nodes)
ASSUME ListsAssumption == None \in Lists
ASSUME RegisteredAssumption ==
  /\ LastId \in Nat
  /\ Registered \subseteq [id : 1 .. LastId, at : Nodes, list : {None}]
  /\ \A r, s \in Registered : r.id = s.id \/ r.at = s.at => r = s
  /\ \A n \in Nodes : \E r \in Registered : r.at = n
ASSUME HearsAssumption == Hears \in [Nodes -> Lists]
ASSUME ByteAssumption == Byte \in Nat /\ Byte > 1
ASSUME VerbAssumption == UpdateVerb \in {"PUT", "POST"}
ASSUME BoundAssumption ==
  MaxPending \in Nat /\ MaxChanges \in Nat /\ MaxFaults \in Nat

VARIABLES
  nodes,         \* the rows
  lastId,        \* the id of the last row
  jobs,          \* the NODE_NEIGH_REQUEST jobs: node and sequence number
  tsn,           \* NodeNeighRequestProcess.sequenceNumber
  request,       \* where NodeNeighRequestProcess is
  registration,  \* where NodeNeighRegistrationProcess is
  asked,         \* the requests on their way
  answers,       \* the answers on their way, or waiting
  actual,        \* the neighbours of each device
  heard,         \* history: the lists that each device has reported
  turned,        \* history: whether a sequence number may be in use twice
  removed,       \* history: whether a row was removed
  changes, faults

rows    == <<nodes, lastId>>
radio   == <<asked, answers>>
devices == <<actual, heard, changes>>
flags   == <<turned, removed>>
vars    == <<rows, jobs, tsn, request, registration, radio, devices, flags,
             faults>>

Tsn   == 0 .. Byte - 1
Row   == [id : Nat, at : Nodes, list : Lists]
Job   == Nodes \X Tsn
Answers == [from : Nodes, tsn : Tsn, list : Lists]

Idle      == [pc |-> "idle"]
Receiving == [pc |-> "receive"]

Init ==
  /\ nodes = Registered /\ lastId = LastId
  /\ jobs = {} /\ tsn = 0
  /\ request = Idle /\ registration = Receiving
  /\ asked = {} /\ answers = {}
  /\ actual = Hears
  /\ heard = [n \in Nodes |-> {None}]
  /\ turned = FALSE /\ removed = FALSE
  /\ changes = 0 /\ faults = 0

\* GET nodes/{gatewayId}/{address} returns r: not when two rows match.
GetNode(n, r) == {s \in nodes : s.at = n} = {r}

Fault == faults < MaxFaults /\ faults' = faults + 1
-----------------------------------------------------------------------------
(***************************************************************************)
(* NodeNeighRequestProcess: the next row of the list of nodes is asked.    *)
(***************************************************************************)
\* Mutant: the sequence number is an int.
RequestNextInt(n) ==
  /\ request = Idle
  /\ \E r \in nodes : r.at = n
  /\ tsn' = tsn + 1
  /\ turned' = turned
  /\ request' = [pc |-> "post", at |-> n]
  /\ UNCHANGED <<rows, jobs, registration, radio, devices, removed, faults>>

RequestNext(n) ==
  /\ request = Idle
  /\ \E r \in nodes : r.at = n
  /\ tsn' = (tsn + 1) % Byte
  /\ turned' = (turned \/ tsn' = 0)
  /\ request' = [pc |-> "post", at |-> n]
  /\ UNCHANGED <<rows, jobs, registration, radio, devices, removed, faults>>

RequestPost ==
  /\ request.pc = "post"
  /\ jobs' = jobs \cup {<<request.at, tsn>>}
  /\ request' = [request EXCEPT !.pc = "send"]
  /\ UNCHANGED <<rows, tsn, registration, radio, devices, flags, faults>>

RequestSend ==
  /\ request.pc = "send"
  /\ Cardinality(asked) + Cardinality(answers) < MaxPending
  /\ asked' = asked \cup {<<request.at, tsn>>}
  /\ request' = Idle
  /\ UNCHANGED <<rows, jobs, tsn, registration, answers, devices, flags,
                 faults>>
-----------------------------------------------------------------------------
(***************************************************************************)
(* NodeNeighRegistrationProcess.                                           *)
(***************************************************************************)
\* Mutant: the jobs are queried by their type alone.
MatchingAny(t) == {j[1] : j \in jobs}

\* The nodes that GET jobs?type=NODE_NEIGH_REQUEST&tsn=t finds a job of.
Matching(t) == {j[1] : j \in {k \in jobs : t = 0 \/ k[2] = t}}

\* The first of the jobs, in the order that the query returns them.
RegisterReceive(a) ==
  /\ registration.pc = "receive" /\ a \in answers
  /\ answers' = answers \ {a}
  /\ \/ /\ Matching(a.tsn) = {}
        /\ UNCHANGED registration
     \/ \E n \in Matching(a.tsn) :
          registration' = [pc |-> "delete", at |-> n, list |-> a.list]
  /\ UNCHANGED <<rows, jobs, tsn, request, asked, devices, flags, faults>>

RegisterDelete ==
  /\ registration.pc = "delete"
  /\ jobs' = {j \in jobs : j[1] # registration.at}
  /\ registration' = [registration EXCEPT !.pc = "get"]
  /\ UNCHANGED <<rows, tsn, request, radio, devices, flags, faults>>

\* Mutant: the sizes of the two lists are not compared, so that an empty one
\* seems unchanged.
RegisterGetAnySize ==
  /\ registration.pc = "get"
  /\ \/ \E r \in nodes :
          /\ GetNode(registration.at, r)
          /\ registration' =
               IF r.list \in {None, registration.list} THEN Receiving
               ELSE [pc   |-> "exists",
                     copy |-> [r EXCEPT !.list = registration.list]]
          /\ UNCHANGED answers
     \/ /\ \A r \in nodes : ~GetNode(registration.at, r)
        /\ registration' = [pc |-> "dead"]
        /\ answers' = {}
  /\ UNCHANGED <<rows, jobs, tsn, request, asked, devices, flags, faults>>

\* A node that is not found, or is found twice, is an exception that nothing
\* catches but the end of the thread, which closes its consumer.  Unchanged
\* neighbours are left.
RegisterGet ==
  /\ registration.pc = "get"
  /\ \/ \E r \in nodes :
          /\ GetNode(registration.at, r)
          /\ registration' =
               IF r.list = registration.list THEN Receiving
               ELSE [pc   |-> "exists",
                     copy |-> [r EXCEPT !.list = registration.list]]
          /\ UNCHANGED answers
     \/ /\ \A r \in nodes : ~GetNode(registration.at, r)
        /\ registration' = [pc |-> "dead"]
        /\ answers' = {}
  /\ UNCHANGED <<rows, jobs, tsn, request, asked, devices, flags, faults>>

\* nodes/update, before its lock: the POST is refused where it serves PUT.
RegisterExists ==
  /\ registration.pc = "exists"
  /\ registration' =
       IF /\ UpdateVerb = "POST"
          /\ \E r \in nodes : GetNode(registration.copy.at, r)
       THEN [registration EXCEPT !.pc = "merge"] ELSE Receiving
  /\ UNCHANGED <<rows, jobs, tsn, request, radio, devices, flags, faults>>

\* Mutant: the copy is inserted beside the row.
RegisterMergeBeside ==
  /\ registration.pc = "merge"
  /\ lastId' = lastId + 1
  /\ nodes' = nodes \cup {[registration.copy EXCEPT !.id = lastId + 1]}
  /\ registration' = Receiving
  /\ UNCHANGED <<jobs, tsn, request, radio, devices, flags, faults>>

\* em.merge overwrites the row with the id of the copy, or inserts the copy.
RegisterMerge ==
  /\ registration.pc = "merge"
  /\ nodes' = {r \in nodes : r.id # registration.copy.id}
                \cup {registration.copy}
  /\ registration' = Receiving
  /\ UNCHANGED <<lastId, jobs, tsn, request, radio, devices, flags, faults>>
-----------------------------------------------------------------------------
(***************************************************************************)
(* The devices, the radio, and the rows that come and go.                  *)
(***************************************************************************)
Answer(q) ==
  LET n == q[1]
  IN  /\ q \in asked
      /\ asked' = asked \ {q}
      /\ answers' =
           IF registration.pc = "dead" THEN answers
           ELSE answers \cup
                  {[from |-> n, tsn |-> q[2], list |-> actual[n]]}
      /\ heard' = [heard EXCEPT ![n] = @ \cup {actual[n]}]
      /\ UNCHANGED <<rows, jobs, tsn, request, registration, actual, changes,
                     flags, faults>>

Change(n, list) ==
  /\ changes < MaxChanges /\ changes' = changes + 1
  /\ actual' = [actual EXCEPT ![n] = list]
  /\ UNCHANGED <<rows, jobs, tsn, request, registration, radio, heard, flags,
                 faults>>

Lose ==
  /\ Fault
  /\ \/ \E q \in asked : asked' = asked \ {q} /\ UNCHANGED answers
     \/ \E a \in answers : answers' = answers \ {a} /\ UNCHANGED asked
  /\ UNCHANGED <<rows, jobs, tsn, request, registration, devices, flags>>

Leave(r) ==
  /\ r \in nodes /\ Fault
  /\ nodes' = nodes \ {r} /\ removed' = TRUE
  /\ UNCHANGED <<lastId, jobs, tsn, request, registration, radio, devices,
                 turned>>

\* The device of a row that was removed announces itself, and is described.
Announce(n) ==
  /\ \A r \in nodes : r.at # n
  /\ lastId' = lastId + 1
  /\ nodes' = nodes \cup {[id |-> lastId + 1, at |-> n, list |-> None]}
  /\ UNCHANGED <<jobs, tsn, request, registration, radio, devices, flags,
                 faults>>

\* jobs/cleanup removes the jobs of the addresses that have no row.
CleanupJobs ==
  /\ \E j \in jobs : \A r \in nodes : r.at # j[1]
  /\ jobs' = {j \in jobs : \E r \in nodes : r.at = j[1]}
  /\ UNCHANGED <<rows, tsn, request, registration, radio, devices, flags,
                 faults>>

\* A request process that is deleted, ends its turn, and is posted again
\* counts from 0, and the jobs of the one before stay.
Restart ==
  /\ Fault
  /\ request = Idle
  /\ tsn' = 0 /\ turned' = TRUE
  /\ UNCHANGED <<rows, jobs, request, registration, radio, devices, removed>>

Register == \/ RegisterDelete \/ RegisterGet \/ RegisterExists
            \/ RegisterMerge

Next ==
  \/ \E n \in Nodes : RequestNext(n) \/ Announce(n)
  \/ RequestPost \/ RequestSend
  \/ \E a \in answers : RegisterReceive(a)
  \/ Register
  \/ \E q \in asked : Answer(q)
  \/ \E n \in Nodes, list \in Lists : Change(n, list)
  \/ Lose
  \/ \E r \in nodes : Leave(r)
  \/ CleanupJobs
  \/ Restart

Spec == Init /\ [][Next]_vars

\* The threads run, every row has its turn (the index of the request process
\* goes round the list), and what the radio does not lose is answered.
Fairness ==
  /\ \A n \in Nodes : SF_vars(RequestNext(n))
  /\ WF_vars(RequestPost) /\ WF_vars(RequestSend)
  /\ WF_vars(\E a \in answers : RegisterReceive(a))
  /\ WF_vars(Register)
  /\ WF_vars(\E q \in asked : Answer(q))

FairSpec == Spec /\ Fairness
-----------------------------------------------------------------------------
RequestState == {Idle} \cup [pc : {"post", "send"}, at : Nodes]
RegistrationState ==
  [pc : {"receive", "dead"}]
    \cup [pc : {"delete", "get"}, at : Nodes, list : Lists]
    \cup [pc : {"exists", "merge"}, copy : Row]

\* Every variable holds values of the shape that the actions assume.
TypeOK ==
  /\ nodes \subseteq Row /\ lastId \in Nat
  /\ jobs \subseteq Job /\ tsn \in Tsn
  /\ request \in RequestState /\ registration \in RegistrationState
  /\ asked \subseteq Job /\ answers \subseteq Answers
  /\ actual \in [Nodes -> Lists] /\ heard \in [Nodes -> SUBSET Lists]
  /\ turned \in BOOLEAN /\ removed \in BOOLEAN
  /\ changes \in Nat /\ faults \in Nat

\* A row has the neighbours that its own device reported, although an answer
\* is given to the node of a job with its sequence number, whoever sent it:
\* until the number comes round to 0, which matches every job, or starts
\* again over the jobs that stay.
OwnNeighbours ==
  ~turned => \A r \in nodes : r.list \in heard[r.at]

\* No answer ends the thread of the registration, after which no neighbours
\* are registered any more: not as long as every row stays, for the answer
\* of a node whose row is removed under its job does end it.
RegistrationLives == registration.pc = "dead" => removed

\* An answer waits whose sequence number is that of another node's job.
Confusable ==
  \E a \in answers : \E n \in Matching(a.tsn) : n # a.from

\* The neighbours of every row are at last those of its device, though
\* requests and answers are lost, numbers come round, the process is started
\* anew, and rows are removed: provided that the answers cease to be
\* confused, and the registration lives.
NeighboursSettle ==
  <>[](~Confusable /\ registration.pc # "dead") =>
    <>[](\A r \in nodes : r.list = actual[r.at])
=============================================================================
