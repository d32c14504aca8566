------------------------ MODULE NodeRegistry_proofs ------------------------
(***************************************************************************)
(* Proofs about NodeRegistry, for any number of gateways, devices, rows    *)
(* and packets.                                                            *)
(***************************************************************************)
EXTENDS NodeRegistry, TLAPS

-----------------------------------------------------------------------------
(***************************************************************************)
(* The operations on the tables.                                           *)
(***************************************************************************)

\* An insertion keeps the table a table of nodes.
LEMMA InsertType ==
  ASSUME NEW ns \in SUBSET Node, NEW new \in Node
  PROVE  /\ InsertOrUpdateNode(ns, new) \in SUBSET Node
         /\ InsertStatus(ns, new) \in {"CREATED", "OK", "FAILED"}
<1>1. \A p \in Node : Refreshed(p, new) \in Node
  BY DEF Refreshed, Node
<1>2. FindNode(ns, new.gatewayId, new.address) \subseteq ns
  BY DEF FindNode
<1> QED
  BY <1>1, <1>2 DEF InsertOrUpdateNode, InsertStatus

\* NewNode builds a node.
LEMMA NewNodeType ==
  ASSUME NEW id \in Nat, NEW d \in Device, NEW lt \in LogicalType,
         NEW m \in Manufacturer, NEW perm \in BOOLEAN
  PROVE  NewNode(id, d, lt, m, perm) \in Node
BY DEF NewNode, Device, Node

\* What is at some coordinates.
LEMMA AtType ==
  /\ \A n \in Node : At(n) \in Coord /\ Local(n) \in LocalCoordinates
  /\ \A d \in Device : At(d) \in Coord /\ Local(d) \in LocalCoordinates
BY DEF At, Local, Coord, Node, Device, LocalCoordinates

\* The operations on the jobs keep the table a table of jobs.
LEMMA JobsType ==
  ASSUME NEW js \in Jobs
  PROVE  /\ \A t \in JobType, c \in Coord, state \in JobState :
              AddJob(js, t, c, state) \in Jobs
         /\ \A t \in JobType, c \in Coord :
              RemoveJobs(js, t, c) \in Jobs
         /\ \A ns : CleanupJobs(js, ns) \in Jobs
BY DEF AddJob, RemoveJobs, CleanupJobs, Jobs, JobState

\* The operations on the links keep the table a table of links.
LEMMA LinksType ==
  ASSUME NEW ls \in SUBSET Link
  PROVE  /\ CleanupLinks(ls) \in SUBSET Link
         /\ \A link \in Link : InsertOrUpdateLink(ls, link) \in SUBSET Link
         /\ \A g \in GatewayId, s, d \in LocalCoordinates :
              NewLink(g, s, d) \in Link
<1>1. \A l \in Link : [l EXCEPT !.fresh = TRUE] \in Link
  BY DEF Link
<1>2. \A link \in Link : InsertOrUpdateLink(ls, link) \in SUBSET Link
  BY <1>1 DEF InsertOrUpdateLink
<1> QED
  BY <1>2 DEF CleanupLinks, NewLink, Link

\* The second job of a node is a job.
LEMMA NextJobTypeType == \A lt : NextJobType(lt) \in JobType
BY DEF NextJobType, JobType
-----------------------------------------------------------------------------
(***************************************************************************)
(* The type invariant.                                                     *)
(***************************************************************************)
LEMMA PostNodeType ==
  ASSUME TypeOK, NEW new \in Node, PostNode(new)
  PROVE  /\ nodes' \subseteq Node
         /\ nodeId' \in Nat
         /\ InsertStatus(nodes, new) \in {"CREATED", "OK", "FAILED"}
<1>1. nodes \in SUBSET Node /\ nodeId \in Nat
  BY DEF TypeOK
<1> QED
  BY <1>1, InsertType DEF PostNode

LEMMA PostJobType ==
  ASSUME TypeOK, NEW t \in JobType, NEW c \in Coord,
         NEW state \in JobState \ {"none"}, PostJob(t, c, state)
  PROVE  jobs' \in Jobs /\ kept' \subseteq JobType \X Coord
BY JobsType DEF PostJob, TypeOK

\* The rows that a run starts from are nodes, and everything else is empty.
LEMMA InitType == Init => TypeOK
<1> SUFFICES ASSUME Init PROVE TypeOK
  OBVIOUS
<1>1. nodes \subseteq Node /\ nodeId \in Nat
  BY RegisteredAssumption DEF Init
<1>2. jobs \in Jobs
  BY DEF Init, NoJobs, Jobs, JobState
<1>3. request \in RequestState
  BY DEF Init, RequestState
<1>4. added \in Seq(Coord)
  BY DEF Init
<1> QED
  BY <1>1, <1>2, <1>3, <1>4, BoundsAssumption DEF Init, TypeOK, AnnceState,
     DiscState, RegistrationState

\* An announcement goes on with the coordinates that it came with.
LEMMA AnnceGoOnType ==
  ASSUME annce \in AnnceState, annce # Idle, NEW next \in {"grace", "event"},
         AnnceGoOn(next)
  PROVE  annce' \in AnnceState
<1>1. annce \in [pc : {"descr", "grace", "event"}, at : Coord,
                 status : {"CREATED", "OK", "FAILED"}]
  BY DEF AnnceState
<1>2. CASE annce' = [annce EXCEPT !.pc = next]
  BY <1>1, <1>2 DEF AnnceState
<1>3. CASE annce' = [annce EXCEPT !.pc = next, !.status = "FAILED"]
  BY <1>1, <1>3 DEF AnnceState
<1> QED
  BY <1>2, <1>3 DEF AnnceGoOn

LEMMA AnnceType == TypeOK /\ Annce => TypeOK'
<1> SUFFICES ASSUME TypeOK, Annce PROVE TypeOK'
  OBVIOUS
<1>1. ASSUME NEW d \in Devices, AnnceInsert(d) PROVE TypeOK'
  <2> DEFINE lt  == IF d.address = 0 THEN "COORDINATOR" ELSE "UNDEFINED"
             new == NewNode(nodeId + 1, d, lt, "UNDEFINED", FALSE)
  <2>1. d \in Device
    BY DeviceAssumption
  <2>2. new \in Node /\ At(d) \in Coord
    <3>1. nodeId + 1 \in Nat
      BY DEF TypeOK
    <3>2. lt \in LogicalType /\ "UNDEFINED" \in Manufacturer
      BY DEF LogicalType, Manufacturer
    <3> QED
      BY <2>1, <3>1, <3>2, NewNodeType, AtType
  <2>3. PostNode(new)
    BY <1>1 DEF AnnceInsert
  <2>4. /\ nodes' \subseteq Node /\ nodeId' \in Nat
        /\ InsertStatus(nodes, new) \in {"CREATED", "OK", "FAILED"}
    BY <2>2, <2>3, PostNodeType
  <2>5. annce' \in AnnceState
    BY <1>1, <2>2, <2>4 DEF AnnceInsert, AnnceState
  <2>6. packets' \in Nat /\ UNCHANGED restarts
    BY <1>1 DEF AnnceInsert, HandlePacket, TypeOK
  <2> QED
    BY <1>1, <2>4, <2>5, <2>6 DEF AnnceInsert, TypeOK, air, counts
<1>2. CASE AnnceDescrJob
  <2>1. annce.at \in Coord /\ annce' \in AnnceState
    BY <1>2, AnnceGoOnType DEF TypeOK, AnnceDescrJob, AnnceState, Idle
  <2>2. jobs' \in Jobs /\ kept' \subseteq JobType \X Coord
    BY <1>2, <2>1, PostJobType DEF AnnceDescrJob, JobType, JobState
  <2> QED
    BY <1>2, <2>1, <2>2 DEF AnnceDescrJob, TypeOK, air, counts
<1>3. CASE AnnceGraceJob
  <2>1. annce.at \in Coord /\ annce' \in AnnceState
    BY <1>3, AnnceGoOnType DEF TypeOK, AnnceGraceJob, AnnceState, Idle
  <2>2. jobs' \in Jobs /\ kept' \subseteq JobType \X Coord
    BY <1>3, <2>1, PostJobType DEF AnnceGraceJob, JobType, JobState
  <2> QED
    BY <1>3, <2>1, <2>2 DEF AnnceGraceJob, TypeOK, air, counts
<1>4. CASE AnnceEvent
  <2>1. annce.at \in Coord /\ annce' \in AnnceState
    BY <1>4 DEF TypeOK, AnnceEvent, AnnceState, Idle
  <2>2. added' \in Seq(Coord)
    BY <1>4, <2>1 DEF TypeOK, AnnceEvent
  <2> QED
    BY <1>4, <2>1, <2>2 DEF AnnceEvent, TypeOK, air, tables, counts
<1> QED
  BY <1>1, <1>2, <1>3, <1>4 DEF Annce

LEMMA DiscoveryType == TypeOK /\ Discovery => TypeOK'
<1> SUFFICES ASSUME TypeOK, Discovery PROVE TypeOK'
  OBVIOUS
<1>1. ASSUME NEW c \in Coord, NEW n \in nodes, NEW d \in Devices,
             DiscSender(c, n, d)
      PROVE  TypeOK'
  <2>1. disc' \in DiscState
    BY <1>1, AtType DEF TypeOK, DiscSender, DiscState
  <2>2. packets' \in Nat /\ UNCHANGED restarts
    BY <1>1 DEF DiscSender, HandlePacket, TypeOK
  <2> QED
    BY <1>1, <2>1, <2>2 DEF DiscSender, TypeOK, air, tables, counts
<1>2. CASE DiscInsert
  <2> DEFINE d   == disc.found
             new == NewNode(nodeId + 1, d, Profile[d].logicalType,
                            Profile[d].manufacturer, FALSE)
  <2>1. d \in Devices /\ disc' \in DiscState
    <3>1. disc \in [pc : {"insert", "job", "link"}, sender : LocalCoordinates,
                    found : Devices]
      BY <1>2 DEF TypeOK, DiscInsert, DiscState, Idle
    <3>2. \E pc \in {"job", "link"} : disc' = [disc EXCEPT !.pc = pc]
      BY <1>2 DEF DiscInsert
    <3> QED
      BY <3>1, <3>2 DEF DiscState
  <2>2. /\ d \in Device
        /\ Profile[d].logicalType \in LogicalType
        /\ Profile[d].manufacturer \in Manufacturer
    BY <2>1, DeviceAssumption
  <2>3. new \in Node
    <3>1. nodeId + 1 \in Nat
      BY DEF TypeOK
    <3> QED
      BY <2>2, <3>1, NewNodeType
  <2>4. PostNode(new)
    BY <1>2 DEF DiscInsert
  <2>5. nodes' \subseteq Node /\ nodeId' \in Nat
    BY <2>3, <2>4, PostNodeType
  <2> QED
    BY <1>2, <2>1, <2>5 DEF DiscInsert, TypeOK, air, counts
<1>3. CASE DiscJob
  <2>1. disc.found \in Devices /\ disc' \in DiscState
    BY <1>3 DEF TypeOK, DiscJob, DiscState, Idle
  <2>2. At(disc.found) \in Coord
    BY <2>1, DeviceAssumption, AtType
  <2>3. jobs' \in Jobs /\ kept' \subseteq JobType \X Coord
    BY <1>3, <2>2, PostJobType, NextJobTypeType DEF DiscJob, JobState
  <2> QED
    BY <1>3, <2>1, <2>3 DEF DiscJob, TypeOK, air, counts
<1>4. CASE DiscLink
  <2>1. /\ disc.found \in Devices /\ disc.sender \in LocalCoordinates
        /\ disc' \in DiscState
    BY <1>4 DEF TypeOK, DiscLink, DiscState, Idle
  <2>2. /\ disc.found.gatewayId \in GatewayId
        /\ Local(disc.found) \in LocalCoordinates
    BY <2>1, DeviceAssumption, AtType DEF Device
  <2>3. links' \subseteq Link
    BY <1>4, <2>1, <2>2, LinksType DEF TypeOK, DiscLink
  <2> QED
    BY <1>4, <2>1, <2>3 DEF DiscLink, TypeOK, air, counts
<1> QED
  BY <1>1, <1>2, <1>3, <1>4 DEF Discovery

LEMMA RequestType == TypeOK /\ Request => TypeOK'
<1> SUFFICES ASSUME TypeOK, Request PROVE TypeOK'
  OBVIOUS
<1>1. CASE RequestPoll
  <2>1. request' \in RequestState
    BY <1>1 DEF RequestPoll, RequestState, Due
  <2> QED
    BY <1>1, <2>1 DEF RequestPoll, TypeOK, air, tables, counts
<1>2. CASE RequestReceive
  <2>1. Head(added) \in Coord /\ added' \in Seq(Coord)
    BY <1>2 DEF RequestReceive, TypeOK
  <2>2. request' \in RequestState
    BY <1>2, <2>1 DEF RequestReceive, RequestState
  <2> QED
    BY <1>2, <2>1, <2>2 DEF RequestReceive, TypeOK, air, tables, counts
<1>3. ASSUME NEW c \in Coord, RequestGet(c) PROVE TypeOK'
  <2>1. request.due \subseteq Coord
    BY <1>3 DEF RequestGet, TypeOK, RequestState
  <2>2. request' \in RequestState
    <3>1. ASSUME NEW n \in nodes,
                 request' = [pc |-> "post", due |-> request.due \ {c},
                             at |-> c, to |-> At(n)]
          PROVE  request' \in RequestState
      <4>1. At(n) \in Coord
        BY AtType DEF TypeOK
      <4> QED
        BY <2>1, <3>1, <4>1 DEF RequestState
    <3>2. ASSUME request' = [request EXCEPT !.due = @ \ {c}]
          PROVE  request' \in RequestState
      <4>1. request \in [pc : {"serve"}, due : SUBSET Coord]
        BY <1>3 DEF RequestGet, TypeOK, RequestState
      <4> QED
        BY <3>2, <4>1 DEF RequestState
    <3> QED
      BY <1>3, <3>1, <3>2 DEF RequestGet
  <2> QED
    BY <1>3, <2>2 DEF RequestGet, TypeOK, air, tables, counts
<1>4. CASE RequestPost
  <2>1. /\ request.at \in Coord /\ request.to \in Coord
        /\ request' \in RequestState
    BY <1>4 DEF RequestPost, TypeOK, RequestState
  <2>2. jobs' \in Jobs /\ kept' \subseteq JobType \X Coord
    BY <1>4, <2>1, PostJobType DEF RequestPost, JobType, JobState
  <2> QED
    BY <1>4, <2>1, <2>2 DEF RequestPost, TypeOK, counts
<1>5. CASE RequestDone
  <2>1. request' \in RequestState
    BY <1>5 DEF RequestDone, RequestState
  <2> QED
    BY <1>5, <2>1 DEF RequestDone, TypeOK, air, tables, counts
<1> QED
  BY <1>1, <1>2, <1>3, <1>4, <1>5 DEF Request

LEMMA RegistrationType == TypeOK /\ Registration => TypeOK'
<1> SUFFICES ASSUME TypeOK, Registration PROVE TypeOK'
  OBVIOUS
<1>1. ASSUME NEW p \in answers, RegistrationGet(p) PROVE TypeOK'
  <2>1. /\ p.at \in Coord /\ p.logicalType \in LogicalType
        /\ p.manufacturer \in Manufacturer
    BY DEF TypeOK, Answer
  <2>2. registration' \in RegistrationState
    <3>1. ASSUME NEW n \in nodes
          PROVE  [n EXCEPT !.logicalType  = p.logicalType,
                           !.manufacturer = p.manufacturer] \in Node
      BY <2>1 DEF TypeOK, Node
    <3>2. CASE UNCHANGED registration
      BY <3>2 DEF TypeOK
    <3>3. ASSUME NEW n \in nodes,
                 registration' =
                   [pc |-> "update", at |-> p.at,
                    copy |-> [n EXCEPT !.logicalType  = p.logicalType,
                                       !.manufacturer = p.manufacturer]]
          PROVE  registration' \in RegistrationState
      BY <2>1, <3>1, <3>3 DEF RegistrationState
    <3> QED
      BY <1>1, <3>2, <3>3 DEF RegistrationGet
  <2> QED
    BY <1>1, <2>2 DEF RegistrationGet, TypeOK, tables, counts
<1>2. CASE RegistrationExists
  <2>1. registration' \in RegistrationState
    BY <1>2 DEF RegistrationExists, TypeOK, RegistrationState, Idle
  <2> QED
    BY <1>2, <2>1 DEF RegistrationExists, TypeOK, air, tables, counts
<1>3. CASE RegistrationMerge
  <2>1. registration.copy \in Node /\ registration' \in RegistrationState
    BY <1>3 DEF RegistrationMerge, TypeOK, RegistrationState, Idle
  <2>2. nodes' \subseteq Node
    BY <1>3, <2>1 DEF RegistrationMerge, TypeOK, UpdateManaged
  <2> QED
    BY <1>3, <2>1, <2>2 DEF RegistrationMerge, TypeOK, air, counts
<1>4. CASE RegistrationDelete
  <2>1. registration.at \in Coord /\ registration' \in RegistrationState
    BY <1>4 DEF RegistrationDelete, TypeOK, RegistrationState, Idle
  <2>2. jobs' \in Jobs
    BY <1>4, <2>1, JobsType DEF RegistrationDelete, TypeOK, JobType
  <2> QED
    BY <1>4, <2>1, <2>2
    DEF RegistrationDelete, TypeOK, StillKept, air, counts
<1>5. CASE RegistrationNext
  <2>1. registration.at \in Coord /\ registration' \in RegistrationState
    BY <1>5 DEF RegistrationNext, TypeOK, RegistrationState, Idle
  <2>2. jobs' \in Jobs /\ kept' \subseteq JobType \X Coord
    BY <1>5, <2>1, PostJobType, NextJobTypeType
    DEF RegistrationNext, JobState
  <2> QED
    BY <1>5, <2>1, <2>2 DEF RegistrationNext, TypeOK, air, counts
<1> QED
  BY <1>1, <1>2, <1>3, <1>4, <1>5 DEF Registration

LEMMA UpdateType == TypeOK /\ Update => TypeOK'
<1> SUFFICES ASSUME TypeOK, Update PROVE TypeOK'
  OBVIOUS
<1>1. CASE UpdateLinks
  <2>1. links' \subseteq Link
    BY <1>1, LinksType DEF UpdateLinks, TypeOK
  <2> QED
    BY <1>1, <2>1 DEF UpdateLinks, TypeOK, air, counts
<1>2. CASE UpdateNodes
  <2>1. nodes' \subseteq Node
    BY <1>2 DEF UpdateNodes, TypeOK, CleanupNodes
  <2> QED
    BY <1>2, <2>1 DEF UpdateNodes, TypeOK, air, counts
<1>3. CASE UpdateJobs
  <2>1. jobs' \in Jobs
    BY <1>3, JobsType DEF UpdateJobs, TypeOK
  <2> QED
    BY <1>3, <2>1 DEF UpdateJobs, TypeOK, StillKept, air, counts
<1> QED
  BY <1>1, <1>2, <1>3 DEF Update

LEMMA RadioType == TypeOK /\ Radio => TypeOK'
<1> SUFFICES ASSUME TypeOK, Radio PROVE TypeOK'
  OBVIOUS
<1>1. ASSUME NEW n \in nodes, DiscoveryRequest(n) PROVE TypeOK'
  <2>1. probed' \subseteq Coord
    BY <1>1, AtType DEF DiscoveryRequest, TypeOK
  <2> QED
    BY <1>1, <2>1 DEF DiscoveryRequest, TypeOK, tables, counts
<1>2. ASSUME NEW d \in Devices, Describe(d) PROVE TypeOK'
  <2>1. At(d) \in Coord
    BY DeviceAssumption, AtType
  <2>2. answers' \subseteq Answer /\ asked' \subseteq Coord
    BY <1>2, <2>1, DeviceAssumption DEF Describe, TypeOK, Answer
  <2>3. packets' \in Nat /\ UNCHANGED restarts
    BY <1>2 DEF Describe, HandlePacket, TypeOK
  <2> QED
    BY <1>2, <2>2, <2>3 DEF Describe, TypeOK, tables, counts
<1> QED
  BY <1>1, <1>2 DEF Radio

LEMMA AgeingType == TypeOK /\ Ageing => TypeOK'
<1> SUFFICES ASSUME TypeOK, Ageing PROVE TypeOK'
  OBVIOUS
<1>1. ASSUME NEW l \in links, AgeLink(l) PROVE TypeOK'
  <2>1. l \in Link
    BY DEF TypeOK
  <2>2. [l EXCEPT !.fresh = FALSE] \in Link
    BY <2>1 DEF Link
  <2>3. links' \subseteq Link
    BY <1>1, <2>2 DEF AgeLink, TypeOK
  <2> QED
    BY <1>1, <2>3 DEF AgeLink, TypeOK, air, counts
<1>2. ASSUME NEW t \in JobType, NEW c \in Coord, AgeJob(t, c) PROVE TypeOK'
  <2>1. jobs' \in Jobs
    BY <1>2, JobsType DEF AgeJob, TypeOK, JobState
  <2> QED
    BY <1>2, <2>1 DEF AgeJob, TypeOK, air, counts
<1> QED
  BY <1>1, <1>2 DEF Ageing

LEMMA UsersType == TypeOK /\ Users => TypeOK'
<1> SUFFICES ASSUME TypeOK, Users PROVE TypeOK'
  OBVIOUS
<1>1. ASSUME NEW d \in SiproDevices, SiproAddNode(d) PROVE TypeOK'
  <2> DEFINE new == NewNode(nodeId + 1, d, "UNDEFINED", "UNDEFINED", TRUE)
  <2>1. new \in Node
    <3>1. nodeId + 1 \in Nat /\ d \in Device
      BY DeviceAssumption DEF TypeOK
    <3>2. "UNDEFINED" \in LogicalType /\ "UNDEFINED" \in Manufacturer
      BY DEF LogicalType, Manufacturer
    <3> QED
      BY <3>1, <3>2, NewNodeType
  <2>2. PostNode(new)
    BY <1>1 DEF SiproAddNode
  <2>3. packets' \in Nat /\ UNCHANGED restarts
    BY <1>1 DEF SiproAddNode, HandlePacket, TypeOK
  <2>4. nodes' \subseteq Node /\ nodeId' \in Nat
    BY <2>1, <2>2, PostNodeType
  <2> QED
    BY <1>1, <2>3, <2>4 DEF SiproAddNode, TypeOK, air, counts
<1>2. ASSUME NEW n \in nodes, DeleteNode(n) PROVE TypeOK'
  BY <1>2 DEF DeleteNode, TypeOK, air, counts
<1> QED
  BY <1>1, <1>2 DEF Users

LEMMA RestartType == TypeOK /\ Restart => TypeOK'
<1> SUFFICES ASSUME TypeOK, Restart PROVE TypeOK'
  OBVIOUS
<1>1. /\ annce' \in AnnceState /\ disc' \in DiscState
      /\ request' \in RequestState /\ registration' \in RegistrationState
  BY DEF Restart, AnnceState, DiscState, RequestState, RegistrationState
<1>2. added' \in Seq(Coord)
  BY DEF Restart
<1>3. restarts' \in 0 .. MaxRestarts
  BY BoundsAssumption DEF Restart, TypeOK
<1>4. links' \subseteq Link
  BY DEF Restart, TypeOK, Link
<1> QED
  BY <1>1, <1>2, <1>3, <1>4 DEF Restart, TypeOK

LEMMA RequestOtherType == TypeOK /\ RequestOther => TypeOK'
<1> SUFFICES ASSUME TypeOK, RequestOther PROVE TypeOK'
  OBVIOUS
<1>1. request' \in RequestState
  BY DEF RequestOther, RequestState
<1> QED
  BY <1>1 DEF RequestOther, TypeOK, tables, air, counts

LEMMA NextType == TypeOK /\ [Next]_vars => TypeOK'
<1>1. TypeOK /\ UNCHANGED vars => TypeOK'
  BY DEF TypeOK, vars, tables, air, counts
<1> QED
  BY <1>1, AnnceType, DiscoveryType, RequestType, RegistrationType, UpdateType,
     RadioType, AgeingType, UsersType, RequestOtherType, RestartType
  DEF Next

\* No call, in any order, leaves a table, a process or a queue with a value
\* that the others do not expect.
THEOREM TypeCorrect == Spec => []TypeOK
<1>1. Init => TypeOK
  BY InitType
<1>2. TypeOK /\ [Next]_vars => TypeOK'
  BY NextType
<1> QED
  BY <1>1, <1>2, PTL DEF Spec
-----------------------------------------------------------------------------
(***************************************************************************)
(* The identity of the rows, whichever verb nodes/update serves.           *)
(***************************************************************************)

\* The row that an insertion refreshes stays the same row, and its logical
\* type does not become unknown.
LEMMA RefreshedKeeps ==
  ASSUME NEW p \in Node, NEW new
  PROVE  LET r == Refreshed(p, new)
         IN  /\ r.id = p.id /\ r.address = p.address /\ At(r) = At(p)
             /\ r.permanent = p.permanent
             /\ r.logicalType = "UNDEFINED" => p.logicalType = "UNDEFINED"
BY DEF Refreshed, Node, At

\* A node whose address is in use in another gateway gets no row: its
\* insertion is not answered CREATED, whoever it is, and what is at its own
\* coordinates stays as it was.
THEOREM ForeignRowAnswers ==
  ASSUME NEW ns \in SUBSET Node, NEW new \in Node, NEW p \in ns,
         p.address = new.address, p.gatewayId # new.gatewayId
  PROVE  /\ InsertStatus(ns, new) # "CREATED"
         /\ (\A n \in ns : At(n) # At(new))
              => \A n \in InsertOrUpdateNode(ns, new) : At(n) # At(new)
<1> DEFINE found == FindNode(ns, new.gatewayId, new.address)
<1>1. p \in found
  BY DEF FindNode
<1>2. InsertStatus(ns, new) # "CREATED"
  BY <1>1 DEF InsertStatus
<1>3. ASSUME \A n \in ns : At(n) # At(new)
      PROVE  \A n \in InsertOrUpdateNode(ns, new) : At(n) # At(new)
  <2>1. \A q \in found : q \in ns /\ At(Refreshed(q, new)) = At(q)
    BY RefreshedKeeps DEF FindNode
  <2>2. InsertOrUpdateNode(ns, new)
          \subseteq ns \cup {Refreshed(q, new) : q \in found}
    BY <1>1 DEF InsertOrUpdateNode
  <2> QED
    BY <1>3, <2>1, <2>2
<1> QED
  BY <1>2, <1>3

\* The three outcomes of an insertion.
LEMMA PostNodeCases ==
  ASSUME TypeOK, NEW new \in Node, PostNode(new)
  PROVE  \/ /\ nodes' = nodes \cup {new} /\ nodeId' = nodeId + 1
            /\ \A n \in nodes : n.address # new.address /\ n.id # new.id
         \/ /\ \E p \in nodes : nodes' = (nodes \ {p}) \cup {Refreshed(p, new)}
            /\ nodeId' = nodeId
         \/ nodes' = nodes /\ nodeId' = nodeId
<1> DEFINE found == FindNode(nodes, new.gatewayId, new.address)
<1>1. CASE found = {} /\ IdFree(nodes, new.id)
  <2>1. \A n \in nodes : n.address # new.address /\ n.id # new.id
    BY <1>1 DEF FindNode, IdFree
  <2> QED
    BY <1>1, <2>1 DEF PostNode, InsertOrUpdateNode, InsertStatus
<1>2. ASSUME NEW p \in nodes, found = {p}
      PROVE  /\ nodes' = (nodes \ {p}) \cup {Refreshed(p, new)}
             /\ nodeId' = nodeId
  <2>1. found # {}
    BY <1>2
  <2>2. InsertStatus(nodes, new) = "OK"
    BY <1>2, <2>1 DEF InsertStatus
  <2>3. InsertOrUpdateNode(nodes, new)
          = (nodes \ found) \cup {Refreshed(q, new) : q \in found}
    BY <1>2, <2>1 DEF InsertOrUpdateNode
  <2> QED
    BY <1>2, <2>2, <2>3 DEF PostNode
<1>3. CASE /\ ~(found = {} /\ IdFree(nodes, new.id))
           /\ ~\E p \in nodes : found = {p}
  BY <1>3 DEF PostNode, InsertOrUpdateNode, InsertStatus
<1> QED
  BY <1>1, <1>2, <1>3

\* What a step does to the rows: it inserts one with the next id, removes
\* some, leaves them to NodeDescrRegistrationProcess, or restarts.
LEMMA NodesSteps ==
  ASSUME TypeOK, Next
  PROVE  \/ /\ \E new \in Node : new.id = nodeId + 1 /\ PostNode(new)
            /\ UNCHANGED registration
         \/ nodes' \subseteq nodes /\ UNCHANGED <<nodeId, registration>>
         \/ Registration
         \/ Restart
<1> DEFINE Goal ==
      \/ /\ \E new \in Node : new.id = nodeId + 1 /\ PostNode(new)
         /\ UNCHANGED registration
      \/ nodes' \subseteq nodes /\ UNCHANGED <<nodeId, registration>>
      \/ Registration
      \/ Restart
<1>0. nodeId + 1 \in Nat
  BY DEF TypeOK
<1>1. CASE Annce
  <2>1. ASSUME NEW d \in Devices, AnnceInsert(d) PROVE Goal
    <3> DEFINE lt  == IF d.address = 0 THEN "COORDINATOR" ELSE "UNDEFINED"
               new == NewNode(nodeId + 1, d, lt, "UNDEFINED", FALSE)
    <3>1. d \in Device /\ lt \in LogicalType /\ "UNDEFINED" \in Manufacturer
      BY DeviceAssumption DEF LogicalType, Manufacturer
    <3>2. new \in Node /\ new.id = nodeId + 1
      BY <1>0, <3>1, NewNodeType DEF NewNode
    <3>3. PostNode(new) /\ UNCHANGED registration
      BY <2>1 DEF AnnceInsert
    <3> QED
      BY <3>2, <3>3
  <2>2. CASE AnnceDescrJob \/ AnnceGraceJob \/ AnnceEvent
    BY <2>2 DEF AnnceDescrJob, AnnceGraceJob, AnnceEvent, tables
  <2> QED
    BY <1>1, <2>1, <2>2 DEF Annce
<1>2. CASE Discovery
  <2>1. ASSUME NEW c \in Coord, NEW n \in nodes, NEW d \in Devices,
               DiscSender(c, n, d)
        PROVE  Goal
    BY <2>1 DEF DiscSender, tables
  <2>2. CASE DiscInsert
    <3> DEFINE d   == disc.found
               new == NewNode(nodeId + 1, d, Profile[d].logicalType,
                              Profile[d].manufacturer, FALSE)
    <3>1. d \in Devices
      BY <2>2 DEF TypeOK, DiscInsert, DiscState, Idle
    <3>2. /\ d \in Device
          /\ Profile[d].logicalType \in LogicalType
          /\ Profile[d].manufacturer \in Manufacturer
      BY <3>1, DeviceAssumption
    <3>3. new \in Node /\ new.id = nodeId + 1
      BY <1>0, <3>2, NewNodeType DEF NewNode
    <3>4. PostNode(new) /\ UNCHANGED registration
      BY <2>2 DEF DiscInsert
    <3> QED
      BY <3>3, <3>4
  <2>3. CASE DiscJob \/ DiscLink
    BY <2>3 DEF DiscJob, DiscLink
  <2> QED
    BY <1>2, <2>1, <2>2, <2>3 DEF Discovery
<1>3. CASE Request \/ RequestOther
  BY <1>3 DEF Request, RequestPoll, RequestReceive, RequestGet, RequestPost,
              RequestDone, RequestOther, tables
<1>4. CASE Update
  BY <1>4 DEF Update, UpdateLinks, UpdateNodes, UpdateJobs, CleanupNodes
<1>5. CASE Radio
  BY <1>5 DEF Radio, DiscoveryRequest, Describe, tables
<1>6. CASE Ageing
  BY <1>6 DEF Ageing, AgeLink, AgeJob
<1>7. CASE Users
  <2>1. ASSUME NEW d \in SiproDevices, SiproAddNode(d) PROVE Goal
    <3> DEFINE new == NewNode(nodeId + 1, d, "UNDEFINED", "UNDEFINED", TRUE)
    <3>1. /\ d \in Device /\ "UNDEFINED" \in LogicalType
          /\ "UNDEFINED" \in Manufacturer
      BY DeviceAssumption DEF LogicalType, Manufacturer
    <3>2. new \in Node /\ new.id = nodeId + 1
      BY <1>0, <3>1, NewNodeType DEF NewNode
    <3>3. PostNode(new) /\ UNCHANGED registration
      BY <2>1 DEF SiproAddNode
    <3> QED
      BY <3>2, <3>3
  <2>2. ASSUME NEW n \in nodes, DeleteNode(n) PROVE Goal
    BY <2>2 DEF DeleteNode
  <2> QED
    BY <1>7, <2>1, <2>2 DEF Users
<1> QED
  BY <1>1, <1>2, <1>3, <1>4, <1>5, <1>6, <1>7 DEF Next

\* No two rows have one id, and the copy that NodeDescrRegistrationProcess
\* holds is described.
OneRowPerId == \A m, n \in nodes : m.id = n.id => m = n
CopyDescribed ==
  registration.pc # "idle" => registration.copy.logicalType # "UNDEFINED"

IdInv == TypeOK /\ OneRowPerId /\ CopyDescribed

LEMMA InitId == Init => IdInv
<1> SUFFICES ASSUME Init PROVE IdInv
  OBVIOUS
<1>1. OneRowPerId
  BY RegisteredAssumption DEF Init, OneRowPerId
<1>2. CopyDescribed
  BY DEF Init, CopyDescribed, Idle
<1> QED
  BY <1>1, <1>2, InitType DEF IdInv

\* An insertion.
LEMMA InsertKeepsRows ==
  ASSUME IdInv, NEW new \in Node, PostNode(new)
  PROVE  OneRowPerId'
<1>1. nodes \subseteq Node
  BY DEF IdInv, TypeOK
<1>2. CASE nodes' = nodes \cup {new} /\ \A n \in nodes : n.id # new.id
  BY <1>2 DEF IdInv, OneRowPerId
<1>3. ASSUME NEW p \in nodes,
             nodes' = (nodes \ {p}) \cup {Refreshed(p, new)}
      PROVE  OneRowPerId'
  <2>1. Refreshed(p, new).id = p.id
    BY <1>1, RefreshedKeeps
  <2> QED
    BY <1>3, <2>1 DEF IdInv, OneRowPerId
<1>4. CASE nodes' = nodes
  BY <1>4 DEF IdInv, OneRowPerId
<1> QED
  BY <1>2, <1>3, <1>4, PostNodeCases DEF IdInv

\* What the steps of NodeDescrRegistrationProcess do to its copy: it is made
\* of a row and an answer, kept, or dropped.
LEMMA RegistrationCopy ==
  ASSUME TypeOK, Registration
  PROVE  \/ registration'.pc = "idle"
         \/ /\ registration'.copy.logicalType # "UNDEFINED"
            /\ \E n \in nodes : registration'.copy.id = n.id
         \/ registration.pc # "idle" /\ registration'.copy = registration.copy
<1> DEFINE Goal ==
      \/ registration'.pc = "idle"
      \/ /\ registration'.copy.logicalType # "UNDEFINED"
         /\ \E n \in nodes : registration'.copy.id = n.id
      \/ registration.pc # "idle" /\ registration'.copy = registration.copy
<1>1. ASSUME NEW p \in answers, RegistrationGet(p) PROVE Goal
  <2>1. CASE UNCHANGED registration
    BY <1>1, <2>1 DEF RegistrationGet, Idle
  <2>2. ASSUME NEW n \in nodes,
               registration' =
                 [pc |-> "update", at |-> p.at,
                  copy |-> [n EXCEPT !.logicalType  = p.logicalType,
                                     !.manufacturer = p.manufacturer]]
        PROVE  Goal
    <3>1. n \in Node /\ p.logicalType # "UNDEFINED"
      BY DEF TypeOK, Answer
    <3>2. /\ registration'.copy.id = n.id
          /\ registration'.copy.logicalType = p.logicalType
      BY <2>2, <3>1 DEF Node
    <3> QED
      BY <3>1, <3>2
  <2> QED
    BY <1>1, <2>1, <2>2 DEF RegistrationGet
<1>2. CASE RegistrationNext
  BY <1>2 DEF RegistrationNext, Idle
<1>3. CASE RegistrationExists \/ RegistrationMerge \/ RegistrationDelete
  <2>1. registration.pc # "idle"
    BY <1>3 DEF RegistrationExists, RegistrationMerge, RegistrationDelete
  <2>2. registration \in [pc : {"update", "merge", "delete", "next"},
                          at : Coord, copy : Node]
    BY <2>1 DEF TypeOK, RegistrationState, Idle
  <2>3. \/ registration' = Idle
        \/ \E pc \in {"merge", "delete", "next"} :
             registration' = [registration EXCEPT !.pc = pc]
    BY <1>3 DEF RegistrationExists, RegistrationMerge, RegistrationDelete
  <2> QED
    BY <2>1, <2>2, <2>3 DEF Idle
<1> QED
  BY <1>1, <1>2, <1>3 DEF Registration

\* What they do to the rows: RegistrationMerge alone writes them.
LEMMA RegistrationRows ==
  ASSUME TypeOK, Registration
  PROVE  /\ UNCHANGED nodeId
         /\ \/ UNCHANGED nodes
            \/ /\ registration.pc # "idle"
               /\ nodes' = UpdateManaged(nodes, registration.copy)
BY DEF Registration, RegistrationGet, RegistrationExists, RegistrationMerge,
       RegistrationDelete, RegistrationNext, tables

LEMMA NextId == IdInv /\ [Next]_vars => IdInv'
<1> SUFFICES ASSUME IdInv, [Next]_vars PROVE IdInv'
  OBVIOUS
<1>1. TypeOK'
  BY NextType DEF IdInv
<1>2. CASE UNCHANGED vars
  BY <1>1, <1>2 DEF vars, tables, IdInv, OneRowPerId, CopyDescribed
<1>3. CASE Next
  <2>1. ASSUME NEW new \in Node, PostNode(new), UNCHANGED registration
        PROVE  IdInv'
    BY <1>1, <2>1, InsertKeepsRows DEF IdInv, CopyDescribed
  <2>2. CASE nodes' \subseteq nodes /\ UNCHANGED <<nodeId, registration>>
    BY <1>1, <2>2 DEF IdInv, OneRowPerId, CopyDescribed
  <2>3. CASE Registration
    <3>1. OneRowPerId'
      BY <2>3, RegistrationRows DEF IdInv, OneRowPerId, UpdateManaged
    <3>2. CopyDescribed'
      BY <2>3, RegistrationCopy DEF IdInv, CopyDescribed
    <3> QED
      BY <1>1, <3>1, <3>2 DEF IdInv
  <2>4. CASE Restart
    BY <1>1, <2>4 DEF Restart, IdInv, OneRowPerId, CopyDescribed, Idle
  <2> QED
    BY <1>3, <2>1, <2>2, <2>3, <2>4, NodesSteps DEF IdInv
<1> QED
  BY <1>2, <1>3

\* The invariant of the rows' identity, across restarts.
LEMMA IdInvariant == Spec => []IdInv
<1>1. Init => IdInv
  BY InitId
<1>2. IdInv /\ [Next]_vars => IdInv'
  BY NextId
<1> QED
  BY <1>1, <1>2, PTL DEF Spec

\* The ids in use, in the table or in a copy, have been given since the last
\* restart: a restart is what breaks it.
Given ==
  /\ \A n \in nodes : n.id <= nodeId
  /\ registration.pc # "idle" => registration.copy.id <= nodeId

LEMMA InsertGiven ==
  ASSUME TypeOK, Given, NEW new \in Node, new.id = nodeId + 1, PostNode(new),
         UNCHANGED registration
  PROVE  Given'
<1>1. nodes \subseteq Node /\ nodeId \in Nat
  BY DEF TypeOK
<1>2. registration.pc # "idle" => registration.copy.id \in Nat
  BY DEF TypeOK, RegistrationState, Idle, Node
<1>3. CASE nodes' = nodes \cup {new} /\ nodeId' = nodeId + 1
  <2>1. \A n \in nodes : n.id <= nodeId /\ n.id \in Nat
    BY <1>1 DEF Given, Node
  <2> QED
    BY <1>1, <1>2, <1>3, <2>1 DEF Given
<1>4. ASSUME NEW p \in nodes, nodeId' = nodeId,
             nodes' = (nodes \ {p}) \cup {Refreshed(p, new)}
      PROVE  Given'
  <2>1. Refreshed(p, new).id = p.id
    BY <1>1, RefreshedKeeps
  <2> QED
    BY <1>4, <2>1 DEF Given
<1>5. CASE nodes' = nodes /\ nodeId' = nodeId
  BY <1>5 DEF Given
<1> QED
  BY <1>3, <1>4, <1>5, PostNodeCases

\* Without a restart, no insertion of NodeResource gives an id in use, and no
\* copy written back late makes a second row with an id: whatever the verb of
\* nodes/update.
THEOREM UniqueIdCorrect ==
  ASSUME MaxRestarts = 0
  PROVE  Spec => []UniqueId
<1>1. Init => Given
  BY RegisteredAssumption DEF Init, Given, Idle
<1>2. IdInv /\ Given /\ [Next]_vars => Given'
  <2> SUFFICES ASSUME IdInv, Given, [Next]_vars PROVE Given'
    OBVIOUS
  <2>1. TypeOK
    BY DEF IdInv
  <2>2. CASE UNCHANGED vars
    BY <2>2 DEF vars, tables, Given
  <2>3. CASE nodes' \subseteq nodes /\ UNCHANGED <<nodeId, registration>>
    BY <2>3 DEF Given
  <2>4. CASE Registration
    <3>1. \A n \in nodes' : n.id <= nodeId'
      BY <2>1, <2>4, RegistrationRows DEF Given, UpdateManaged
    <3>2. registration'.pc # "idle" => registration'.copy.id <= nodeId'
      BY <2>1, <2>4, RegistrationRows, RegistrationCopy DEF Given
    <3> QED
      BY <3>1, <3>2 DEF Given
  <2>5. ~Restart
    BY <2>1, MaxRestarts = 0 DEF Restart, TypeOK
  <2> QED
    BY <2>1, <2>2, <2>3, <2>4, <2>5, NodesSteps, InsertGiven
<1>3. IdInv /\ Given => UniqueId
  BY DEF IdInv, OneRowPerId, Given, UniqueId
<1> QED
  BY <1>1, <1>2, <1>3, IdInvariant, PTL DEF Spec

\* The types of a row are never lost to an announcement or to a late copy.
THEOREM DescriptionNeverLost == Spec => DescriptionKept
<1> DEFINE Kept == \A n \in nodes, r \in nodes' :
                     n.id = r.id /\ n.logicalType # "UNDEFINED"
                       => r.logicalType # "UNDEFINED"
<1>1. IdInv /\ [Next]_vars => [Kept]_nodes
  <2> SUFFICES ASSUME IdInv, Next PROVE Kept
    BY DEF vars, tables
  <2>1. nodes \subseteq Node
    BY DEF IdInv, TypeOK
  <2>2. \A n, r \in nodes : n.id = r.id => n = r
    BY DEF IdInv, OneRowPerId
  <2>3. ASSUME NEW new \in Node, PostNode(new)
        PROVE  Kept
    <3>1. CASE /\ nodes' = nodes \cup {new}
               /\ \A n \in nodes : n.id # new.id
      BY <2>2, <3>1
    <3>2. ASSUME NEW p \in nodes,
                 nodes' = (nodes \ {p}) \cup {Refreshed(p, new)}
          PROVE  Kept
      <4>1. /\ Refreshed(p, new).id = p.id
            /\ Refreshed(p, new).logicalType = "UNDEFINED"
                 => p.logicalType = "UNDEFINED"
        BY <2>1, RefreshedKeeps
      <4> QED
        BY <2>2, <3>2, <4>1
    <3>3. CASE nodes' = nodes
      BY <2>2, <3>3
    <3> QED
      BY <2>3, <3>1, <3>2, <3>3, PostNodeCases DEF IdInv
  <2>4. CASE nodes' \subseteq nodes
    BY <2>2, <2>4
  <2>5. CASE Registration
    <3>1. CASE UNCHANGED nodes
      BY <2>2, <3>1
    <3>2. CASE /\ registration.pc # "idle"
               /\ nodes' = UpdateManaged(nodes, registration.copy)
      BY <2>2, <3>2 DEF UpdateManaged, IdInv, CopyDescribed
    <3> QED
      BY <2>5, <3>1, <3>2, RegistrationRows DEF IdInv
  <2>6. CASE Restart
    BY <2>2, <2>6 DEF Restart
  <2> QED
    BY <2>3, <2>4, <2>5, <2>6, NodesSteps DEF IdInv
<1> QED
  BY <1>1, IdInvariant, PTL DEF Spec, DescriptionKept
-----------------------------------------------------------------------------
(***************************************************************************)
(* The registry as it is built: nodes/update serves PUT, its client sends  *)
(* POST, and the copy is never written back.                               *)
(***************************************************************************)

\* NodeDescrRegistrationProcess stops at the call that is refused.
NeverMerged == registration.pc \in {"idle", "update"}

BuiltInv == TypeOK /\ NeverMerged /\ UniqueCoordinates

LEMMA InitBuilt == Init => BuiltInv
<1> SUFFICES ASSUME Init PROVE BuiltInv
  OBVIOUS
<1>1. NeverMerged
  BY DEF Init, NeverMerged, Idle
<1>2. UniqueCoordinates
  BY RegisteredAssumption DEF Init, UniqueCoordinates
<1> QED
  BY <1>1, <1>2, InitType DEF BuiltInv

LEMMA NeverMergedStep ==
  ASSUME UpdateVerb = "PUT", BuiltInv, Next
  PROVE  /\ NeverMerged'
         /\ Registration => UNCHANGED tables
<1>1. CASE Registration
  <2>1. ASSUME NEW p \in answers, RegistrationGet(p)
        PROVE  NeverMerged' /\ UNCHANGED tables
    <3>1. UNCHANGED tables
      BY <2>1 DEF RegistrationGet
    <3>2. CASE UNCHANGED registration
      BY <3>1, <3>2 DEF BuiltInv, NeverMerged
    <3>3. ASSUME NEW n \in nodes,
                 registration' =
                   [pc |-> "update", at |-> p.at,
                    copy |-> [n EXCEPT !.logicalType  = p.logicalType,
                                       !.manufacturer = p.manufacturer]]
          PROVE  NeverMerged'
      BY <3>3 DEF NeverMerged
    <3> QED
      BY <2>1, <3>1, <3>2, <3>3 DEF RegistrationGet
  <2>2. CASE RegistrationExists
    BY <2>2, UpdateVerb = "PUT" DEF RegistrationExists, NeverMerged, Idle
  <2>3. ~(RegistrationMerge \/ RegistrationDelete \/ RegistrationNext)
    BY DEF BuiltInv, NeverMerged, RegistrationMerge, RegistrationDelete,
           RegistrationNext
  <2> QED
    BY <1>1, <2>1, <2>2, <2>3 DEF Registration
<1>2. CASE ~Registration
  <2>1. UNCHANGED registration \/ registration' = Idle
    BY <1>2, NodesSteps DEF BuiltInv, Restart
  <2> QED
    BY <1>2, <2>1 DEF BuiltInv, NeverMerged, Idle
<1> QED
  BY <1>1, <1>2

LEMMA UniqueCoordinatesStep ==
  ASSUME UpdateVerb = "PUT", BuiltInv, Next
  PROVE  UniqueCoordinates'
<1>1. nodes \subseteq Node
  BY DEF BuiltInv, TypeOK
<1>2. ASSUME NEW new \in Node, PostNode(new) PROVE UniqueCoordinates'
  <2>1. CASE nodes' = nodes \cup {new} /\ \A n \in nodes : n.address # new.address
    BY <2>1 DEF BuiltInv, UniqueCoordinates, At
  <2>2. ASSUME NEW p \in nodes,
               nodes' = (nodes \ {p}) \cup {Refreshed(p, new)}
        PROVE  UniqueCoordinates'
    <3>1. At(Refreshed(p, new)) = At(p)
      BY <1>1, RefreshedKeeps
    <3> QED
      BY <2>2, <3>1 DEF BuiltInv, UniqueCoordinates
  <2>3. CASE nodes' = nodes
    BY <2>3 DEF BuiltInv, UniqueCoordinates
  <2> QED
    BY <1>2, <2>1, <2>2, <2>3, PostNodeCases DEF BuiltInv
<1>3. CASE nodes' \subseteq nodes
  BY <1>3 DEF BuiltInv, UniqueCoordinates
<1>4. CASE Registration
  BY <1>4, NeverMergedStep DEF tables, BuiltInv, UniqueCoordinates
<1>5. CASE Restart
  BY <1>5 DEF Restart, BuiltInv, UniqueCoordinates
<1> QED
  BY <1>2, <1>3, <1>4, <1>5, NodesSteps DEF BuiltInv

\* An insertion: the new row waits for its job only if it is announced.
LEMMA InsertForgetsNone ==
  ASSUME BuiltInv, NoForgottenNode, NEW new \in Node, PostNode(new),
         UNCHANGED jobs,
         \/ new.logicalType # "UNDEFINED" \/ new.permanent
         \/ annce'.pc = "descr" /\ annce'.at = At(new),
         annce = Idle \/ UNCHANGED annce
  PROVE  NoForgottenNode'
<1>1. nodes \subseteq Node
  BY DEF BuiltInv, TypeOK
<1>2. \A n \in nodes : n.logicalType = "UNDEFINED" /\ ~n.permanent =>
         \/ jobs'["NODE_DESCR_REQUEST"][At(n)] # "none"
         \/ annce'.pc = "descr" /\ annce'.at = At(n)
  BY DEF BuiltInv, NoForgottenNode, Idle
<1>3. CASE nodes' = nodes \cup {new}
  BY <1>2, <1>3 DEF NoForgottenNode
<1>4. ASSUME NEW p \in nodes,
             nodes' = (nodes \ {p}) \cup {Refreshed(p, new)}
      PROVE  NoForgottenNode'
  <2>1. LET r == Refreshed(p, new)
        IN  /\ At(r) = At(p) /\ r.permanent = p.permanent
            /\ r.logicalType = "UNDEFINED" => p.logicalType = "UNDEFINED"
    BY <1>1, RefreshedKeeps
  <2> QED
    BY <1>2, <1>4, <2>1 DEF NoForgottenNode
<1>5. CASE nodes' = nodes
  BY <1>2, <1>5 DEF NoForgottenNode
<1> QED
  BY <1>3, <1>4, <1>5, PostNodeCases DEF BuiltInv

\* A step that keeps the rows, the descriptor jobs of those rows, and the
\* job that NodeAnnceRegistrationProcess is about to post.
LEMMA QuietForgetsNone ==
  ASSUME BuiltInv, NoForgottenNode, nodes' \subseteq nodes,
         \A n \in nodes' : jobs["NODE_DESCR_REQUEST"][At(n)] # "none"
                        => jobs'["NODE_DESCR_REQUEST"][At(n)] # "none",
         annce.pc = "descr" =>
           \/ annce'.pc = "descr" /\ annce'.at = annce.at
           \/ jobs'["NODE_DESCR_REQUEST"][annce.at] # "none"
  PROVE  NoForgottenNode'
BY DEF BuiltInv, NoForgottenNode

\* What the operations on the jobs do to the descriptor jobs.
LEMMA DescrJobs ==
  ASSUME NEW js \in Jobs, NEW t \in JobType, NEW c \in Coord,
         NEW state \in JobState \ {"none"}
  PROVE  /\ \A k \in Coord : js["NODE_DESCR_REQUEST"][k] # "none"
              => AddJob(js, t, c, state)["NODE_DESCR_REQUEST"][k] # "none"
         /\ t = "NODE_DESCR_REQUEST"
              => AddJob(js, t, c, state)["NODE_DESCR_REQUEST"][c] # "none"
         /\ \A ns : \A n \in ns : At(n) \in Coord
              => CleanupJobs(js, ns)["NODE_DESCR_REQUEST"][At(n)]
                   = js["NODE_DESCR_REQUEST"][At(n)]
BY DEF AddJob, CleanupJobs, Jobs, JobType

\* Without a restart, a job that is posted is in the table.
LEMMA PostJobPosts ==
  ASSUME kept = {}, NEW t, NEW c, NEW state, PostJob(t, c, state)
  PROVE  jobs' = AddJob(jobs, t, c, state)
BY DEF PostJob

\* Nothing is kept from a run before, because there is none.
LEMMA NothingKept ==
  ASSUME MaxRestarts = 0
  PROVE  Spec => [](kept = {})
<1>1. Init => kept = {}
  BY DEF Init
<1>2. TypeOK /\ kept = {} /\ [Next]_vars => (kept = {})'
  <2> SUFFICES ASSUME TypeOK, kept = {}, [Next]_vars PROVE (kept = {})'
    OBVIOUS
  <2>1. ~Restart
    BY MaxRestarts = 0 DEF Restart, TypeOK
  <2>2. CASE UNCHANGED vars
    BY <2>2 DEF vars, tables
  <2>3. CASE Annce \/ Discovery
    BY <2>3 DEF Annce, AnnceInsert, AnnceDescrJob, AnnceGraceJob, AnnceEvent,
       Discovery, DiscSender, DiscInsert, DiscJob, DiscLink, PostJob, tables
  <2>4. CASE Request \/ RequestOther
    BY <2>4 DEF Request, RequestPoll, RequestReceive, RequestGet, RequestPost,
       RequestDone, RequestOther, PostJob, tables
  <2>5. CASE Registration \/ Update
    BY <2>5 DEF Registration, RegistrationGet, RegistrationExists,
       RegistrationMerge, RegistrationDelete, RegistrationNext, Update,
       UpdateLinks, UpdateNodes, UpdateJobs, PostJob, StillKept, tables
  <2>6. CASE Radio \/ Ageing \/ Users
    BY <2>6 DEF Radio, DiscoveryRequest, Describe, Ageing, AgeLink, AgeJob,
       Users, SiproAddNode, DeleteNode, tables
  <2> QED
    BY <2>1, <2>2, <2>3, <2>4, <2>5, <2>6 DEF Next
<1> QED
  BY <1>1, <1>2, TypeCorrect, PTL DEF Spec

\* The step of each process but NodeDescrRegistrationProcess, which keeps
\* the tables.
LEMMA NoForgottenNodeStep ==
  ASSUME UpdateVerb = "PUT", MaxRestarts = 0, BuiltInv, kept = {},
         NoForgottenNode, Next
  PROVE  NoForgottenNode'
<1>0. /\ nodes \subseteq Node /\ nodeId + 1 \in Nat /\ jobs \in Jobs
      /\ "NODE_DESCR_REQUEST" \in JobType /\ "NODE_ANNCE_GRACE" \in JobType
      /\ \A n \in nodes : At(n) \in Coord
  BY AtType DEF BuiltInv, TypeOK, JobType
<1>1. CASE Annce
  <2>1. ASSUME NEW d \in Devices, AnnceInsert(d) PROVE NoForgottenNode'
    <3> DEFINE lt  == IF d.address = 0 THEN "COORDINATOR" ELSE "UNDEFINED"
               new == NewNode(nodeId + 1, d, lt, "UNDEFINED", FALSE)
    <3>1. d \in Device /\ lt \in LogicalType /\ "UNDEFINED" \in Manufacturer
      BY DeviceAssumption DEF LogicalType, Manufacturer
    <3>2. new \in Node /\ At(new) = At(d)
      BY <1>0, <3>1, NewNodeType DEF NewNode, At
    <3>3. PostNode(new) /\ UNCHANGED jobs /\ annce = Idle
      BY <2>1 DEF AnnceInsert
    <3>4. annce'.pc = "descr" /\ annce'.at = At(d)
      BY <2>1 DEF AnnceInsert
    <3> QED
      BY <3>2, <3>3, <3>4, InsertForgetsNone
  <2>2. CASE AnnceDescrJob
    <3>1. annce.at \in Coord /\ UNCHANGED nodes
      BY <2>2 DEF AnnceDescrJob, BuiltInv, TypeOK, AnnceState, Idle
    <3>2. jobs' = AddJob(jobs, "NODE_DESCR_REQUEST", annce.at, "first")
      BY <2>2, PostJobPosts DEF AnnceDescrJob
    <3>3. "first" \in JobState \ {"none"}
      BY DEF JobState
    <3> QED
      BY <1>0, <3>1, <3>2, <3>3, DescrJobs, QuietForgetsNone
  <2>3. CASE AnnceGraceJob
    <3>1. /\ annce.at \in Coord /\ UNCHANGED nodes /\ annce.pc # "descr"
          /\ jobs' = AddJob(jobs, "NODE_ANNCE_GRACE", annce.at, "first")
      BY <2>3, PostJobPosts
      DEF AnnceGraceJob, BuiltInv, TypeOK, AnnceState, Idle
    <3>2. "first" \in JobState \ {"none"}
      BY DEF JobState
    <3> QED
      BY <1>0, <3>1, <3>2, DescrJobs, QuietForgetsNone
  <2>4. CASE AnnceEvent
    <3>1. UNCHANGED <<nodes, jobs>> /\ annce.pc # "descr"
      BY <2>4 DEF AnnceEvent, tables
    <3> QED
      BY <3>1, QuietForgetsNone
  <2> QED
    BY <1>1, <2>1, <2>2, <2>3, <2>4 DEF Annce
<1>2. CASE Discovery
  <2>1. ASSUME NEW c \in Coord, NEW n \in nodes, NEW d \in Devices,
               DiscSender(c, n, d)
        PROVE  NoForgottenNode'
    <3>1. UNCHANGED <<nodes, jobs, annce>>
      BY <2>1 DEF DiscSender, tables
    <3> QED
      BY <3>1, QuietForgetsNone
  <2>2. CASE DiscInsert
    <3> DEFINE d   == disc.found
               new == NewNode(nodeId + 1, d, Profile[d].logicalType,
                              Profile[d].manufacturer, FALSE)
    <3>1. d \in Devices
      BY <2>2 DEF BuiltInv, TypeOK, DiscInsert, DiscState, Idle
    <3>2. /\ d \in Device
          /\ Profile[d].logicalType \in LogicalType \ {"UNDEFINED"}
          /\ Profile[d].manufacturer \in Manufacturer
      BY <3>1, DeviceAssumption
    <3>3. new \in Node /\ new.logicalType # "UNDEFINED"
      BY <1>0, <3>2, NewNodeType DEF NewNode
    <3>4. PostNode(new) /\ UNCHANGED <<jobs, annce>>
      BY <2>2 DEF DiscInsert
    <3> QED
      BY <3>3, <3>4, InsertForgetsNone
  <2>3. CASE DiscJob
    <3>1. At(disc.found) \in Coord
      <4>1. disc.found \in Devices
        BY <2>3 DEF BuiltInv, TypeOK, DiscJob, DiscState, Idle
      <4> QED
        BY <4>1, DeviceAssumption, AtType
    <3>2. /\ UNCHANGED <<nodes, annce>>
          /\ jobs' = AddJob(jobs,
                            NextJobType(Profile[disc.found].logicalType),
                            At(disc.found), "first")
      BY <2>3, PostJobPosts DEF DiscJob
    <3>3. "first" \in JobState \ {"none"}
      BY DEF JobState
    <3> QED
      BY <1>0, <3>1, <3>2, <3>3, DescrJobs, NextJobTypeType, QuietForgetsNone
  <2>4. CASE DiscLink
    <3>1. UNCHANGED <<nodes, jobs, annce>>
      BY <2>4 DEF DiscLink
    <3> QED
      BY <3>1, QuietForgetsNone
  <2> QED
    BY <1>2, <2>1, <2>2, <2>3, <2>4 DEF Discovery
<1>3. CASE Request \/ RequestOther
  <2>1. CASE RequestPost
    <3>1. request.at \in Coord
      BY <2>1 DEF RequestPost, BuiltInv, TypeOK, RequestState
    <3>2. /\ UNCHANGED <<nodes, annce>>
          /\ \E state \in JobState \ {"none"} :
               jobs' = AddJob(jobs, "NODE_DESCR_REQUEST", request.at, state)
      BY <2>1, PostJobPosts DEF RequestPost, JobState
    <3> QED
      BY <1>0, <3>1, <3>2, DescrJobs, QuietForgetsNone
  <2>2. CASE ~RequestPost
    <3>1. UNCHANGED <<nodes, jobs, annce>>
      BY <1>3, <2>2 DEF Request, RequestPoll, RequestReceive, RequestGet,
         RequestDone, RequestOther, tables
    <3> QED
      BY <3>1, QuietForgetsNone
  <2> QED
    BY <2>1, <2>2
<1>4. CASE Registration
  <2>1. UNCHANGED <<nodes, jobs>>
    BY <1>4, NeverMergedStep DEF tables
  <2>2. UNCHANGED annce
    BY <1>4 DEF Registration, RegistrationGet, RegistrationExists,
       RegistrationMerge, RegistrationDelete, RegistrationNext
  <2> QED
    BY <2>1, <2>2, QuietForgetsNone
<1>5. CASE Update
  <2>1. CASE UpdateLinks
    <3>1. UNCHANGED <<nodes, jobs, annce>>
      BY <2>1 DEF UpdateLinks
    <3> QED
      BY <3>1, QuietForgetsNone
  <2>2. CASE UpdateNodes
    <3>1. nodes' \subseteq nodes /\ UNCHANGED <<jobs, annce>>
      BY <2>2 DEF UpdateNodes, CleanupNodes
    <3> QED
      BY <3>1, QuietForgetsNone
  <2>3. CASE UpdateJobs
    <3>1. UNCHANGED <<nodes, annce>> /\ jobs' = CleanupJobs(jobs, nodes)
      BY <2>3 DEF UpdateJobs
    <3>2. "first" \in JobState \ {"none"}
      BY DEF JobState
    <3>3. \A n \in nodes : jobs'["NODE_DESCR_REQUEST"][At(n)]
                             = jobs["NODE_DESCR_REQUEST"][At(n)]
      BY <1>0, <3>1, <3>2, DescrJobs
    <3> QED
      BY <3>1, <3>3, QuietForgetsNone
  <2> QED
    BY <1>5, <2>1, <2>2, <2>3 DEF Update
<1>6. CASE Radio
  <2>1. UNCHANGED <<nodes, jobs, annce>>
    BY <1>6 DEF Radio, DiscoveryRequest, Describe, tables
  <2> QED
    BY <2>1, QuietForgetsNone
<1>7. CASE Ageing
  <2>1. ASSUME NEW l \in links, AgeLink(l) PROVE NoForgottenNode'
    <3>1. UNCHANGED <<nodes, jobs, annce>>
      BY <2>1 DEF AgeLink
    <3> QED
      BY <3>1, QuietForgetsNone
  <2>2. ASSUME NEW t \in JobType, NEW c \in Coord, AgeJob(t, c)
        PROVE  NoForgottenNode'
    <3>1. UNCHANGED <<nodes, annce>> /\ jobs' = AddJob(jobs, t, c, "overdue")
      BY <2>2 DEF AgeJob
    <3>2. "overdue" \in JobState \ {"none"}
      BY DEF JobState
    <3> QED
      BY <1>0, <3>1, <3>2, DescrJobs, QuietForgetsNone
  <2> QED
    BY <1>7, <2>1, <2>2 DEF Ageing
<1>8. CASE Users
  <2>1. ASSUME NEW d \in SiproDevices, SiproAddNode(d) PROVE NoForgottenNode'
    <3> DEFINE new == NewNode(nodeId + 1, d, "UNDEFINED", "UNDEFINED", TRUE)
    <3>1. /\ d \in Device /\ "UNDEFINED" \in LogicalType
          /\ "UNDEFINED" \in Manufacturer
      BY DeviceAssumption DEF LogicalType, Manufacturer
    <3>2. new \in Node
      BY <1>0, <3>1, NewNodeType
    <3>3. new.permanent
      BY DEF NewNode
    <3>4. PostNode(new) /\ UNCHANGED <<jobs, annce>>
      BY <2>1 DEF SiproAddNode
    <3> QED
      BY <3>2, <3>3, <3>4, InsertForgetsNone
  <2>2. ASSUME NEW n \in nodes, DeleteNode(n) PROVE NoForgottenNode'
    <3>1. nodes' \subseteq nodes /\ UNCHANGED <<jobs, annce>>
      BY <2>2 DEF DeleteNode
    <3> QED
      BY <3>1, QuietForgetsNone
  <2> QED
    BY <1>8, <2>1, <2>2 DEF Users
<1>9. ~Restart
  BY MaxRestarts = 0 DEF Restart, BuiltInv, TypeOK
<1> QED
  BY <1>1, <1>2, <1>3, <1>4, <1>5, <1>6, <1>7, <1>8, <1>9 DEF Next

\* The invariant of the registry as it is built.
LEMMA BuiltInvariant ==
  ASSUME UpdateVerb = "PUT"
  PROVE  Spec => []BuiltInv
<1>1. Init => BuiltInv
  BY InitBuilt
<1>2. BuiltInv /\ [Next]_vars => BuiltInv'
  <2> SUFFICES ASSUME BuiltInv, [Next]_vars PROVE BuiltInv'
    OBVIOUS
  <2>1. CASE Next
    <3>1. TypeOK'
      BY <2>1, NextType DEF BuiltInv
    <3> QED
      BY <2>1, <3>1, UpdateVerb = "PUT", NeverMergedStep, UniqueCoordinatesStep
      DEF BuiltInv
  <2>2. CASE UNCHANGED vars
    <3>1. TypeOK'
      BY <2>2, NextType DEF BuiltInv
    <3>2. UNCHANGED <<nodes, registration>>
      BY <2>2 DEF vars, tables
    <3> QED
      BY <3>1, <3>2 DEF BuiltInv, NeverMerged, UniqueCoordinates
  <2> QED
    BY <2>1, <2>2
<1> QED
  BY <1>1, <1>2, PTL DEF Spec

\* Where nodes/update serves PUT, the POST of NodeDescrRegistrationProcess is
\* refused every time: no copy of a node is ever about to be merged.
THEOREM UpdateRefused ==
  ASSUME UpdateVerb = "PUT"
  PROVE  Spec => []NeverMerged
<1>1. BuiltInv => NeverMerged
  BY DEF BuiltInv
<1> QED
  BY <1>1, BuiltInvariant, UpdateVerb = "PUT", PTL

\* One row at most has a gateway and an address, whatever announcements,
\* discoveries, SIPRO gateways, cleanups and restarts come between.
THEOREM UniqueCoordinatesCorrect ==
  ASSUME UpdateVerb = "PUT"
  PROVE  Spec => []UniqueCoordinates
<1>1. BuiltInv => UniqueCoordinates
  BY DEF BuiltInv
<1> QED
  BY <1>1, BuiltInvariant, UpdateVerb = "PUT", PTL

\* Without a restart, every announced node of unknown type is asked for it,
\* whatever the cleanups, the late answers and the repeated announcements in
\* between.  (A restart between the insertion and the job forgets the node.)
THEOREM NoForgottenNodeCorrect ==
  ASSUME UpdateVerb = "PUT", MaxRestarts = 0
  PROVE  Spec => []NoForgottenNode
<1>1. Init => NoForgottenNode
  BY RegisteredAssumption DEF Init, NoForgottenNode
<1>2. BuiltInv /\ kept = {} /\ NoForgottenNode /\ [Next]_vars
        => NoForgottenNode'
  <2>1. CASE Next
    BY <2>1, UpdateVerb = "PUT", MaxRestarts = 0, NoForgottenNodeStep
  <2>2. CASE UNCHANGED vars
    <3>1. UNCHANGED <<nodes, jobs, annce>>
      BY <2>2 DEF vars, tables
    <3> QED
      BY <3>1 DEF NoForgottenNode
  <2> QED
    BY <2>1, <2>2
<1> QED
  BY <1>1, <1>2, BuiltInvariant, NothingKept, UpdateVerb = "PUT",
     MaxRestarts = 0, PTL DEF Spec

\* A removed row stays removed.
THEOREM NoResurrectionCorrect ==
  ASSUME UpdateVerb = "PUT"
  PROVE  Spec => NoResurrection
<1> DEFINE New == \A r \in nodes' :
                    r.id > nodeId \/ \E n \in nodes : n.id = r.id
<1>1. BuiltInv /\ [Next]_vars => [New]_nodes
  <2> SUFFICES ASSUME BuiltInv, Next PROVE New
    BY DEF vars, tables
  <2>1. nodes \subseteq Node /\ nodeId \in Nat
    BY DEF BuiltInv, TypeOK
  <2>2. ASSUME NEW new \in Node, new.id = nodeId + 1, PostNode(new)
        PROVE  New
    <3>1. CASE nodes' = nodes \cup {new}
      BY <2>1, <2>2, <3>1
    <3>2. ASSUME NEW p \in nodes,
                 nodes' = (nodes \ {p}) \cup {Refreshed(p, new)}
          PROVE  New
      <4>1. Refreshed(p, new).id = p.id
        BY <2>1, RefreshedKeeps
      <4> QED
        BY <3>2, <4>1
    <3>3. CASE nodes' = nodes
      BY <3>3
    <3> QED
      BY <2>2, <3>1, <3>2, <3>3, PostNodeCases DEF BuiltInv
  <2>3. CASE nodes' \subseteq nodes
    BY <2>3
  <2>4. CASE Registration
    BY <2>4, UpdateVerb = "PUT", NeverMergedStep DEF tables
  <2>5. CASE Restart
    BY <2>5 DEF Restart
  <2> QED
    BY <2>2, <2>3, <2>4, <2>5, NodesSteps DEF BuiltInv
<1> QED
  BY <1>1, BuiltInvariant, UpdateVerb = "PUT", PTL DEF Spec, NoResurrection
-----------------------------------------------------------------------------
(***************************************************************************)
(* The refinement: the registry as built implements NodeLife.              *)
(***************************************************************************)

\* The ids by which NodeLife knows the rows.
LEMMA IdsMembers ==
  /\ \A i : i \in UnknownIds <=>
             \E n \in nodes : n.id = i /\ n.logicalType = "UNDEFINED"
  /\ \A i : i \in DescribedIds <=>
             \E n \in nodes : n.id = i /\ n.logicalType # "UNDEFINED"
BY DEF UnknownIds, DescribedIds

LEMMA IdsMembersNext ==
  /\ \A i : i \in UnknownIds' <=>
             \E n \in nodes' : n.id = i /\ n.logicalType = "UNDEFINED"
  /\ \A i : i \in DescribedIds' <=>
             \E n \in nodes' : n.id = i /\ n.logicalType # "UNDEFINED"
BY DEF UnknownIds, DescribedIds

\* A row that is inserted appears.
LEMMA InsertAppears ==
  ASSUME NEW new, new.id = nodeId + 1, nodeId' = nodeId + 1,
         nodes' = nodes \cup {new}
  PROVE  Life!Appear
<1>1. CASE new.logicalType = "UNDEFINED"
  <2>1. UnknownIds' = UnknownIds \cup {nodeId'}
    <3>1. \A i : i \in UnknownIds' <=> i \in UnknownIds \cup {nodeId'}
      BY <1>1, IdsMembers, IdsMembersNext
    <3> QED
      BY <3>1
  <2>2. DescribedIds' = DescribedIds
    <3>1. \A i : i \in DescribedIds' <=> i \in DescribedIds
      BY <1>1, IdsMembers, IdsMembersNext
    <3> QED
      BY <3>1
  <2> QED
    BY <2>1, <2>2 DEF Life!Appear
<1>2. CASE new.logicalType # "UNDEFINED"
  <2>1. UnknownIds' = UnknownIds
    <3>1. \A i : i \in UnknownIds' <=> i \in UnknownIds
      BY <1>2, IdsMembers, IdsMembersNext
    <3> QED
      BY <3>1
  <2>2. DescribedIds' = DescribedIds \cup {nodeId'}
    <3>1. \A i : i \in DescribedIds' <=> i \in DescribedIds \cup {nodeId'}
      BY <1>2, IdsMembers, IdsMembersNext
    <3> QED
      BY <3>1
  <2> QED
    BY <2>1, <2>2 DEF Life!Appear
<1> QED
  BY <1>1, <1>2

\* A row that is refreshed is described, or stays what it is.
LEMMA RefreshDescribes ==
  ASSUME OneRowPerId, UNCHANGED nodeId, NEW p \in nodes, NEW r,
         r.id = p.id,
         r.logicalType = "UNDEFINED" => p.logicalType = "UNDEFINED",
         nodes' = (nodes \ {p}) \cup {r}
  PROVE  [Life!Next]_Life!vars
<1>1. \A n \in nodes : n.id = p.id => n = p
  BY DEF OneRowPerId
<1>2. CASE p.logicalType = "UNDEFINED" /\ r.logicalType # "UNDEFINED"
  <2>1. p.id \in UnknownIds
    BY <1>2, IdsMembers
  <2>2. UnknownIds' = UnknownIds \ {p.id}
    <3>1. \A i : i \in UnknownIds' <=> i \in UnknownIds \ {p.id}
      BY <1>1, <1>2, IdsMembers, IdsMembersNext
    <3> QED
      BY <3>1
  <2>3. DescribedIds' = DescribedIds \cup {p.id}
    <3>1. \A i : i \in DescribedIds' <=> i \in DescribedIds \cup {p.id}
      BY <1>1, <1>2, IdsMembers, IdsMembersNext
    <3> QED
      BY <3>1
  <2>4. Life!Describe(p.id)
    BY <2>1, <2>2, <2>3 DEF Life!Describe
  <2> QED
    BY <2>1, <2>4 DEF Life!Next
<1>3. CASE ~(p.logicalType = "UNDEFINED" /\ r.logicalType # "UNDEFINED")
  <2>1. (p.logicalType = "UNDEFINED") <=> (r.logicalType = "UNDEFINED")
    BY <1>3
  <2>2. UnknownIds' = UnknownIds
    <3>1. \A i : i \in UnknownIds' <=> i \in UnknownIds
      BY <1>1, <2>1, IdsMembers, IdsMembersNext
    <3> QED
      BY <3>1
  <2>3. DescribedIds' = DescribedIds
    <3>1. \A i : i \in DescribedIds' <=> i \in DescribedIds
      BY <1>1, <2>1, IdsMembers, IdsMembersNext
    <3> QED
      BY <3>1
  <2> QED
    BY <2>2, <2>3 DEF Life!vars
<1> QED
  BY <1>2, <1>3

\* Rows that are removed leave.
LEMMA RemovalLeaves ==
  ASSUME OneRowPerId, UNCHANGED nodeId, nodes' \subseteq nodes
  PROVE  Life!Next
<1> DEFINE gone == {n.id : n \in nodes \ nodes'}
<1>1. \A i : i \in gone <=> \E n \in nodes : n.id = i /\ n \notin nodes'
  OBVIOUS
<1> HIDE DEF gone
<1>2. \A m, n \in nodes : m.id = n.id => m = n
  BY DEF OneRowPerId
<1>3. UnknownIds' = UnknownIds \ gone
  <2>1. \A i : i \in UnknownIds' <=> i \in UnknownIds \ gone
    BY <1>1, <1>2, IdsMembers, IdsMembersNext
  <2> QED
    BY <2>1
<1>4. DescribedIds' = DescribedIds \ gone
  <2>1. \A i : i \in DescribedIds' <=> i \in DescribedIds \ gone
    BY <1>1, <1>2, IdsMembers, IdsMembersNext
  <2> QED
    BY <2>1
<1>5. gone \subseteq UnknownIds \cup DescribedIds
  BY <1>1, IdsMembers
<1>6. Life!Leave(gone)
  BY <1>3, <1>4 DEF Life!Leave
<1> QED
  BY <1>5, <1>6 DEF Life!Next

\* Every step of the registry is a step of NodeLife, or none.
LEMMA LifeStep ==
  ASSUME UpdateVerb = "PUT", MaxRestarts = 0, BuiltInv, OneRowPerId,
         [Next]_vars
  PROVE  [Life!Next]_Life!vars
<1>1. nodes \subseteq Node /\ TypeOK
  BY DEF BuiltInv, TypeOK
<1>2. CASE UNCHANGED <<nodes, nodeId>>
  BY <1>2 DEF Life!vars, UnknownIds, DescribedIds
<1>3. ASSUME NEW new \in Node, new.id = nodeId + 1, PostNode(new)
      PROVE  [Life!Next]_Life!vars
  <2>1. CASE nodes' = nodes \cup {new} /\ nodeId' = nodeId + 1
    BY <1>3, <2>1, InsertAppears DEF Life!Next
  <2>2. ASSUME NEW p \in nodes, nodeId' = nodeId,
               nodes' = (nodes \ {p}) \cup {Refreshed(p, new)}
        PROVE  [Life!Next]_Life!vars
    <3>1. /\ Refreshed(p, new).id = p.id
          /\ Refreshed(p, new).logicalType = "UNDEFINED"
               => p.logicalType = "UNDEFINED"
      BY <1>1, RefreshedKeeps
    <3> QED
      BY <2>2, <3>1, RefreshDescribes
  <2> QED
    BY <1>1, <1>2, <1>3, <2>1, <2>2, PostNodeCases
<1>4. CASE nodes' \subseteq nodes /\ UNCHANGED nodeId
  BY <1>4, RemovalLeaves
<1>5. CASE Next
  <2>1. ~Restart
    BY <1>1, MaxRestarts = 0 DEF Restart, TypeOK
  <2>2. Registration => UNCHANGED <<nodes, nodeId>>
    BY <1>5, UpdateVerb = "PUT", NeverMergedStep DEF tables
  <2> QED
    BY <1>1, <1>2, <1>3, <1>4, <1>5, <2>1, <2>2, NodesSteps
<1>6. CASE UNCHANGED vars
  BY <1>2, <1>6 DEF vars, tables
<1> QED
  BY <1>5, <1>6

\* As built and without a restart, the registry implements the life of the
\* rows that NodeLife promises, for any devices and any interleaving.
THEOREM RowsLiveCorrect ==
  ASSUME UpdateVerb = "PUT", MaxRestarts = 0
  PROVE  Spec => RowsLive
<1>1. Init => Life!Init
  <2> SUFFICES ASSUME Init PROVE Life!Init
    OBVIOUS
  <2>1. /\ nodeId \in Nat
        /\ \A n \in nodes : /\ n.id \in Nat /\ n.id <= nodeId
                            /\ n.logicalType # "UNDEFINED"
    BY RegisteredAssumption DEF Init, Node
  <2>2. UnknownIds = {}
    BY <2>1, IdsMembers
  <2>3. \A i \in DescribedIds : i \in Life!Given
    BY <2>1, IdsMembers DEF Life!Given
  <2> QED
    BY <2>1, <2>2, <2>3 DEF Life!Init
<1>2. BuiltInv /\ IdInv /\ [Next]_vars => [Life!Next]_Life!vars
  BY UpdateVerb = "PUT", MaxRestarts = 0, LifeStep DEF IdInv
<1> QED
  BY <1>1, <1>2, BuiltInvariant, IdInvariant, UpdateVerb = "PUT", PTL
  DEF Spec, RowsLive, Life!Spec
=============================================================================
