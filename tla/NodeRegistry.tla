---------------------------- MODULE NodeRegistry ----------------------------
(***************************************************************************)
(* The registry of nodes, as the processes that keep it run against each   *)
(* other: NodeAnnceRegistrationProcess, NodeDiscoveryRequestProcess,       *)
(* NodeDiscoveryRegistrationProcess, NodeDescrRequestProcess,              *)
(* NodeDescrRegistrationProcess and NetworkUpdateProcess.  Each is one     *)
(* thread, and each of its REST calls is one action: the tables are locked *)
(* during a call and free between two.  Their packets and events that no   *)
(* process of this module consumes are left out.                           *)
(*                                                                         *)
(* Time is reduced to the one thing that the code asks of it, whether a    *)
(* link or a job has outlived its timeout: AgeLink and AgeJob.             *)
(***************************************************************************)
EXTENDS NetworkTables, Sequences

CONSTANTS
  Devices,     \* the devices that may announce themselves or be discovered
  Profile,     \* for each device, the types that its packets report
  SiproDevices,\* the devices that a SIPRO gateway registers
  Registered,  \* the rows that a run starts from
  LastId,      \* the ids given before the run
  UpdateVerb,  \* the HTTP verb that nodes/update serves
  MaxPackets,  \* bound: the packets that the devices send in a run
  MaxRestarts  \* bound: the restarts of the server in a run

ASSUME DeviceAssumption ==
  /\ Devices \subseteq Device
  /\ SiproDevices \subseteq Device
  /\ Profile \in [Devices -> [logicalType : LogicalType \ {"UNDEFINED"},
                              manufacturer : Manufacturer]]

\* The rows of a user or of an earlier discovery: no two share an id or their
\* coordinates, and none waits to be described.
ASSUME RegisteredAssumption ==
  /\ Registered \subseteq Node
  /\ \A m, n \in Registered : m.id = n.id \/ At(m) = At(n) => m = n
  /\ LastId \in Nat
  /\ \A n \in Registered : n.id <= LastId /\ n.logicalType # "UNDEFINED"

ASSUME UpdateVerbAssumption == UpdateVerb \in {"PUT", "POST"}

ASSUME BoundsAssumption == MaxPackets \in Nat /\ MaxRestarts \in Nat

VARIABLES
  nodes, nodeId,   \* the rows of Node, and NodeResource.nodeId
  links, jobs,     \* the rows of Link and of NetworkJob
  kept,            \* the groups of jobs with rows of an earlier run
  annce,           \* where NodeAnnceRegistrationProcess is
  disc,            \* where NodeDiscoveryRegistrationProcess is
  update,          \* the next call of NetworkUpdateProcess
  request,         \* where NodeDescrRequestProcess is
  registration,    \* where NodeDescrRegistrationProcess is
  added,           \* the NODE_ADDED events waiting for NodeDescrRequestProcess
  probed,          \* who was sent a discovery request
  asked,           \* who has a descriptor request to answer
  answers,         \* the descriptor responses waiting to be registered
  packets,         \* the packets sent so far
  restarts         \* the restarts so far

tables == <<nodes, nodeId, links, jobs, kept>>
air    == <<probed, asked, answers>>
counts == <<packets, restarts>>
vars   == <<tables, annce, disc, update, request, registration, added, air,
            counts>>

Idle == [pc |-> "idle"]

\* A response to a descriptor request.
Answer == [at : Coord, logicalType : LogicalType \ {"UNDEFINED"},
           manufacturer : Manufacturer]

Init ==
  /\ nodes = Registered /\ nodeId = LastId
  /\ links = {} /\ jobs = NoJobs /\ kept = {}
  /\ annce = Idle /\ disc = Idle /\ registration = Idle
  /\ update = "links"
  /\ request = [pc |-> "poll"]
  /\ added = <<>>
  /\ probed = {} /\ asked = {} /\ answers = {}
  /\ packets = 0 /\ restarts = 0

\* Mutant: the id is given again.
PostNodeSameId(new) ==
  /\ nodes' = InsertOrUpdateNode(nodes, new)
  /\ UNCHANGED nodeId

\* POST nodes/insert of the row new, which has the next id: the id is used up
\* only when the row is created.
PostNode(new) ==
  /\ nodes' = InsertOrUpdateNode(nodes, new)
  /\ nodeId' = IF InsertStatus(nodes, new) = "CREATED"
               THEN nodeId + 1 ELSE nodeId

\* POST jobs: after a restart, its id may be that of a row of the run before,
\* and the row is refused, or lower than that of an older row of its group,
\* which is still the latest.
PostJob(t, c, state) ==
  /\ \/ jobs' = AddJob(jobs, t, c, state)
     \/ kept # {} /\ UNCHANGED jobs
  /\ UNCHANGED kept

\* A POST that leaves the jobs as they are may be one that was refused.
MaybeRefused == kept # {} /\ UNCHANGED jobs

\* Of the groups of an earlier run, those that have rows left.
StillKept == {k \in kept : jobs'[k[1]][k[2]] # "none"}

\* The bound on what the devices send.
HandlePacket == /\ packets < MaxPackets /\ packets' = packets + 1
                /\ UNCHANGED restarts

\* GET nodes/{gatewayId}/{address} returns n: not when two rows match.
GetNode(c, n) == FindNode(nodes, c[1], c[2]) = {n}

Found(c) == \E n \in nodes : GetNode(c, n)

\* The second job of a node, once its logical type lt is known.
NextJobType(lt) == IF lt = "END_DEVICE" THEN "NODE_ACTIVE_ENDPOINTS_REQUEST"
                                        ELSE "NODE_POWER_LEVEL_REQUEST"
-----------------------------------------------------------------------------
(***************************************************************************)
(* NodeAnnceRegistrationProcess: it inserts the announced node, posts the  *)
(* descriptor job and then the grace job that protects the node from       *)
(* nodes/cleanup, and dispatches NODE_ADDED if all three were accepted.    *)
(***************************************************************************)
AnnceInsert(d) ==
  LET lt  == IF d.address = 0 THEN "COORDINATOR" ELSE "UNDEFINED"
      new == NewNode(nodeId + 1, d, lt, "UNDEFINED", FALSE)
  IN  /\ annce = Idle
      /\ HandlePacket
      /\ PostNode(new)
      /\ annce' = [pc |-> "descr", at |-> At(d),
                   status |-> InsertStatus(nodes, new)]
      /\ UNCHANGED <<links, jobs, kept, disc, update, request, registration,
                     added, air>>

\* After a POST that is refused the node is not taken for registered.
AnnceGoOn(next) ==
  \/ annce' = [annce EXCEPT !.pc = next]
  \/ MaybeRefused /\ annce' = [annce EXCEPT !.pc = next, !.status = "FAILED"]

AnnceDescrJob ==
  /\ annce.pc = "descr"
  /\ PostJob("NODE_DESCR_REQUEST", annce.at, "first")
  /\ AnnceGoOn("grace")
  /\ UNCHANGED <<nodes, nodeId, links, disc, update, request, registration,
                 added, air, counts>>

AnnceGraceJob ==
  /\ annce.pc = "grace"
  /\ PostJob("NODE_ANNCE_GRACE", annce.at, "first")
  /\ AnnceGoOn("event")
  /\ UNCHANGED <<nodes, nodeId, links, disc, update, request, registration,
                 added, air, counts>>

AnnceEvent ==
  /\ annce.pc = "event"
  /\ added' = IF annce.status \in {"CREATED", "OK"}
              THEN Append(added, annce.at) ELSE added
  /\ annce' = Idle
  /\ UNCHANGED <<tables, disc, update, request, registration, air, counts>>
-----------------------------------------------------------------------------
(***************************************************************************)
(* Discovery.  The request process asks the infrastructural nodes in turn  *)
(* for their neighbours; each answer is about one device d.                *)
(***************************************************************************)
DiscoveryRequest(n) ==
  /\ n \in InfrastructuralNodes(nodes)
  /\ probed' = probed \cup {At(n)}
  /\ UNCHANGED <<tables, annce, disc, update, request, registration, added,
                 asked, answers, counts>>

\* An answer from c, early or late: it is dropped when c has no row.
DiscSender(c, n, d) ==
  /\ disc = Idle
  /\ HandlePacket
  /\ c \in probed /\ d.gatewayId = c[1] /\ At(d) # c
  /\ n \in nodes /\ GetNode(c, n)
  /\ disc' = [pc |-> "insert", sender |-> Local(n), found |-> d]
  /\ UNCHANGED <<tables, annce, update, request, registration, added, air>>

DiscInsert ==
  LET d   == disc.found
      new == NewNode(nodeId + 1, d, Profile[d].logicalType,
                     Profile[d].manufacturer, FALSE)
  IN  /\ disc.pc = "insert"
      /\ PostNode(new)
      /\ disc' = [disc EXCEPT !.pc = IF InsertStatus(nodes, new) = "CREATED"
                                     THEN "job" ELSE "link"]
      /\ UNCHANGED <<links, jobs, kept, annce, update, request, registration,
                     added, air, counts>>

DiscJob ==
  /\ disc.pc = "job"
  /\ PostJob(NextJobType(Profile[disc.found].logicalType), At(disc.found),
             "first")
  /\ disc' = [disc EXCEPT !.pc = "link"]
  /\ UNCHANGED <<nodes, nodeId, links, annce, update, request, registration,
                 added, air, counts>>

\* The id of a new link may be that of one of an earlier run.
DiscLink ==
  LET link == NewLink(disc.found.gatewayId, disc.sender, Local(disc.found))
  IN  /\ disc.pc = "link"
      /\ \/ links' = InsertOrUpdateLink(links, link)
         \/ /\ \E l \in links : l.old
            /\ \A l \in links : ~SameLink(l, link)
            /\ UNCHANGED links
      /\ disc' = Idle
      /\ UNCHANGED <<nodes, nodeId, jobs, kept, annce, update, request,
                     registration, added, air, counts>>
-----------------------------------------------------------------------------
(***************************************************************************)
(* NodeDescrRequestProcess.  With no job pending it waits for one event;   *)
(* with some it serves those of its snapshot that are due.                 *)
(***************************************************************************)
Due(t) == {c \in Coord : jobs[t][c] \in {"first", "overdue"}}

RequestPoll ==
  /\ request.pc = "poll"
  /\ request' = IF LatestJobs(jobs, "NODE_DESCR_REQUEST") = {}
                THEN [pc |-> "receive"]
                ELSE [pc |-> "serve", due |-> Due("NODE_DESCR_REQUEST")]
  /\ UNCHANGED <<tables, annce, disc, update, registration, added, air,
                 counts>>

RequestReceive ==
  /\ request.pc = "receive" /\ added # <<>>
  /\ request' = [pc |-> "serve", due |-> {Head(added)}]
  /\ added' = Tail(added)
  /\ UNCHANGED <<tables, annce, disc, update, registration, air, counts>>

\* doRequest: the job is posted for c, the packet goes to the node returned.
RequestGet(c) ==
  /\ request.pc = "serve" /\ c \in request.due
  /\ \/ \E n \in nodes : 
          /\ GetNode(c, n)
          /\ request' = [pc |-> "post", due |-> request.due \ {c},
                         at |-> c, to |-> At(n)]
     \/ /\ ~Found(c)
        /\ request' = [request EXCEPT !.due = @ \ {c}]
  /\ UNCHANGED <<tables, annce, disc, update, registration, added, air,
                 counts>>

\* The sequence number is a byte: once in 256 requests it is 0, and the job
\* looks like a first one.
RequestPost ==
  /\ request.pc = "post"
  /\ \E state \in {"first", "repeated"} :
       PostJob("NODE_DESCR_REQUEST", request.at, state)
  /\ asked' = asked \cup {request.to}
  /\ request' = [pc |-> "serve", due |-> request.due]
  /\ UNCHANGED <<nodes, nodeId, links, annce, disc, update, registration,
                 added, probed, answers, counts>>

\* An event of another kind, or a null message.
RequestOther ==
  /\ request.pc = "receive"
  /\ request' = [pc |-> "poll"]
  /\ UNCHANGED <<tables, annce, disc, update, registration, added, air,
                 counts>>

RequestDone ==
  /\ request.pc = "serve" /\ request.due = {}
  /\ request' = [pc |-> "poll"]
  /\ UNCHANGED <<tables, annce, disc, update, registration, added, air,
                 counts>>
-----------------------------------------------------------------------------
(***************************************************************************)
(* The radio: a device that was asked may answer, late or never.           *)
(***************************************************************************)
Describe(d) ==
  /\ At(d) \in asked
  /\ HandlePacket
  /\ asked' = asked \ {At(d)}
  /\ answers' = answers \cup {[at |-> At(d),
                               logicalType |-> Profile[d].logicalType,
                               manufacturer |-> Profile[d].manufacturer]}
  /\ UNCHANGED <<tables, annce, disc, update, request, registration, added,
                 probed>>
-----------------------------------------------------------------------------
(***************************************************************************)
(* NodeDescrRegistrationProcess: it reads the node, fills its own copy in, *)
(* sends the whole copy to nodes/update with a POST, and only after a      *)
(* status OK replaces the descriptor jobs with the next job.               *)
(***************************************************************************)
RegistrationGet(p) ==
  /\ registration = Idle /\ p \in answers
  /\ answers' = answers \ {p}
  /\ \/ \E n \in nodes :
          /\ GetNode(p.at, n)
          /\ registration' =
               [pc |-> "update", at |-> p.at,
                copy |-> [n EXCEPT !.logicalType  = p.logicalType,
                                   !.manufacturer = p.manufacturer]]
     \/ ~Found(p.at) /\ UNCHANGED registration
  /\ UNCHANGED <<tables, annce, disc, update, request, added, probed, asked,
                 counts>>

\* Mutant: nodes/update serves any verb.
RegistrationExistsAnyVerb ==
  /\ registration.pc = "update"
  /\ registration' = IF Found(At(registration.copy))
                     THEN [registration EXCEPT !.pc = "merge"] ELSE Idle
  /\ UNCHANGED <<tables, annce, disc, update, request, added, air, counts>>

\* The check of updateNode, made before it takes the lock of the nodes.
RegistrationExists ==
  /\ registration.pc = "update"
  /\ registration' = IF UpdateVerb = "POST" /\ Found(At(registration.copy))
                     THEN [registration EXCEPT !.pc = "merge"] ELSE Idle
  /\ UNCHANGED <<tables, annce, disc, update, request, added, air, counts>>

RegistrationMerge ==
  /\ registration.pc = "merge"
  /\ nodes' = UpdateManaged(nodes, registration.copy)
  /\ registration' = [registration EXCEPT !.pc = "delete"]
  /\ UNCHANGED <<nodeId, links, jobs, kept, annce, disc, update, request,
                 added, air, counts>>

RegistrationDelete ==
  /\ registration.pc = "delete"
  /\ jobs' = RemoveJobs(jobs, "NODE_DESCR_REQUEST", registration.at)
  /\ kept' = StillKept
  /\ registration' = [registration EXCEPT !.pc = "next"]
  /\ UNCHANGED <<nodes, nodeId, links, annce, disc, update, request, added,
                 air, counts>>

RegistrationNext ==
  /\ registration.pc = "next"
  /\ PostJob(NextJobType(registration.copy.logicalType), registration.at,
             "first")
  /\ registration' = Idle
  /\ UNCHANGED <<nodes, nodeId, links, annce, disc, update, request, added,
                 air, counts>>
-----------------------------------------------------------------------------
(***************************************************************************)
(* NetworkUpdateProcess: links/cleanup, nodes/cleanup, jobs/cleanup.       *)
(***************************************************************************)
UpdateLinks ==
  /\ update = "links"
  /\ links' = CleanupLinks(links)
  /\ update' = "nodes"
  /\ UNCHANGED <<nodes, nodeId, jobs, kept, annce, disc, request,
                 registration, added, air, counts>>

UpdateNodes ==
  /\ update = "nodes"
  /\ nodes' = CleanupNodes(nodes, links, jobs)
  /\ update' = "jobs"
  /\ UNCHANGED <<nodeId, links, jobs, kept, annce, disc, request,
                 registration, added, air, counts>>

UpdateJobs ==
  /\ update = "jobs"
  /\ jobs' = CleanupJobs(jobs, nodes)
  /\ kept' = StillKept
  /\ update' = "links"
  /\ UNCHANGED <<nodes, nodeId, links, annce, disc, request, registration,
                 added, air, counts>>
-----------------------------------------------------------------------------
(***************************************************************************)
(* Others: time, SIPROGateway.addNode, and the user who deletes a node.    *)
(***************************************************************************)
AgeLink(l) ==
  /\ l \in links /\ l.fresh
  /\ links' = (links \ {l}) \cup {[l EXCEPT !.fresh = FALSE]}
  /\ UNCHANGED <<nodes, nodeId, jobs, kept, annce, disc, update, request,
                 registration, added, air, counts>>

\* A first request is due whatever its age, so that only its grace has one.
AgeJob(t, c) ==
  /\ \/ t = "NODE_ANNCE_GRACE" /\ jobs[t][c] = "first"
     \/ t = "NODE_DESCR_REQUEST" /\ jobs[t][c] = "repeated"
  /\ jobs' = AddJob(jobs, t, c, "overdue")
  /\ UNCHANGED <<nodes, nodeId, links, kept, annce, disc, update, request,
                 registration, added, air, counts>>

SiproAddNode(d) ==
  /\ HandlePacket
  /\ PostNode(NewNode(nodeId + 1, d, "UNDEFINED", "UNDEFINED", TRUE))
  /\ UNCHANGED <<links, jobs, kept, annce, disc, update, request,
                 registration, added, air>>

DeleteNode(n) ==
  /\ n \in nodes /\ GetNode(At(n), n)
  /\ nodes' = nodes \ {n}
  /\ UNCHANGED <<nodeId, links, jobs, kept, annce, disc, update, request,
                 registration, added, air, counts>>

\* The server restarts: the tables stay, and so does what the radio knows; the
\* static counters of the ids, the processes and what waits in the topics do
\* not.  The processes are posted again.
Restart ==
  /\ restarts < MaxRestarts /\ restarts' = restarts + 1
  /\ nodeId' = 0
  /\ annce' = Idle /\ disc' = Idle /\ registration' = Idle
  /\ update' = "links" /\ request' = [pc |-> "poll"]
  /\ added' = <<>> /\ answers' = {}
  /\ links' = {[l EXCEPT !.old = TRUE] : l \in links}
  /\ kept' = {k \in JobType \X Coord : jobs[k[1]][k[2]] # "none"}
  /\ UNCHANGED <<nodes, jobs, probed, asked, packets>>

Annce == \/ \E d \in Devices : AnnceInsert(d)
         \/ AnnceDescrJob
         \/ AnnceGraceJob
         \/ AnnceEvent
Discovery == \/ \E c \in Coord, n \in nodes, d \in Devices :
                  DiscSender(c, n, d)
             \/ DiscInsert
             \/ DiscJob
             \/ DiscLink
Request == \/ RequestPoll
           \/ RequestReceive
           \/ \E c \in Coord : RequestGet(c)
           \/ RequestPost
           \/ RequestDone
Registration == \/ \E p \in answers : RegistrationGet(p)
                \/ RegistrationExists
                \/ RegistrationMerge
                \/ RegistrationDelete
                \/ RegistrationNext
Update == UpdateLinks \/ UpdateNodes \/ UpdateJobs
Radio == \/ \E n \in nodes : DiscoveryRequest(n)
         \/ \E d \in Devices : Describe(d)
Ageing == \/ \E l \in links : AgeLink(l)
          \/ \E t \in JobType, c \in Coord : AgeJob(t, c)
Users == \/ \E d \in SiproDevices : SiproAddNode(d)
         \/ \E n \in nodes : DeleteNode(n)

Next == \/ Annce \/ Discovery \/ Request \/ Registration \/ Update
        \/ Radio \/ Ageing \/ Users \/ RequestOther \/ Restart

Spec == Init /\ [][Next]_vars

\* The threads of the processes run, and the clock does not stop.  Nothing is
\* asked of the radio, of the devices or of the users.
Fairness ==
  /\ WF_vars(AnnceDescrJob \/ AnnceGraceJob \/ AnnceEvent)
  /\ WF_vars(DiscInsert \/ DiscJob \/ DiscLink)
  /\ WF_vars(Request)
  /\ WF_vars(Registration)
  /\ WF_vars(Update)
  /\ WF_vars(\E l \in links : AgeLink(l))
  /\ \A t \in JobType, c \in Coord : WF_vars(AgeJob(t, c))

FairSpec == Spec /\ Fairness
-----------------------------------------------------------------------------
\* Where each process may be.
AnnceState ==
  {Idle} \cup [pc : {"descr", "grace", "event"}, at : Coord,
               status : {"CREATED", "OK", "FAILED"}]
DiscState ==
  {Idle} \cup [pc : {"insert", "job", "link"}, sender : LocalCoordinates,
               found : Devices]
RequestState ==
  [pc : {"poll", "receive"}]
    \cup [pc : {"serve"}, due : SUBSET Coord]
    \cup [pc : {"post"}, due : SUBSET Coord, at : Coord, to : Coord]
RegistrationState ==
  {Idle} \cup [pc : {"update", "merge", "delete", "next"}, at : Coord,
               copy : Node]

\* Every variable holds values of the shape that the actions assume.
TypeOK ==
  /\ nodes \subseteq Node /\ nodeId \in Nat
  /\ links \subseteq Link
  /\ jobs \in Jobs /\ kept \subseteq JobType \X Coord
  /\ annce \in AnnceState /\ disc \in DiscState
  /\ update \in {"links", "nodes", "jobs"}
  /\ request \in RequestState /\ registration \in RegistrationState
  /\ added \in Seq(Coord)
  /\ probed \subseteq Coord /\ asked \subseteq Coord
  /\ answers \subseteq Answer
  /\ packets \in Nat /\ restarts \in 0 .. MaxRestarts

\* No two rows of Node have one gateway and address, which name a node in
\* every path and job: every getSingleResult of findNode rests on it, and two
\* would make each call on them fail, those of insertOrUpdateNode included,
\* until both rows are gone.
UniqueCoordinates == \A m, n \in nodes : At(m) = At(n) => m = n

\* No two rows have one id, and the id that insertOrUpdateNode is about to
\* give is not in use: em.persist never meets a row with that id.
UniqueId == /\ \A m, n \in nodes : m.id = n.id => m = n
            /\ \A n \in nodes : n.id <= nodeId

\* A node whose logical type is unknown is being asked for it: it has a
\* descriptor job, or NodeAnnceRegistrationProcess is about to post one.  No
\* cleanup, late answer or late job of another process takes it away.
\* (SIPRO devices are never asked.)
NoForgottenNode ==
  \A n \in nodes :
    n.logicalType = "UNDEFINED" /\ ~n.permanent =>
      \/ jobs["NODE_DESCR_REQUEST"][At(n)] # "none"
      \/ annce.pc = "descr" /\ annce.at = At(n)

\* A row that appears has an id never given before: a removed row does not
\* come back through the copy that a process kept of it.
NoResurrection ==
  [][\A r \in nodes' : r.id > nodeId \/ \E n \in nodes : n.id = r.id]_nodes

\* What is known of the type of a node is never lost while its row lives:
\* neither to an announcement repeated nor to a copy written back late.
DescriptionKept ==
  [][\A n \in nodes, r \in nodes' :
       n.id = r.id /\ n.logicalType # "UNDEFINED"
         => r.logicalType # "UNDEFINED"]_nodes

\* The rows as NodeLife sees them.
UnknownIds ==
  {n.id : n \in {r \in nodes : r.logicalType = "UNDEFINED"}}
DescribedIds ==
  {n.id : n \in {r \in nodes : r.logicalType # "UNDEFINED"}}

Life == INSTANCE NodeLife WITH unknown   <- UnknownIds,
                               described <- DescribedIds,
                               last      <- nodeId

\* The registry as built implements NodeLife between two restarts: no
\* interleaving of announcements, discoveries, descriptions, cleanups and
\* deletions gives an id twice, brings a row back or forgets a type.
RowsLive == Life!Spec

\* Once the network is silent (the packets of a run are finite) the registry
\* forgets it: the links expire, the grace jobs expire, and NetworkUpdate
\* removes every row that getMissingNodes may remove, whatever announcement,
\* request or late copy the other processes were in the middle of.
Removable(n) == /\ n.logicalType # "COORDINATOR" /\ ~n.permanent
                /\ n.manufacturer \in {"DIGI", "UNDEFINED"}
SilentNodesLeave == <>[](\A n \in nodes : ~Removable(n))

\* No job outlives its node for good: a job posted for a node that goes, or
\* after it is gone, is removed, and no process posts it again.
JobsFollowNodes ==
  <>[](\A t \in JobType, c \in Coord :
         jobs[t][c] # "none" => \E n \in nodes : At(n) = c)
=============================================================================
