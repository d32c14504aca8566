---------------------------- MODULE Acquisition ----------------------------
(***************************************************************************)
(* What is asked of a node once it is in the network: its descriptor, then *)
(* its endpoints and the descriptor of each, if it is an end device, or    *)
(* its power level, if it is a router.  ActiveEndpointsRequestProcess and  *)
(* NodePowerLevelRequestProcess run one loop over jobs and events;         *)
(* SimpleDescrRequestProcess runs over events alone; and four registration *)
(* processes read a row, change one part of it and send the whole row back *)
(* to nodes/update, under the lock that they share, nodesLock.             *)
(*                                                                         *)
(* Each REST call is an action; taking a packet, the lock and the row is   *)
(* one as well.  Two equal packets on their way are one.                   *)
(***************************************************************************)
EXTENDS Integers, Sequences, FiniteSets

CONSTANTS
  Nodes,          \* the addresses of the devices
  Endpoints,      \* the endpoints of every end device
  UpdateVerb,     \* the HTTP verb that nodes/update serves
  Lossy,          \* the kinds of packets that the radio may lose
  MaxDescribed,   \* bound: the node descriptors that the devices send
  MaxFaults       \* bound: the packets that are lost, the timeouts that come
                  \* before the answer, the failures of the broker, and the
                  \* rows that are removed, each of which counts for two

\* What a request process asks for, and what a registration process registers.
RequestKind == {"ENDPOINTS", "POWER"}
Kind == RequestKind \cup {"NODE", "DESCRIPTOR"}

Type == {"END_DEVICE", "ROUTER"}

ASSUME SetAssumption == IsFiniteSet(Nodes) /\ IsFiniteSet(Endpoints)
ASSUME VerbAssumption == UpdateVerb \in {"PUT", "POST"}
ASSUME LossyAssumption == Lossy \subseteq Kind
ASSUME BoundAssumption == MaxDescribed \in Nat /\ MaxFaults \in Nat

VARIABLES
  type,          \* the type that each device reports: it does not change
  nodes,         \* the rows
  lastId,        \* the id of the last row
  jobs,          \* for each kind and address, the state of its latest job
  acquired,      \* the NODE_DESCR_ACQUIRED events that wait, by their reader
  found,         \* the NODE_ENDPOINTS_ACQUIRED events that wait
  request,       \* where the request process of each kind is
  simple,        \* where SimpleDescrRequestProcess is
  registration,  \* where the registration process of each kind is
  nodesLock,     \* the kind of the registration that holds the lock
  asked,         \* the requests on their way
  answers,       \* the answers on their way, or waiting
  abandoned,     \* whether the endpoints of a node were given up
  removed,       \* whether a row was removed
  described,     \* the node descriptors that the devices sent
  faults         \* the faults so far

rows   == <<nodes, lastId>>
events == <<acquired, found>>
radio  == <<asked, answers>>
flags  == <<abandoned, removed>>
counts == <<described, faults>>
vars   == <<type, rows, jobs, events, request, simple, registration, nodesLock,
            radio, flags, counts>>

\* The type of the nodes that a kind of request is for.
Wanted(k) == IF k = "ENDPOINTS" THEN "END_DEVICE" ELSE "ROUTER"

\* The endpoints that a packet is about: all of them in an answer to
\* ENDPOINTS, one in DESCRIPTOR.
Packet == [kind : Kind, at : Nodes, endpoints : SUBSET Endpoints]

NewRow(id, n) ==
  [id |-> id, at |-> n, type |-> "UNDEFINED", endpoints |-> {}, known |-> {},
   power |-> FALSE]

Receiving == [pc |-> "receive"]

Init ==
  /\ type \in [Nodes -> Type]
  /\ \E id \in [Nodes -> 1 .. Cardinality(Nodes)] :
       /\ \A m, n \in Nodes : id[m] = id[n] => m = n
       /\ nodes = {NewRow(id[n], n) : n \in Nodes}
  /\ lastId = Cardinality(Nodes)
  /\ jobs = [k \in RequestKind |-> [n \in Nodes |-> "none"]]
  /\ acquired = [k \in RequestKind |-> <<>>] /\ found = <<>>
  /\ request = [k \in RequestKind |-> [pc |-> "poll"]]
  /\ simple = Receiving
  /\ registration = [k \in Kind |-> Receiving]
  /\ nodesLock = "free"
  /\ asked = {} /\ answers = {} /\ abandoned = FALSE /\ removed = FALSE
  /\ described = 0 /\ faults = 0

\* GET nodes/{gatewayId}/{address} returns r: not when two rows match.
GetNode(n, r) == {s \in nodes : s.at = n} = {r}

Exists(n) == \E r \in nodes : GetNode(n, r)

Fault(weight) == faults + weight <= MaxFaults /\ faults' = faults + weight
-----------------------------------------------------------------------------
(***************************************************************************)
(* ActiveEndpointsRequestProcess and NodePowerLevelRequestProcess: with no *)
(* job at all they wait for an event; otherwise they serve a snapshot of   *)
(* the jobs that are first or overdue.                                     *)
(***************************************************************************)
Serve(due) ==
  IF due = {} THEN [pc |-> "poll"] ELSE [pc |-> "serve", due |-> due]

RequestPoll(k) ==
  /\ request[k].pc = "poll"
  /\ request' = [request EXCEPT ![k] =
       IF \A n \in Nodes : jobs[k][n] = "none" THEN Receiving
       ELSE Serve({n \in Nodes : jobs[k][n] \in {"first", "overdue"}})]
  /\ UNCHANGED <<type, rows, jobs, events, simple, registration, nodesLock,
                 radio, flags, counts>>

RequestReceive(k) ==
  /\ request[k].pc = "receive" /\ acquired[k] # <<>>
  /\ request' = [request EXCEPT ![k] =
                   Serve({Head(acquired[k])})]
  /\ acquired' = [acquired EXCEPT ![k] = Tail(@)]
  /\ UNCHANGED <<type, rows, jobs, found, simple, registration, nodesLock,
                 radio, flags, counts>>

\* doRequest: GET of the node, which must be there and of the type wanted.
RequestGet(k, n) ==
  /\ request[k].pc = "serve" /\ n \in request[k].due
  /\ request' = [request EXCEPT ![k] =
       IF \E r \in nodes : GetNode(n, r) /\ r.type = Wanted(k)
       THEN [pc |-> "post", due |-> @.due \ {n}, at |-> n]
       ELSE Serve(@.due \ {n})]
  /\ UNCHANGED <<type, rows, jobs, events, simple, registration, nodesLock,
                 radio, flags, counts>>

\* Mutant: no job is posted with the request.
RequestPostNoJob(k) ==
  /\ request[k].pc = "post"
  /\ request' = [request EXCEPT ![k].pc = "send"]
  /\ jobs' = [jobs EXCEPT ![k][request[k].at] = "none"]
  /\ UNCHANGED <<type, rows, events, simple, registration, nodesLock, radio,
                 flags, counts>>

\* (The sequence number is 0 once in 256, and the job is first again: as if
\* its timeout came at once.)
RequestPost(k) ==
  /\ request[k].pc = "post"
  /\ request' = [request EXCEPT ![k].pc = "send"]
  /\ jobs' = [jobs EXCEPT ![k][request[k].at] = "repeated"]
  /\ UNCHANGED <<type, rows, events, simple, registration, nodesLock, radio,
                 flags, counts>>

RequestSend(k) ==
  /\ request[k].pc = "send"
  /\ asked' = asked \cup {[kind |-> k, at |-> request[k].at, endpoints |-> {}]}
  /\ request' = [request EXCEPT ![k] = Serve(@.due)]
  /\ UNCHANGED <<type, rows, jobs, events, simple, registration, nodesLock,
                 answers, flags, counts>>
-----------------------------------------------------------------------------
(***************************************************************************)
(* SimpleDescrRequestProcess: it asks for the descriptor of each endpoint  *)
(* of the row, and posts no job.  When the broker fails it means to retry: *)
(* it decrements the index and logs the endpoint at the index, which does  *)
(* not exist before the first one, and the exception ends the loop.        *)
(***************************************************************************)
SimpleReceive ==
  /\ simple.pc = "receive" /\ found # <<>>
  /\ simple' = [pc |-> "get", at |-> Head(found)]
  /\ found' = Tail(found)
  /\ UNCHANGED <<type, rows, jobs, acquired, request, registration, nodesLock,
                 radio, flags, counts>>

SimpleGet ==
  /\ simple.pc = "get"
  /\ simple' = IF \E r \in nodes : GetNode(simple.at, r) /\ r.endpoints # {}
               THEN LET r == CHOOSE r \in nodes : GetNode(simple.at, r)
                    IN  [pc |-> "send", at |-> simple.at,
                         left |-> r.endpoints, first |-> TRUE]
               ELSE Receiving
  /\ UNCHANGED <<type, rows, jobs, events, request, registration, nodesLock,
                 radio, flags, counts>>

\* Mutant: the loop ends before the last endpoint.
SimpleSendButLast(e) ==
  /\ simple.pc = "send" /\ e \in simple.left
  /\ asked' = IF simple.left = {e} THEN asked
              ELSE asked \cup {[kind |-> "DESCRIPTOR", at |-> simple.at,
                                endpoints |-> {e}]}
  /\ simple' = IF simple.left = {e} THEN Receiving
               ELSE [simple EXCEPT !.left = @ \ {e}, !.first = FALSE]
  /\ UNCHANGED <<type, rows, jobs, events, request, registration, nodesLock,
                 answers, flags, counts>>

SimpleSend(e) ==
  /\ simple.pc = "send" /\ e \in simple.left
  /\ asked' = asked \cup {[kind |-> "DESCRIPTOR", at |-> simple.at,
                           endpoints |-> {e}]}
  /\ simple' = IF simple.left = {e} THEN Receiving
               ELSE [simple EXCEPT !.left = @ \ {e}, !.first = FALSE]
  /\ UNCHANGED <<type, rows, jobs, events, request, registration, nodesLock,
                 answers, flags, counts>>

SimpleFail ==
  /\ simple.pc = "send"
  /\ Fault(1)
  /\ IF simple.first THEN simple' = Receiving /\ abandoned' = TRUE
                     ELSE UNCHANGED <<simple, abandoned>>
  /\ UNCHANGED <<type, rows, jobs, events, request, registration, nodesLock,
                 radio, removed, described>>
-----------------------------------------------------------------------------
(***************************************************************************)
(* The registration processes.  setEndpoints forgets the descriptors of    *)
(* the endpoints; addDevice throws when the endpoint is not in the row,    *)
(* and nothing catches what it throws but the end of the thread.           *)
(***************************************************************************)
\* Mutant: addDevice starts the map of the endpoints afresh.
FilledAfresh(r, p) ==
  CASE p.kind = "NODE"       -> [r EXCEPT !.type = type[p.at]]
    [] p.kind = "ENDPOINTS"  -> [r EXCEPT !.endpoints = p.endpoints,
                                          !.known = {}]
    [] p.kind = "DESCRIPTOR" -> [r EXCEPT !.endpoints = p.endpoints,
                                          !.known = p.endpoints]
    [] p.kind = "POWER"      -> [r EXCEPT !.power = TRUE]

\* What a registration makes of the row that it read.
Filled(r, p) ==
  CASE p.kind = "NODE"       -> [r EXCEPT !.type = type[p.at]]
    [] p.kind = "ENDPOINTS"  -> [r EXCEPT !.endpoints = p.endpoints,
                                          !.known = {}]
    [] p.kind = "DESCRIPTOR" -> [r EXCEPT !.known = @ \cup p.endpoints]
    [] p.kind = "POWER"      -> [r EXCEPT !.power = TRUE]

\* Mutant: addDevice takes any endpoint.
MissesNone(r, p) == FALSE

Misses(r, p) == p.kind = "DESCRIPTOR" /\ ~(p.endpoints \subseteq r.endpoints)

\* Mutant: the row is read outside of the lock.
RegisterGetUnlocked(p) ==
  LET k == p.kind
  IN  /\ registration[k].pc = "receive" /\ p \in answers
      /\ answers' = answers \ {p}
      /\ \/ \E r \in nodes : /\ GetNode(p.at, r) /\ ~Misses(r, p)
                             /\ registration' = [registration EXCEPT ![k] =
                                  [pc |-> "exists", copy |-> Filled(r, p),
                                   packet |-> p]]
         \/ \E r \in nodes : /\ GetNode(p.at, r) /\ Misses(r, p)
                             /\ registration' =
                                  [registration EXCEPT ![k].pc = "dead"]
         \/ ~Exists(p.at) /\ UNCHANGED registration
      /\ UNCHANGED <<type, rows, jobs, events, request, simple, nodesLock,
                     asked, flags, counts>>

RegisterGet(p) ==
  LET k == p.kind
  IN  /\ registration[k].pc = "receive" /\ p \in answers /\ nodesLock = "free"
      /\ answers' = answers \ {p}
      /\ \/ \E r \in nodes : /\ GetNode(p.at, r) /\ ~Misses(r, p)
                             /\ registration' = [registration EXCEPT ![k] =
                                  [pc |-> "exists", copy |-> Filled(r, p),
                                   packet |-> p]]
                             /\ nodesLock' = k
         \/ \E r \in nodes : /\ GetNode(p.at, r) /\ Misses(r, p)
                             /\ registration' =
                                  [registration EXCEPT ![k].pc = "dead"]
                             /\ UNCHANGED nodesLock
         \/ ~Exists(p.at) /\ UNCHANGED <<registration, nodesLock>>
      /\ UNCHANGED <<type, rows, jobs, events, request, simple, asked,
                     flags, counts>>

\* nodes/update, before its lock: the POST is refused where it serves PUT.
RegisterExists(k) ==
  /\ registration[k].pc = "exists"
  /\ IF UpdateVerb = "POST" /\ Exists(registration[k].copy.at)
     THEN registration' = [registration EXCEPT ![k].pc = "merge"]
          /\ UNCHANGED nodesLock
     ELSE registration' = [registration EXCEPT ![k] = Receiving]
          /\ nodesLock' = "free"
  /\ UNCHANGED <<type, rows, jobs, events, request, simple, radio, flags,
                 counts>>

\* em.merge overwrites the row with the id of the copy, or inserts the copy.
\* Only NodePowerLevelRegistrationProcess keeps the lock.
RegisterMerge(k) ==
  LET copy == registration[k].copy
  IN  /\ registration[k].pc = "merge"
      /\ nodes' = {r \in nodes : r.id # copy.id} \cup {copy}
      /\ nodesLock' = IF k = "POWER" THEN nodesLock ELSE "free"
      /\ registration' = [registration EXCEPT ![k] =
                            IF k = "DESCRIPTOR" THEN Receiving
                            ELSE [@ EXCEPT !.pc = "jobs"]]
      /\ UNCHANGED <<type, lastId, jobs, events, request, simple, radio,
                     flags, counts>>

\* The job of the next request is posted, or the jobs of the one that was
\* answered are deleted.
RegisterJobs(k) ==
  LET n == registration[k].copy.at
  IN  /\ registration[k].pc = "jobs"
      /\ IF k = "NODE"
         THEN \E next \in RequestKind :
                /\ Wanted(next) = registration[k].copy.type
                /\ jobs' = [jobs EXCEPT ![next][n] = "first"]
         ELSE jobs' = [jobs EXCEPT ![k][n] = "none"]
      /\ nodesLock' = IF k = "POWER" THEN "free" ELSE nodesLock
      /\ registration' = [registration EXCEPT ![k] =
                            IF k = "POWER" THEN Receiving
                            ELSE [@ EXCEPT !.pc = "event"]]
      /\ UNCHANGED <<type, rows, events, request, simple, radio, flags,
                     counts>>

\* NODE_DESCR_ACQUIRED, or NODE_ENDPOINTS_ACQUIRED if there is any endpoint.
RegisterEvent(k) ==
  LET copy == registration[k].copy
  IN  /\ registration[k].pc = "event"
      /\ IF k = "NODE"
         THEN /\ acquired' = [j \in RequestKind |->
                                Append(acquired[j], copy.at)]
              /\ UNCHANGED found
         ELSE /\ found' = IF copy.endpoints # {} THEN Append(found, copy.at)
                                                 ELSE found
              /\ UNCHANGED acquired
      /\ registration' = [registration EXCEPT ![k] = Receiving]
      /\ UNCHANGED <<type, rows, jobs, request, simple, nodesLock, radio,
                     flags, counts>>
-----------------------------------------------------------------------------
(***************************************************************************)
(* The devices, the radio, the clock, and the rows that come and go.       *)
(***************************************************************************)
\* A node descriptor, which another process asked for, perhaps repeatedly.
Describe(n) ==
  /\ described < MaxDescribed
  /\ described' = described + 1
  /\ answers' = answers \cup {[kind |-> "NODE", at |-> n, endpoints |-> {}]}
  /\ UNCHANGED <<type, rows, jobs, events, request, simple, registration,
                 nodesLock, asked, flags, faults>>

Answer(q) ==
  /\ q \in asked
  /\ asked' = asked \ {q}
  /\ answers' = answers \cup
       {[q EXCEPT !.endpoints = IF q.kind = "ENDPOINTS" THEN Endpoints ELSE @]}
  /\ UNCHANGED <<type, rows, jobs, events, request, simple, registration,
                 nodesLock, flags, counts>>

Lose ==
  /\ Fault(1)
  /\ \/ \E q \in asked : /\ q.kind \in Lossy
                         /\ asked' = asked \ {q} /\ UNCHANGED answers
     \/ \E p \in answers : /\ p.kind \in Lossy
                           /\ answers' = answers \ {p} /\ UNCHANGED asked
  /\ UNCHANGED <<type, rows, jobs, events, request, simple, registration,
                 nodesLock, flags, described>>

\* Nothing is on its way that would answer the request.
Lost(k, n) ==
  /\ \A q \in asked \cup answers : q.kind # k \/ q.at # n
  /\ request[k].pc \in {"post", "send"} => request[k].at # n
  /\ registration[k].pc \in {"exists", "merge", "jobs"} =>
       registration[k].copy.at # n

\* The timeout of a job, which may be early.
AgeJob(k, n) ==
  /\ jobs[k][n] = "repeated"
  /\ jobs' = [jobs EXCEPT ![k][n] = "overdue"]
  /\ \/ Lost(k, n) /\ UNCHANGED faults
     \/ ~Lost(k, n) /\ Fault(1)
  /\ UNCHANGED <<type, rows, events, request, simple, registration, nodesLock,
                 radio, flags, described>>

Leave(r) ==
  /\ r \in nodes
  /\ Fault(2)
  /\ nodes' = nodes \ {r} /\ removed' = TRUE
  /\ UNCHANGED <<type, lastId, jobs, events, request, simple, registration,
                 nodesLock, radio, abandoned, described>>

\* The device of a row that was removed announces itself.
Announce(n) ==
  /\ \A r \in nodes : r.at # n
  /\ lastId' = lastId + 1
  /\ nodes' = nodes \cup {NewRow(lastId', n)}
  /\ UNCHANGED <<type, jobs, events, request, simple, registration, nodesLock,
                 radio, flags, counts>>

\* jobs/cleanup removes the jobs of the addresses that have no row.
CleanupJobs ==
  /\ \E k \in RequestKind, n \in Nodes :
       jobs[k][n] # "none" /\ \A r \in nodes : r.at # n
  /\ jobs' = [k \in RequestKind |-> [n \in Nodes |->
                IF \E r \in nodes : r.at = n THEN jobs[k][n] ELSE "none"]]
  /\ UNCHANGED <<type, rows, events, request, simple, registration, nodesLock,
                 radio, flags, counts>>

Request(k) ==
  \/ RequestPoll(k) \/ RequestReceive(k) \/ RequestPost(k) \/ RequestSend(k)
  \/ \E n \in Nodes : RequestGet(k, n)
Simple ==
  SimpleReceive \/ SimpleGet \/ \E e \in Endpoints : SimpleSend(e)
Register(k) ==
  \/ RegisterExists(k) \/ RegisterMerge(k) \/ RegisterJobs(k)
  \/ RegisterEvent(k)

Next ==
  \/ \E k \in RequestKind : Request(k)
  \/ Simple \/ SimpleFail
  \/ \E p \in Packet : RegisterGet(p)
  \/ \E k \in Kind : Register(k)
  \/ \E n \in Nodes : Describe(n) \/ Announce(n)
  \/ \E q \in Packet : Answer(q)
  \/ Lose
  \/ \E k \in RequestKind, n \in Nodes : AgeJob(k, n)
  \/ \E r \in nodes : Leave(r)
  \/ CleanupJobs

Spec == Init /\ [][Next]_vars

\* The threads run, the clock does not stop, and what the radio does not lose
\* is answered.
Fairness ==
  /\ \A k \in RequestKind : WF_vars(Request(k))
  /\ WF_vars(Simple)
  /\ \A k \in Kind : WF_vars(Register(k))
  /\ WF_vars(\E p \in Packet : RegisterGet(p))
  /\ WF_vars(\E q \in Packet : Answer(q))
  /\ \A k \in RequestKind, n \in Nodes : WF_vars(AgeJob(k, n))

FairSpec == Spec /\ Fairness
-----------------------------------------------------------------------------
Row ==
  {r \in [id : Nat, at : Nodes, type : Type \cup {"UNDEFINED"},
          endpoints : SUBSET Endpoints, known : SUBSET Endpoints,
          power : BOOLEAN] : r.known \subseteq r.endpoints}

RequestState ==
  [pc : {"poll", "receive"}] \cup [pc : {"serve"}, due : SUBSET Nodes]
    \cup [pc : {"post", "send"}, due : SUBSET Nodes, at : Nodes]
SimpleState ==
  [pc : {"receive"}] \cup [pc : {"get"}, at : Nodes]
    \cup [pc : {"send"}, at : Nodes, left : SUBSET Endpoints, first : BOOLEAN]
RegistrationState ==
  [pc : {"receive", "dead"}]
    \cup [pc : {"exists", "merge", "jobs", "event"}, copy : Row,
          packet : Packet]

\* Every variable holds values of the shape that the actions assume: a row,
\* and the copy of one, knows descriptors of its own endpoints only.
TypeOK ==
  /\ type \in [Nodes -> Type]
  /\ nodes \subseteq Row /\ lastId \in Nat
  /\ jobs \in [RequestKind -> [Nodes ->
                 {"none", "first", "repeated", "overdue"}]]
  /\ acquired \in [RequestKind -> Seq(Nodes)] /\ found \in Seq(Nodes)
  /\ request \in [RequestKind -> RequestState] /\ simple \in SimpleState
  /\ registration \in [Kind -> RegistrationState]
  /\ nodesLock \in Kind \cup {"free"}
  /\ asked \subseteq Packet /\ answers \subseteq Packet
  /\ abandoned \in BOOLEAN /\ removed \in BOOLEAN
  /\ described \in Nat /\ faults \in Nat

\* No registration undoes another: the row that it sends back, which is the
\* one that it read with a part changed, is the row of the moment with that
\* part changed, however the registrations of one node interleave.  (An update
\* writes the row as a whole: this is what the lock that they share is for.)
NothingUndone ==
  [][\A k \in Kind :
       registration[k].pc = "merge" /\ registration'[k].pc # "merge" =>
         \A r \in nodes, s \in nodes' :
           r.id = s.id =>
             s \in {r, Filled(r, registration[k].packet)}]_vars

\* SimpleDescrRegistrationProcess does not meet an endpoint that its row does
\* not have, which would end its thread, as long as no row is removed: the
\* endpoints are registered before the first descriptor is asked for, and are
\* not forgotten.  (The descriptor of a device that was removed and announced
\* again does end it.)
DescriptorsFit == registration["DESCRIPTOR"].pc = "dead" => removed

\* As long as no row is removed, what a described node was asked for is
\* registered at last, and its job does not stay, though requests and answers
\* are lost, come late or are repeated.
NodesAcquired ==
  <>[](~removed =>
         /\ \A r \in nodes :
              /\ r.type = "END_DEVICE" => r.endpoints = Endpoints
              /\ r.type = "ROUTER" => r.power
         /\ \A k \in RequestKind, n \in Nodes : jobs[k][n] = "none")

\* The descriptors of all the endpoints of a node are registered at last: a
\* late registration of the endpoints, which forgets them, has them asked for
\* again, and a failure of the broker is made good.  Not if a descriptor is
\* lost, as it has no job, nor if the broker fails at the first endpoint.
DescriptorsAcquired ==
  <>[](~removed /\ ~abandoned => \A r \in nodes : r.known = r.endpoints)
=============================================================================
