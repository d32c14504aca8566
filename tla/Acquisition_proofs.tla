------------------------- MODULE Acquisition_proofs -------------------------
(***************************************************************************)
(* Proofs about Acquisition, for any devices, endpoints and faults.        *)
(***************************************************************************)
EXTENDS Acquisition, FiniteSetTheorems, TLAPS

-----------------------------------------------------------------------------
(***************************************************************************)
(* The inductive invariant: the types; the ids of the rows, which are      *)
(* never given twice; the lock, which the registration that is to write a  *)
(* row back holds; and the copy that it is to write, which is still the    *)
(* row of the moment with one part changed.                                *)
(***************************************************************************)
Writing == {"exists", "merge"}

\* Where the registration of kind k has the lock.
Holds(k) ==
  \/ registration[k].pc \in Writing
  \/ k = "POWER" /\ registration[k].pc = "jobs"

IdsOK ==
  /\ \A r, s \in nodes : r.id = s.id => r = s
  /\ \A r \in nodes : r.id <= lastId

LockOK == \A k \in Kind : Holds(k) => nodesLock = k

CopyOK ==
  \A k \in Kind :
    registration[k].pc \in Writing =>
      /\ registration[k].copy.id <= lastId
      /\ \A r \in nodes :
           r.id = registration[k].copy.id =>
             registration[k].copy = Filled(r, registration[k].packet)

Inv == TypeOK /\ IdsOK /\ LockOK /\ CopyOK

\* What a request process holds at each of its steps.
LEMMA RequestKinds ==
  ASSUME TypeOK, NEW k \in RequestKind
  PROVE  /\ request[k] \in RequestState
         /\ request[k].pc \in {"serve", "post", "send"} =>
              request[k].due \in SUBSET Nodes
         /\ request[k].pc \in {"post", "send"} => request[k].at \in Nodes
<1>1. request[k] \in RequestState
  BY DEF TypeOK
<1> QED
  BY <1>1 DEF RequestState

\* What a registration process holds at each of its steps.
LEMMA RegistrationKinds ==
  ASSUME TypeOK, NEW k \in Kind
  PROVE  /\ registration[k] \in RegistrationState
         /\ registration[k].pc \in {"exists", "merge", "jobs", "event"} =>
              /\ registration[k].copy \in Row
              /\ registration[k].packet \in Packet
<1>1. registration[k] \in RegistrationState
  BY DEF TypeOK
<1> QED
  BY <1>1 DEF RegistrationState

\* What a request process does after a node.
LEMMA ServeState ==
  ASSUME NEW due \in SUBSET Nodes
  PROVE  Serve(due) \in RequestState
BY DEF Serve, RequestState

\* A registration keeps the id and the shape of the row that it read.
LEMMA FilledRow ==
  ASSUME TypeOK, NEW r \in Row, NEW p \in Packet, ~Misses(r, p)
  PROVE  Filled(r, p) \in Row /\ Filled(r, p).id = r.id
<1>1. CASE p.kind = "NODE"
  <2>1. Filled(r, p) = [r EXCEPT !.type = type[p.at]]
    BY <1>1 DEF Filled
  <2>2. type[p.at] \in Type
    BY DEF TypeOK, Packet
  <2> QED
    BY <2>1, <2>2 DEF Row
<1>2. CASE p.kind = "ENDPOINTS"
  <2>1. Filled(r, p) = [r EXCEPT !.endpoints = p.endpoints, !.known = {}]
    BY <1>2 DEF Filled
  <2>2. p.endpoints \in SUBSET Endpoints
    BY DEF Packet
  <2> QED
    BY <2>1, <2>2 DEF Row
<1>3. CASE p.kind = "DESCRIPTOR"
  <2>1. Filled(r, p) = [r EXCEPT !.known = @ \cup p.endpoints]
    BY <1>3 DEF Filled
  <2>2. p.endpoints \subseteq r.endpoints /\ p.endpoints \in SUBSET Endpoints
    BY <1>3 DEF Misses, Packet
  <2> QED
    BY <2>1, <2>2 DEF Row
<1>4. CASE p.kind = "POWER"
  <2>1. Filled(r, p) = [r EXCEPT !.power = TRUE]
    BY <1>4 DEF Filled
  <2> QED
    BY <2>1 DEF Row
<1> QED
  BY <1>1, <1>2, <1>3, <1>4 DEF Packet, Kind, RequestKind

\* What a step that changes neither rows nor registrations preserves.
LEMMA Quiet ==
  ASSUME Inv, TypeOK',
         UNCHANGED <<type, nodes, lastId, registration, nodesLock>>
  PROVE  Inv'
BY DEF Inv, IdsOK, LockOK, Holds, CopyOK, Filled

\* The step of one registration, which may leave the lock but does not take
\* it, and changes no row: it writes back what it read, or no more.
LEMMA RegistrationStep ==
  ASSUME Inv, TypeOK', NEW k \in Kind, NEW s \in RegistrationState,
         registration' = [registration EXCEPT ![k] = s],
         UNCHANGED <<type, nodes, lastId>>,
         s.pc \in Writing => /\ registration[k].pc \in Writing
                             /\ s.copy = registration[k].copy
                             /\ s.packet = registration[k].packet,
         k = "POWER" /\ s.pc = "jobs" => Holds(k),
         \/ UNCHANGED nodesLock
         \/ nodesLock = k /\ s.pc \notin Writing
            /\ ~(k = "POWER" /\ s.pc = "jobs")
  PROVE  Inv'
<1>1. /\ registration'[k] = s
      /\ \A j \in Kind : j # k => registration'[j] = registration[j]
  BY DEF Inv, TypeOK
<1>2. IdsOK'
  BY DEF Inv, IdsOK
<1>3. LockOK'
  <2> SUFFICES ASSUME NEW j \in Kind, Holds(j)' PROVE nodesLock' = j
    BY DEF LockOK
  <2>1. Holds(j) /\ (j = k => UNCHANGED nodesLock)
    BY <1>1 DEF Holds
  <2> QED
    BY <2>1 DEF Inv, LockOK
<1>4. CopyOK'
  <2> SUFFICES ASSUME NEW j \in Kind, registration'[j].pc \in Writing
               PROVE  /\ registration'[j].copy.id <= lastId
                      /\ \A r \in nodes' :
                           r.id = registration'[j].copy.id =>
                             registration'[j].copy =
                               Filled(r, registration[j].packet)'
    BY DEF CopyOK
  <2>1. /\ registration[j].pc \in Writing
        /\ registration'[j].copy = registration[j].copy
        /\ registration'[j].packet = registration[j].packet
    BY <1>1
  <2> QED
    BY <2>1 DEF Inv, CopyOK, Filled
<1> QED
  BY <1>2, <1>3, <1>4 DEF Inv
-----------------------------------------------------------------------------
\* The invariant holds at first.
LEMMA InitInv == Init => Inv
<1> SUFFICES ASSUME Init PROVE Inv
  OBVIOUS
<1>1. Cardinality(Nodes) \in Nat
  BY SetAssumption, FS_CardinalityType
<1>2. PICK id \in [Nodes -> 1 .. Cardinality(Nodes)] :
        /\ \A m, n \in Nodes : id[m] = id[n] => m = n
        /\ nodes = {NewRow(id[n], n) : n \in Nodes}
  BY DEF Init
<1>3. \A n \in Nodes : id[n] \in Nat /\ id[n] <= Cardinality(Nodes)
  BY <1>1
<1>4. nodes \subseteq Row
  <2>1. ASSUME NEW n \in Nodes PROVE NewRow(id[n], n) \in Row
    BY <1>3 DEF NewRow, Row
  <2> QED
    BY <1>2, <2>1
<1>5. IdsOK
  <2>1. \A n \in Nodes : NewRow(id[n], n).id = id[n]
    BY DEF NewRow
  <2>2. \A r \in nodes : \E n \in Nodes : r = NewRow(id[n], n)
    BY <1>2
  <2>3. \A r, t \in nodes : r.id = t.id => r = t
    BY <1>2, <2>1, <2>2
  <2>4. \A r \in nodes : r.id <= lastId
    BY <1>3, <2>1, <2>2 DEF Init
  <2> QED
    BY <2>3, <2>4 DEF IdsOK
<1>6. /\ request \in [RequestKind -> RequestState] /\ simple \in SimpleState
      /\ registration \in [Kind -> RegistrationState]
  BY DEF Init, Receiving, RequestState, SimpleState, RegistrationState
<1>7. TypeOK
  <2>1. /\ jobs \in [RequestKind -> [Nodes ->
                      {"none", "first", "repeated", "overdue"}]]
        /\ acquired \in [RequestKind -> Seq(Nodes)]
    BY DEF Init
  <2>2. described \in Nat /\ faults \in Nat /\ found \in Seq(Nodes)
    BY DEF Init
  <2>3. /\ type \in [Nodes -> Type] /\ lastId \in Nat
        /\ nodesLock = "free" /\ asked = {} /\ answers = {}
        /\ abandoned = FALSE /\ removed = FALSE
    BY <1>1 DEF Init
  <2> QED
    BY <1>4, <1>6, <2>1, <2>2, <2>3 DEF TypeOK
<1>8. LockOK /\ CopyOK
  BY DEF Init, LockOK, CopyOK, Holds, Writing, Receiving
<1> QED
  BY <1>5, <1>7, <1>8 DEF Inv

\* A step of a request process keeps the invariant.
LEMMA RequestInv ==
  ASSUME Inv, NEW k \in RequestKind, Request(k)
  PROVE  Inv'
<1> USE DEF rows, events, radio, flags, counts
<1>0. TypeOK
  BY DEF Inv
<1>1. CASE RequestPoll(k)
  <2> DEFINE s == IF \A n \in Nodes : jobs[k][n] = "none" THEN Receiving
                  ELSE Serve({n \in Nodes :
                                jobs[k][n] \in {"first", "overdue"}})
  <2>1. s \in RequestState
    BY ServeState DEF Receiving, RequestState
  <2>2. request' = [request EXCEPT ![k] = s]
    BY <1>1 DEF RequestPoll
  <2> HIDE DEF s
  <2>3. TypeOK'
    BY <1>0, <1>1, <2>1, <2>2 DEF RequestPoll, TypeOK
  <2> QED
    BY <1>1, <2>3, Quiet DEF RequestPoll
<1>2. CASE RequestReceive(k)
  <2> DEFINE s == Serve({Head(acquired[k])})
  <2>1. acquired[k] \in Seq(Nodes) /\ acquired[k] # <<>>
    BY <1>0, <1>2 DEF RequestReceive, TypeOK
  <2>2. Head(acquired[k]) \in Nodes /\ Tail(acquired[k]) \in Seq(Nodes)
    BY <2>1
  <2>3. s \in RequestState
    BY <2>2, ServeState
  <2>4. request' = [request EXCEPT ![k] = s]
    BY <1>2 DEF RequestReceive
  <2> HIDE DEF s
  <2>5. acquired' \in [RequestKind -> Seq(Nodes)]
    BY <1>0, <1>2, <2>2 DEF RequestReceive, TypeOK
  <2>6. TypeOK'
    BY <1>0, <1>2, <2>3, <2>4, <2>5 DEF RequestReceive, TypeOK
  <2> QED
    BY <1>2, <2>6, Quiet DEF RequestReceive
<1>3. ASSUME NEW n \in Nodes, RequestGet(k, n)
      PROVE  Inv'
  <2> DEFINE due == request[k].due \ {n}
             post == [pc |-> "post", due |-> due, at |-> n]
  <2>1. due \in SUBSET Nodes
    BY <1>0, <1>3, RequestKinds DEF RequestGet
  <2> HIDE DEF due
  <2>2. post \in RequestState /\ Serve(due) \in RequestState
    BY <2>1, ServeState DEF RequestState
  <2>3. \/ request' = [request EXCEPT ![k] = post]
        \/ request' = [request EXCEPT ![k] = Serve(due)]
    BY <1>0, <1>3 DEF RequestGet, TypeOK, due
  <2> HIDE DEF post
  <2>4. TypeOK'
    BY <1>0, <1>3, <2>2, <2>3 DEF RequestGet, TypeOK
  <2> QED
    BY <1>3, <2>4, Quiet DEF RequestGet
<1>4. CASE RequestPost(k)
  <2> DEFINE s == [request[k] EXCEPT !.pc = "send"]
  <2>1. request[k] \in RequestState /\ request[k].at \in Nodes
    BY <1>0, <1>4, RequestKinds DEF RequestPost
  <2>2. s \in RequestState
    BY <1>4, <2>1 DEF RequestPost, RequestState
  <2>3. request' = [request EXCEPT ![k] = s]
    BY <1>4 DEF RequestPost
  <2> HIDE DEF s
  <2>4. jobs' \in [RequestKind -> [Nodes ->
                     {"none", "first", "repeated", "overdue"}]]
    BY <1>0, <1>4, <2>1 DEF RequestPost, TypeOK
  <2>5. TypeOK'
    BY <1>0, <1>4, <2>2, <2>3, <2>4 DEF RequestPost, TypeOK
  <2> QED
    BY <1>4, <2>5, Quiet DEF RequestPost
<1>5. CASE RequestSend(k)
  <2> DEFINE s == Serve(request[k].due)
             q == [kind |-> k, at |-> request[k].at, endpoints |-> {}]
  <2>1. request[k].due \in SUBSET Nodes /\ request[k].at \in Nodes
    BY <1>0, <1>5, RequestKinds DEF RequestSend
  <2>2. s \in RequestState
    BY <2>1, ServeState
  <2>3. q \in Packet
    BY <2>1 DEF Packet, Kind
  <2>4. request' = [request EXCEPT ![k] = s] /\ asked' = asked \cup {q}
    BY <1>5 DEF RequestSend
  <2> HIDE DEF s, q
  <2>5. TypeOK'
    BY <1>0, <1>5, <2>2, <2>3, <2>4 DEF RequestSend, TypeOK
  <2> QED
    BY <1>5, <2>5, Quiet DEF RequestSend
<1> QED
  BY <1>1, <1>2, <1>3, <1>4, <1>5 DEF Request

\* A step of SimpleDescrRequestProcess keeps the invariant.
LEMMA SimpleInv ==
  ASSUME Inv, Simple \/ SimpleFail
  PROVE  Inv'
<1> USE DEF rows, events, radio, flags, counts
<1>0. TypeOK
  BY DEF Inv
<1>1. CASE SimpleReceive
  <2>1. Head(found) \in Nodes /\ Tail(found) \in Seq(Nodes)
    BY <1>0, <1>1 DEF SimpleReceive, TypeOK
  <2>2. simple' \in SimpleState /\ found' \in Seq(Nodes)
    BY <1>1, <2>1 DEF SimpleReceive, SimpleState
  <2>3. TypeOK'
    BY <1>0, <1>1, <2>2 DEF SimpleReceive, TypeOK
  <2> QED
    BY <1>1, <2>3, Quiet DEF SimpleReceive
<1>2. CASE SimpleGet
  <2>1. simple.at \in Nodes
    BY <1>0, <1>2 DEF SimpleGet, TypeOK, SimpleState
  <2>2. simple' \in SimpleState
    <3>1. CASE \E r \in nodes : GetNode(simple.at, r) /\ r.endpoints # {}
      <4> DEFINE r == CHOOSE r \in nodes : GetNode(simple.at, r)
      <4>1. r \in nodes
        BY <3>1
      <4>2. r.endpoints \in SUBSET Endpoints
        BY <1>0, <4>1 DEF TypeOK, Row
      <4>3. simple' = [pc |-> "send", at |-> simple.at,
                       left |-> r.endpoints, first |-> TRUE]
        BY <1>2, <3>1 DEF SimpleGet
      <4> HIDE DEF r
      <4> QED
        BY <2>1, <4>2, <4>3 DEF SimpleState
    <3>2. CASE ~\E r \in nodes : GetNode(simple.at, r) /\ r.endpoints # {}
      BY <1>2, <3>2 DEF SimpleGet, Receiving, SimpleState
    <3> QED
      BY <3>1, <3>2
  <2>3. TypeOK'
    BY <1>0, <1>2, <2>2 DEF SimpleGet, TypeOK
  <2> QED
    BY <1>2, <2>3, Quiet DEF SimpleGet
<1>3. ASSUME NEW e \in Endpoints, SimpleSend(e)
      PROVE  Inv'
  <2>1. simple.at \in Nodes /\ simple.left \in SUBSET Endpoints
    BY <1>0, <1>3 DEF SimpleSend, TypeOK, SimpleState
  <2>2. [kind |-> "DESCRIPTOR", at |-> simple.at, endpoints |-> {e}]
          \in Packet
    BY <2>1 DEF Packet, Kind
  <2>3. [simple EXCEPT !.left = @ \ {e}, !.first = FALSE] \in SimpleState
    BY <1>0, <1>3, <2>1 DEF SimpleSend, TypeOK, SimpleState
  <2>4. simple' \in SimpleState
    BY <1>3, <2>3 DEF SimpleSend, Receiving, SimpleState
  <2>5. TypeOK'
    BY <1>0, <1>3, <2>2, <2>4 DEF SimpleSend, TypeOK
  <2> QED
    BY <1>3, <2>5, Quiet DEF SimpleSend
<1>4. CASE SimpleFail
  <2>1. Receiving \in SimpleState /\ simple \in SimpleState
    BY <1>0 DEF TypeOK, SimpleState, Receiving
  <2>2. \/ simple' = Receiving /\ abandoned' = TRUE
        \/ simple' = simple /\ abandoned' = abandoned
    BY <1>4 DEF SimpleFail
  <2>3. faults' \in Nat
    BY <1>0, <1>4 DEF SimpleFail, Fault, TypeOK
  <2>4. TypeOK'
    BY <1>0, <1>4, <2>1, <2>2, <2>3 DEF SimpleFail, TypeOK
  <2> QED
    BY <1>4, <2>4, Quiet DEF SimpleFail
<1> QED
  BY <1>1, <1>2, <1>3, <1>4 DEF Simple
\* A registration that takes a packet keeps the invariant.
LEMMA RegisterGetInv ==
  ASSUME Inv, NEW p \in Packet, RegisterGet(p)
  PROVE  Inv'
<1> USE DEF rows, events, radio, flags, counts
<1> DEFINE k == p.kind
<1>0. TypeOK /\ k \in Kind /\ registration[k].pc = "receive"
  BY DEF Inv, RegisterGet, Packet
<1>1. ASSUME NEW r \in nodes, GetNode(p.at, r), ~Misses(r, p),
             nodesLock' = k,
             registration' = [registration EXCEPT ![k] =
                                [pc |-> "exists", copy |-> Filled(r, p),
                                 packet |-> p]]
      PROVE  Inv'
  <2> DEFINE copy == Filled(r, p)
             s == [pc |-> "exists", copy |-> copy, packet |-> p]
  <2>1. copy \in Row /\ copy.id = r.id
    BY <1>0, <1>1, FilledRow DEF TypeOK
  <2>2. s \in RegistrationState
    BY <2>1 DEF RegistrationState
  <2>3. /\ registration'[k] = s
        /\ \A j \in Kind : j # k => registration'[j] = registration[j]
        /\ registration' \in [Kind -> RegistrationState]
    BY <1>0, <1>1, <2>2 DEF TypeOK
  <2>4. TypeOK'
    BY <1>0, <1>1, <2>3 DEF RegisterGet, TypeOK
  <2>5. \A j \in Kind : j # k => ~Holds(j) /\ ~Holds(j)'
    BY <2>3 DEF Inv, LockOK, Holds, RegisterGet, Kind, RequestKind
  <2>6. LockOK'
    BY <1>1, <2>5 DEF LockOK
  <2>7. copy.id <= lastId /\ \A t \in nodes : t.id = copy.id => t = r
    BY <2>1 DEF Inv, IdsOK
  <2>8. CopyOK'
    <3> SUFFICES ASSUME NEW j \in Kind, registration'[j].pc \in Writing
                 PROVE  /\ registration'[j].copy.id <= lastId'
                        /\ \A t \in nodes' :
                             t.id = registration'[j].copy.id =>
                               registration'[j].copy =
                                 Filled(t, registration[j].packet)'
      BY DEF CopyOK
    <3>1. j = k
      BY <2>5 DEF Holds
    <3>2. registration'[j].copy = copy /\ registration'[j].packet = p
      BY <2>3, <3>1
    <3>3. UNCHANGED <<type, nodes, lastId>>
      BY DEF RegisterGet
    <3>4. \A t \in nodes : t.id = copy.id =>
            copy = Filled(t, registration[j].packet)'
      BY <2>7, <3>2, <3>3 DEF Filled
    <3> QED
      BY <2>7, <3>2, <3>3, <3>4
  <2>9. IdsOK'
    BY DEF Inv, IdsOK, RegisterGet
  <2> QED
    BY <2>4, <2>6, <2>8, <2>9 DEF Inv
<1>2. ASSUME NEW r \in nodes, UNCHANGED nodesLock,
             registration' = [registration EXCEPT ![k].pc = "dead"]
      PROVE  Inv'
  <2> DEFINE s == [registration[k] EXCEPT !.pc = "dead"]
  <2>1. registration[k] \in RegistrationState
    BY <1>0 DEF TypeOK
  <2>2. s \in RegistrationState /\ s.pc = "dead"
    BY <1>0, <2>1 DEF RegistrationState
  <2>3. registration' = [registration EXCEPT ![k] = s]
    BY <1>2
  <2> HIDE DEF s
  <2>4. TypeOK'
    BY <1>0, <1>2, <2>2, <2>3 DEF RegisterGet, TypeOK
  <2> QED
    BY <1>0, <1>2, <2>2, <2>3, <2>4, RegistrationStep
    DEF RegisterGet, Writing
<1>3. ASSUME UNCHANGED <<registration, nodesLock>>
      PROVE  Inv'
  <2>1. TypeOK'
    BY <1>0, <1>3 DEF RegisterGet, TypeOK
  <2> QED
    BY <1>3, <2>1, Quiet DEF RegisterGet
<1> QED
  BY <1>1, <1>2, <1>3 DEF RegisterGet

\* A step of a registration, or its end, keeps the invariant.
LEMMA RegisterInv ==
  ASSUME Inv, NEW k \in Kind, Register(k)
  PROVE  Inv'
<1> USE DEF rows, events, radio, flags, counts
<1>0. TypeOK
  BY DEF Inv
<1> DEFINE me == registration[k]
<1>1. CASE RegisterExists(k)
  <2> DEFINE t == [me EXCEPT !.pc = "merge"]
  <2>1. me \in RegistrationState /\ me.pc = "exists"
    BY <1>0, <1>1 DEF RegisterExists, TypeOK
  <2>2. /\ t \in RegistrationState /\ t.pc = "merge"
        /\ t.copy = me.copy /\ t.packet = me.packet
    BY <2>1 DEF RegistrationState
  <2>3. Receiving \in RegistrationState /\ Receiving.pc = "receive"
    BY DEF Receiving, RegistrationState
  <2>4. nodesLock = k
    BY <2>1 DEF Inv, LockOK, Holds, Writing
  <2>5. CASE /\ registration' = [registration EXCEPT ![k].pc = "merge"]
             /\ UNCHANGED nodesLock
    <3>1. registration' = [registration EXCEPT ![k] = t]
      BY <2>5
    <3> HIDE DEF t
    <3>2. TypeOK'
      BY <1>0, <1>1, <2>2, <2>5, <3>1 DEF RegisterExists, TypeOK
    <3> QED
      BY <1>1, <2>1, <2>2, <2>5, <3>1, <3>2, RegistrationStep
      DEF RegisterExists, Writing
  <2>6. CASE /\ registration' = [registration EXCEPT ![k] = Receiving]
             /\ nodesLock' = "free"
    <3>1. TypeOK'
      BY <1>0, <1>1, <2>3, <2>6 DEF RegisterExists, TypeOK
    <3> QED
      BY <1>1, <2>3, <2>4, <2>6, <3>1, RegistrationStep
      DEF RegisterExists, Writing
  <2> QED
    BY <1>1, <2>5, <2>6 DEF RegisterExists
<1>2. CASE RegisterMerge(k)
  <2> DEFINE s == IF k = "DESCRIPTOR" THEN Receiving
                  ELSE [me EXCEPT !.pc = "jobs"]
             copy == me.copy
  <2>1. me \in RegistrationState /\ me.pc = "merge" /\ copy \in Row
    BY <1>0, <1>2, RegistrationKinds DEF RegisterMerge
  <2>2. nodesLock = k /\ copy.id <= lastId
    BY <2>1 DEF Inv, LockOK, CopyOK, Holds, Writing
  <2>3. s \in RegistrationState /\ s.pc \in {"receive", "jobs"}
    BY <2>1 DEF RegistrationState, Receiving
  <2>4. registration' = [registration EXCEPT ![k] = s]
    BY <1>2 DEF RegisterMerge
  <2>5. nodes' = {r \in nodes : r.id # copy.id} \cup {copy}
    BY <1>2 DEF RegisterMerge
  <2> HIDE DEF s
  <2>6. TypeOK'
    BY <1>0, <1>2, <2>1, <2>3, <2>4, <2>5 DEF RegisterMerge, TypeOK
  <2>7. IdsOK'
    BY <1>2, <2>2, <2>5 DEF Inv, IdsOK, RegisterMerge
  <2>8. /\ registration'[k] = s
        /\ \A j \in Kind : j # k => registration'[j] = registration[j]
    BY <1>0, <2>4 DEF TypeOK
  <2>9. \A j \in Kind : registration'[j].pc \notin Writing
    BY <2>2, <2>3, <2>8 DEF Inv, LockOK, Holds, Writing
  <2>10. \A j \in Kind : Holds(j)' => j = k /\ k = "POWER"
    BY <2>2, <2>8, <2>9 DEF Inv, LockOK, Holds
  <2>11. LockOK' /\ CopyOK'
    BY <1>2, <2>2, <2>9, <2>10 DEF LockOK, CopyOK, RegisterMerge
  <2> QED
    BY <2>6, <2>7, <2>11 DEF Inv
<1>3. CASE RegisterJobs(k)
  <2> DEFINE s == IF k = "POWER" THEN Receiving
                  ELSE [me EXCEPT !.pc = "event"]
  <2>1. me \in RegistrationState /\ me.pc = "jobs"
    BY <1>0, <1>3 DEF RegisterJobs, TypeOK
  <2>2. s \in RegistrationState /\ s.pc \in {"receive", "event"}
    BY <2>1 DEF RegistrationState, Receiving
  <2>3. registration' = [registration EXCEPT ![k] = s]
    BY <1>3 DEF RegisterJobs
  <2> HIDE DEF s
  <2>4. jobs' \in [RequestKind -> [Nodes ->
                     {"none", "first", "repeated", "overdue"}]]
    <3> DEFINE n == me.copy.at
               States == {"none", "first", "repeated", "overdue"}
    <3>1. jobs \in [RequestKind -> [Nodes -> States]]
      BY <1>0 DEF TypeOK
    <3>2. ASSUME NEW j, NEW v \in States,
                 jobs' = [jobs EXCEPT ![j][n] = v]
          PROVE  jobs' \in [RequestKind -> [Nodes -> States]]
      <4>1. CASE j \in RequestKind
        <5>1. [jobs[j] EXCEPT ![n] = v] \in [Nodes -> States]
          BY <3>1, <4>1
        <5>2. jobs' = [jobs EXCEPT ![j] = [jobs[j] EXCEPT ![n] = v]]
          BY <3>2
        <5> QED
          BY <3>1, <5>1, <5>2
      <4>2. CASE j \notin RequestKind
        BY <3>1, <3>2, <4>2
      <4> QED
        BY <4>1, <4>2
    <3>3. \E j : \/ jobs' = [jobs EXCEPT ![j][n] = "first"]
                 \/ jobs' = [jobs EXCEPT ![j][n] = "none"]
      BY <1>3 DEF RegisterJobs
    <3> QED
      BY <3>2, <3>3
  <2>5. nodesLock' \in {"free", nodesLock}
    BY <1>3 DEF RegisterJobs
  <2>6. TypeOK'
    BY <1>0, <1>3, <2>2, <2>3, <2>4, <2>5 DEF RegisterJobs, TypeOK
  <2>7. k = "POWER" => nodesLock = k
    BY <2>1 DEF Inv, LockOK, Holds
  <2>8. UNCHANGED nodesLock \/ nodesLock = k
    BY <1>3, <2>7 DEF RegisterJobs
  <2> QED
    BY <1>3, <2>2, <2>3, <2>6, <2>8, RegistrationStep
    DEF RegisterJobs, Writing
<1>4. CASE RegisterEvent(k)
  <2>1. me.copy.at \in Nodes
    BY <1>0, <1>4, RegistrationKinds DEF RegisterEvent, Row
  <2>2. Receiving \in RegistrationState /\ Receiving.pc = "receive"
    BY DEF Receiving, RegistrationState
  <2>3. acquired' \in [RequestKind -> Seq(Nodes)] /\ found' \in Seq(Nodes)
    <3> DEFINE at == me.copy.at
    <3>1. acquired \in [RequestKind -> Seq(Nodes)] /\ found \in Seq(Nodes)
      BY <1>0 DEF TypeOK
    <3>2. \/ /\ acquired' = [j \in RequestKind |-> Append(acquired[j], at)]
             /\ found' = found
          \/ /\ acquired' = acquired
             /\ found' \in {found, Append(found, at)}
      BY <1>4 DEF RegisterEvent
    <3> HIDE DEF at
    <3>3. at \in Nodes
      BY <2>1 DEF at
    <3>4. /\ \A j \in RequestKind : Append(acquired[j], at) \in Seq(Nodes)
          /\ Append(found, at) \in Seq(Nodes)
      BY <3>1, <3>3
    <3> QED
      BY <3>1, <3>2, <3>4
  <2>4. TypeOK'
    BY <1>0, <1>4, <2>2, <2>3 DEF RegisterEvent, TypeOK
  <2> QED
    BY <1>4, <2>2, <2>4, RegistrationStep DEF RegisterEvent, Writing
<1> QED
  BY <1>1, <1>2, <1>3, <1>4 DEF Register

\* A step of a device, the radio or the clock keeps the invariant.
LEMMA RadioInv ==
  ASSUME Inv,
         \/ \E n \in Nodes : Describe(n)
         \/ \E q \in Packet : Answer(q)
         \/ Lose
         \/ \E k \in RequestKind, n \in Nodes : AgeJob(k, n)
         \/ CleanupJobs
  PROVE  Inv'
<1> USE DEF rows, events, radio, flags, counts
<1>0. TypeOK
  BY DEF Inv
<1>1. ASSUME NEW n \in Nodes, Describe(n)
      PROVE  Inv'
  <2>1. [kind |-> "NODE", at |-> n, endpoints |-> {}] \in Packet
    BY DEF Packet, Kind
  <2>2. described' \in Nat
    BY <1>0, <1>1 DEF Describe, TypeOK
  <2>3. TypeOK'
    BY <1>0, <1>1, <2>1, <2>2 DEF Describe, TypeOK
  <2> QED
    BY <1>1, <2>3, Quiet DEF Describe
<1>2. ASSUME NEW q \in Packet, Answer(q)
      PROVE  Inv'
  <2>1. [q EXCEPT !.endpoints = IF q.kind = "ENDPOINTS" THEN Endpoints
                                                        ELSE @] \in Packet
    BY DEF Packet
  <2>2. TypeOK'
    BY <1>0, <1>2, <2>1 DEF Answer, TypeOK
  <2> QED
    BY <1>2, <2>2, Quiet DEF Answer
<1>3. CASE Lose
  <2>1. asked' \subseteq Packet /\ answers' \subseteq Packet
    BY <1>0, <1>3 DEF Lose, TypeOK
  <2>2. faults' \in Nat
    BY <1>0, <1>3 DEF Lose, Fault, TypeOK
  <2>3. TypeOK'
    BY <1>0, <1>3, <2>1, <2>2 DEF Lose, TypeOK
  <2> QED
    BY <1>3, <2>3, Quiet DEF Lose
<1>4. ASSUME NEW k \in RequestKind, NEW n \in Nodes, AgeJob(k, n)
      PROVE  Inv'
  <2>1. jobs' \in [RequestKind -> [Nodes ->
                     {"none", "first", "repeated", "overdue"}]]
    BY <1>0, <1>4 DEF AgeJob, TypeOK
  <2>2. faults' \in Nat
    BY <1>0, <1>4 DEF AgeJob, Fault, TypeOK
  <2>3. TypeOK'
    BY <1>0, <1>4, <2>1, <2>2 DEF AgeJob, TypeOK
  <2> QED
    BY <1>4, <2>3, Quiet DEF AgeJob
<1>5. CASE CleanupJobs
  <2>1. jobs' \in [RequestKind -> [Nodes ->
                     {"none", "first", "repeated", "overdue"}]]
    BY <1>0, <1>5 DEF CleanupJobs, TypeOK
  <2>2. TypeOK'
    BY <1>0, <1>5, <2>1 DEF CleanupJobs, TypeOK
  <2> QED
    BY <1>5, <2>2, Quiet DEF CleanupJobs
<1> QED
  BY <1>1, <1>2, <1>3, <1>4, <1>5

\* A row that goes or comes keeps the invariant: no copy has its id.
LEMMA RowInv ==
  ASSUME Inv, (\E r \in nodes : Leave(r)) \/ (\E n \in Nodes : Announce(n))
  PROVE  Inv'
<1> USE DEF rows, events, radio, flags, counts
<1>0. TypeOK
  BY DEF Inv
<1>1. ASSUME NEW r \in nodes, Leave(r)
      PROVE  Inv'
  <2>1. faults' \in Nat
    BY <1>0, <1>1 DEF Leave, Fault, TypeOK
  <2>2. TypeOK'
    BY <1>0, <1>1, <2>1 DEF Leave, TypeOK
  <2>3. IdsOK' /\ LockOK'
    BY <1>1 DEF Leave, Inv, IdsOK, LockOK, Holds
  <2>4. CopyOK'
    BY <1>1 DEF Leave, Inv, CopyOK, Filled
  <2> QED
    BY <2>2, <2>3, <2>4 DEF Inv
<1>2. ASSUME NEW n \in Nodes, Announce(n)
      PROVE  Inv'
  <2> DEFINE new == NewRow(lastId', n)
  <2>1. lastId \in Nat /\ lastId' = lastId + 1
    BY <1>0, <1>2 DEF Announce, TypeOK
  <2>2. new \in Row /\ new.id = lastId + 1
    BY <2>1 DEF NewRow, Row
  <2>3. nodes' = nodes \cup {new}
    BY <1>2 DEF Announce
  <2> HIDE DEF new
  <2>4. TypeOK'
    BY <1>0, <1>2, <2>1, <2>2, <2>3 DEF Announce, TypeOK
  <2>5. \A r \in nodes : r.id \in Nat /\ r.id <= lastId
    BY <1>0 DEF Inv, IdsOK, TypeOK, Row
  <2>6. IdsOK'
    BY <2>1, <2>2, <2>3, <2>5 DEF Inv, IdsOK
  <2>7. LockOK'
    BY <1>2 DEF Announce, Inv, LockOK, Holds
  <2>8. CopyOK'
    <3> SUFFICES ASSUME NEW k \in Kind, registration'[k].pc \in Writing
                 PROVE  /\ registration'[k].copy.id <= lastId'
                        /\ \A t \in nodes' :
                             t.id = registration'[k].copy.id =>
                               registration'[k].copy =
                                 Filled(t, registration[k].packet)'
      BY DEF CopyOK
    <3> DEFINE copy == registration[k].copy
    <3>1. UNCHANGED <<type, registration>>
      BY <1>2 DEF Announce
    <3>2. copy.id \in Nat /\ copy.id <= lastId
      BY <1>0, <3>1, RegistrationKinds DEF Inv, CopyOK, Writing, Row
    <3>3. \A t \in nodes' : t.id = copy.id => t \in nodes
      BY <2>1, <2>2, <2>3, <3>2
    <3>4. \A t \in nodes : t.id = copy.id =>
            copy = Filled(t, registration[k].packet)'
      BY <3>1 DEF Inv, CopyOK, Filled
    <3> QED
      BY <2>1, <3>1, <3>2, <3>3, <3>4
  <2> QED
    BY <2>4, <2>6, <2>7, <2>8 DEF Inv
<1> QED
  BY <1>1, <1>2

\* Every step keeps the invariant.
LEMMA NextInv == Inv /\ [Next]_vars => Inv'
<1> SUFFICES ASSUME Inv, [Next]_vars PROVE Inv'
  OBVIOUS
<1>1. CASE Next
  BY <1>1, RequestInv, SimpleInv, RegisterGetInv, RegisterInv, RadioInv, RowInv
  DEF Next
<1>2. CASE UNCHANGED vars
  <2>1. TypeOK'
    BY <1>2 DEF vars, rows, events, radio, flags, counts, Inv, TypeOK
  <2> QED
    BY <1>2, <2>1, Quiet DEF vars, rows
<1> QED
  BY <1>1, <1>2

LEMMA Inductive == Spec => []Inv
BY InitInv, NextInv, PTL DEF Spec

\* Every variable of the acquisition keeps its type, whatever the devices,
\* their endpoints and the faults; a row knows its own endpoints only.
THEOREM TypeCorrect == Spec => []TypeOK
<1>1. Inv => TypeOK
  BY DEF Inv
<1> QED
  BY <1>1, Inductive, PTL
-----------------------------------------------------------------------------
\* A registration that writes its row back is at its merge, not elsewhere.
LEMMA OnlyMerge ==
  ASSUME TypeOK, [Next]_vars, NEW k \in Kind,
         registration[k].pc = "merge", registration'[k].pc # "merge"
  PROVE  RegisterMerge(k)
<1> USE DEF rows, events, radio, flags, counts
<1>1. ASSUME registration'[k] = registration[k] PROVE FALSE
  BY <1>1
<1>2. ASSUME NEW j \in Kind, Register(j) PROVE RegisterMerge(k)
  <2>1. j = k
    <3>1. j # k => registration'[k] = registration[k]
      BY <1>2 DEF TypeOK, Register, RegisterExists, RegisterMerge,
                  RegisterJobs, RegisterEvent
    <3> QED
      BY <1>1, <3>1
  <2> QED
    BY <1>2, <2>1 DEF Register, RegisterExists, RegisterJobs, RegisterEvent
<1>3. ASSUME NEW p \in Packet, RegisterGet(p) PROVE FALSE
  <2>1. p.kind # k
    BY <1>3 DEF RegisterGet
  <2>2. registration'[k] = registration[k]
    BY <1>3, <2>1 DEF TypeOK, RegisterGet
  <2> QED
    BY <1>1, <2>2
<1>4. ASSUME NEW j \in RequestKind, Request(j) PROVE FALSE
  BY <1>1, <1>4 DEF Request, RequestPoll, RequestReceive, RequestGet,
                    RequestPost, RequestSend
<1>5. ASSUME Simple \/ SimpleFail PROVE FALSE
  BY <1>1, <1>5 DEF Simple, SimpleReceive, SimpleGet, SimpleSend, SimpleFail
<1>6. ASSUME \/ \E n \in Nodes : Describe(n) \/ Announce(n)
             \/ \E q \in Packet : Answer(q)
             \/ Lose
             \/ \E j \in RequestKind, n \in Nodes : AgeJob(j, n)
             \/ \E r \in nodes : Leave(r)
             \/ CleanupJobs
             \/ UNCHANGED vars
      PROVE  FALSE
  BY <1>1, <1>6 DEF Describe, Announce, Answer, Lose, AgeJob, Leave,
                    CleanupJobs, vars
<1> QED
  BY <1>2, <1>3, <1>4, <1>5, <1>6 DEF Next

\* No registration undoes another: the row that is written back is the row of
\* the moment, or that row with one part changed, however many nodes there
\* are and however the requests are lost, late or repeated.
THEOREM NothingUndoneCorrect == Spec => NothingUndone
<1> DEFINE Kept(k) ==
      registration[k].pc = "merge" /\ registration'[k].pc # "merge" =>
        \A r \in nodes, s \in nodes' :
          r.id = s.id => s \in {r, Filled(r, registration[k].packet)}
<1>1. ASSUME Inv, [Next]_vars PROVE \A k \in Kind : Kept(k)
  <2> SUFFICES ASSUME NEW k \in Kind,
                      registration[k].pc = "merge",
                      registration'[k].pc # "merge",
                      NEW r \in nodes, NEW s \in nodes', r.id = s.id
               PROVE  s \in {r, Filled(r, registration[k].packet)}
    OBVIOUS
  <2>1. RegisterMerge(k)
    BY <1>1, OnlyMerge DEF Inv
  <2>2. CASE s = registration[k].copy
    BY <1>1, <2>2 DEF Inv, CopyOK, Writing
  <2>3. CASE s \in nodes
    BY <1>1, <2>3 DEF Inv, IdsOK
  <2> QED
    BY <2>1, <2>2, <2>3 DEF RegisterMerge
<1>2. Inv /\ [Next]_vars => [\A k \in Kind : Kept(k)]_vars
  BY <1>1
<1> QED
  BY <1>2, Inductive, PTL DEF Spec, NothingUndone
-----------------------------------------------------------------------------
(***************************************************************************)
(* As long as no row is removed: every device has one row, whose endpoints *)
(* are none or all; what a registration is to write back is such a row;    *)
(* and whoever asks, is asked or answers for a descriptor does so for a    *)
(* node whose endpoints are in its row.                                    *)
(***************************************************************************)
Listed(n) == \A r \in nodes : r.at = n => r.endpoints = Endpoints

RowsFit ==
  /\ \A n \in Nodes : \E r \in nodes : GetNode(n, r)
  /\ \A r \in nodes : r.endpoints \in {{}, Endpoints}

CopiesFit ==
  \A k \in Kind :
    registration[k].pc \in Writing =>
      /\ \E r \in nodes : r.id = registration[k].copy.id
      /\ registration[k].packet.kind = "ENDPOINTS" =>
           registration[k].packet.endpoints = Endpoints

PacketsFit ==
  /\ \A p \in answers : p.kind = "ENDPOINTS" => p.endpoints = Endpoints
  /\ \A q \in asked \cup answers : q.kind = "DESCRIPTOR" => Listed(q.at)

SimpleFits == simple.pc = "send" => Listed(simple.at)

Alive == registration["DESCRIPTOR"].pc # "dead"

FitInv == ~removed => RowsFit /\ CopiesFit /\ PacketsFit /\ SimpleFits /\ Alive

\* A row is found at its own address, and no other is.
LEMMA Found ==
  ASSUME NEW n, NEW r \in nodes, GetNode(n, r)
  PROVE  r.at = n /\ \A s \in nodes : s.at = n => s = r
BY DEF GetNode

\* A step that changes no row: no registration takes a row, and what is asked
\* or answered goes on from what was asked for.
LEMMA FitStep ==
  ASSUME FitInv, UNCHANGED <<nodes, removed>>,
         \A k \in Kind : registration'[k].pc \in Writing =>
           /\ registration[k].pc \in Writing
           /\ registration'[k].copy = registration[k].copy
           /\ registration'[k].packet = registration[k].packet,
         registration'["DESCRIPTOR"].pc = "dead" => ~Alive,
         \A p \in answers' :
           \/ p \in answers
           \/ p.kind \notin {"ENDPOINTS", "DESCRIPTOR"}
           \/ p.kind = "ENDPOINTS" /\ p.endpoints = Endpoints
           \/ p.kind = "DESCRIPTOR"
              /\ \E q \in asked : q.kind = "DESCRIPTOR" /\ q.at = p.at,
         \A q \in asked' :
           \/ q \in asked
           \/ q.kind # "DESCRIPTOR"
           \/ simple.pc = "send" /\ q.at = simple.at,
         simple'.pc = "send" =>
           \/ simple.pc = "send" /\ simple'.at = simple.at
           \/ ~removed => Listed(simple'.at)
  PROVE  FitInv'
<1> SUFFICES ASSUME ~removed PROVE (RowsFit /\ CopiesFit /\ PacketsFit
                                      /\ SimpleFits /\ Alive)'
  BY DEF FitInv
<1>1. RowsFit /\ CopiesFit /\ PacketsFit /\ SimpleFits /\ Alive
  BY DEF FitInv
<1>2. \A n : Listed(n)' <=> Listed(n)
  BY DEF Listed
<1>3. RowsFit'
  BY <1>1 DEF RowsFit, GetNode
<1>4. CopiesFit'
  BY <1>1 DEF CopiesFit
<1>5. PacketsFit'
  <2>1. \A q \in asked' : q.kind = "DESCRIPTOR" => Listed(q.at)
    BY <1>1 DEF PacketsFit, SimpleFits
  <2>2. \A p \in answers' : p.kind = "DESCRIPTOR" => Listed(p.at)
    BY <1>1 DEF PacketsFit
  <2>3. \A p \in answers' : p.kind = "ENDPOINTS" => p.endpoints = Endpoints
    BY <1>1 DEF PacketsFit
  <2> QED
    BY <1>2, <2>1, <2>2, <2>3 DEF PacketsFit
<1>6. SimpleFits' /\ Alive'
  BY <1>1, <1>2 DEF SimpleFits, Alive
<1> QED
  BY <1>3, <1>4, <1>5, <1>6

LEMMA InitFit == Init => FitInv
<1> SUFFICES ASSUME Init PROVE FitInv
  OBVIOUS
<1>1. PICK id \in [Nodes -> 1 .. Cardinality(Nodes)] :
        nodes = {NewRow(id[n], n) : n \in Nodes}
  BY DEF Init
<1>2. RowsFit
  <2>1. ASSUME NEW n \in Nodes PROVE \E r \in nodes : GetNode(n, r)
    <3>1. NewRow(id[n], n) \in nodes
      BY <1>1
    <3>2. \A s \in nodes : s.at = n <=> s = NewRow(id[n], n)
      BY <1>1 DEF NewRow
    <3>3. {s \in nodes : s.at = n} = {NewRow(id[n], n)}
      BY <3>1, <3>2
    <3> QED
      BY <3>1, <3>3 DEF GetNode
  <2>2. \A r \in nodes : r.endpoints = {}
    BY <1>1 DEF NewRow
  <2> QED
    BY <2>1, <2>2 DEF RowsFit
<1>3. CopiesFit /\ PacketsFit /\ SimpleFits /\ Alive
  BY DEF Init, Receiving, CopiesFit, Writing, PacketsFit, SimpleFits, Alive,
         Kind
<1> QED
  BY <1>2, <1>3 DEF FitInv

\* A request asks for no descriptor.
LEMMA RequestFit ==
  ASSUME FitInv, NEW k \in RequestKind, Request(k)
  PROVE  FitInv'
<1> USE DEF rows, events, radio, flags, counts
<1>1. UNCHANGED <<nodes, removed, registration, simple, answers>>
  BY DEF Request, RequestPoll, RequestReceive, RequestGet, RequestPost,
         RequestSend
<1>2. \/ asked' = asked
      \/ asked' = asked \cup
           {[kind |-> k, at |-> request[k].at, endpoints |-> {}]}
  BY DEF Request, RequestPoll, RequestReceive, RequestGet, RequestPost,
         RequestSend
<1>3. \A q \in asked' : q \in asked \/ q.kind # "DESCRIPTOR"
  BY <1>2 DEF RequestKind
<1> QED
  BY <1>1, <1>3, FitStep DEF Alive

\* SimpleDescrRequestProcess asks about the endpoints that it found.
LEMMA SimpleFit ==
  ASSUME FitInv, Simple \/ SimpleFail
  PROVE  FitInv'
<1> USE DEF rows, events, radio, flags, counts
<1>1. UNCHANGED <<nodes, removed, registration, answers>>
  BY DEF Simple, SimpleReceive, SimpleGet, SimpleSend, SimpleFail
<1>2. CASE SimpleGet
  <2>1. UNCHANGED asked
    BY <1>2 DEF SimpleGet
  <2>2. ASSUME ~removed, simple'.pc = "send" PROVE Listed(simple'.at)
    <3>1. PICK r \in nodes : GetNode(simple.at, r) /\ r.endpoints # {}
      BY <1>2, <2>2 DEF SimpleGet, Receiving
    <3>2. simple'.at = simple.at
      BY <1>2, <3>1 DEF SimpleGet
    <3>3. r.endpoints = Endpoints
      BY <2>2, <3>1 DEF FitInv, RowsFit
    <3> QED
      BY <3>1, <3>2, <3>3, Found DEF Listed
  <2> QED
    BY <1>1, <2>1, <2>2, FitStep DEF Alive
<1>3. ASSUME NEW e \in Endpoints, SimpleSend(e) PROVE FitInv'
  <2>1. simple.pc = "send" /\ \A q \in asked' : q \in asked \/ q.at = simple.at
    BY <1>3 DEF SimpleSend
  <2>2. simple'.pc = "send" => simple'.at = simple.at
    BY <1>3 DEF SimpleSend, Receiving
  <2> QED
    BY <1>1, <2>1, <2>2, FitStep DEF Alive
<1>4. CASE SimpleReceive \/ SimpleFail
  <2>1. UNCHANGED asked /\ (simple'.pc = "send" => simple' = simple)
    BY <1>4 DEF SimpleReceive, SimpleFail, Receiving
  <2> QED
    BY <1>1, <2>1, FitStep DEF Alive
<1> QED
  BY <1>2, <1>3, <1>4 DEF Simple

\* A registration reads a row that is there, and addDevice does not throw.
LEMMA RegisterGetFit ==
  ASSUME Inv, FitInv, NEW p \in Packet, RegisterGet(p)
  PROVE  FitInv'
<1> USE DEF rows, events, radio, flags, counts
<1> DEFINE k == p.kind
<1>0. /\ TypeOK /\ k \in Kind /\ p \in answers
      /\ UNCHANGED <<nodes, removed, simple, asked>>
      /\ answers' \subseteq answers
  BY DEF Inv, RegisterGet, Packet
<1>1. SUFFICES ASSUME ~removed PROVE FitInv'
  BY <1>0 DEF FitInv
<1>2. RowsFit /\ CopiesFit /\ PacketsFit /\ SimpleFits /\ Alive
  BY <1>1 DEF FitInv
<1>3. ASSUME NEW r \in nodes, GetNode(p.at, r), ~Misses(r, p),
             registration' = [registration EXCEPT ![k] =
                                [pc |-> "exists", copy |-> Filled(r, p),
                                 packet |-> p]]
      PROVE  FitInv'
  <2> DEFINE s == [pc |-> "exists", copy |-> Filled(r, p), packet |-> p]
  <2>1. Filled(r, p).id = r.id
    BY <1>0, <1>3, FilledRow DEF TypeOK
  <2>2. /\ registration'[k] = s
        /\ \A j \in Kind : j # k => registration'[j] = registration[j]
    BY <1>0, <1>3 DEF TypeOK
  <2>3. k = "ENDPOINTS" => p.endpoints = Endpoints
    BY <1>0, <1>2 DEF PacketsFit
  <2>4. CopiesFit'
    <3> SUFFICES ASSUME NEW j \in Kind, registration'[j].pc \in Writing
                 PROVE  /\ \E t \in nodes : t.id = registration'[j].copy.id
                        /\ registration'[j].packet.kind = "ENDPOINTS" =>
                             registration'[j].packet.endpoints = Endpoints
      BY <1>0 DEF CopiesFit
    <3>1. CASE j = k
      <4>1. /\ registration'[j].copy = Filled(r, p)
            /\ registration'[j].packet = p
        BY <2>2, <3>1
      <4> QED
        BY <2>1, <2>3, <4>1
    <3>2. CASE j # k
      BY <1>2, <2>2, <3>2 DEF CopiesFit
    <3> QED
      BY <3>1, <3>2
  <2>5. RowsFit' /\ SimpleFits'
    BY <1>0, <1>2 DEF RowsFit, GetNode, SimpleFits, Listed
  <2>6. PacketsFit'
    BY <1>0, <1>2 DEF PacketsFit, Listed
  <2>7. Alive'
    BY <1>2, <2>2 DEF Alive, Kind
  <2> QED
    BY <2>4, <2>5, <2>6, <2>7 DEF FitInv
<1>4. ASSUME NEW r \in nodes, GetNode(p.at, r), Misses(r, p)
      PROVE  FALSE
  <2>1. k = "DESCRIPTOR" /\ ~(p.endpoints \subseteq r.endpoints)
    BY <1>4 DEF Misses
  <2>2. r.endpoints = Endpoints
    BY <1>0, <1>2, <1>4, <2>1, Found DEF PacketsFit, Listed
  <2> QED
    BY <2>1, <2>2 DEF Packet
<1>5. CASE UNCHANGED registration
  BY <1>0, <1>5, FitStep DEF Alive
<1> QED
  BY <1>3, <1>4, <1>5 DEF RegisterGet

\* What is written back is the row of its address, with as many endpoints.
LEMMA MergeFit ==
  ASSUME Inv, FitInv, NEW k \in Kind, RegisterMerge(k)
  PROVE  FitInv'
<1> USE DEF rows, events, radio, flags, counts
<1> DEFINE me == registration[k]
           copy == me.copy
<1>0. /\ TypeOK /\ me.pc = "merge"
      /\ UNCHANGED <<removed, simple, asked, answers>>
      /\ nodes' = {r \in nodes : r.id # copy.id} \cup {copy}
  BY DEF Inv, RegisterMerge
<1>1. SUFFICES ASSUME ~removed PROVE FitInv'
  BY <1>0 DEF FitInv
<1>2. RowsFit /\ CopiesFit /\ PacketsFit /\ SimpleFits /\ Alive
  BY <1>1 DEF FitInv
<1>3. copy \in Row /\ me.packet \in Packet
  BY <1>0, RegistrationKinds
<1>4. PICK old \in nodes : old.id = copy.id
  BY <1>0, <1>2 DEF CopiesFit, Writing
<1>5. copy = Filled(old, me.packet)
  BY <1>0, <1>4 DEF Inv, CopyOK, Writing
<1>6. old \in Row /\ \A r \in nodes : r.id = copy.id => r = old
  BY <1>0, <1>4 DEF Inv, IdsOK, TypeOK
<1>7. copy.at = old.at /\ copy.endpoints \in {old.endpoints, Endpoints}
  <2> DEFINE p == me.packet
  <2>1. p.kind = "ENDPOINTS" => p.endpoints = Endpoints
    BY <1>0, <1>2 DEF CopiesFit, Writing
  <2>2. p.kind \in {"NODE", "ENDPOINTS", "DESCRIPTOR", "POWER"}
    BY <1>3 DEF Packet, Kind, RequestKind
  <2> HIDE DEF p, copy
  <2>3. CASE p.kind = "NODE"
    <3>1. copy = [old EXCEPT !.type = type[p.at]]
      BY <1>5, <2>3 DEF Filled, p
    <3> QED
      BY <1>6, <3>1 DEF Row
  <2>4. CASE p.kind = "ENDPOINTS"
    <3>1. copy = [old EXCEPT !.endpoints = p.endpoints, !.known = {}]
      BY <1>5, <2>4 DEF Filled, p
    <3> QED
      BY <1>6, <2>1, <2>4, <3>1 DEF Row
  <2>5. CASE p.kind = "DESCRIPTOR"
    <3>1. copy = [old EXCEPT !.known = @ \cup p.endpoints]
      BY <1>5, <2>5 DEF Filled, p
    <3> QED
      BY <1>6, <3>1 DEF Row
  <2>6. CASE p.kind = "POWER"
    <3>1. copy = [old EXCEPT !.power = TRUE]
      BY <1>5, <2>6 DEF Filled, p
    <3> QED
      BY <1>6, <3>1 DEF Row
  <2> QED
    BY <2>2, <2>3, <2>4, <2>5, <2>6
<1> HIDE DEF copy
<1>8. \A s \in nodes' : s = copy \/ (s \in nodes /\ s # old)
  BY <1>0, <1>4
<1>9. \A r \in nodes : r # old => r \in nodes'
  BY <1>0, <1>6
<1>10. copy \in nodes'
  BY <1>0
<1>11. RowsFit'
  <2>1. ASSUME NEW n \in Nodes PROVE \E s \in nodes' : GetNode(n, s)'
    <3>1. PICK r \in nodes : GetNode(n, r)
      BY <1>2 DEF RowsFit
    <3>2. r.at = n /\ \A s \in nodes : s.at = n => s = r
      BY <3>1, Found
    <3> DEFINE new == IF r = old THEN copy ELSE r
    <3>3. new \in nodes' /\ new.at = n
      BY <1>7, <1>9, <1>10, <3>2
    <3>4. \A s \in nodes' : s.at = n => s = new
      BY <1>7, <1>8, <3>2
    <3> HIDE DEF new
    <3>5. {s \in nodes' : s.at = n} = {new}
      BY <3>3, <3>4
    <3> QED
      BY <3>3, <3>5 DEF GetNode
  <2>2. \A s \in nodes' : s.endpoints \in {{}, Endpoints}
    BY <1>2, <1>7, <1>8 DEF RowsFit
  <2> QED
    BY <2>1, <2>2 DEF RowsFit
<1>12. \A n : Listed(n) => Listed(n)'
  BY <1>7, <1>8 DEF Listed
<1>13. PacketsFit' /\ SimpleFits'
  BY <1>0, <1>2, <1>12 DEF PacketsFit, SimpleFits
<1>14. /\ \A j \in Kind : j # k => registration'[j] = registration[j]
       /\ registration'[k].pc \in {"receive", "jobs"}
  BY <1>0, RegistrationKinds
  DEF RegisterMerge, TypeOK, Receiving, RegistrationState
<1>15. CopiesFit'
  <2>1. \A j \in Kind : j # k => registration[j].pc \notin Writing
    BY <1>0 DEF Inv, LockOK, Holds, Writing
  <2> QED
    BY <1>14, <2>1 DEF CopiesFit, Writing
<1>16. Alive'
  BY <1>2, <1>14 DEF Alive, Kind
<1> QED
  BY <1>11, <1>13, <1>15, <1>16 DEF FitInv

LEMMA RegisterFit ==
  ASSUME Inv, FitInv, NEW k \in Kind, Register(k)
  PROVE  FitInv'
<1> USE DEF rows, events, radio, flags, counts
<1> DEFINE me == registration[k]
<1>1. CASE RegisterMerge(k)
  BY <1>1, MergeFit
<1>2. CASE RegisterExists(k) \/ RegisterJobs(k) \/ RegisterEvent(k)
  <2>1. UNCHANGED <<nodes, removed, simple, asked, answers>>
    BY <1>2 DEF RegisterExists, RegisterJobs, RegisterEvent
  <2>2. me \in RegistrationState /\ me.pc \in {"exists", "jobs", "event"}
    BY <1>2, RegistrationKinds
    DEF Inv, RegisterExists, RegisterJobs, RegisterEvent
  <2>3. \/ registration' = [registration EXCEPT ![k] = Receiving]
        \/ /\ me.pc = "exists"
           /\ registration' = [registration EXCEPT ![k].pc = "merge"]
        \/ registration' = [registration EXCEPT ![k].pc = "event"]
    BY <1>2 DEF RegisterExists, RegisterJobs, RegisterEvent
  <2>4. /\ \A j \in Kind : j # k => registration'[j] = registration[j]
        /\ registration'[k].pc \in {"receive", "merge", "event"}
        /\ registration'[k].pc = "merge" =>
             /\ me.pc = "exists"
             /\ registration'[k].copy = me.copy
             /\ registration'[k].packet = me.packet
    BY <2>2, <2>3 DEF Inv, TypeOK, RegistrationState, Receiving
  <2>5. \A j \in Kind : registration'[j].pc \in Writing =>
          /\ registration[j].pc \in Writing
          /\ registration'[j].copy = registration[j].copy
          /\ registration'[j].packet = registration[j].packet
    BY <2>4 DEF Writing
  <2>6. registration'["DESCRIPTOR"].pc = "dead" => ~Alive
    BY <2>4 DEF Alive, Kind
  <2> QED
    BY <2>1, <2>5, <2>6, FitStep
<1> QED
  BY <1>1, <1>2 DEF Register

\* An answer is about the node that was asked, and of an end device it has
\* all the endpoints.
LEMMA RadioFit ==
  ASSUME FitInv,
         \/ \E n \in Nodes : Describe(n)
         \/ \E q \in Packet : Answer(q)
         \/ Lose
         \/ \E k \in RequestKind, n \in Nodes : AgeJob(k, n)
         \/ CleanupJobs
  PROVE  FitInv'
<1> USE DEF rows, events, radio, flags, counts
<1>1. UNCHANGED <<nodes, removed, simple, registration>>
  BY DEF Describe, Answer, Lose, AgeJob, CleanupJobs
<1>2. asked' \subseteq asked
  BY DEF Describe, Answer, Lose, AgeJob, CleanupJobs
<1>3. ASSUME NEW p \in answers'
      PROVE  \/ p \in answers
             \/ p.kind \notin {"ENDPOINTS", "DESCRIPTOR"}
             \/ p.kind = "ENDPOINTS" /\ p.endpoints = Endpoints
             \/ p.kind = "DESCRIPTOR"
                /\ \E q \in asked : q.kind = "DESCRIPTOR" /\ q.at = p.at
  <2>1. CASE \E n \in Nodes : Describe(n)
    BY <2>1 DEF Describe
  <2>2. ASSUME NEW q \in Packet, Answer(q), p \notin answers
        PROVE  /\ p.kind = "ENDPOINTS" => p.endpoints = Endpoints
               /\ q \in asked /\ q.kind = p.kind /\ q.at = p.at
    <3>1. p = [q EXCEPT !.endpoints =
                 IF q.kind = "ENDPOINTS" THEN Endpoints ELSE @]
      BY <2>2 DEF Answer
    <3> QED
      BY <2>2, <3>1 DEF Answer, Packet
  <2>3. CASE \/ Lose \/ CleanupJobs
             \/ \E k \in RequestKind, n \in Nodes : AgeJob(k, n)
    BY <2>3 DEF Lose, CleanupJobs, AgeJob
  <2> QED
    BY <2>1, <2>2, <2>3
<1> QED
  BY <1>1, <1>2, <1>3, FitStep DEF Alive

\* A row goes only by a removal, and comes only where there is none.
LEMMA RowFit ==
  ASSUME FitInv, (\E r \in nodes : Leave(r)) \/ (\E n \in Nodes : Announce(n))
  PROVE  FitInv'
<1>1. ASSUME NEW r \in nodes, Leave(r) PROVE FitInv'
  BY <1>1 DEF Leave, FitInv
<1>2. ASSUME NEW n \in Nodes, Announce(n) PROVE FitInv'
  <2>1. ~\E r \in nodes : GetNode(n, r)
    BY <1>2, Found DEF Announce
  <2>2. removed /\ removed' = removed
    BY <1>2, <2>1 DEF FitInv, RowsFit, Announce, flags
  <2> QED
    BY <2>2 DEF FitInv
<1> QED
  BY <1>1, <1>2

LEMMA NextFit == Inv /\ FitInv /\ [Next]_vars => FitInv'
<1> SUFFICES ASSUME Inv, FitInv, [Next]_vars PROVE FitInv'
  OBVIOUS
<1>1. CASE Next
  BY <1>1, RequestFit, SimpleFit, RegisterGetFit, RegisterFit, RadioFit, RowFit
  DEF Next
<1>2. CASE UNCHANGED vars
  BY <1>2, FitStep DEF vars, rows, events, radio, flags, counts, Alive
<1> QED
  BY <1>1, <1>2

\* As long as no row is removed, and whatever is lost, repeated, late or given
\* up: every device has its one row, with none of its endpoints or with all of
\* them; a descriptor is asked for, or comes, only when the row of its node has
\* them all; and so the thread of SimpleDescrRegistrationProcess, which an
\* endpoint that is not in the row would end, does not end.
THEOREM DescriptorsFitCorrect ==
  Spec => [](DescriptorsFit
             /\ (~removed => RowsFit /\ PacketsFit /\ SimpleFits))
<1>1. FitInv => /\ DescriptorsFit
                /\ ~removed => RowsFit /\ PacketsFit /\ SimpleFits
  BY DEF FitInv, Alive, DescriptorsFit
<1> QED
  BY <1>1, InitFit, NextFit, Inductive, PTL DEF Spec

-----------------------------------------------------------------------------
(***************************************************************************)
(* No node is forgotten: as long as no row is removed, a row whose type is *)
(* known, and which does not have what a node of this type is asked for,   *)
(* has a job, or is about to get it from the registration of its type.     *)
(***************************************************************************)
Has(k, r) == IF k = "ENDPOINTS" THEN r.endpoints = Endpoints ELSE r.power

\* NodeDescrRegistrationProcess has yet to post the job of the next request.
Handed(n) ==
  registration["NODE"].pc = "jobs" /\ registration["NODE"].copy.at = n

Awaited ==
  \A k \in RequestKind, r \in nodes :
    r.type = Wanted(k) /\ ~Has(k, r) => jobs[k][r.at] # "none" \/ Handed(r.at)

TypesTrue == \A r \in nodes : r.type \in {"UNDEFINED", type[r.at]}

CopiesTrue ==
  /\ \A k \in Kind : registration[k].pc \in Writing =>
       /\ registration[k].packet.kind = k
       /\ registration[k].packet.at = registration[k].copy.at
  /\ registration["NODE"].pc \in {"exists", "merge", "jobs"} =>
       registration["NODE"].copy.type = type[registration["NODE"].copy.at]

\* Who is to delete the jobs of a request has registered its answer.
DoneFor ==
  \A k \in RequestKind : registration[k].pc = "jobs" =>
    \A r \in nodes : r.at = registration[k].copy.at => Has(k, r)

AwaitInv == ~removed => TypesTrue /\ CopiesTrue /\ DoneFor /\ Awaited

\* What a registration changes in the row that it read.
LEMMA FilledFields ==
  ASSUME NEW r \in Row, NEW p \in Packet
  PROVE  /\ Filled(r, p).at = r.at /\ Filled(r, p).id = r.id
         /\ Filled(r, p).type = IF p.kind = "NODE" THEN type[p.at] ELSE r.type
         /\ Filled(r, p).power = (p.kind = "POWER" \/ r.power)
         /\ Filled(r, p).endpoints =
              IF p.kind = "ENDPOINTS" THEN p.endpoints ELSE r.endpoints
         /\ Filled(r, p).known =
              IF p.kind = "ENDPOINTS" THEN {}
              ELSE IF p.kind = "DESCRIPTOR" THEN r.known \cup p.endpoints
              ELSE r.known
<1>0. r.power \in BOOLEAN
  BY DEF Row
<1>1. CASE p.kind = "NODE"
  <2>1. Filled(r, p) = [r EXCEPT !.type = type[p.at]]
    BY <1>1 DEF Filled
  <2> QED
    BY <1>1, <2>1 DEF Row
<1>2. CASE p.kind = "ENDPOINTS"
  <2>1. Filled(r, p) = [r EXCEPT !.endpoints = p.endpoints, !.known = {}]
    BY <1>2 DEF Filled
  <2> QED
    BY <1>2, <2>1 DEF Row
<1>3. CASE p.kind = "DESCRIPTOR"
  <2>1. Filled(r, p) = [r EXCEPT !.known = @ \cup p.endpoints]
    BY <1>3 DEF Filled
  <2> QED
    BY <1>3, <2>1 DEF Row
<1>4. CASE p.kind = "POWER"
  <2>1. Filled(r, p) = [r EXCEPT !.power = TRUE]
    BY <1>4 DEF Filled
  <2> QED
    BY <1>0, <1>4, <2>1 DEF Row
<1> QED
  BY <1>1, <1>2, <1>3, <1>4 DEF Packet, Kind, RequestKind

\* What a merge does as long as no row is removed: it replaces the row of its
\* address, the only one, by what its packet makes of it.
LEMMA Merged ==
  ASSUME Inv, FitInv, ~removed, NEW k \in Kind, RegisterMerge(k)
  PROVE  \E old \in nodes :
           /\ old \in Row /\ registration[k].packet \in Packet
           /\ registration[k].copy = Filled(old, registration[k].packet)
           /\ registration[k].copy.at = old.at
           /\ \A s \in nodes' : s = registration[k].copy
                                \/ (s \in nodes /\ s.at # old.at)
           /\ \A s \in nodes : s.at = old.at => s = old
<1> DEFINE me == registration[k]
           copy == me.copy
<1>0. /\ TypeOK /\ me.pc = "merge"
      /\ nodes' = {r \in nodes : r.id # copy.id} \cup {copy}
  BY DEF Inv, RegisterMerge
<1>1. copy \in Row /\ me.packet \in Packet
  BY <1>0, RegistrationKinds
<1>2. PICK old \in nodes : old.id = copy.id
  BY <1>0 DEF FitInv, CopiesFit, Writing
<1>3. copy = Filled(old, me.packet)
  BY <1>0, <1>2 DEF Inv, CopyOK, Writing
<1>4. old \in Row /\ \A r \in nodes : r.id = copy.id => r = old
  BY <1>0, <1>2 DEF Inv, IdsOK, TypeOK
<1>5. copy.at = old.at
  <2>1. Filled(old, me.packet).at = old.at
    BY <1>1, <1>4, FilledFields
  <2> QED
    BY <1>3, <2>1
<1>6. \A s \in nodes : s.at = old.at => s = old
  <2>1. old.at \in Nodes
    BY <1>4 DEF Row
  <2>2. PICK r \in nodes : GetNode(old.at, r)
    BY <2>1 DEF FitInv, RowsFit
  <2> QED
    BY <2>2, Found
<1>7. \A s \in nodes' : s = copy \/ (s \in nodes /\ s.at # old.at)
  BY <1>0, <1>2, <1>6
<1> QED
  BY <1>1, <1>3, <1>4, <1>5, <1>6, <1>7

LEMMA InitAwait == Init => AwaitInv
<1> SUFFICES ASSUME Init PROVE AwaitInv
  OBVIOUS
<1>1. \A r \in nodes : r.type = "UNDEFINED"
  BY DEF Init, NewRow
<1>2. \A k \in Kind : registration[k].pc = "receive"
  BY DEF Init, Receiving
<1> QED
  BY <1>1, <1>2 DEF AwaitInv, TypesTrue, CopiesTrue, DoneFor, Awaited, Writing,
     Wanted, Kind, RequestKind

\* What a step that changes neither rows nor registrations preserves: it may
\* only lose the jobs of the addresses without a row.
LEMMA AwaitStep ==
  ASSUME AwaitInv, UNCHANGED <<type, nodes, registration, removed>>,
         \A k \in RequestKind, n \in Nodes :
           jobs[k][n] # "none" /\ jobs'[k][n] = "none" =>
             \A r \in nodes : r.at # n,
         nodes \subseteq Row
  PROVE  AwaitInv'
<1> SUFFICES ASSUME ~removed PROVE AwaitInv'
  BY DEF AwaitInv
<1>1. TypesTrue /\ CopiesTrue /\ DoneFor /\ Awaited
  BY DEF AwaitInv
<1>2. TypesTrue' /\ CopiesTrue'
  BY <1>1 DEF TypesTrue, CopiesTrue
<1>3. DoneFor'
  BY <1>1 DEF DoneFor, Has
<1>4. Awaited'
  <2> SUFFICES ASSUME NEW k \in RequestKind, NEW r \in nodes,
                      r.type = Wanted(k), ~Has(k, r), ~Handed(r.at)
               PROVE  jobs'[k][r.at] # "none"
    BY DEF Awaited, Has, Handed
  <2>1. jobs[k][r.at] # "none"
    BY <1>1 DEF Awaited
  <2>2. r.at \in Nodes
    BY DEF Row
  <2> QED
    BY <2>1, <2>2
<1> QED
  BY <1>2, <1>3, <1>4 DEF AwaitInv

\* A request posts its job again; nothing else deletes one.
LEMMA RequestAwait ==
  ASSUME Inv, AwaitInv, NEW k \in RequestKind, Request(k)
  PROVE  AwaitInv'
<1> USE DEF rows, events, radio, flags, counts
<1>1. UNCHANGED <<type, nodes, registration, removed>>
  BY DEF Request, RequestPoll, RequestReceive, RequestGet, RequestPost,
         RequestSend
<1>2. \/ jobs' = jobs
      \/ jobs' = [jobs EXCEPT ![k][request[k].at] = "repeated"]
  BY DEF Request, RequestPoll, RequestReceive, RequestGet, RequestPost,
         RequestSend
<1>3. \A j \in RequestKind, n \in Nodes :
        jobs[j][n] # "none" => jobs'[j][n] # "none"
  <2> TAKE j \in RequestKind, n \in Nodes
  <2>1. jobs \in [RequestKind -> [Nodes ->
                    {"none", "first", "repeated", "overdue"}]]
    BY DEF Inv, TypeOK
  <2>2. jobs[j] \in [Nodes -> {"none", "first", "repeated", "overdue"}]
    BY <2>1
  <2> DEFINE m == request[k].at
  <2>3. jobs' = jobs \/ jobs' = [jobs EXCEPT ![k][m] = "repeated"]
    BY <1>2
  <2> HIDE DEF m
  <2>4. CASE jobs' = [jobs EXCEPT ![k][m] = "repeated"]
    <3>1. jobs'[j] = IF j = k THEN [jobs[j] EXCEPT ![m] = "repeated"]
                              ELSE jobs[j]
      BY <2>1, <2>4
    <3> QED
      BY <2>2, <3>1
  <2> QED
    BY <2>3, <2>4
<1> QED
  BY <1>1, <1>3, AwaitStep DEF Inv, TypeOK

\* The devices, the radio, the clock and the cleanup leave the jobs of the
\* addresses that have a row.
LEMMA WorldAwait ==
  ASSUME Inv, AwaitInv,
         \/ Simple \/ SimpleFail \/ Lose \/ CleanupJobs
         \/ \E n \in Nodes : Describe(n)
         \/ \E q \in Packet : Answer(q)
         \/ \E k \in RequestKind, n \in Nodes : AgeJob(k, n)
  PROVE  AwaitInv'
<1> USE DEF rows, events, radio, flags, counts
<1>1. UNCHANGED <<type, nodes, registration, removed>>
  BY DEF Simple, SimpleReceive, SimpleGet, SimpleSend, SimpleFail, Describe,
         Answer, Lose, AgeJob, CleanupJobs
<1>2. ASSUME NEW k \in RequestKind, NEW n \in Nodes,
             jobs[k][n] # "none", jobs'[k][n] = "none"
      PROVE  \A r \in nodes : r.at # n
  <2>1. CASE CleanupJobs
    BY <1>2, <2>1 DEF CleanupJobs
  <2>2. ASSUME NEW j \in RequestKind, NEW m \in Nodes, AgeJob(j, m)
        PROVE  FALSE
    BY <1>2, <2>2 DEF AgeJob, Inv, TypeOK
  <2>3. CASE jobs' = jobs
    BY <1>2, <2>3
  <2> QED
    BY <2>1, <2>2, <2>3 DEF Simple, SimpleReceive, SimpleGet, SimpleSend,
       SimpleFail, Describe, Answer, Lose
<1> QED
  BY <1>1, <1>2, AwaitStep DEF Inv, TypeOK

\* A registration takes a packet: its copy is of the node that sent it.
LEMMA RegisterGetAwait ==
  ASSUME Inv, AwaitInv, NEW p \in Packet, RegisterGet(p)
  PROVE  AwaitInv'
<1> USE DEF rows, events, radio, flags, counts
<1> DEFINE k == p.kind
<1>0. /\ TypeOK /\ k \in Kind /\ registration[k].pc = "receive"
      /\ UNCHANGED <<type, nodes, removed, jobs>>
  BY DEF Inv, RegisterGet, Packet
<1>1. SUFFICES ASSUME ~removed PROVE AwaitInv'
  BY <1>0 DEF AwaitInv
<1>2. TypesTrue /\ CopiesTrue /\ DoneFor /\ Awaited
  BY <1>1 DEF AwaitInv
<1> DEFINE Taken(s) ==
             /\ s.pc # "jobs"
             /\ s.pc \in Writing \/ s.pc \in {"receive", "dead"}
             /\ s.pc \in Writing =>
                  /\ s.packet = p /\ s.copy.at = p.at
                  /\ k = "NODE" => s.copy.type = type[s.copy.at]
           Result == \E s : registration' = [registration EXCEPT ![k] = s]
                            /\ Taken(s)
<1>3. Result
  <2>1. ASSUME NEW r \in nodes, GetNode(p.at, r),
               registration' = [registration EXCEPT ![k] =
                                  [pc |-> "exists", copy |-> Filled(r, p),
                                   packet |-> p]]
        PROVE  Result
    <3> DEFINE s == [pc |-> "exists", copy |-> Filled(r, p), packet |-> p]
    <3>1. r.at = p.at /\ r \in Row
      BY <1>0, <2>1, Found DEF TypeOK
    <3>2. /\ Filled(r, p).at = p.at
          /\ k = "NODE" => Filled(r, p).type = type[p.at]
      BY <3>1, FilledFields
    <3>3. /\ s.pc = "exists" /\ s.packet = p /\ s.copy.at = p.at
          /\ k = "NODE" => s.copy.type = type[s.copy.at]
      BY <3>2
    <3>4. registration' = [registration EXCEPT ![k] = s]
      BY <2>1
    <3> HIDE DEF s
    <3> QED
      BY <3>3, <3>4 DEF Writing
  <2>2. ASSUME registration' = [registration EXCEPT ![k].pc = "dead"]
        PROVE  Result
    <3> DEFINE s == [registration[k] EXCEPT !.pc = "dead"]
    <3>1. registration' = [registration EXCEPT ![k] = s]
      BY <2>2
    <3>2. s.pc = "dead"
      BY <1>0, RegistrationKinds DEF RegistrationState
    <3> HIDE DEF s
    <3> QED
      BY <3>1, <3>2 DEF Writing
  <2>3. ASSUME registration' = registration PROVE Result
    <3>1. registration' = [registration EXCEPT ![k] = registration[k]]
      BY <1>0, <2>3 DEF TypeOK
    <3> QED
      BY <1>0, <3>1 DEF Writing
  <2> QED
    BY <2>1, <2>2, <2>3 DEF RegisterGet
<1>4. PICK s : registration' = [registration EXCEPT ![k] = s] /\ Taken(s)
  BY <1>3
<1>5. /\ registration'[k] = s
      /\ \A j \in Kind : j # k => registration'[j] = registration[j]
  BY <1>0, <1>4 DEF TypeOK
<1>6. CopiesTrue'
  BY <1>0, <1>2, <1>4, <1>5 DEF CopiesTrue, Writing, Kind
<1>7. TypesTrue' /\ DoneFor'
  BY <1>0, <1>2, <1>4, <1>5 DEF TypesTrue, DoneFor, Has, Kind
<1>8. \A n : Handed(n) => Handed(n)'
  BY <1>0, <1>5 DEF Handed, Kind
<1>9. Awaited'
  BY <1>0, <1>2, <1>8 DEF Awaited, Has
<1> QED
  BY <1>6, <1>7, <1>9 DEF AwaitInv

\* A merge writes what the jobs that follow are about.
LEMMA MergeAwait ==
  ASSUME Inv, FitInv, AwaitInv, NEW k \in Kind, RegisterMerge(k)
  PROVE  AwaitInv'
<1> USE DEF rows, events, radio, flags, counts
<1> DEFINE me == registration[k]
           copy == me.copy
           p == me.packet
<1>0. TypeOK /\ me.pc = "merge" /\ UNCHANGED <<type, removed, jobs>>
  BY DEF Inv, RegisterMerge
<1>1. SUFFICES ASSUME ~removed PROVE AwaitInv'
  BY <1>0 DEF AwaitInv
<1>2. TypesTrue /\ CopiesTrue /\ DoneFor /\ Awaited
  BY <1>1 DEF AwaitInv
<1>3. PICK old \in nodes :
        /\ old \in Row /\ p \in Packet /\ copy = Filled(old, p)
        /\ copy.at = old.at
        /\ \A s \in nodes' : s = copy \/ (s \in nodes /\ s.at # old.at)
        /\ \A s \in nodes : s.at = old.at => s = old
  BY <1>1, Merged
<1>4. /\ p.kind = k /\ p.at = copy.at
      /\ k = "ENDPOINTS" => p.endpoints = Endpoints
  BY <1>0, <1>1, <1>2 DEF CopiesTrue, FitInv, CopiesFit, Writing
<1>5. /\ copy.type = IF k = "NODE" THEN type[copy.at] ELSE old.type
      /\ copy.power = (k = "POWER" \/ old.power)
      /\ copy.endpoints = IF k = "ENDPOINTS" THEN Endpoints ELSE old.endpoints
  <2>1. /\ Filled(old, p).type = IF p.kind = "NODE" THEN type[p.at]
                                                    ELSE old.type
        /\ Filled(old, p).power = (p.kind = "POWER" \/ old.power)
        /\ Filled(old, p).endpoints =
             IF p.kind = "ENDPOINTS" THEN p.endpoints ELSE old.endpoints
    BY <1>3, FilledFields
  <2> QED
    BY <1>3, <1>4, <2>1
<1>6. \A j \in RequestKind : Has(j, old) \/ j = k => Has(j, copy)
  BY <1>5 DEF Has, RequestKind
<1>7. /\ \A j \in Kind : j # k => registration'[j] = registration[j]
      /\ registration'[k].pc = IF k = "DESCRIPTOR" THEN "receive" ELSE "jobs"
      /\ k # "DESCRIPTOR" => registration'[k].copy = copy
  <2>1. me \in RegistrationState
    BY <1>0, RegistrationKinds
  <2>2. registration' = [registration EXCEPT ![k] =
                           IF k = "DESCRIPTOR" THEN Receiving
                           ELSE [me EXCEPT !.pc = "jobs"]]
    BY DEF RegisterMerge
  <2>3. registration'[k] = IF k = "DESCRIPTOR" THEN Receiving
                           ELSE [me EXCEPT !.pc = "jobs"]
    BY <1>0, <2>2 DEF TypeOK
  <2>4. /\ [me EXCEPT !.pc = "jobs"].pc = "jobs"
        /\ [me EXCEPT !.pc = "jobs"].copy = copy
    BY <1>0, <2>1 DEF RegistrationState
  <2> QED
    BY <1>0, <2>2, <2>3, <2>4 DEF TypeOK, Receiving
<1> HIDE DEF copy, p
<1>8. TypesTrue'
  <2>1. copy.type \in {"UNDEFINED", type[copy.at]}
    BY <1>2, <1>3, <1>5 DEF TypesTrue
  <2> QED
    BY <1>0, <1>2, <1>3, <2>1 DEF TypesTrue
<1>9. CopiesTrue'
  BY <1>0, <1>2, <1>5, <1>7 DEF CopiesTrue, Writing, Kind
<1>10. DoneFor'
  <2> SUFFICES ASSUME NEW j \in RequestKind, registration'[j].pc = "jobs",
                      NEW s \in nodes', s.at = registration'[j].copy.at
               PROVE  Has(j, s)
    BY DEF DoneFor, Has
  <2>1. CASE j = k
    <3>1. registration'[j].copy = copy
      BY <1>7, <2>1 DEF RequestKind
    <3>2. s = copy
      BY <1>3, <3>1
    <3> QED
      BY <1>6, <2>1, <3>2
  <2>2. CASE j # k
    <3>1. registration[j].pc = "jobs" /\ s.at = registration[j].copy.at
      BY <1>7, <2>2 DEF Kind
    <3>2. CASE s \in nodes
      BY <1>2, <3>1, <3>2 DEF DoneFor
    <3>3. CASE s = copy
      <4>1. Has(j, old)
        BY <1>2, <1>3, <3>1, <3>3 DEF DoneFor
      <4> QED
        BY <1>6, <3>3, <4>1
    <3> QED
      BY <1>3, <3>2, <3>3
  <2> QED
    BY <2>1, <2>2
<1>11. Awaited'
  <2> SUFFICES ASSUME NEW j \in RequestKind, NEW s \in nodes',
                      s.type = Wanted(j), ~Has(j, s), ~Handed(s.at)'
               PROVE  jobs[j][s.at] # "none"
    BY <1>0 DEF Awaited, Has, Handed, Wanted
  <2>1. \A n : Handed(n) => Handed(n)'
    BY <1>0, <1>7 DEF Handed, Kind
  <2>2. CASE s \in nodes
    BY <1>2, <2>1, <2>2 DEF Awaited
  <2>3. CASE s = copy
    <3>1. k # "NODE"
      BY <1>7, <2>3 DEF Handed
    <3>2. old.type = Wanted(j) /\ ~Has(j, old)
      BY <1>5, <1>6, <2>3, <3>1
    <3> QED
      BY <1>2, <1>3, <2>1, <2>3, <3>2 DEF Awaited
  <2> QED
    BY <1>3, <2>2, <2>3
<1> QED
  BY <1>8, <1>9, <1>10, <1>11 DEF AwaitInv

\* The job is posted for the type of the row, and deleted when the row has
\* what it was posted for.
LEMMA RegisterAwait ==
  ASSUME Inv, FitInv, AwaitInv, NEW k \in Kind, Register(k)
  PROVE  AwaitInv'
<1> USE DEF rows, events, radio, flags, counts
<1> DEFINE me == registration[k]
           n == me.copy.at
<1>1. CASE RegisterMerge(k)
  BY <1>1, MergeAwait
<1>2. CASE RegisterExists(k) \/ RegisterJobs(k) \/ RegisterEvent(k)
  <2>0. UNCHANGED <<type, nodes, removed>> /\ TypeOK
    BY <1>2 DEF RegisterExists, RegisterJobs, RegisterEvent, Inv
  <2>1. SUFFICES ASSUME ~removed PROVE AwaitInv'
    BY <2>0 DEF AwaitInv
  <2>2. TypesTrue /\ CopiesTrue /\ DoneFor /\ Awaited
    BY <2>1 DEF AwaitInv
  <2>3. /\ me \in RegistrationState /\ me.pc \in {"exists", "jobs", "event"}
        /\ n \in Nodes
    BY <1>2, RegistrationKinds
    DEF Inv, RegisterExists, RegisterJobs, RegisterEvent, Row
  <2>4. \/ registration' = [registration EXCEPT ![k] = Receiving]
        \/ /\ me.pc = "exists"
           /\ registration' = [registration EXCEPT ![k].pc = "merge"]
        \/ registration' = [registration EXCEPT ![k].pc = "event"]
    BY <1>2 DEF RegisterExists, RegisterJobs, RegisterEvent
  <2>5. /\ \A j \in Kind : j # k => registration'[j] = registration[j]
        /\ registration'[k].pc \in {"receive", "merge", "event"}
        /\ registration'[k].pc = "merge" =>
             /\ me.pc = "exists"
             /\ registration'[k].copy = me.copy
             /\ registration'[k].packet = me.packet
    BY <2>0, <2>3, <2>4 DEF TypeOK, RegistrationState, Receiving
  <2>6. TypesTrue' /\ CopiesTrue'
    BY <2>0, <2>2, <2>5 DEF TypesTrue, CopiesTrue, Writing, Kind
  <2>7. DoneFor'
    BY <2>0, <2>2, <2>5 DEF DoneFor, Has, Kind
  <2>8. Awaited'
    <3> SUFFICES ASSUME NEW j \in RequestKind, NEW r \in nodes,
                        r.type = Wanted(j), ~Has(j, r)
                 PROVE  jobs'[j][r.at] # "none" \/ Handed(r.at)'
      BY <2>0 DEF Awaited, Has, Wanted
    <3>0. r.at \in Nodes
      BY <2>0 DEF TypeOK, Row
    <3>1. CASE RegisterJobs(k) /\ k = "NODE"
      <4>1. PICK next \in RequestKind :
              /\ Wanted(next) = me.copy.type
              /\ jobs' = [jobs EXCEPT ![next][n] = "first"]
        BY <3>1 DEF RegisterJobs
      <4>2. me.copy.type = type[n]
        BY <2>2, <3>1 DEF CopiesTrue, RegisterJobs
      <4>3. \A i \in RequestKind, m \in Nodes :
              jobs[i][m] # "none" => jobs'[i][m] # "none"
        BY <2>0, <4>1 DEF TypeOK
      <4>4. CASE r.at = n
        <5>1. r.type = type[n]
          BY <2>2, <4>4 DEF TypesTrue, Wanted
        <5>2. next = j
          BY <4>1, <4>2, <5>1 DEF Wanted, RequestKind
        <5> QED
          BY <2>0, <2>3, <4>1, <4>4, <5>2 DEF TypeOK
      <4>5. CASE r.at # n
        <5>1. ~Handed(r.at)
          BY <3>1, <4>5 DEF Handed
        <5> QED
          BY <2>2, <3>0, <4>3, <5>1 DEF Awaited
      <4> QED
        BY <4>4, <4>5
    <3>2. CASE RegisterJobs(k) /\ k # "NODE"
      <4>1. jobs' = [jobs EXCEPT ![k][n] = "none"] /\ me.pc = "jobs"
        BY <3>2 DEF RegisterJobs
      <4>2. Handed(r.at) => Handed(r.at)'
        BY <2>5, <3>2 DEF Handed, Kind
      <4>3. ~(j = k /\ r.at = n)
        BY <2>2, <4>1 DEF DoneFor
      <4>4. jobs'[j][r.at] = jobs[j][r.at]
        BY <2>0, <3>0, <4>1, <4>3 DEF TypeOK
      <4> QED
        BY <2>2, <4>2, <4>4 DEF Awaited
    <3>3. CASE RegisterExists(k) \/ RegisterEvent(k)
      <4>1. jobs' = jobs /\ me.pc # "jobs"
        BY <3>3 DEF RegisterExists, RegisterEvent
      <4>2. Handed(r.at) => Handed(r.at)'
        BY <2>5, <4>1 DEF Handed, Kind
      <4> QED
        BY <2>2, <4>1, <4>2 DEF Awaited
    <3> QED
      BY <1>2, <3>1, <3>2, <3>3
  <2> QED
    BY <2>6, <2>7, <2>8 DEF AwaitInv
<1> QED
  BY <1>1, <1>2 DEF Register

LEMMA NextAwait == Inv /\ FitInv /\ AwaitInv /\ [Next]_vars => AwaitInv'
<1> SUFFICES ASSUME Inv, FitInv, AwaitInv, [Next]_vars PROVE AwaitInv'
  OBVIOUS
<1>1. ASSUME NEW r \in nodes, Leave(r) PROVE AwaitInv'
  BY <1>1 DEF Leave, AwaitInv
<1>2. ASSUME NEW n \in Nodes, Announce(n) PROVE AwaitInv'
  <2>1. ~\E r \in nodes : GetNode(n, r)
    BY <1>2, Found DEF Announce
  <2>2. removed'
    BY <1>2, <2>1 DEF FitInv, RowsFit, Announce, flags
  <2> QED
    BY <2>2 DEF AwaitInv
<1>3. CASE UNCHANGED vars
  BY <1>3, AwaitStep DEF vars, rows, flags, Inv, TypeOK
<1> QED
  BY <1>1, <1>2, <1>3, RequestAwait, RegisterGetAwait, RegisterAwait,
     WorldAwait
  DEF Next

\* No node is forgotten, whatever is lost, repeated or late: a row whose type
\* is known has what a node of its type is asked for, or a job that asks for
\* it, or is about to get the job.  It is stated until a row is removed.
THEOREM NoneForgotten == Spec => [](~removed => Awaited)
<1>1. AwaitInv => (~removed => Awaited)
  BY DEF AwaitInv
<1> QED
  BY <1>1, InitFit, NextFit, InitAwait, NextAwait, Inductive, PTL DEF Spec

-----------------------------------------------------------------------------
(***************************************************************************)
(* Nor is an endpoint forgotten, although SimpleDescrRequestProcess posts  *)
(* no job: as long as no row is removed, no descriptor is lost by the      *)
(* radio and none was given up after a failure of the broker, the          *)
(* descriptor of an endpoint is in its row, or on its way in one of the    *)
(* six places where it may be.                                             *)
(***************************************************************************)
\* The event that has the endpoints of n looked at is about to be sent.
Listing(n) ==
  /\ registration["ENDPOINTS"].pc \in {"jobs", "event"}
  /\ registration["ENDPOINTS"].copy.at = n
  /\ registration["ENDPOINTS"].copy.endpoints # {}

Waiting(n) == \E i \in DOMAIN found : found[i] = n

Getting(n) == simple.pc = "get" /\ simple.at = n

Sending(n, e) == simple.pc = "send" /\ simple.at = n /\ e \in simple.left

Aired(n, e) ==
  \E q \in asked \cup answers :
    q.kind = "DESCRIPTOR" /\ q.at = n /\ e \in q.endpoints

Noted(n, e) ==
  /\ registration["DESCRIPTOR"].pc \in Writing
  /\ registration["DESCRIPTOR"].copy.at = n
  /\ e \in registration["DESCRIPTOR"].packet.endpoints

Coming(n, e) ==
  \/ Listing(n) \/ Waiting(n) \/ Getting(n)
  \/ Sending(n, e) \/ Aired(n, e) \/ Noted(n, e)

Pursued == \A r \in nodes : \A e \in r.endpoints \ r.known : Coming(r.at, e)

ComingInv == ~removed /\ ~abandoned => Pursued

\* Nothing is lost by what leaves rows, events and registrations alone.
LEMMA StillComing ==
  ASSUME ComingInv, UNCHANGED <<nodes, registration, found, removed>>,
         abandoned => abandoned',
         \A n, e : Aired(n, e) => Aired(n, e)',
         \A r \in nodes : \A e \in r.endpoints \ r.known :
           Getting(r.at) \/ Sending(r.at, e) =>
             \/ abandoned' \/ Getting(r.at)'
             \/ Sending(r.at, e)' \/ Aired(r.at, e)'
  PROVE  ComingInv'
<1> SUFFICES ASSUME ~removed, ~abandoned, ~abandoned',
                    NEW r \in nodes, NEW e \in r.endpoints \ r.known
             PROVE  Coming(r.at, e)'
  BY DEF ComingInv, Pursued
<1>1. Coming(r.at, e)
  BY DEF ComingInv, Pursued
<1>2. /\ Listing(r.at) => Listing(r.at)'
      /\ Waiting(r.at) => Waiting(r.at)'
      /\ Noted(r.at, e) => Noted(r.at, e)'
  BY DEF Listing, Waiting, Noted
<1> QED
  BY <1>1, <1>2 DEF Coming

LEMMA InitComing == Init => ComingInv
<1> SUFFICES ASSUME Init PROVE ComingInv
  OBVIOUS
<1>1. \A r \in nodes : r.endpoints = {}
  BY DEF Init, NewRow
<1> QED
  BY <1>1 DEF ComingInv, Pursued

LEMMA RequestComing ==
  ASSUME ComingInv, NEW k \in RequestKind, Request(k)
  PROVE  ComingInv'
<1> USE DEF rows, events, radio, flags, counts
<1>1. UNCHANGED <<nodes, registration, found, removed, abandoned, simple,
                  answers>>
  BY DEF Request, RequestPoll, RequestReceive, RequestGet, RequestPost,
         RequestSend
<1>2. asked \subseteq asked'
  BY DEF Request, RequestPoll, RequestReceive, RequestGet, RequestPost,
         RequestSend
<1>3. \A n, e : Aired(n, e) => Aired(n, e)'
  BY <1>1, <1>2 DEF Aired
<1> QED
  BY <1>1, <1>3, StillComing DEF Getting, Sending

\* SimpleDescrRequestProcess looks at all the endpoints of the row, and asks
\* about each; it gives them up only when the broker fails at the first.
LEMMA SimpleComing ==
  ASSUME Inv, FitInv, ComingInv, Simple \/ SimpleFail
  PROVE  ComingInv'
<1> USE DEF rows, events, radio, flags, counts
<1>0. UNCHANGED <<nodes, registration, removed, answers>>
  BY DEF Simple, SimpleReceive, SimpleGet, SimpleSend, SimpleFail
<1>1. CASE SimpleReceive
  <2>1. /\ UNCHANGED <<asked, abandoned>> /\ simple.pc = "receive"
        /\ found # <<>> /\ found' = Tail(found)
        /\ simple' = [pc |-> "get", at |-> Head(found)]
    BY <1>1 DEF SimpleReceive
  <2> SUFFICES ASSUME ~removed, ~abandoned,
                      NEW r \in nodes, NEW e \in r.endpoints \ r.known
               PROVE  Coming(r.at, e)'
    BY <1>0, <2>1 DEF ComingInv, Pursued
  <2>2. Coming(r.at, e)
    BY DEF ComingInv, Pursued
  <2>3. /\ Listing(r.at) => Listing(r.at)'
        /\ Aired(r.at, e) => Aired(r.at, e)'
        /\ Noted(r.at, e) => Noted(r.at, e)'
        /\ ~Getting(r.at) /\ ~Sending(r.at, e)
    BY <1>0, <2>1 DEF Listing, Aired, Noted, Getting, Sending
  <2>4. Waiting(r.at) => Waiting(r.at)' \/ Getting(r.at)'
    <3> SUFFICES ASSUME NEW i \in DOMAIN found, found[i] = r.at
                 PROVE  Waiting(r.at)' \/ Getting(r.at)'
      BY DEF Waiting
    <3>0. found \in Seq(Nodes)
      BY DEF Inv, TypeOK
    <3>1. CASE i = 1
      BY <2>1, <3>0, <3>1 DEF Getting
    <3>2. CASE i # 1
      <4>1. i - 1 \in DOMAIN found' /\ found'[i - 1] = r.at
        BY <2>1, <3>0, <3>2
      <4> QED
        BY <4>1 DEF Waiting
    <3> QED
      BY <3>1, <3>2
  <2> QED
    BY <2>2, <2>3, <2>4 DEF Coming
<1>2. CASE SimpleGet
  <2>1. UNCHANGED <<found, asked, abandoned>> /\ simple.pc = "get"
    BY <1>2 DEF SimpleGet
  <2>2. ASSUME ~removed, NEW r \in nodes, NEW e \in r.endpoints, Getting(r.at)
        PROVE  Sending(r.at, e)'
    <3>1. r.at = simple.at /\ r.at \in Nodes
      BY <2>2 DEF Getting, Inv, TypeOK, Row
    <3>2. GetNode(simple.at, r) /\ \A t : GetNode(simple.at, t) => t = r
      <4>1. PICK t \in nodes : GetNode(r.at, t)
        BY <2>2, <3>1 DEF FitInv, RowsFit
      <4>2. t = r
        BY <4>1, Found
      <4> QED
        BY <3>1, <4>1, <4>2 DEF GetNode
    <3>3. (CHOOSE t \in nodes : GetNode(simple.at, t)) = r
      BY <3>2
    <3>4. simple' = [pc |-> "send", at |-> simple.at, left |-> r.endpoints,
                     first |-> TRUE]
      BY <1>2, <3>2, <3>3 DEF SimpleGet
    <3> QED
      BY <3>1, <3>4 DEF Sending
  <2>3. \A n, e : ~Sending(n, e)
    BY <2>1 DEF Sending
  <2>4. \A n, e : Aired(n, e) => Aired(n, e)'
    BY <1>0, <2>1 DEF Aired
  <2>5. CASE removed
    BY <1>0, <2>5 DEF ComingInv
  <2>6. CASE ~removed
    BY <1>0, <2>1, <2>2, <2>3, <2>4, <2>6, StillComing
  <2> QED
    BY <2>5, <2>6
<1>3. ASSUME NEW f \in Endpoints, SimpleSend(f) PROVE ComingInv'
  <2>1. /\ UNCHANGED <<found, abandoned>> /\ simple.pc = "send"
        /\ asked' = asked \cup {[kind |-> "DESCRIPTOR", at |-> simple.at,
                                 endpoints |-> {f}]}
        /\ simple' = IF simple.left = {f} THEN Receiving
                     ELSE [simple EXCEPT !.left = @ \ {f}, !.first = FALSE]
    BY <1>3 DEF SimpleSend
  <2>2. \A n, e : Aired(n, e) => Aired(n, e)'
    BY <1>0, <2>1 DEF Aired
  <2>3. \A n, e : Sending(n, e) => Sending(n, e)' \/ Aired(n, e)'
    <3> SUFFICES ASSUME NEW n, NEW e, Sending(n, e)
                 PROVE  Sending(n, e)' \/ Aired(n, e)'
      OBVIOUS
    <3>1. simple.at = n /\ e \in simple.left
      BY DEF Sending
    <3>2. CASE e = f
      <4>1. [kind |-> "DESCRIPTOR", at |-> n, endpoints |-> {e}] \in asked'
        BY <2>1, <3>1, <3>2
      <4> QED
        BY <4>1 DEF Aired
    <3>3. CASE e # f
      <4>1. simple' = [simple EXCEPT !.left = @ \ {f}, !.first = FALSE]
        BY <2>1, <3>1, <3>3
      <4>2. simple \in [pc : {"send"}, at : Nodes, left : SUBSET Endpoints,
                        first : BOOLEAN]
        BY <2>1 DEF Inv, TypeOK, SimpleState
      <4> QED
        BY <3>1, <3>3, <4>1, <4>2 DEF Sending
    <3> QED
      BY <3>2, <3>3
  <2>4. \A n : ~Getting(n)
    BY <2>1 DEF Getting
  <2> QED
    BY <1>0, <2>1, <2>2, <2>3, <2>4, StillComing
<1>4. CASE SimpleFail
  <2>1. /\ UNCHANGED <<found, asked>>
        /\ abandoned => abandoned'
        /\ abandoned' \/ simple' = simple
    BY <1>4 DEF SimpleFail
  <2>2. \A n, e : Aired(n, e) => Aired(n, e)'
    BY <1>0, <2>1 DEF Aired
  <2>3. \A n, e : Getting(n) \/ Sending(n, e) =>
          abandoned' \/ Getting(n)' \/ Sending(n, e)'
    BY <2>1 DEF Getting, Sending
  <2> QED
    BY <1>0, <2>1, <2>2, <2>3, StillComing
<1> QED
  BY <1>1, <1>2, <1>3, <1>4 DEF Simple

\* The radio delivers every descriptor that it is asked for.
LEMMA WorldComing ==
  ASSUME Inv, ComingInv, "DESCRIPTOR" \notin Lossy,
         \/ Lose \/ CleanupJobs
         \/ \E n \in Nodes : Describe(n)
         \/ \E q \in Packet : Answer(q)
         \/ \E k \in RequestKind, n \in Nodes : AgeJob(k, n)
         \/ UNCHANGED vars
  PROVE  ComingInv'
<1> USE DEF rows, events, radio, flags, counts
<1>1. UNCHANGED <<nodes, registration, found, removed, abandoned, simple>>
  BY DEF Lose, CleanupJobs, Describe, Answer, AgeJob, vars
<1>2. ASSUME NEW n, NEW e, Aired(n, e) PROVE Aired(n, e)'
  <2>1. PICK q \in asked \cup answers :
          q.kind = "DESCRIPTOR" /\ q.at = n /\ e \in q.endpoints
    BY <1>2 DEF Aired
  <2>2. CASE Lose
    <3>1. q \in asked' \cup answers'
      BY <2>1, <2>2 DEF Lose
    <3> QED
      BY <2>1, <3>1 DEF Aired
  <2>3. ASSUME NEW p \in Packet, Answer(p) PROVE Aired(n, e)'
    <3>1. CASE p # q
      <4>1. q \in asked' \cup answers'
        BY <2>1, <2>3, <3>1 DEF Answer
      <4> QED
        BY <2>1, <4>1 DEF Aired
    <3>2. CASE p = q
      <4> DEFINE a == [q EXCEPT !.endpoints =
                         IF q.kind = "ENDPOINTS" THEN Endpoints ELSE @]
      <4>1. a \in answers'
        BY <2>3, <3>2 DEF Answer
      <4>2. a.kind = "DESCRIPTOR" /\ a.at = n /\ e \in a.endpoints
        BY <2>1, <2>3, <3>2 DEF Packet
      <4> HIDE DEF a
      <4> QED
        BY <4>1, <4>2 DEF Aired
    <3> QED
      BY <3>1, <3>2
  <2>4. CASE asked \subseteq asked' /\ answers \subseteq answers'
    BY <2>1, <2>4 DEF Aired
  <2> QED
    BY <2>2, <2>3, <2>4 DEF CleanupJobs, Describe, AgeJob, vars
<1> QED
  BY <1>1, <1>2, StillComing DEF Getting, Sending

\* A descriptor that comes is noted in a copy of its row.
LEMMA RegisterGetComing ==
  ASSUME Inv, FitInv, ComingInv, NEW p \in Packet, RegisterGet(p)
  PROVE  ComingInv'
<1> USE DEF rows, events, radio, flags, counts
<1> DEFINE k == p.kind
<1>0. /\ TypeOK /\ k \in Kind /\ registration[k].pc = "receive"
      /\ p \in answers /\ answers' = answers \ {p}
      /\ UNCHANGED <<nodes, found, simple, asked, removed, abandoned>>
  BY DEF Inv, RegisterGet, Packet
<1>1. \A j \in Kind : j # k => registration'[j] = registration[j]
  BY <1>0 DEF TypeOK, RegisterGet
<1> SUFFICES ASSUME ~removed, ~abandoned,
                    NEW r \in nodes, NEW e \in r.endpoints \ r.known
             PROVE  Coming(r.at, e)'
  BY <1>0 DEF ComingInv, Pursued
<1>2. Coming(r.at, e)
  BY DEF ComingInv, Pursued
<1>3. /\ Listing(r.at) => Listing(r.at)'
      /\ Noted(r.at, e) => Noted(r.at, e)'
  BY <1>0, <1>1 DEF Listing, Noted, Writing, Kind, RequestKind
<1>4. /\ Waiting(r.at) => Waiting(r.at)'
      /\ Getting(r.at) => Getting(r.at)'
      /\ Sending(r.at, e) => Sending(r.at, e)'
  BY <1>0 DEF Waiting, Getting, Sending
<1>5. Aired(r.at, e) => Aired(r.at, e)' \/ Noted(r.at, e)'
  <2> SUFFICES ASSUME NEW q \in asked \cup answers, q.kind = "DESCRIPTOR",
                      q.at = r.at, e \in q.endpoints
               PROVE  Aired(r.at, e)' \/ Noted(r.at, e)'
    BY DEF Aired
  <2>1. CASE q # p
    <3>1. q \in asked' \cup answers'
      BY <1>0, <2>1
    <3> QED
      BY <3>1 DEF Aired
  <2>2. CASE q = p
    <3>1. r.at \in Nodes /\ r \in Row
      BY <1>0 DEF TypeOK, Row
    <3>2. GetNode(p.at, r) /\ \A t \in nodes : GetNode(p.at, t) => t = r
      <4>1. PICK t \in nodes : GetNode(r.at, t)
        BY <3>1 DEF FitInv, RowsFit
      <4>2. t = r
        BY <4>1, Found
      <4> QED
        BY <2>2, <4>1, <4>2, Found
    <3>3. ~Misses(r, p)
      <4>1. Listed(r.at)
        BY <1>0, <2>2 DEF FitInv, PacketsFit
      <4> QED
        BY <4>1 DEF Listed, Misses, Packet
    <3>4. registration' = [registration EXCEPT ![k] =
                             [pc |-> "exists", copy |-> Filled(r, p),
                              packet |-> p]]
      BY <3>2, <3>3 DEF RegisterGet, Exists
    <3>5. registration'["DESCRIPTOR"] =
            [pc |-> "exists", copy |-> Filled(r, p), packet |-> p]
      BY <1>0, <2>2, <3>4 DEF TypeOK
    <3>6. Filled(r, p).at = r.at
      BY <3>1, FilledFields
    <3> QED
      BY <2>2, <3>5, <3>6 DEF Noted, Writing
  <2> QED
    BY <2>1, <2>2
<1> QED
  BY <1>2, <1>3, <1>4, <1>5 DEF Coming

\* A merge writes the descriptor to the row, or the endpoints, which has their
\* descriptors asked for again.
LEMMA MergeComing ==
  ASSUME Inv, FitInv, AwaitInv, ComingInv, NEW k \in Kind, RegisterMerge(k)
  PROVE  ComingInv'
<1> USE DEF rows, events, radio, flags, counts
<1> DEFINE me == registration[k]
           copy == me.copy
           p == me.packet
<1>0. /\ TypeOK /\ me.pc = "merge"
      /\ UNCHANGED <<found, simple, asked, answers, removed, abandoned>>
  BY DEF Inv, RegisterMerge
<1> SUFFICES ASSUME ~removed, ~abandoned,
                    NEW s \in nodes', NEW e \in s.endpoints \ s.known
             PROVE  Coming(s.at, e)'
  BY <1>0 DEF ComingInv, Pursued
<1>1. PICK old \in nodes :
        /\ old \in Row /\ p \in Packet /\ copy = Filled(old, p)
        /\ copy.at = old.at
        /\ \A t \in nodes' : t = copy \/ (t \in nodes /\ t.at # old.at)
        /\ \A t \in nodes : t.at = old.at => t = old
  BY Merged
<1>2. p.kind = k
  BY <1>0 DEF AwaitInv, CopiesTrue, Writing
<1>3. /\ copy.endpoints = IF k = "ENDPOINTS" THEN p.endpoints
                          ELSE old.endpoints
      /\ copy.known = IF k = "ENDPOINTS" THEN {}
                      ELSE IF k = "DESCRIPTOR" THEN old.known \cup p.endpoints
                      ELSE old.known
  <2>1. /\ Filled(old, p).endpoints =
             IF p.kind = "ENDPOINTS" THEN p.endpoints ELSE old.endpoints
        /\ Filled(old, p).known =
             IF p.kind = "ENDPOINTS" THEN {}
             ELSE IF p.kind = "DESCRIPTOR" THEN old.known \cup p.endpoints
             ELSE old.known
    BY <1>1, FilledFields
  <2> QED
    BY <1>1, <1>2, <2>1
<1>4. /\ \A j \in Kind : j # k => registration'[j] = registration[j]
      /\ k = "ENDPOINTS" => /\ registration'[k].pc = "jobs"
                            /\ registration'[k].copy = copy
  <2>1. me \in RegistrationState
    BY <1>0, RegistrationKinds
  <2>2. registration' = [registration EXCEPT ![k] =
                           IF k = "DESCRIPTOR" THEN Receiving
                           ELSE [me EXCEPT !.pc = "jobs"]]
    BY DEF RegisterMerge
  <2>3. registration'[k] = IF k = "DESCRIPTOR" THEN Receiving
                           ELSE [me EXCEPT !.pc = "jobs"]
    BY <1>0, <2>2 DEF TypeOK
  <2>4. /\ [me EXCEPT !.pc = "jobs"].pc = "jobs"
        /\ [me EXCEPT !.pc = "jobs"].copy = copy
    BY <1>0, <2>1 DEF RegistrationState
  <2> QED
    BY <1>0, <2>2, <2>3, <2>4 DEF TypeOK
<1>5. ASSUME NEW n, Coming(n, e),
             k = "DESCRIPTOR" => n # old.at \/ e \notin p.endpoints
      PROVE  Coming(n, e)'
  <2>1. Listing(n) => Listing(n)'
    BY <1>0, <1>4 DEF Listing, Kind, RequestKind
  <2>2. /\ Waiting(n) => Waiting(n)'
        /\ Getting(n) => Getting(n)'
        /\ Sending(n, e) => Sending(n, e)'
        /\ Aired(n, e) => Aired(n, e)'
    BY <1>0 DEF Waiting, Getting, Sending, Aired
  <2>3. Noted(n, e) => Noted(n, e)'
    <3>1. CASE k = "DESCRIPTOR"
      BY <1>1, <1>5, <3>1 DEF Noted
    <3>2. CASE k # "DESCRIPTOR"
      BY <1>4, <3>2 DEF Noted, Kind
    <3> QED
      BY <3>1, <3>2
  <2> QED
    BY <1>5, <2>1, <2>2, <2>3 DEF Coming
<1> HIDE DEF copy, p
<1>6. CASE s \in nodes /\ s.at # old.at
  <2>1. Coming(s.at, e)
    BY <1>6 DEF ComingInv, Pursued
  <2> QED
    BY <1>5, <1>6, <2>1
<1>7. CASE s = copy /\ k = "ENDPOINTS"
  <2>1. copy.endpoints # {}
    BY <1>7
  <2>2. Listing(s.at)'
    BY <1>4, <1>7, <2>1 DEF Listing
  <2> QED
    BY <2>2 DEF Coming
<1>8. CASE s = copy /\ k # "ENDPOINTS"
  <2>1. e \in old.endpoints \ old.known
        /\ (k = "DESCRIPTOR" => e \notin p.endpoints)
    BY <1>3, <1>8
  <2>2. Coming(old.at, e)
    BY <2>1 DEF ComingInv, Pursued
  <2> QED
    BY <1>1, <1>5, <1>8, <2>1, <2>2
<1> QED
  BY <1>1, <1>6, <1>7, <1>8

\* A registration that has registered endpoints sends the event.
LEMMA RegisterComing ==
  ASSUME UpdateVerb = "POST",
         Inv, FitInv, AwaitInv, ComingInv, NEW k \in Kind, Register(k)
  PROVE  ComingInv'
<1> USE DEF rows, events, radio, flags, counts
<1> DEFINE me == registration[k]
           copy == me.copy
<1>1. CASE RegisterMerge(k)
  BY <1>1, MergeComing
<1>2. CASE RegisterExists(k) \/ RegisterJobs(k) \/ RegisterEvent(k)
  <2>0. /\ UNCHANGED <<nodes, simple, asked, answers, removed, abandoned>>
        /\ TypeOK
    BY <1>2 DEF RegisterExists, RegisterJobs, RegisterEvent, Inv
  <2>1. SUFFICES ASSUME ~removed, ~abandoned,
                        NEW r \in nodes, NEW e \in r.endpoints \ r.known
                 PROVE  Coming(r.at, e)'
    BY <2>0 DEF ComingInv, Pursued
  <2>2. Coming(r.at, e)
    BY <2>1 DEF ComingInv, Pursued
  <2>3. /\ me \in RegistrationState /\ me.pc \in {"exists", "jobs", "event"}
        /\ copy \in Row /\ copy.at \in Nodes
    BY <1>2, RegistrationKinds
    DEF Inv, RegisterExists, RegisterJobs, RegisterEvent, Row
  <2>4. \A j \in Kind : j # k => registration'[j] = registration[j]
    BY <1>2, <2>0 DEF TypeOK, RegisterExists, RegisterJobs, RegisterEvent
  <2>5. /\ Getting(r.at) => Getting(r.at)'
        /\ Sending(r.at, e) => Sending(r.at, e)'
        /\ Aired(r.at, e) => Aired(r.at, e)'
    BY <2>0 DEF Getting, Sending, Aired
  <2>6. Waiting(r.at) => Waiting(r.at)'
    <3>1. found' = found \/ found' = Append(found, copy.at)
      BY <1>2 DEF RegisterExists, RegisterJobs, RegisterEvent
    <3>2. found \in Seq(Nodes)
      BY <2>0 DEF TypeOK
    <3> HIDE DEF copy
    <3> QED
      BY <2>3, <3>1, <3>2 DEF Waiting
  <2>7. Noted(r.at, e) => Noted(r.at, e)'
    <3>1. CASE k # "DESCRIPTOR"
      BY <2>4, <3>1 DEF Noted, Kind
    <3>2. CASE k = "DESCRIPTOR" /\ me.pc # "exists"
      BY <2>3, <3>2 DEF Noted, Writing
    <3>3. CASE k = "DESCRIPTOR" /\ me.pc = "exists"
      <4>1. RegisterExists(k)
        BY <1>2, <3>3 DEF RegisterJobs, RegisterEvent
      <4>2. Exists(copy.at)
        BY <2>1, <2>3 DEF FitInv, RowsFit, Exists
      <4>3. registration' = [registration EXCEPT ![k].pc = "merge"]
        BY <4>1, <4>2 DEF RegisterExists
      <4>4. registration'[k] = [me EXCEPT !.pc = "merge"]
        BY <2>0, <4>3 DEF TypeOK
      <4>5. /\ registration'[k].pc = "merge" /\ registration'[k].copy = copy
            /\ registration'[k].packet = me.packet
        BY <2>3, <3>3, <4>4 DEF RegistrationState
      <4> QED
        BY <3>3, <4>5 DEF Noted, Writing
    <3> QED
      BY <3>1, <3>2, <3>3
  <2>8. Listing(r.at) => Listing(r.at)' \/ Waiting(r.at)'
    <3> SUFFICES ASSUME Listing(r.at) PROVE Listing(r.at)' \/ Waiting(r.at)'
      OBVIOUS
    <3>1. CASE k # "ENDPOINTS"
      BY <2>4, <3>1 DEF Listing, Kind, RequestKind
    <3>2. CASE k = "ENDPOINTS" /\ RegisterJobs(k)
      <4>1. registration'[k] = [me EXCEPT !.pc = "event"]
        BY <2>0, <3>2 DEF TypeOK, RegisterJobs
      <4>2. registration'[k].pc = "event" /\ registration'[k].copy = copy
        BY <2>3, <3>2, <4>1 DEF RegistrationState, RegisterJobs
      <4> QED
        BY <3>2, <4>2 DEF Listing
    <3>3. CASE k = "ENDPOINTS" /\ RegisterEvent(k)
      <4>1. copy.at = r.at /\ copy.endpoints # {}
        BY <3>3 DEF Listing
      <4>2. found' = Append(found, copy.at)
        BY <3>3, <4>1 DEF RegisterEvent
      <4>3. found \in Seq(Nodes)
        BY <2>0 DEF TypeOK
      <4> HIDE DEF copy
      <4>4. /\ Len(found) + 1 \in DOMAIN found'
            /\ found'[Len(found) + 1] = copy.at
        BY <2>3, <4>2, <4>3
      <4> QED
        BY <4>1, <4>4 DEF Waiting
    <3>4. CASE k = "ENDPOINTS" /\ RegisterExists(k)
      BY <3>4 DEF Listing, RegisterExists
    <3> QED
      BY <1>2, <3>1, <3>2, <3>3, <3>4
  <2> QED
    BY <2>2, <2>5, <2>6, <2>7, <2>8 DEF Coming
<1> QED
  BY <1>1, <1>2 DEF Register

LEMMA NextComing ==
  ASSUME UpdateVerb = "POST", "DESCRIPTOR" \notin Lossy
  PROVE  Inv /\ FitInv /\ AwaitInv /\ ComingInv /\ [Next]_vars => ComingInv'
<1> SUFFICES ASSUME Inv, FitInv, AwaitInv, ComingInv, [Next]_vars
             PROVE  ComingInv'
  OBVIOUS
<1>1. ASSUME NEW r \in nodes, Leave(r) PROVE ComingInv'
  BY <1>1 DEF Leave, ComingInv
<1>2. ASSUME NEW n \in Nodes, Announce(n) PROVE ComingInv'
  <2>1. ~\E r \in nodes : GetNode(n, r)
    BY <1>2, Found DEF Announce
  <2>2. removed'
    BY <1>2, <2>1 DEF FitInv, RowsFit, Announce, flags
  <2> QED
    BY <2>2 DEF ComingInv
<1> QED
  BY <1>1, <1>2, RequestComing, SimpleComing, WorldComing, RegisterGetComing,
     RegisterComing
  DEF Next

\* No endpoint is forgotten, where nodes/update is served as its client calls it
\* (with POST; the resource as it is built serves PUT, and no registration comes
\* to its merge): its descriptor is in its row or on its way, be it that of an
\* endpoint registered twice, whose descriptors were forgotten.  What breaks it
\* is the removal of a row, the loss of a descriptor, which has no job, and a
\* failure of the broker at the first endpoint of a node.
THEOREM EndpointsPursued ==
  ASSUME UpdateVerb = "POST", "DESCRIPTOR" \notin Lossy
  PROVE  Spec => [](~removed /\ ~abandoned => Pursued)
<1>1. ComingInv => (~removed /\ ~abandoned => Pursued)
  BY DEF ComingInv
<1> QED
  BY <1>1, InitFit, NextFit, InitAwait, NextAwait, InitComing, NextComing,
     Inductive, PTL DEF Spec
=============================================================================
