--------------------------- MODULE NetworkTables ---------------------------
(***************************************************************************)
(* The tables of the home network, and what NodeEJB, LinkEJB and JobEJB do *)
(* to them: the rows of Node, Link and NetworkJob.  The module has no      *)
(* variables: every operation is an operator from a table to a table (or   *)
(* to the rows a query returns), and each stands for one REST call, which  *)
(* the resources run in one transaction under the lock of the table.       *)
(***************************************************************************)
EXTENDS Naturals

CONSTANTS
  GatewayId,   \* the identifiers of the gateways (HubContext)
  Nuid,        \* the network-wide identifiers of the devices
  Address      \* the addresses inside a subnetwork, 0 for the coordinator

ASSUME AddressAssumption == Address \subseteq Nat

LogicalType  == {"COORDINATOR", "ROUTER", "END_DEVICE", "UNDEFINED"}
\* Every manufacturer but DIGI and UNDEFINED is treated alike.
Manufacturer == {"DIGI", "OTHER", "UNDEFINED"}

\* Where a job or a request is directed: the gateway and the address.
Coord == GatewayId \X Address

\* A device as announced or discovered: GlobalCoordinates.
Device == [gatewayId : GatewayId, nuid : Nuid, address : Address]

LocalCoordinates == [nuid : Nuid, address : Address]

Node == [id : Nat, gatewayId : GatewayId, nuid : Nuid, address : Address,
         logicalType : LogicalType, manufacturer : Manufacturer,
         permanent : BOOLEAN]

\* An old link is of an earlier run of the server.
Link == [gatewayId : GatewayId, source : LocalCoordinates,
         destination : LocalCoordinates, fresh : BOOLEAN, old : BOOLEAN]

At(n) == <<n.gatewayId, n.address>>

Local(n) == [nuid |-> n.nuid, address |-> n.address]
-----------------------------------------------------------------------------
(***************************************************************************)
(* Nodes.  findNode builds its criteria with two calls of where, and the   *)
(* second replaces the first: the query matches the address alone, in any  *)
(* gateway.  The callers take its single result: a second matching row is  *)
(* a MultipleNodesFoundException, hence a status 500.                      *)
(***************************************************************************)
FindNode(ns, g, a) == {n \in ns : n.address = a}

NewNode(id, d, lt, m, perm) ==
  [id |-> id, gatewayId |-> d.gatewayId, nuid |-> d.nuid,
   address |-> d.address, logicalType |-> lt, manufacturer |-> m,
   permanent |-> perm]

\* Mutant: the types of the new node are taken as they are.
RefreshedBlindly(p, new) ==
  [p EXCEPT !.logicalType  = new.logicalType,
            !.manufacturer = new.manufacturer]

\* What an insertion changes in the row p that it finds: neither its nuid nor
\* its gateway, and only the types that the new node defines.
Refreshed(p, new) ==
  [p EXCEPT !.logicalType  = IF new.logicalType = "UNDEFINED"
                             THEN @ ELSE new.logicalType,
            !.manufacturer = IF new.manufacturer = "UNDEFINED"
                             THEN @ ELSE new.manufacturer]

\* An id in use is an exception of em.persist.
IdFree(ns, id) == \A n \in ns : n.id # id

\* The status of the insertion of new.
InsertStatus(ns, new) ==
  LET found == FindNode(ns, new.gatewayId, new.address)
  IN  CASE found = {} /\ IdFree(ns, new.id) -> "CREATED"
        [] \E p \in ns : found = {p}        -> "OK"
        [] OTHER                            -> "FAILED"

\* Mutant: the node is inserted, whatever is found.
InsertNode(ns, new) ==
  IF IdFree(ns, new.id) THEN ns \cup {new} ELSE ns

InsertOrUpdateNode(ns, new) ==
  LET found == FindNode(ns, new.gatewayId, new.address)
  IN  CASE found = {} /\ IdFree(ns, new.id) -> ns \cup {new}
        [] \E p \in ns : found = {p}        ->
             (ns \ found) \cup {Refreshed(p, new) : p \in found}
        [] OTHER                            -> ns

\* em.merge of a detached copy: it overwrites the row with its id, or inserts
\* the copy when that row is gone.
UpdateManaged(ns, copy) == {n \in ns : n.id # copy.id} \cup {copy}

InfrastructuralNodes(ns) ==
  {n \in ns : n.logicalType \in {"ROUTER", "COORDINATOR"}}
-----------------------------------------------------------------------------
(***************************************************************************)
(* Jobs.  Every query and every removal used by the processes is by type   *)
(* and coordinates, and sees the latest row of a group or the whole group: *)
(* a group is represented by its latest row.  "first" has tsn 0;           *)
(* "repeated" has another tsn; "overdue" has outlived its timeout.         *)
(***************************************************************************)
JobType  == {"NODE_DESCR_REQUEST", "NODE_ANNCE_GRACE",
             "NODE_ACTIVE_ENDPOINTS_REQUEST", "NODE_POWER_LEVEL_REQUEST"}
JobState == {"none", "first", "repeated", "overdue"}
Jobs     == [JobType -> [Coord -> JobState]]

NoJobs == [t \in JobType |-> [c \in Coord |-> "none"]]

AddJob(js, t, c, state) == [js EXCEPT ![t][c] = state]

\* Mutant: the group goes with its rows.
RemoveJobGroup(js, t, c) ==
  [js EXCEPT ![t] = [d \in Coord \ {c} |-> js[t][d]]]

RemoveJobs(js, t, c) == [js EXCEPT ![t][c] = "none"]

LatestJobs(js, t) == {c \in Coord : js[t][c] # "none"}

\* Mutants: every overdue job goes; no grace expires; no job is orphan.
CleanupOverdueJobs(js, ns) ==
  [t \in JobType |-> [c \in Coord |->
     IF (\E n \in ns : At(n) = c) /\ js[t][c] # "overdue"
     THEN js[t][c] ELSE "none"]]

CleanupOrphanJobs(js, ns) ==
  [t \in JobType |-> [c \in Coord |->
     IF \E n \in ns : At(n) = c THEN js[t][c] ELSE "none"]]

CleanupGraceJobs(js, ns) ==
  [t \in JobType |-> [c \in Coord |->
     IF t = "NODE_ANNCE_GRACE" /\ js[t][c] = "overdue"
     THEN "none" ELSE js[t][c]]]

\* A job goes when no row has its coordinates, and a grace job when it has
\* outlived the grace time as well.
CleanupJobs(js, ns) ==
  [t \in JobType |-> [c \in Coord |->
     IF /\ \E n \in ns : At(n) = c
        /\ ~(t = "NODE_ANNCE_GRACE" /\ js[t][c] = "overdue")
     THEN js[t][c] ELSE "none"]]
-----------------------------------------------------------------------------
(***************************************************************************)
(* Links: one row for each gateway, source and destination.                *)
(***************************************************************************)
SameLink(l, k) == /\ l.gatewayId = k.gatewayId
                  /\ l.source = k.source
                  /\ l.destination = k.destination

NewLink(g, s, d) ==
  [gatewayId |-> g, source |-> s, destination |-> d, fresh |-> TRUE,
   old |-> FALSE]

InsertOrUpdateLink(ls, link) ==
  IF \E l \in ls : SameLink(l, link)
  THEN {IF SameLink(l, link) THEN [l EXCEPT !.fresh = TRUE] ELSE l : l \in ls}
  ELSE ls \cup {link}

CleanupLinks(ls) == {l \in ls : l.fresh}

Linked(n, ls) ==
  \E l \in ls : /\ l.gatewayId = n.gatewayId
                /\ Local(n) \in {l.source, l.destination}

\* The rows that nodes/cleanup removes.
MissingNodes(ns, ls, js) ==
  {n \in ns : /\ n.logicalType # "COORDINATOR"
              /\ ~n.permanent
              /\ n.manufacturer \in {"DIGI", "UNDEFINED"}
              /\ ~Linked(n, ls)
              /\ js["NODE_ANNCE_GRACE"][At(n)] = "none"}

CleanupNodes(ns, ls, js) == ns \ MissingNodes(ns, ls, js)
=============================================================================
