---------------------------- MODULE MCNeighbours ----------------------------
(***************************************************************************)
(* A small network for Neighbours: a coordinator, who hears the router,    *)
(* and a router, who does not hear it until it changes; and bytes of three *)
(* values, so that the number comes round at the third request.            *)
(***************************************************************************)
EXTENDS Neighbours

CONSTANTS coordinator, router1

MCRegistered == {[id |-> 1, at |-> coordinator, list |-> 0],
                 [id |-> 2, at |-> router1, list |-> 0]}

MCHears == [n \in Nodes |-> IF n = coordinator THEN 1 ELSE 0]
=============================================================================
