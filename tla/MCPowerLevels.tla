--------------------------- MODULE MCPowerLevels ----------------------------
(***************************************************************************)
(* Small networks for PowerLevels: a router, an end device, and one user   *)
(* beside the process that minimises the graph.                            *)
(***************************************************************************)
EXTENDS PowerLevels
=============================================================================
