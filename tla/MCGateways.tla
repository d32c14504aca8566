----------------------------- MODULE MCGateways -----------------------------
(***************************************************************************)
(* Small hubs for Gateways: gate1 and gate2 are gateways, client1 and      *)
(* client2 threads of the HTTP server.                                     *)
(***************************************************************************)
EXTENDS Gateways, TLC

CONSTANTS gate1, gate2, client1, client2

MCId == gate1 :> 2 @@ gate2 :> 2
\* Both gateways want the same identifier and port: one is added when the
\* other is gone, or together with it by two requests.
MCPort == gate1 :> 5050 @@ gate2 :> 5050
=============================================================================
