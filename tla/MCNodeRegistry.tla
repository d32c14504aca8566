--------------------------- MODULE MCNodeRegistry ---------------------------
(***************************************************************************)
(* Small networks for NodeRegistry: the coordinator and an end device of   *)
(* one gateway, and a SIPRO device of another.                             *)
(***************************************************************************)
EXTENDS NodeRegistry

Dev(g, n, a) == [gatewayId |-> g, nuid |-> n, address |-> a]

MCDevices == {Dev(2, 2, 1)}
MCNoSipro == {}
MCProfile == [d \in MCDevices |->
                [logicalType |-> "END_DEVICE", manufacturer |-> "DIGI"]]

\* A SIPRO device whose address, the low half of its nuid, is that of the
\* device of the first gateway.
MCSipro == {Dev(3, 3, 1)}

\* The coordinator of the gateway, who hears the device.
MCRegistered == {NewNode(1, Dev(2, 1, 0), "COORDINATOR", "DIGI", FALSE)}
=============================================================================
