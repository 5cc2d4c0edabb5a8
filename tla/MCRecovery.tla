----------------------------- MODULE MCRecovery -----------------------------
(***************************************************************************)
(* Recovery with two CAN ports: enough for one port to fail while the      *)
(* other works, and for a loop over the ports to be interrupted between    *)
(* two of them.                                                            *)
(***************************************************************************)
EXTENDS Recovery

CONSTANTS p1, p2

MCPorts == {p1, p2}
=============================================================================
