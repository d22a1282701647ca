---------------------------- MODULE MCPortStatus ----------------------------
(* TLC instances of PortStatus: two ports, the second with a tunnel.       *)
EXTENDS PortStatus, TLC

CONSTANTS eth1, eth2, gre1

MCPhys == <<eth1, eth2>>
MCBind == gre1 :> eth2
=============================================================================
