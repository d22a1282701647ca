---------------------------- MODULE MCFlowTable ----------------------------
(* TLC instances of FlowTable: pools that never run out before the table   *)
(* is full, and pools of which the one of the extra entries does.          *)
EXTENDS FlowTable, TLC

MCPools  == "MAC" :> 1 .. 3 @@ "IPV4" :> 11 .. 13
MCScarce == "MAC" :> 1 .. 3 @@ "IPV4" :> 11 .. 12

Symmetry == Permutations(Rules) \cup Permutations(EtherTypes) \cup Permutations(Actions)
=============================================================================
