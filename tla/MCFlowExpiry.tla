---------------------------- MODULE MCFlowExpiry ----------------------------
(* TLC instances of FlowExpiry: one rule is enough, no step on a rule      *)
(* reads another one.                                                      *)
EXTENDS FlowExpiry
=============================================================================
