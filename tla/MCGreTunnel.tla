----------------------------- MODULE MCGreTunnel -----------------------------
(* TLC instances of GreTunnel.                                             *)
EXTENDS GreTunnel, TLC

Symmetry ==
    UNION {Permutations(S) : S \in {Ports, Locals, Remotes, BindPorts}}
=============================================================================
