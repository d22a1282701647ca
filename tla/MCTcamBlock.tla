---------------------------- MODULE MCTcamBlock ----------------------------
(* TLC instances of TcamBlock. *)
EXTENDS TcamBlock, TLC

Symmetry == Permutations(EntryIds)
=============================================================================
