---------------------------- MODULE MCOffsetPool ----------------------------
(* TLC instance of OffsetPool. *)
EXTENDS OffsetPool
=============================================================================
