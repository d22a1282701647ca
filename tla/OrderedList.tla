---------------------------- MODULE OrderedList ----------------------------
(***************************************************************************)
(* Lists without repetitions, and the block of the chip as the driver      *)
(* promises it to its callers: the list of the entries in the order in     *)
(* which a packet meets them.                                              *)
(*                                                                         *)
(* The lists are defined point by point rather than by concatenation: that *)
(* is the form the proofs about them need.                                 *)
(***************************************************************************)
EXTENDS Integers, Sequences

CONSTANT ID_HEAD   \* CTC_ACLQOS_ENTRY_ID_HEAD, "in front of all others"

Elems(s) == {s[n] : n \in 1 .. Len(s)}

(* s with e behind its first n elements; s without its n-th element.       *)
InsertBehind(s, n, e) ==
    [i \in 1 .. Len(s) + 1 |->
        IF i <= n THEN s[i] ELSE IF i = n + 1 THEN e ELSE s[i - 1]]
DeleteAt(s, n) ==
    [i \in 1 .. Len(s) - 1 |-> IF i < n THEN s[i] ELSE s[i + 1]]

IndexIn(s, e) == CHOOSE n \in 1 .. Len(s) : s[n] = e

(* Insert e behind a, which must be in the list or the head; delete e.     *)
HwPlace(hw, a) == IF a = ID_HEAD THEN 0 ELSE IndexIn(hw, a)
HwAdd(hw, a, e) == InsertBehind(hw, HwPlace(hw, a), e)
HwDel(hw, e) == IF e \in Elems(hw) THEN DeleteAt(hw, IndexIn(hw, e)) ELSE hw
=============================================================================
