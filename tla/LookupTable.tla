---------------------------- MODULE LookupTable ----------------------------
(***************************************************************************)
(* What an OpenFlow table promises: each class of packets looks through a  *)
(* list of flows by falling priority, older flows of a priority first, and *)
(* the first that matches acts.  Adding, modifying and deleting a flow are *)
(* single steps; an operation that fails is none.  No entry ids, lists of  *)
(* priorities, statistics or counts: those are how FlowTable does it.      *)
(***************************************************************************)
EXTENDS OrderedList, FiniteSets

CONSTANTS Rules, Prios, Actions,
          Blocks   \* the classes of packets: one block of the chip looks each up

VARIABLE table   \* block -> the flows in the order in which they are tried

Flows == [rule : Rules, prio : Prios, act : Actions]

Init == table = [b \in Blocks |-> <<>>]

Rank(b, p) == Cardinality({n \in 1 .. Len(table[b]) : table[b][n].prio >= p})

(* Where a block lists a flow, if it does: once at most, as Add sees to.   *)
PlacesIn(b, r) == {n \in 1 .. Len(table[b]) : table[b][n].rule = r}
PlaceIn(b, r)  == CHOOSE n \in PlacesIn(b, r) : TRUE

Listed(r) == \E b \in Blocks : PlacesIn(b, r) # {}

Add(r, B, p, a) ==
    /\ ~Listed(r)
    /\ table' = [b \in Blocks |->
          IF b \in B
          THEN InsertBehind(table[b], Rank(b, p), [rule |-> r, prio |-> p, act |-> a])
          ELSE table[b]]

Modify(r, a) ==
    /\ Listed(r)
    /\ table' = [b \in Blocks |-> [n \in 1 .. Len(table[b]) |->
          IF table[b][n].rule = r THEN [table[b][n] EXCEPT !.act = a]
          ELSE table[b][n]]]

Delete(r) ==
    /\ Listed(r)
    /\ table' = [b \in Blocks |->
          IF PlacesIn(b, r) = {} THEN table[b] ELSE DeleteAt(table[b], PlaceIn(b, r))]

(* What changes nothing that packets meet is a stuttering step.            *)
Next ==
    table' # table /\ \E r \in Rules :
        \/ \E B \in SUBSET Blocks, p \in Prios, a \in Actions : Add(r, B, p, a)
        \/ \E a \in Actions : Modify(r, a)
        \/ Delete(r)

Spec == Init /\ [][Next]_table
=============================================================================
