----------------------------- MODULE PriorityDb -----------------------------
(***************************************************************************)
(* The priority database of adpt_flow_db.c, and the order of the entries   *)
(* in the block of the chip that it is to keep.                            *)
(*                                                                         *)
(* A database is a record: prios is the list of the priorities in use,     *)
(* ids[p] the list of the entry ids of priority p.  The two hash tables of *)
(* the code only speed up the lookups: a priority is in the hash exactly   *)
(* when it is in the list.                                                 *)
(***************************************************************************)
EXTENDS OrderedList

CONSTANTS Prios,    \* the priorities
          Ids       \* the entry ids

ASSUME PriosAssumption == Prios \subseteq Nat
ASSUME IdsAssumption == Ids \subseteq Nat /\ ID_HEAD \notin Ids

Db == [prios : Seq(Prios), ids : [Prios -> Seq(Ids)]]
EmptyDb == [prios |-> <<>>, ids |-> [p \in Prios |-> <<>>]]

----------------------------------------------------------------------------
(* adpt_flowdb_priority_list_add: how many priorities stay in front of p.  *)

FromHead(s, p) ==
    CHOOSE n \in 0 .. Len(s) - 1 :
        s[n + 1] < p /\ \A m \in 1 .. n : s[m] >= p

FromTail(s, p) ==
    CHOOSE n \in 1 .. Len(s) :
        s[n] > p /\ \A m \in n + 1 .. Len(s) : s[m] <= p

PlaceOfBeforeTail(s, p) ==   \* mutant: a lowest priority goes in front of the tail
    IF s = <<>> THEN 0
    ELSE IF p > s[1] THEN 0
    ELSE IF p < s[Len(s)] THEN Len(s) - 1
    ELSE IF s[1] - p < p - s[Len(s)] THEN FromHead(s, p)
    ELSE FromTail(s, p)

PlaceOf(s, p) ==
    IF s = <<>> THEN 0
    ELSE IF p > s[1] THEN 0
    ELSE IF p < s[Len(s)] THEN Len(s)
    ELSE IF s[1] - p < p - s[Len(s)] THEN FromHead(s, p)
    ELSE FromTail(s, p)

(* adpt_flowdb_add_flow_priority_entry_id                                  *)
DbAdd(db, p, e) ==
    [prios |-> IF p \in Elems(db.prios) THEN db.prios
               ELSE InsertBehind(db.prios, PlaceOf(db.prios, p), p),
     ids   |-> [db.ids EXCEPT ![p] = Append(@, e)]]

(* adpt_flowdb_del_flow_priority_entry_id                                  *)
IdsWithout(s, e) == IF e \in Elems(s) THEN DeleteAt(s, IndexIn(s, e)) ELSE s

DbDelListed(db, p, e) ==   \* mutant: a priority without entries stays in the list
    [db EXCEPT !.ids[p] = IdsWithout(@, e)]

DbDel(db, p, e) ==
    IF p \notin Elems(db.prios) THEN db
    ELSE LET left == IdsWithout(db.ids[p], e)
         IN [prios |-> IF left = <<>> THEN DeleteAt(db.prios, IndexIn(db.prios, p))
                       ELSE db.prios,
             ids   |-> [db.ids EXCEPT ![p] = left]]

(***************************************************************************)
(* adpt_flowdb_get_prev_entry_id: the entry in front of e in the list of   *)
(* its priority or, if e is the first, the last one of the nearest higher  *)
(* priority that has any.                                                  *)
(***************************************************************************)
LastOf(s) == s[Len(s)]

Higher(db, p) ==
    {j \in 1 .. IndexIn(db.prios, p) - 1 : db.ids[db.prios[j]] # <<>>}

PrevIdOfHigher(db, p, e) ==   \* mutant: in front of the older flows of its priority
    IF Higher(db, p) = {} THEN ID_HEAD
    ELSE LastOf(db.ids[db.prios[CHOOSE j \in Higher(db, p) :
                                   \A m \in Higher(db, p) : m <= j]])

PrevId(db, p, e) ==
    LET k == IndexIn(db.ids[p], e)
    IN IF k > 1 THEN db.ids[p][k - 1]
       ELSE IF Higher(db, p) = {} THEN ID_HEAD
       ELSE LastOf(db.ids[db.prios[CHOOSE j \in Higher(db, p) :
                                      \A m \in Higher(db, p) : m <= j]])

----------------------------------------------------------------------------
(* What ties a database and a block together, in named parts.              *)

(* The priorities are listed once each, the highest first.                 *)
Descending(db) ==
    \A i, j \in 1 .. Len(db.prios) : i < j => db.prios[i] > db.prios[j]

(* A priority is listed exactly as long as it has entries.                 *)
ListedIffUsed(db) ==
    \A p \in Prios : p \in Elems(db.prios) <=> db.ids[p] # <<>>

(* No entry id is in the database twice.                                   *)
EachIdOnce(db) ==
    \A p, q \in Prios :
        \A k \in 1 .. Len(db.ids[p]), l \in 1 .. Len(db.ids[q]) :
            db.ids[p][k] = db.ids[q][l] => p = q /\ k = l

(* The block holds the ids of the database and nothing else, once each.    *)
SameEntries(db, hw) ==
    /\ \A n, m \in 1 .. Len(hw) : hw[n] = hw[m] => n = m
    /\ \A n \in 1 .. Len(hw) : \E p \in Prios : hw[n] \in Elems(db.ids[p])
    /\ \A p \in Prios : \A k \in 1 .. Len(db.ids[p]) : db.ids[p][k] \in Elems(hw)

(* The block lists them by falling priority, and the entries of one        *)
(* priority in the order of the database.                                  *)
SameOrder(db, hw) ==
    \A p, q \in Prios :
        \A k \in 1 .. Len(db.ids[p]), l \in 1 .. Len(db.ids[q]) :
            \A n, m \in 1 .. Len(hw) :
                /\ hw[n] = db.ids[p][k]
                /\ hw[m] = db.ids[q][l]
                /\ p > q \/ (p = q /\ k < l)
                => n < m

Consistent(db, hw) ==
    /\ Descending(db)
    /\ ListedIffUsed(db)
    /\ EachIdOnce(db)
    /\ SameEntries(db, hw)
    /\ SameOrder(db, hw)
=============================================================================
