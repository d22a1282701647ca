---------------------------- MODULE OrderedBlock ----------------------------
(***************************************************************************)
(* What a block of the chip promises to the flow table: a caller names an  *)
(* entry and the one it is to follow, and at one instant the entry is in   *)
(* its place in the list that packets meet, the others in theirs.          *)
(* TcamBlock implements it with shifts and moves of single slots; the flow *)
(* table is built on its two operators HwAdd and HwDel.                    *)
(***************************************************************************)
EXTENDS OrderedList

CONSTANTS EntryIds,   \* ordinary entries
          DftIds,     \* default entries, which go to the tail
          ID_TAIL,    \* CTC_ACLQOS_ENTRY_ID_TAIL
          Null

VARIABLES list,   \* the entries in the order a packet meets them
          req     \* the insert asked for: [id, after], Null if there is none

Init == list = <<>> /\ req = Null

Free(e) == e \notin Elems(list)

Insert(e, a) ==
    /\ req = Null
    /\ req' = [id |-> e, after |-> a]
    /\ Free(e)
    /\ IF e \in DftIds THEN a = ID_TAIL
       ELSE a = ID_HEAD \/ a \in Elems(list) \cap EntryIds
    /\ UNCHANGED list

Take ==
    /\ req # Null
    /\ list' = IF req.after = ID_TAIL THEN Append(list, req.id)
               ELSE HwAdd(list, req.after, req.id)
    /\ req' = Null

Delete(e) ==
    /\ req = Null /\ e \in Elems(list)
    /\ list' = HwDel(list, e)
    /\ UNCHANGED req

Next ==
    \/ \E e \in EntryIds \cup DftIds, a \in EntryIds \cup {ID_HEAD, ID_TAIL} : Insert(e, a)
    \/ Take
    \/ \E e \in EntryIds : Delete(e)

Spec == Init /\ [][Next]_<<list, req>>
=============================================================================
