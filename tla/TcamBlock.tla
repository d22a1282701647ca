----------------------------- MODULE TcamBlock -----------------------------
(***************************************************************************)
(* One TCAM block of the Humber driver: sys_acl_block_t and the functions  *)
(* of sys_humber_aclqos_entry.c that place an entry "after" another one.   *)
(* The lowest slot that matches a packet wins, so the slot order of the    *)
(* entries IS the priority order of the flows.                             *)
(*                                                                         *)
(* The driver runs under one lock, but the chip classifies packets all the *)
(* time: every single write of the chip is a step of its own, so that the  *)
(* invariants are checked on every table a packet can meet.                *)
(***************************************************************************)
EXTENDS OrderedList, FiniteSets

CONSTANTS
    EntryIds,      \* ids callers insert at HEAD or after another entry
    DftIds,        \* ids of the default entries, inserted at TAIL
    EntryCount,    \* pb->entry_count: slots of ordinary entries
    DftMax,        \* pb->entry_dft_max: slots reserved behind them
    ReorderRatio,  \* g_sys_humber_acl_reorder_ratio (100 in the driver)
    RememberBase,  \* SYS_ACL_REMEMBER_BASE (10 in the driver)
    MagicMargin,   \* the 4 of _sys_humber_acl_magic_reorder
    CountBound,    \* bound of the model on the two uint16 insert counters
    Null, ID_TAIL

ASSUME SizeAssumption ==
    /\ EntryCount \in Nat \ {0}
    /\ DftMax \in Nat
    /\ ReorderRatio \in Nat \ {0}
    /\ RememberBase \in Nat
    /\ MagicMargin \in Nat
    /\ CountBound \in Nat

ASSUME IdAssumption ==
    /\ EntryIds \cap DftIds = {}
    /\ Null \notin EntryIds \cup DftIds \cup {ID_HEAD, ID_TAIL}
    /\ Null \notin Int
    /\ ID_HEAD # ID_TAIL
    /\ {ID_HEAD, ID_TAIL} \cap (EntryIds \cup DftIds) = {}

(* hal_flow.c and hal_gre_tunnel.c insert one or two default entries in a  *)
(* block, which has five slots for them: the driver relies on that and     *)
(* does not look whether it has found one.                                 *)
ASSUME DefaultAssumption == IsFiniteSet(DftIds) /\ Cardinality(DftIds) <= DftMax

VARIABLES
    entries,     \* pb->entries[]: the driver's shadow of the block
    hw,          \* the entries that are valid in the chip
    index,       \* acl_master->entry: id -> block_index, Null if unknown
    free_count,  \* pb->free_count
    after_cnt,   \* pb->after_0_cnt and pb->after_1_cnt
    pc,          \* the loop that sys_humber_aclqos_entry_insert is in
    new,         \* the id it inserts
    after,       \* and the id it inserts it after
    target,      \* target_idx of get_block_index
    temp,        \* temp of the shift loops, the vacant slot
    shift,       \* *shift_amount
    mv,          \* a move whose new copy is written and old one not deleted
    target_a,    \* target_a[0 .. left_num-1] of the reorder
    idx,         \* and the position of its inner loop
    order        \* history: the order the callers asked for

block == <<entries, hw, index, free_count>>
loops == <<target, temp, shift, mv, target_a, idx>>
vars  == <<block, after_cnt, pc, new, after, loops, order>>

Ids      == EntryIds \cup DftIds
Slots    == 0 .. EntryCount + DftMax - 1
Ordinary == 0 .. EntryCount - 1
Default  == EntryCount .. EntryCount + DftMax - 1
Moves    == [from : Slots, to : Slots]
Targets  == [o : Slots, t : Nat]
Requests == [id : Ids, after : Ids \cup {ID_HEAD, ID_TAIL}]

ASSUME NullAssumption == Null \notin Moves \cup Requests

----------------------------------------------------------------------------
(* What the loops over pb->entries look for.                               *)

Used(s)  == entries[s] # Null
Lowest(n, S)  == n \in S /\ \A m \in S : n <= m
Highest(n, S) == n \in S /\ \A m \in S : m <= n

UsedSlots == {s \in Ordinary : Used(s)}
NullSlots == {s \in Ordinary : ~Used(s)}

(* In the table tab a packet meets a before any copy of b.                 *)
Before(tab, a, b) ==
    \A t \in Slots : tab[t] = b =>
        \E s \in Slots : s < t /\ tab[s] = a

TypeOK ==
    /\ entries \in [Slots -> Ids \cup {Null}]
    /\ hw \in [Slots -> Ids \cup {Null}]
    /\ index \in [Ids -> Slots \cup {Null}]
    /\ free_count \in Nat
    /\ after_cnt \in [0 .. 1 -> Nat]
    /\ pc \in {"idle", "all_down", "all_up", "place", "shift_down",
               "shift_up", "write", "reorder"}
    /\ new \in Ids \cup {Null}
    /\ after \in Ids \cup {ID_HEAD, ID_TAIL, Null}
    /\ target \in Slots
    /\ temp \in Slots
    /\ shift \in Nat
    /\ mv \in Moves \cup {Null}
    /\ target_a \in Seq(Targets)
    /\ idx \in Nat
    /\ order \in Seq(Ids)

----------------------------------------------------------------------------
(* sys_humber_aclqos_entry_init: an empty block.                           *)
Init ==
    /\ entries = [s \in Slots |-> Null]
    /\ hw = [s \in Slots |-> Null]
    /\ index = [e \in Ids |-> Null]
    /\ free_count = EntryCount
    /\ after_cnt = [i \in 0 .. 1 |-> 0]
    /\ pc = "idle"
    /\ new = Null
    /\ after = Null
    /\ target = 0
    /\ temp = 0
    /\ shift = 0
    /\ mv = Null
    /\ target_a = <<>>
    /\ idx = 1
    /\ order = <<>>

(* The places a caller may name: the default entries go to the tail, any   *)
(* other entry to the head or behind an ordinary entry the driver knows.   *)
Place(e, a) ==
    IF e \in DftIds THEN a = ID_TAIL
    ELSE a = ID_HEAD \/ (a \in EntryIds /\ index[a] # Null)

(***************************************************************************)
(* The ERR label of sys_humber_aclqos_entry_insert.  The new entry came    *)
(* from memset, its block_index is still 0 and it is in no table: removing *)
(* it clears slot 0 in the chip and in the shadow and counts one more free *)
(* slot, whoever owned slot 0.                                             *)
(***************************************************************************)
RemoveUnplaced ==
    /\ hw' = [hw EXCEPT ![0] = Null]
    /\ entries' = [entries EXCEPT ![0] = Null]
    /\ free_count' = free_count + 1
    /\ UNCHANGED <<index, after_cnt, pc, new, after, loops, order>>

(* An insert that fails: mapping its action or its key does (no forwarding *)
(* pointer is left, say), or the block is full.                            *)
InsertFails(e, a) ==
    /\ pc = "idle"
    /\ index[e] = Null
    /\ Place(e, a)
    /\ RemoveUnplaced

(***************************************************************************)
(* _sys_humber_acl_magic_reorder: while the block is nearly empty, count   *)
(* the inserts at the head and behind an entry; when exactly RememberBase  *)
(* entries are in, push them all to the end where the inserts will not be. *)
(***************************************************************************)
RealNum == EntryCount - free_count

Counted(a) ==
    CASE RealNum > RememberBase -> after_cnt
      [] RealNum <= RememberBase /\ a = ID_HEAD -> [after_cnt EXCEPT ![0] = @ + 1]
      [] RealNum <= RememberBase /\ a = ID_TAIL -> after_cnt
      [] OTHER -> [after_cnt EXCEPT ![1] = @ + 1]

MagicPc(cnt) ==
    CASE RealNum = RememberBase /\ cnt[0] >= MagicMargin + cnt[1] -> "all_down"
      [] RealNum = RememberBase /\ cnt[0] < MagicMargin + cnt[1]
                                /\ cnt[1] >= MagicMargin + cnt[0] -> "all_up"
      [] OTHER -> "place"

(* sys_humber_aclqos_entry_insert up to the magic reorder.                 *)
InsertBegin(e, a) ==
    /\ pc = "idle"
    /\ index[e] = Null
    /\ Place(e, a)
    /\ free_count >= 1
    /\ \A i \in 0 .. 1 : Counted(a)[i] <= CountBound
    /\ after_cnt' = Counted(a)
    /\ pc' = MagicPc(Counted(a))
    /\ new' = e
    /\ after' = a
    /\ shift' = 0
    /\ UNCHANGED <<block, target, temp, mv, target_a, idx, order>>

----------------------------------------------------------------------------
MoveDeleteFirst(from, to) ==   \* mutant: the old copy goes before the new one is there
    /\ mv = Null
    /\ hw' = [hw EXCEPT ![from] = Null]
    /\ mv' = [from |-> from, to |-> to]
    /\ UNCHANGED <<entries, index, free_count, after_cnt, pc, new, after,
                   target, temp, shift, target_a, idx, order>>

(***************************************************************************)
(* _sys_humber_acl_entry_move: the chip holds the entry twice between the  *)
(* write of the new slot and the delete of the old one; only then does the *)
(* shadow follow.                                                          *)
(***************************************************************************)
MoveWrite(from, to) ==
    /\ mv = Null
    /\ hw' = [hw EXCEPT ![to] = entries[from]]
    /\ mv' = [from |-> from, to |-> to]
    /\ UNCHANGED <<entries, index, free_count, after_cnt, pc, new, after,
                   target, temp, shift, target_a, idx, order>>

MoveKeepsCopy ==   \* mutant: the old copy is not deleted in the chip
    /\ mv # Null
    /\ entries' = [entries EXCEPT ![mv.to] = entries[mv.from], ![mv.from] = Null]
    /\ index' = [index EXCEPT ![entries[mv.from]] = mv.to]
    /\ mv' = Null
    /\ UNCHANGED hw

MoveDelete ==
    /\ mv # Null
    /\ hw' = [hw EXCEPT ![mv.from] = Null]
    /\ entries' = [entries EXCEPT ![mv.to] = entries[mv.from], ![mv.from] = Null]
    /\ index' = [index EXCEPT ![entries[mv.from]] = mv.to]
    /\ mv' = Null

(* A move ends inside a loop: the loop counters go on.                     *)
MoveEnd ==
    /\ MoveDelete
    /\ temp' = IF pc \in {"shift_down", "shift_up"} THEN mv.from ELSE temp
    /\ target_a' = IF pc = "reorder" THEN DeleteAt(target_a, idx) ELSE target_a
    /\ UNCHANGED <<free_count, after_cnt, pc, new, after, target, shift, idx,
                   order>>

Goto(p) ==
    /\ pc' = p
    /\ UNCHANGED <<block, after_cnt, new, after, loops, order>>

(* _sys_humber_acl_shift_all_entries_down: the lowest vacant slots from    *)
(* the bottom of the block take the entries above them, one by one.        *)
ShiftAllDownMove ==
    /\ pc = "all_down"
    /\ \E n \in NullSlots, p \in UsedSlots :
          /\ Highest(n, NullSlots)
          /\ Highest(p, {u \in UsedSlots : u < n})
          /\ MoveWrite(p, n)

ShiftAllDownEnd ==
    /\ pc = "all_down" /\ mv = Null
    /\ \A n \in NullSlots : \A u \in UsedSlots : n < u
    /\ Goto("place")

(* _sys_humber_acl_shift_all_entries_up: the mirror image.                 *)
ShiftAllUpMove ==
    /\ pc = "all_up"
    /\ \E n \in NullSlots, p \in UsedSlots :
          /\ Lowest(n, NullSlots)
          /\ Lowest(p, {u \in UsedSlots : u > n})
          /\ MoveWrite(p, n)

ShiftAllUpEnd ==
    /\ pc = "all_up" /\ mv = Null
    /\ \A n \in NullSlots : \A u \in UsedSlots : u < n
    /\ Goto("place")

----------------------------------------------------------------------------
(* _sys_humber_acl_get_block_index after the magic reorder, case by case.  *)

PlaceAt(s) ==
    /\ target' = s
    /\ pc' = "write"
    /\ UNCHANGED <<block, after_cnt, new, after, temp, shift, mv, target_a,
                   idx, order>>

ShiftTo(p, s, vacant, amount) ==
    /\ target' = s
    /\ temp' = vacant
    /\ shift' = amount
    /\ pc' = p
    /\ UNCHANGED <<block, after_cnt, new, after, mv, target_a, idx, order>>

(* There is a slot for every default entry, by DefaultAssumption.          *)
PlaceTail ==
    /\ pc = "place" /\ after = ID_TAIL
    /\ \E s \in Default :
          /\ Lowest(s, {d \in Default : ~Used(d)})
          /\ PlaceAt(s)

PlaceFirst ==
    /\ pc = "place" /\ after # ID_TAIL
    /\ free_count = EntryCount
    /\ PlaceAt(EntryCount - 1)

PlaceHeadBlindly ==   \* mutant: slot 0 is not treated apart
    /\ pc = "place" /\ after = ID_HEAD
    /\ free_count # EntryCount
    /\ \E f \in UsedSlots : Lowest(f, UsedSlots) /\ PlaceAt(f - 1)

PlaceHead ==
    /\ pc = "place" /\ after = ID_HEAD
    /\ free_count # EntryCount
    /\ \E f \in UsedSlots :
          /\ Lowest(f, UsedSlots)
          /\ \/ f > 0 /\ PlaceAt(f - 1)
             \/ /\ f = 0
                /\ \E n \in NullSlots : Lowest(n, NullSlots)
                                     /\ ShiftTo("shift_down", 0, n, n - 1)

(* The nearest vacant slot wins, the lower part of the block on a tie.     *)
PlaceAfter ==
    /\ pc = "place" /\ after \in EntryIds
    /\ free_count # EntryCount
    /\ LET a    == index[after]
           up   == {s \in NullSlots : s <= a}
           down == {s \in NullSlots : s >= a}
           Up(p)   == IF up = {} THEN EntryCount ELSE a - p
           Down(n) == IF down = {} THEN EntryCount ELSE n - (a + 1)
       IN \E p, n \in NullSlots :
             /\ up # {} => Highest(p, up)
             /\ down # {} => Lowest(n, down)
             /\ IF Down(n) <= Up(p)
                THEN ShiftTo("shift_down", a + 1, n, Down(n))
                ELSE ShiftTo("shift_up", a, p, Up(p))

ShiftDownJump ==   \* mutant: the entry at the target jumps to the vacant slot
    pc = "shift_down" /\ temp > target /\ MoveWrite(target, temp)

(* _sys_humber_acl_entry_shift_down and _up: one entry at a time into the  *)
(* vacant slot, from the vacant slot towards the target.                   *)
ShiftDownMove == pc = "shift_down" /\ temp > target /\ MoveWrite(temp - 1, temp)
ShiftDownEnd  == pc = "shift_down" /\ mv = Null /\ temp <= target /\ Goto("write")
ShiftUpMove   == pc = "shift_up" /\ temp < target /\ MoveWrite(temp + 1, temp)
ShiftUpEnd    == pc = "shift_up" /\ mv = Null /\ temp >= target /\ Goto("write")

----------------------------------------------------------------------------
(* Where a caller wants the new entry in the requested order.              *)
WantedAt ==
    CASE after = ID_HEAD -> 0
      [] after \in EntryIds -> IndexIn(order, after)
      [] OTHER -> Len(order)

DoReorder == shift >= EntryCount \div ReorderRatio

(* target_a of _sys_humber_acl_reorder(pb, _, 0): the n-th entry from the  *)
(* top is to be spread to slot entry_count * n / real_num.                 *)
NewTargets(ents, real_num) ==
    [n \in 1 .. real_num |->
        [o |-> CHOOSE s \in Ordinary :
                  ents[s] # Null /\ Cardinality({u \in 0 .. s : ents[u] # Null}) = n,
         t |-> (EntryCount * (n - 1)) \div real_num]]

(* _sys_humber_aclqos_entry_write and the reorder after it.                *)
Write ==
    /\ pc = "write"
    /\ hw' = [hw EXCEPT ![target] = new]
    /\ entries' = [entries EXCEPT ![target] = new]
    /\ index' = [index EXCEPT ![new] = target]
    /\ free_count' = IF target < EntryCount THEN free_count - 1 ELSE free_count
    /\ order' = InsertBehind(order, WantedAt, new)
    /\ pc' = IF DoReorder THEN "reorder" ELSE "idle"
    /\ target_a' = IF DoReorder THEN NewTargets(entries', EntryCount - free_count')
                   ELSE <<>>
    /\ idx' = 1
    /\ new' = Null
    /\ after' = Null
    /\ target' = 0 /\ temp' = 0 /\ shift' = 0
    /\ UNCHANGED <<after_cnt, mv>>

(***************************************************************************)
(* _sys_humber_acl_reorder: passes over the entries that have not reached  *)
(* their target.  One that is there leaves the array; one that may move is *)
(* moved at once, past every slot between; the others wait for a later     *)
(* pass.                                                                   *)
(***************************************************************************)
This     == target_a[idx]
InPass   == pc = "reorder" /\ mv = Null /\ idx <= Len(target_a)
MoveDown == This.o < This.t
MoveOk   ==
    IF MoveDown THEN idx < Len(target_a) => target_a[idx + 1].o > This.t
                ELSE idx > 1 => target_a[idx - 1].o > This.t

ReorderStayListed ==   \* mutant: an entry in place is not taken off the array
    /\ InPass
    /\ This.o = This.t
    /\ idx' = idx + 1
    /\ UNCHANGED <<block, after_cnt, pc, new, after, target, temp, shift, mv,
                   target_a, order>>

ReorderStay ==
    /\ InPass
    /\ This.o = This.t
    /\ target_a' = DeleteAt(target_a, idx)
    /\ UNCHANGED <<block, after_cnt, pc, new, after, target, temp, shift, mv,
                   idx, order>>

ReorderMove ==
    /\ InPass
    /\ This.o # This.t /\ MoveOk
    /\ MoveWrite(This.o, This.t)

ReorderSkip ==
    /\ InPass
    /\ This.o # This.t /\ ~MoveOk
    /\ idx' = idx + 1
    /\ UNCHANGED <<block, after_cnt, pc, new, after, target, temp, shift, mv,
                   target_a, order>>

ReorderPass ==
    /\ pc = "reorder" /\ mv = Null
    /\ idx > Len(target_a)
    /\ idx' = 1
    /\ pc' = IF target_a = <<>> THEN "idle" ELSE "reorder"
    /\ UNCHANGED <<block, after_cnt, new, after, target, temp, shift, mv,
                   target_a, order>>

----------------------------------------------------------------------------
EntryDeleteUncounted(e) ==   \* mutant: the slot is not counted as free
    /\ pc = "idle"
    /\ index[e] # Null
    /\ hw' = [hw EXCEPT ![index[e]] = Null]
    /\ entries' = [entries EXCEPT ![index[e]] = Null]
    /\ index' = [index EXCEPT ![e] = Null]
    /\ order' = HwDel(order, e)
    /\ UNCHANGED <<free_count, after_cnt, pc, new, after, loops>>

(* sys_humber_aclqos_entry_delete; default entries are never deleted.      *)
EntryDelete(e) ==
    /\ pc = "idle"
    /\ index[e] # Null
    /\ hw' = [hw EXCEPT ![index[e]] = Null]
    /\ entries' = [entries EXCEPT ![index[e]] = Null]
    /\ index' = [index EXCEPT ![e] = Null]
    /\ free_count' = IF index[e] < EntryCount THEN free_count + 1 ELSE free_count
    /\ after_cnt' = IF free_count' = EntryCount THEN [i \in 0 .. 1 |-> 0]
                    ELSE after_cnt
    /\ order' = HwDel(order, e)
    /\ UNCHANGED <<pc, new, after, loops>>

Call ==
    \/ \E e \in Ids, a \in EntryIds \cup {ID_HEAD, ID_TAIL} : InsertBegin(e, a)
    \/ \E e \in EntryIds : EntryDelete(e)

Step ==
    \/ MoveEnd
    \/ ShiftAllDownMove \/ ShiftAllDownEnd
    \/ ShiftAllUpMove \/ ShiftAllUpEnd
    \/ PlaceTail \/ PlaceFirst \/ PlaceHead \/ PlaceAfter
    \/ ShiftDownMove \/ ShiftDownEnd
    \/ ShiftUpMove \/ ShiftUpEnd
    \/ Write
    \/ ReorderStay \/ ReorderMove \/ ReorderSkip \/ ReorderPass

Next == Call \/ Step

(* A call runs to its end: the thread that made it holds the lock and has  *)
(* nothing to wait for.                                                    *)
Spec == Init /\ [][Next]_vars /\ WF_vars(Step)

(* The same block when inserts may also fail.                              *)
FailingNext ==
    Next \/ \E e \in Ids, a \in EntryIds \cup {ID_HEAD, ID_TAIL} : InsertFails(e, a)
FailingSpec == Init /\ [][FailingNext]_vars

----------------------------------------------------------------------------
(* Every entry the driver knows is valid in the chip, at its block_index,  *)
(* at every instant: moving an entry never takes it out of the table.      *)
NoEntryLost ==
    \A e \in Ids : index[e] # Null =>
        hw[index[e]] = e /\ entries[index[e]] = e

(* free_count is the number of vacant ordinary slots, as get_block_index,  *)
(* the reorder and the magic reorder take for granted.                     *)
FreeCountExact == free_count = Cardinality(NullSlots)

(* When no call is running the chip holds exactly the shadow: no stale     *)
(* copy of a moved entry is left behind.                                   *)
ChipIsShadow == pc = "idle" => hw = entries

(* A packet meets the entries in the requested order at every instant.     *)
OrderAlways ==
    \A i, j \in 1 .. Len(order) : i < j => Before(hw, order[i], order[j])

(* The order in which a packet meets the entries, each by its first copy.  *)
FirstCopies == {s \in Slots : hw[s] # Null /\ \A t \in 0 .. s - 1 : hw[t] # hw[s]}
ChipOrder ==
    [n \in 1 .. Cardinality(FirstCopies) |->
        hw[CHOOSE s \in FirstCopies : Cardinality({u \in FirstCopies : u <= s}) = n]]

List == IF pc = "reorder" THEN order ELSE ChipOrder
Req  == IF new = Null THEN Null ELSE [id |-> new, after |-> after]

Block == INSTANCE OrderedBlock WITH list <- List, req <- Req

(* The block is the ordered list its callers see: however many slots a     *)
(* call shifts, spreads or pushes to one end, packets find the new entry   *)
(* in its place by one write and the others stay in order.  Spreading is   *)
(* the exception: only when it has ended is the order of the chip the list *)
(* again.                                                                  *)
BlockIsList == Block!Spec

(* Every insert ends: the passes of the reorder always make progress.      *)
InsertEnds == pc # "idle" ~> pc = "idle"
=============================================================================
