-------------------------- MODULE TcamBlockProofs --------------------------
(***************************************************************************)
(* What TLAPS proves about TcamBlock, for a block of any size and any      *)
(* settings of the driver.                                                 *)
(***************************************************************************)
EXTENDS TcamBlock, FiniteSetTheorems, TLAPS

Known(e) == index[e] # Null

(* The shadow and the table of the entries agree, and ordinary entries are *)
(* in ordinary slots; the default entries fill theirs from the front.      *)
ShadowInv ==
    /\ \A s \in Slots : Used(s) => index[entries[s]] = s
    /\ \A e \in Ids : Known(e) => entries[index[e]] = e
    /\ \A e \in Ids : Known(e) => (e \in EntryIds <=> index[e] \in Ordinary)
    /\ \A d, c \in Default : c < d /\ Used(d) => Used(c)

(* The chip is the shadow, but for the second copy of an entry on its way  *)
(* to a vacant slot.                                                       *)
ChipInv ==
    /\ mv = Null => hw = entries
    /\ mv # Null => /\ mv.from \in Ordinary /\ mv.to \in Ordinary
                    /\ Used(mv.from) /\ ~Used(mv.to)
                    /\ hw = [entries EXCEPT ![mv.to] = entries[mv.from]]

(* What an insert has found out so far.                                    *)
CallInv ==
    /\ pc \in {"idle", "reorder"} => new = Null
    /\ pc \notin {"idle", "reorder"} => new \in Ids /\ ~Known(new) /\ Place(new, after)
    /\ pc \in {"idle", "place", "write"} => mv = Null
    /\ pc # "reorder" => target_a = <<>>

(* Outside the reorder an entry moves past vacant slots only.              *)
MoveInv ==
    (mv # Null /\ pc # "reorder") =>
        \A s \in UsedSlots \ {mv.from} : s < mv.from <=> s < mv.to

(* The shift loops: the vacant slot moves towards the target, and the      *)
(* entry to insert after stays or comes to rest just above it.             *)
ShiftInv ==
    /\ pc = "shift_down" =>
          /\ target \in Ordinary /\ temp \in Ordinary /\ target <= temp /\ ~Used(temp)
          /\ \A s \in target .. temp - 1 : Used(s)
          /\ mv # Null => temp > target /\ mv = [from |-> temp - 1, to |-> temp]
          /\ after = ID_HEAD \/ after \in EntryIds
          /\ after = ID_HEAD => target = 0
          /\ after \in EntryIds => index[after] = target - 1
    /\ pc = "shift_up" =>
          /\ target \in Ordinary /\ temp \in Ordinary /\ temp <= target /\ ~Used(temp)
          /\ \A s \in temp + 1 .. target : Used(s)
          /\ mv # Null => temp < target /\ mv = [from |-> temp + 1, to |-> temp]
          /\ after \in EntryIds
          /\ index[after] = IF temp < target THEN target ELSE target - 1

(* The slot the new entry is written to is the one its caller asked for.   *)
WriteInv ==
    pc = "write" =>
        /\ ~Used(target)
        /\ new \in EntryIds <=> target \in Ordinary
        /\ after = ID_HEAD => \A s \in Slots : Used(s) => s > target
        /\ after \in EntryIds => index[after] = target - 1
        /\ after = ID_TAIL => /\ \A s \in Slots : Used(s) => s < target
                              /\ \A d \in Default : d < target => Used(d)

(* The array of the reorder: entries from top to bottom, each with its     *)
(* target.  The entries that are off the array are in no target of one on  *)
(* it, and those a pass has skipped leave the targets below them alone:    *)
(* so the test of the code, which compares the wrong way for an entry that *)
(* moves up, still never overwrites an entry.                              *)
Listed(s) == \E n \in 1 .. Len(target_a) : target_a[n].o = s

ArrayInv ==
    /\ \A n \in 1 .. Len(target_a) : target_a[n].o \in UsedSlots /\ target_a[n].t \in Ordinary
    /\ \A m, n \in 1 .. Len(target_a) :
          m < n => target_a[m].o < target_a[n].o /\ target_a[m].t < target_a[n].t
    /\ \A s \in UsedSlots : ~Listed(s) => \A n \in 1 .. Len(target_a) : target_a[n].t # s
    /\ idx \in Nat \ {0}
    /\ \A m, n \in 1 .. Len(target_a) :
          n = m + 1 /\ n < idx => target_a[m].o <= target_a[n].t
    /\ (mv # Null /\ pc = "reorder") =>
          idx \in 1 .. Len(target_a) /\ mv = [from |-> target_a[idx].o, to |-> target_a[idx].t]

(* Where the entry in slot s will be when the reorder is over: at its      *)
(* target, or where it is when it is off the array.                        *)
Goal(s, g) ==
    \/ ~Listed(s) /\ g = s
    \/ \E n \in 1 .. Len(target_a) : target_a[n].o = s /\ g = target_a[n].t

(* The goals of the entries follow the order the callers asked for.        *)
OrderInv ==
    /\ \A i \in 1 .. Len(order) : Known(order[i])
    /\ \A e \in Ids : Known(e) => \E i \in 1 .. Len(order) : order[i] = e
    /\ \A i, j \in 1 .. Len(order) : i < j =>
          \A g, h \in Slots :
             Goal(index[order[i]], g) /\ Goal(index[order[j]], h) => g < h

IInv ==
    /\ TypeOK /\ FreeCountExact
    /\ ShadowInv /\ ChipInv /\ CallInv /\ MoveInv /\ ShiftInv /\ WriteInv
    /\ ArrayInv /\ OrderInv

(* Whenever the entries are not being spread, a packet meets them in the   *)
(* order the callers asked for.                                            *)
OrderOutsideReorder == pc # "reorder" => OrderAlways

----------------------------------------------------------------------------
(* The slots of the block.                                                 *)
LEMMA SlotFacts ==
    /\ EntryCount \in Nat /\ EntryCount > 0 /\ DftMax \in Nat
    /\ Ordinary \subseteq Slots /\ Default \subseteq Slots /\ Slots \subseteq Nat
    /\ \A s \in Slots : s \in Ordinary <=> s < EntryCount
    /\ \A s \in Slots : s \in Default <=> s >= EntryCount
    /\ \A s \in Nat : s < EntryCount => s \in Ordinary
    /\ 0 \in Slots /\ Null \notin Slots
<1>1. EntryCount \in Nat /\ EntryCount > 0 /\ DftMax \in Nat
  BY SizeAssumption
<1>2. Null \notin Slots
  BY IdAssumption DEF Slots
<1> QED BY <1>1, <1>2 DEF Ordinary, Default, Slots

(* Who the ids are.                                                        *)
LEMMA IdFacts ==
    /\ Null \notin Ids /\ ID_HEAD \notin Ids /\ ID_TAIL \notin Ids /\ ID_HEAD # ID_TAIL
    /\ EntryIds \subseteq Ids /\ DftIds \subseteq Ids
    /\ \A e \in Ids : e \in DftIds <=> e \notin EntryIds
  BY IdAssumption DEF Ids

(* Lists that are defined point by point.                                  *)
Inserted(T, s, n, e) ==
    /\ InsertBehind(s, n, e) \in Seq(T) /\ Len(InsertBehind(s, n, e)) = Len(s) + 1
    /\ \A i \in 1 .. Len(s) + 1 :
          InsertBehind(s, n, e)[i] = IF i <= n THEN s[i]
                                     ELSE IF i = n + 1 THEN e ELSE s[i - 1]

LEMMA InsertProps ==
    ASSUME NEW T, NEW s \in Seq(T), NEW n \in 0 .. Len(s), NEW e \in T
    PROVE  Inserted(T, s, n, e)
<1>1. Len(s) \in Nat /\ \A i \in 1 .. Len(s) : s[i] \in T
  OBVIOUS
<1>2. InsertBehind(s, n, e) \in [1 .. Len(s) + 1 -> T]
  BY <1>1 DEF InsertBehind
<1>3. InsertBehind(s, n, e) \in Seq(T) /\ Len(InsertBehind(s, n, e)) = Len(s) + 1
  BY <1>1, <1>2
<1> QED BY <1>1, <1>3 DEF InsertBehind, Inserted

LEMMA DeleteProps ==
    ASSUME NEW T, NEW s \in Seq(T), NEW n \in 1 .. Len(s)
    PROVE  /\ DeleteAt(s, n) \in Seq(T) /\ Len(DeleteAt(s, n)) = Len(s) - 1
           /\ \A i \in 1 .. Len(s) - 1 : DeleteAt(s, n)[i] = IF i < n THEN s[i] ELSE s[i + 1]
<1>1. Len(s) \in Nat /\ \A i \in 1 .. Len(s) : s[i] \in T
  OBVIOUS
<1>2. DeleteAt(s, n) \in [1 .. Len(s) - 1 -> T]
  BY <1>1 DEF DeleteAt
<1>3. DeleteAt(s, n) \in Seq(T) /\ Len(DeleteAt(s, n)) = Len(s) - 1
  BY <1>1, <1>2
<1> QED BY <1>1, <1>3 DEF DeleteAt

LEMMA IndexInProps ==
    ASSUME NEW s, NEW e \in Elems(s)
    PROVE  IndexIn(s, e) \in 1 .. Len(s) /\ s[IndexIn(s, e)] = e
  BY DEF Elems, IndexIn

(* The vacant and the used ordinary slots can be counted.                  *)
LEMMA CountFacts ==
    /\ IsFiniteSet(Ordinary) /\ Cardinality(Ordinary) = EntryCount
    /\ IsFiniteSet(NullSlots) /\ Cardinality(NullSlots) \in Nat
    /\ Cardinality(NullSlots) <= EntryCount
    /\ Cardinality(NullSlots) = EntryCount => NullSlots = Ordinary
    /\ Cardinality(UsedSlots) = EntryCount - Cardinality(NullSlots)
<1>1. EntryCount \in Nat /\ EntryCount > 0
  BY SlotFacts
<1>2. IsFiniteSet(Ordinary) /\ Cardinality(Ordinary) = EntryCount
  BY <1>1, FS_Interval DEF Ordinary
<1>3. NullSlots \in SUBSET Ordinary /\ UsedSlots = Ordinary \ NullSlots
      /\ Ordinary \cap NullSlots = NullSlots
  BY DEF NullSlots, UsedSlots
<1>4. /\ IsFiniteSet(NullSlots) /\ Cardinality(NullSlots) \in Nat
      /\ Cardinality(NullSlots) <= EntryCount
      /\ Cardinality(NullSlots) = EntryCount => NullSlots = Ordinary
  BY <1>2, <1>3, FS_Subset, FS_CardinalityType
<1>5. Cardinality(Ordinary \ NullSlots) = Cardinality(Ordinary) - Cardinality(NullSlots)
  BY <1>2, <1>3, FS_Difference
<1> QED BY <1>2, <1>3, <1>4, <1>5

----------------------------------------------------------------------------
(* An empty block satisfies the invariant.                                 *)
LEMMA InitInv == Init => IInv
<1> SUFFICES ASSUME Init PROVE IInv
  OBVIOUS
<1>1. TypeOK
  <2>1. entries \in [Slots -> Ids \cup {Null}] /\ hw \in [Slots -> Ids \cup {Null}]
        /\ index \in [Ids -> Slots \cup {Null}]
    BY DEF Init
  <2>2. free_count \in Nat /\ after_cnt \in [0 .. 1 -> Nat] /\ 0 \in Slots
    BY SlotFacts DEF Init
  <2>3. target_a \in Seq(Targets) /\ order \in Seq(Ids) /\ idx \in Nat /\ shift \in Nat
    BY DEF Init
  <2> QED BY <2>1, <2>2, <2>3 DEF Init, TypeOK
<1>2. \A s \in Slots : ~Used(s)
  BY DEF Init, Used
<1>3. FreeCountExact
  <2>1. NullSlots = Ordinary
    BY <1>2, SlotFacts DEF NullSlots
  <2> QED BY <2>1, CountFacts DEF FreeCountExact, Init
<1>4. ShadowInv
  BY <1>2, SlotFacts DEF ShadowInv, Init, Known
<1>5. ChipInv /\ CallInv /\ MoveInv /\ ShiftInv /\ WriteInv
  BY DEF Init, ChipInv, CallInv, MoveInv, ShiftInv, WriteInv
<1>6. ArrayInv
  <2>1. UsedSlots = {} /\ Len(target_a) = 0 /\ idx \in Nat \ {0} /\ mv = Null
    BY <1>2, SlotFacts DEF UsedSlots, Init
  <2> QED BY <2>1 DEF ArrayInv
<1>7. OrderInv
  <2>1. Len(order) = 0 /\ \A e \in Ids : ~Known(e)
    BY DEF Init, Known
  <2> QED BY <2>1 DEF OrderInv
<1> QED BY <1>1, <1>3, <1>4, <1>5, <1>6, <1>7 DEF IInv

(* A step that leaves the block alone keeps what is said of the block.     *)
LEMMA BlockKept ==
    ASSUME FreeCountExact, ShadowInv, ChipInv, UNCHANGED <<block, mv>>
    PROVE  FreeCountExact' /\ ShadowInv' /\ ChipInv'
  BY DEF block, FreeCountExact, NullSlots, Used, ShadowInv, ChipInv, Known

LEMMA OrderKept ==
    ASSUME OrderInv, UNCHANGED <<index, order, target_a>>
    PROVE  OrderInv'
  BY DEF OrderInv, Goal, Listed, Known

LEMMA ArrayKept ==
    ASSUME ArrayInv, UNCHANGED <<entries, target_a, idx, mv>>, mv = Null \/ pc' = pc
    PROVE  ArrayInv'
  BY DEF ArrayInv, UsedSlots, Used, Listed

(* sys_humber_aclqos_entry_insert begins.                                  *)
LEMMA InsertBeginInv ==
    ASSUME IInv, NEW e \in Ids, NEW a \in EntryIds \cup {ID_HEAD, ID_TAIL}, InsertBegin(e, a)
    PROVE  IInv'
<1>1. /\ pc = "idle" /\ mv = Null /\ index[e] = Null /\ Place(e, a)
      /\ UNCHANGED <<block, target, temp, mv, target_a, idx, order>>
      /\ after_cnt' = Counted(a) /\ pc' = MagicPc(Counted(a))
      /\ new' = e /\ after' = a /\ shift' = 0
  BY DEF InsertBegin, IInv, CallInv
<1>2. pc' \in {"all_down", "all_up", "place"}
  BY <1>1 DEF MagicPc
<1>3. TypeOK'
  <2>1. Counted(a) \in [0 .. 1 -> Nat]
    BY DEF Counted, IInv, TypeOK
  <2>2. e \in Ids \cup {Null} /\ a \in Ids \cup {ID_HEAD, ID_TAIL, Null}
    BY IdFacts
  <2> QED BY <1>1, <1>2, <2>1, <2>2 DEF IInv, TypeOK, block
<1>4. FreeCountExact' /\ ShadowInv' /\ ChipInv'
  BY <1>1, BlockKept DEF IInv
<1>5. CallInv'
  BY <1>1, <1>2 DEF CallInv, IInv, Known, Place, block
<1>6. MoveInv' /\ ShiftInv' /\ WriteInv'
  BY <1>1, <1>2 DEF MoveInv, ShiftInv, WriteInv
<1>7. ArrayInv' /\ OrderInv'
  BY <1>1, ArrayKept, OrderKept DEF IInv, block
<1> QED BY <1>3, <1>4, <1>5, <1>6, <1>7 DEF IInv

(* The steps of an insert that only choose what to do next.                *)
LEMMA GotoInv ==
    ASSUME IInv, NEW p \in {"place", "write"}, Goto(p), mv = Null,
           pc \notin {"idle", "reorder"}, p = "write" => WriteInv'
    PROVE  IInv'
<1>1. /\ pc' = p /\ UNCHANGED <<block, mv, entries, hw, index, free_count, after_cnt, new, after,
                                target, temp, shift, target_a, idx, order>>
  BY DEF Goto, block, loops
<1>2. TypeOK'
  BY <1>1 DEF IInv, TypeOK
<1>3. FreeCountExact' /\ ShadowInv' /\ ChipInv'
  BY <1>1, BlockKept DEF IInv
<1>4. CallInv'
  BY <1>1 DEF CallInv, IInv, Known, Place
<1>5. MoveInv' /\ ShiftInv' /\ WriteInv'
  BY <1>1 DEF MoveInv, ShiftInv, WriteInv
<1>6. ArrayInv' /\ OrderInv'
  BY <1>1, ArrayKept, OrderKept DEF IInv
<1> QED BY <1>2, <1>3, <1>4, <1>5, <1>6 DEF IInv

LEMMA PlaceAtInv ==
    ASSUME IInv, pc = "place", NEW s \in Slots, PlaceAt(s), ~Used(s),
           new \in EntryIds <=> s \in Ordinary,
           after = ID_HEAD => \A u \in Slots : Used(u) => u > s,
           after \in EntryIds => index[after] = s - 1,
           after = ID_TAIL => /\ \A u \in Slots : Used(u) => u < s
                              /\ \A d \in Default : d < s => Used(d)
    PROVE  IInv'
<1>1. /\ pc' = "write" /\ target' = s /\ mv = Null
      /\ UNCHANGED <<block, mv, entries, hw, index, free_count, after_cnt, new, after,
                     temp, shift, target_a, idx, order>>
  BY DEF PlaceAt, block, IInv, CallInv
<1>2. TypeOK'
  BY <1>1 DEF IInv, TypeOK
<1>3. FreeCountExact' /\ ShadowInv' /\ ChipInv'
  BY <1>1, BlockKept DEF IInv
<1>4. CallInv'
  BY <1>1 DEF CallInv, IInv, Known, Place
<1>5. MoveInv' /\ ShiftInv'
  BY <1>1 DEF MoveInv, ShiftInv
<1>6. WriteInv'
  BY <1>1 DEF WriteInv, Used
<1>7. ArrayInv' /\ OrderInv'
  BY <1>1, ArrayKept, OrderKept DEF IInv
<1> QED BY <1>2, <1>3, <1>4, <1>5, <1>6, <1>7 DEF IInv

LEMMA ShiftToInv ==
    ASSUME IInv, pc = "place", NEW p \in {"shift_down", "shift_up"}, NEW s \in Slots,
           NEW v \in Slots, NEW n \in Nat, ShiftTo(p, s, v, n), ShiftInv'
    PROVE  IInv'
<1>1. /\ pc' = p /\ target' = s /\ temp' = v /\ shift' = n /\ mv = Null
      /\ UNCHANGED <<block, mv, entries, hw, index, free_count, after_cnt, new, after,
                     target_a, idx, order>>
  BY DEF ShiftTo, block, IInv, CallInv
<1>2. TypeOK'
  BY <1>1 DEF IInv, TypeOK
<1>3. FreeCountExact' /\ ShadowInv' /\ ChipInv'
  BY <1>1, BlockKept DEF IInv
<1>4. CallInv'
  BY <1>1 DEF CallInv, IInv, Known, Place
<1>5. MoveInv' /\ WriteInv'
  BY <1>1 DEF MoveInv, WriteInv
<1>6. ArrayInv' /\ OrderInv'
  BY <1>1, ArrayKept, OrderKept DEF IInv
<1> QED BY <1>2, <1>3, <1>4, <1>5, <1>6 DEF IInv

(* A default entry goes behind all others.                                 *)
LEMMA PlaceTailInv == ASSUME IInv, PlaceTail PROVE IInv'
<1>1. PICK s \in Default : Lowest(s, {d \in Default : ~Used(d)}) /\ PlaceAt(s)
  BY DEF PlaceTail
<1>2. pc = "place" /\ after = ID_TAIL /\ ~Used(s) /\ s \in Slots /\ s \notin Ordinary
  BY <1>1, SlotFacts DEF PlaceTail, Lowest
<1>3. new \notin EntryIds
  BY <1>2, IdFacts DEF IInv, CallInv, Place
<1>4. \A u \in Slots : Used(u) => u < s
  <2> SUFFICES ASSUME NEW u \in Slots, Used(u), ~(u < s) PROVE FALSE
    OBVIOUS
  <2>1. u > s /\ u \in Default
    BY <1>1, <1>2, SlotFacts
  <2> QED BY <1>1, <1>2, <2>1 DEF IInv, ShadowInv
<1>5. \A d \in Default : d < s => Used(d)
  <2>1. \A d \in Default : ~Used(d) => s <= d
    BY <1>1 DEF Lowest
  <2>2. \A d \in Default : d \in Nat /\ s \in Nat
    BY <1>2, SlotFacts
  <2> QED BY <2>1, <2>2
<1> QED BY <1>1, <1>2, <1>3, <1>4, <1>5, IdFacts, PlaceAtInv

(* The first entry of an empty block.                                      *)
LEMMA PlaceFirstInv == ASSUME IInv, PlaceFirst PROVE IInv'
<1>1. pc = "place" /\ after # ID_TAIL /\ free_count = EntryCount /\ PlaceAt(EntryCount - 1)
  BY DEF PlaceFirst
<1>2. NullSlots = Ordinary
  BY <1>1, CountFacts DEF IInv, FreeCountExact
<1>3. EntryCount - 1 \in Ordinary /\ EntryCount - 1 \in Slots
  BY SlotFacts
<1>4. new \in EntryIds /\ (after = ID_HEAD \/ (after \in EntryIds /\ Known(after)))
  <2>1. new \in Ids /\ Place(new, after)
    BY <1>1 DEF IInv, CallInv
  <2>2. new \in EntryIds
    BY <1>1, <2>1, IdFacts DEF Place
  <2>3. after = ID_HEAD \/ (after \in EntryIds /\ index[after] # Null)
    BY <2>1, <2>2, IdFacts DEF Place
  <2> QED BY <2>2, <2>3 DEF Known
<1>5. after = ID_HEAD
  <2> SUFFICES ASSUME after \in EntryIds, Known(after) PROVE FALSE
    BY <1>4
  <2>1. index[after] \in Ordinary /\ entries[index[after]] = after
    BY IdFacts DEF IInv, ShadowInv
  <2> QED BY <1>2, <2>1, IdFacts DEF NullSlots, Used
<1>6. ~Used(EntryCount - 1) /\ \A u \in Slots : Used(u) => u > EntryCount - 1
  BY <1>2, <1>3, SlotFacts DEF NullSlots
<1> QED BY <1>1, <1>3, <1>4, <1>5, <1>6, IdFacts, PlaceAtInv

(* An entry at the head: the slot above the first entry, or slot 0.        *)
LEMMA PlaceHeadInv == ASSUME IInv, PlaceHead PROVE IInv'
<1>1. PICK f \in UsedSlots :
         /\ Lowest(f, UsedSlots)
         /\ \/ f > 0 /\ PlaceAt(f - 1)
            \/ /\ f = 0
               /\ \E n \in NullSlots : Lowest(n, NullSlots)
                                    /\ ShiftTo("shift_down", 0, n, n - 1)
  BY DEF PlaceHead
<1>2. pc = "place" /\ after = ID_HEAD /\ new \in EntryIds /\ mv = Null
  BY IdFacts DEF PlaceHead, IInv, CallInv, Place
<1>3. f \in Ordinary /\ f \in Nat /\ f < EntryCount
      /\ \A u \in Slots : Used(u) => u >= f
  BY <1>1, SlotFacts DEF Lowest, UsedSlots
<1>4. CASE f > 0 /\ PlaceAt(f - 1)
  <2>1. f - 1 \in Ordinary /\ f - 1 \in Slots
    BY <1>3, <1>4, SlotFacts
  <2>2. ~Used(f - 1) /\ \A u \in Slots : Used(u) => u > f - 1
    BY <1>3, <2>1, SlotFacts
  <2> QED BY <1>2, <1>4, <2>1, <2>2, IdFacts, PlaceAtInv
<1>5. ASSUME f = 0, NEW n \in NullSlots, Lowest(n, NullSlots), ShiftTo("shift_down", 0, n, n - 1)
      PROVE  IInv'
  <2>1. n \in Ordinary /\ ~Used(n) /\ n \in Nat /\ n \in Slots /\ n < EntryCount /\ 0 \in Ordinary /\ Used(0)
    BY <1>1, <1>5, SlotFacts DEF NullSlots, UsedSlots
  <2>2. n > 0 /\ n - 1 \in Nat
    BY <2>1
  <2>3. \A s \in 0 .. n - 1 : Used(s)
    <3> SUFFICES ASSUME NEW s \in 0 .. n - 1, ~Used(s) PROVE FALSE
      OBVIOUS
    <3>1. s \in Nat /\ s < n /\ s \in Ordinary
      BY <2>1, SlotFacts
    <3> QED BY <1>5, <2>1, <3>1 DEF Lowest, NullSlots
  <2>4. pc' = "shift_down" /\ target' = 0 /\ temp' = n /\ mv' = Null
        /\ UNCHANGED <<entries, index, after>>
    BY <1>2, <1>5 DEF ShiftTo, block
  <2>5. ShiftInv'
    BY <1>2, <2>1, <2>2, <2>3, <2>4, IdFacts DEF ShiftInv, Used
  <2> QED BY <1>2, <1>5, <2>1, <2>2, <2>5, SlotFacts, ShiftToInv
<1> QED BY <1>1, <1>4, <1>5

(* An entry behind another one: everything between the place and the       *)
(* nearest vacant slot is to be shifted.                                   *)
LEMMA PlaceAfterInv == ASSUME IInv, PlaceAfter PROVE IInv'
<1> DEFINE a    == index[after]
           up   == {s \in NullSlots : s <= a}
           down == {s \in NullSlots : s >= a}
           Up(p)   == IF up = {} THEN EntryCount ELSE a - p
           Down(n) == IF down = {} THEN EntryCount ELSE n - (a + 1)
<1>1. PICK p, n \in NullSlots :
         /\ up # {} => Highest(p, up)
         /\ down # {} => Lowest(n, down)
         /\ IF Down(n) <= Up(p) THEN ShiftTo("shift_down", a + 1, n, Down(n))
                                ELSE ShiftTo("shift_up", a, p, Up(p))
  BY DEF PlaceAfter
<1>2. pc = "place" /\ after \in EntryIds /\ mv = Null
  BY DEF PlaceAfter, IInv, CallInv
<1>3. a \in Ordinary /\ Used(a) /\ a \in Nat /\ a < EntryCount /\ a \in Slots
  <2>1. new \in Ids /\ Place(new, after)
    BY <1>2 DEF IInv, CallInv
  <2>2. Known(after) /\ after \in Ids
    BY <1>2, <2>1, IdFacts DEF Place, Known
  <2>3. a \in Ordinary /\ entries[a] = after
    BY <1>2, <2>2 DEF IInv, ShadowInv
  <2> QED BY <2>2, <2>3, SlotFacts, IdFacts DEF Used
<1>4. \A s \in NullSlots : s \in Ordinary /\ s \in Slots /\ s \in Nat /\ s < EntryCount
                           /\ ~Used(s) /\ s # a
  BY <1>3, SlotFacts DEF NullSlots
<1>5. up = {} \/ down = {} => Down(n) # Up(p) /\ (Down(n) <= Up(p) <=> down # {})
  <2>1. up = {} => down # {}
    BY <1>1, <1>3, <1>4
  <2>2. down = {} => up # {}
    BY <1>1, <1>3, <1>4
  <2>3. down # {} => Lowest(n, down) /\ n > a
    BY <1>1, <1>3, <1>4 DEF Lowest
  <2>4. up # {} => Highest(p, up) /\ p < a
    BY <1>1, <1>3, <1>4 DEF Highest
  <2> HIDE DEF up, down
  <2>5. up = {} => Down(n) < EntryCount /\ Up(p) = EntryCount
    <3>1. n \in Nat /\ n < EntryCount /\ EntryCount \in Nat /\ a \in Nat
      BY <1>1, <1>3, <1>4, SlotFacts
    <3> HIDE DEF a
    <3> QED BY <2>1, <3>1
  <2>6. down = {} => Down(n) = EntryCount /\ Up(p) < EntryCount
    <3>1. p \in Nat /\ a < EntryCount /\ EntryCount \in Nat /\ a \in Nat
      BY <1>1, <1>3, <1>4, SlotFacts
    <3> HIDE DEF a
    <3> QED BY <2>2, <3>1
  <2>7. Down(n) \in Int /\ Up(p) \in Int
    BY <1>1, <1>3, <1>4, SlotFacts
  <2> QED BY <2>1, <2>2, <2>5, <2>6, <2>7, SlotFacts
<1>6. CASE Down(n) <= Up(p)
  <2>1. down # {} /\ Lowest(n, down)
    BY <1>1, <1>5, <1>6
  <2>2. n > a /\ n \in Ordinary /\ n \in Nat /\ n \in Slots /\ n < EntryCount /\ ~Used(n)
    BY <1>3, <1>4, <2>1 DEF Lowest
  <2>3. ShiftTo("shift_down", a + 1, n, n - (a + 1)) /\ n - (a + 1) \in Nat
        /\ a + 1 \in Ordinary /\ a + 1 \in Slots /\ a + 1 <= n
    BY <1>1, <1>3, <1>6, <2>1, <2>2, SlotFacts
  <2>4. \A s \in a + 1 .. n - 1 : Used(s)
    <3> SUFFICES ASSUME NEW s \in a + 1 .. n - 1, ~Used(s) PROVE FALSE
      OBVIOUS
    <3>1. s \in Nat /\ s < n /\ s >= a /\ s \in Ordinary
      BY <1>3, <2>2, SlotFacts
    <3> QED BY <2>1, <2>2, <3>1 DEF Lowest, NullSlots
  <2>5. pc' = "shift_down" /\ target' = a + 1 /\ temp' = n /\ mv' = Null
        /\ UNCHANGED <<entries, index, after>>
    BY <1>2, <2>3 DEF ShiftTo, block
  <2>6. ShiftInv'
    <3>1. index'[after'] = target' - 1
      BY <1>3, <2>5
    <3> HIDE DEF a
    <3> QED BY <1>2, <2>2, <2>3, <2>4, <2>5, <3>1, IdFacts DEF ShiftInv, Used
  <2> HIDE DEF a
  <2> QED BY <1>2, <2>2, <2>3, <2>6, ShiftToInv
<1>7. CASE ~(Down(n) <= Up(p))
  <2>1. up # {} /\ Highest(p, up)
    BY <1>1, <1>5, <1>7
  <2>2. p < a /\ p \in Ordinary /\ p \in Nat /\ p \in Slots /\ ~Used(p)
    BY <1>3, <1>4, <2>1 DEF Highest
  <2>3. ShiftTo("shift_up", a, p, a - p) /\ a - p \in Nat
    BY <1>1, <1>3, <1>7, <2>1, <2>2
  <2>4. \A s \in p + 1 .. a : Used(s)
    <3> SUFFICES ASSUME NEW s \in p + 1 .. a, ~Used(s) PROVE FALSE
      OBVIOUS
    <3>1. s \in Nat /\ s > p /\ s <= a /\ s \in Ordinary
      BY <1>3, <2>2, SlotFacts
    <3> QED BY <2>1, <2>2, <3>1 DEF Highest, NullSlots
  <2>5. pc' = "shift_up" /\ target' = a /\ temp' = p /\ mv' = Null
        /\ UNCHANGED <<entries, index, after>>
    BY <1>2, <2>3 DEF ShiftTo, block
  <2>6. ShiftInv'
    <3>1. index'[after'] = target'
      BY <2>5
    <3> HIDE DEF a
    <3> QED BY <1>2, <1>3, <2>2, <2>3, <2>4, <2>5, <3>1, IdFacts DEF ShiftInv, Used
  <2> HIDE DEF a
  <2> QED BY <1>2, <1>3, <2>2, <2>3, <2>6, ShiftToInv
<1> QED BY <1>6, <1>7

(* A loop has ended: the slot it made vacant is the place of the new entry.*)
LEMMA ShiftEndInv == ASSUME IInv, ShiftDownEnd \/ ShiftUpEnd PROVE IInv'
<1>1. /\ Goto("write") /\ mv = Null /\ pc \in {"shift_down", "shift_up"}
      /\ target \in Ordinary /\ temp \in Ordinary /\ temp = target /\ ~Used(target)
      /\ after = ID_HEAD \/ after \in EntryIds
      /\ after = ID_HEAD => target = 0
      /\ after \in EntryIds => index[after] = target - 1
  <2>1. CASE ShiftDownEnd
    <3>1. temp = target
      <4>1. temp \in Nat /\ target \in Nat /\ target <= temp /\ temp <= target
        BY <2>1, SlotFacts DEF IInv, ShiftInv, ShiftDownEnd
      <4> QED BY <4>1
    <3> QED BY <2>1, <3>1 DEF IInv, ShiftInv, ShiftDownEnd
  <2>2. CASE ShiftUpEnd
    <3>1. temp \in Nat /\ target \in Nat
      BY <2>2, SlotFacts DEF IInv, ShiftInv, ShiftUpEnd
    <3>2. temp <= target /\ temp >= target /\ after # ID_HEAD
      BY <2>2, IdFacts DEF IInv, ShiftInv, ShiftUpEnd
    <3>3. temp = target /\ ~(temp < target)
      BY <3>1, <3>2
    <3> QED BY <2>2, <3>2, <3>3 DEF IInv, ShiftInv, ShiftUpEnd
  <2> QED BY <2>1, <2>2
<1>2. pc' = "write" /\ UNCHANGED <<entries, index, new, after, target>>
  BY <1>1 DEF Goto, block, loops
<1>3. new \in EntryIds
  <2>1. new \in Ids /\ Place(new, after)
    BY <1>1 DEF IInv, CallInv
  <2> QED BY <1>1, <2>1, IdFacts DEF Place
<1>4. WriteInv'
  <2>1. after = ID_HEAD => \A s \in Slots : Used(s) => s > target
    BY <1>1, SlotFacts
  <2> QED BY <1>1, <1>2, <1>3, <2>1, IdFacts DEF WriteInv, Used
<1> QED BY <1>1, <1>4, GotoInv

LEMMA ShiftAllEndInv == ASSUME IInv, ShiftAllDownEnd \/ ShiftAllUpEnd PROVE IInv'
  BY GotoInv DEF ShiftAllDownEnd, ShiftAllUpEnd

----------------------------------------------------------------------------
(* The first half of a move, from any loop: the entry of a used slot is    *)
(* also written to a vacant one.                                           *)
LEMMA MoveWriteInv ==
    ASSUME IInv, NEW f \in UsedSlots, NEW t \in NullSlots, MoveWrite(f, t),
           pc \notin {"idle", "place", "write"},
           pc # "reorder" => \A s \in UsedSlots \ {f} : s < f <=> s < t,
           pc = "shift_down" => temp > target /\ f = temp - 1 /\ t = temp,
           pc = "shift_up" => temp < target /\ f = temp + 1 /\ t = temp,
           pc = "reorder" => /\ idx \in 1 .. Len(target_a)
                             /\ f = target_a[idx].o /\ t = target_a[idx].t
    PROVE  IInv'
<1>1. /\ mv = Null /\ mv' = [from |-> f, to |-> t]
      /\ hw' = [hw EXCEPT ![t] = entries[f]]
      /\ UNCHANGED <<entries, index, free_count, after_cnt, pc, new, after,
                     target, temp, shift, target_a, idx, order>>
  BY DEF MoveWrite
<1>2. f \in Ordinary /\ t \in Ordinary /\ f \in Slots /\ t \in Slots /\ Used(f) /\ ~Used(t)
  BY SlotFacts DEF UsedSlots, NullSlots
<1>3. mv' # Null /\ mv' \in Moves /\ mv'.from = f /\ mv'.to = t
  BY <1>1, <1>2, NullAssumption DEF Moves
<1>4. TypeOK'
  <2>1. hw' \in [Slots -> Ids \cup {Null}]
    BY <1>1, <1>2 DEF IInv, TypeOK
  <2> QED BY <1>1, <1>3, <2>1 DEF IInv, TypeOK
<1>5. FreeCountExact' /\ ShadowInv'
  BY <1>1 DEF IInv, FreeCountExact, NullSlots, Used, ShadowInv, Known
<1>6. ChipInv'
  <2>1. hw = entries
    BY <1>1 DEF IInv, ChipInv
  <2> QED BY <1>1, <1>2, <1>3, <2>1 DEF ChipInv, Used
<1>7. CallInv' /\ WriteInv'
  BY <1>1 DEF IInv, CallInv, WriteInv, Known, Place
<1>8. MoveInv'
  BY <1>1, <1>3 DEF MoveInv, UsedSlots, Used
<1>9. ShiftInv'
  <2>1. ShiftInv
    BY DEF IInv
  <2> QED BY <1>1, <2>1 DEF ShiftInv, Used
<1>10. ArrayInv'
  <2>1. ArrayInv
    BY DEF IInv
  <2> QED BY <1>1, <1>3, <2>1 DEF ArrayInv, UsedSlots, Used, Listed
<1>11. OrderInv'
  BY <1>1, OrderKept DEF IInv
<1> QED BY <1>4, <1>5, <1>6, <1>7, <1>8, <1>9, <1>10, <1>11 DEF IInv

(* _sys_humber_acl_shift_all_entries_down and _up pass no entry.           *)
LEMMA ShiftAllMoveInv == ASSUME IInv, ShiftAllDownMove \/ ShiftAllUpMove PROVE IInv'
<1>1. UsedSlots \subseteq Nat /\ NullSlots \subseteq Nat /\ UsedSlots \cap NullSlots = {}
  BY SlotFacts DEF UsedSlots, NullSlots
<1>2. CASE ShiftAllDownMove
  <2>1. PICK n \in NullSlots, p \in UsedSlots :
           Highest(p, {u \in UsedSlots : u < n}) /\ MoveWrite(p, n)
    BY <1>2 DEF ShiftAllDownMove
  <2>2. \A s \in UsedSlots \ {p} : s < p <=> s < n
    BY <1>1, <2>1 DEF Highest
  <2> QED BY <1>2, <2>1, <2>2, MoveWriteInv DEF ShiftAllDownMove
<1>3. CASE ShiftAllUpMove
  <2>1. PICK n \in NullSlots, p \in UsedSlots :
           Lowest(p, {u \in UsedSlots : u > n}) /\ MoveWrite(p, n)
    BY <1>3 DEF ShiftAllUpMove
  <2>2. \A s \in UsedSlots \ {p} : s < p <=> s < n
    BY <1>1, <2>1 DEF Lowest
  <2> QED BY <1>3, <2>1, <2>2, MoveWriteInv DEF ShiftAllUpMove
<1> QED BY <1>2, <1>3

(* The shifts move an entry by one slot.                                   *)
LEMMA ShiftMoveInv == ASSUME IInv, ShiftDownMove \/ ShiftUpMove PROVE IInv'
<1>1. UsedSlots \subseteq Nat /\ NullSlots \subseteq Nat /\ UsedSlots \cap NullSlots = {}
  BY SlotFacts DEF UsedSlots, NullSlots
<1>2. CASE ShiftDownMove
  <2>1. /\ pc = "shift_down" /\ temp > target /\ MoveWrite(temp - 1, temp)
        /\ target \in Ordinary /\ temp \in Ordinary /\ ~Used(temp)
        /\ \A s \in target .. temp - 1 : Used(s)
    BY <1>2 DEF ShiftDownMove, IInv, ShiftInv
  <2>2. temp - 1 \in target .. temp - 1 /\ temp - 1 \in Ordinary /\ temp \in Nat
    BY <2>1, SlotFacts
  <2>3. temp - 1 \in UsedSlots /\ temp \in NullSlots
    BY <2>1, <2>2 DEF UsedSlots, NullSlots
  <2>4. \A s \in UsedSlots \ {temp - 1} : s < temp - 1 <=> s < temp
    BY <1>1, <2>2
  <2> QED BY <2>1, <2>3, <2>4, MoveWriteInv
<1>3. CASE ShiftUpMove
  <2>1. /\ pc = "shift_up" /\ temp < target /\ MoveWrite(temp + 1, temp)
        /\ target \in Ordinary /\ temp \in Ordinary /\ ~Used(temp)
        /\ \A s \in temp + 1 .. target : Used(s)
    BY <1>3 DEF ShiftUpMove, IInv, ShiftInv
  <2>2. temp + 1 \in temp + 1 .. target /\ temp + 1 \in Ordinary /\ temp \in Nat
    BY <2>1, SlotFacts
  <2>3. temp + 1 \in UsedSlots /\ temp \in NullSlots
    BY <2>1, <2>2 DEF UsedSlots, NullSlots
  <2>4. \A s \in UsedSlots \ {temp + 1} : s < temp + 1 <=> s < temp
    <3>1. temp \notin UsedSlots
      BY <1>1, <2>3
    <3> QED BY <1>1, <2>2, <3>1
  <2> QED BY <2>1, <2>3, <2>4, MoveWriteInv
<1> QED BY <1>2, <1>3

(* The slot an entry is moved to by the reorder is vacant, although the    *)
(* code compares with the neighbour above the wrong way round.             *)
LEMMA ReorderTargetVacant ==
    ASSUME IInv, ReorderMove
    PROVE  This.o \in UsedSlots /\ This.t \in NullSlots
<1>1. /\ ArrayInv /\ idx \in 1 .. Len(target_a) /\ This.o # This.t /\ MoveOk
      /\ target_a \in Seq(Targets)
  BY DEF IInv, ArrayInv, ReorderMove, InPass, TypeOK
<1> DEFINE A == 1 .. Len(target_a)
<1>2. /\ \A n \in A : /\ target_a[n].o \in UsedSlots /\ target_a[n].o \in Nat
                      /\ target_a[n].t \in Ordinary /\ target_a[n].t \in Nat
      /\ \A m, n \in A : m < n => target_a[m].o < target_a[n].o /\ target_a[m].t < target_a[n].t
      /\ \A m, n \in A : n = m + 1 /\ n < idx => target_a[m].o <= target_a[n].t
  BY <1>1, SlotFacts DEF ArrayInv, UsedSlots
<1>3. This = target_a[idx] /\ This.o \in UsedSlots /\ This.t \in Ordinary
  BY <1>1, <1>2 DEF This
<1>4. Len(target_a) \in Nat
  BY <1>1
<1> SUFFICES ASSUME Used(This.t) PROVE FALSE
  BY <1>3 DEF NullSlots
<1>5. PICK j \in A : target_a[j].o = This.t
  BY <1>1, <1>3 DEF ArrayInv, UsedSlots, Listed
<1>6. j # idx /\ j \in Nat /\ idx \in Nat
  BY <1>1, <1>3, <1>5
<1>7. CASE This.o < This.t
  <2>1. j > idx
    BY <1>1, <1>2, <1>3, <1>5, <1>6, <1>7
  <2>2. idx + 1 \in A /\ target_a[idx + 1].o > This.t
    BY <1>1, <1>4, <1>6, <1>7, <2>1 DEF MoveOk, MoveDown
  <2>3. j = idx + 1 \/ j > idx + 1
    BY <1>6, <2>1
  <2>4. target_a[j].o >= target_a[idx + 1].o
    BY <1>2, <2>2, <2>3
  <2> QED BY <1>2, <1>5, <2>2, <2>4
<1>8. CASE This.o > This.t
  <2>1. j < idx
    BY <1>1, <1>2, <1>3, <1>5, <1>6, <1>8
  <2>2. idx - 1 \in A /\ target_a[idx - 1].o > This.t
    BY <1>1, <1>2, <1>3, <1>6, <1>8, <2>1 DEF MoveOk, MoveDown
  <2>3. j # idx - 1
    BY <1>2, <1>5, <2>2
  <2>4. j + 1 \in A /\ j + 1 < idx
    BY <1>1, <1>6, <2>1, <2>3
  <2>5. target_a[j].o <= target_a[j + 1].t
    BY <1>2, <2>4
  <2>6. target_a[j + 1].t < This.t
    BY <1>1, <1>2, <1>3, <2>4
  <2> QED BY <1>2, <1>3, <1>5, <2>4, <2>5, <2>6
<1> QED BY <1>1, <1>2, <1>3, <1>7, <1>8

LEMMA ReorderMoveInv == ASSUME IInv, ReorderMove PROVE IInv'
<1>1. pc = "reorder" /\ idx <= Len(target_a) /\ MoveWrite(This.o, This.t) /\ idx \in Nat \ {0}
      /\ Len(target_a) \in Nat
  BY DEF ReorderMove, InPass, IInv, ArrayInv, TypeOK
<1>2. idx \in 1 .. Len(target_a)
  BY <1>1
<1> QED BY <1>1, <1>2, ReorderTargetVacant, MoveWriteInv DEF This

----------------------------------------------------------------------------
(* The steps of the reorder that leave the block alone.                    *)
LEMMA ReorderKeeps ==
    ASSUME IInv, mv = Null, pc = "reorder", pc' \in {"idle", "reorder"},
           UNCHANGED <<block, after_cnt, new, after, target, temp, shift, mv, order>>,
           idx' \in Nat, target_a' \in Seq(Targets), pc' = "idle" => target_a' = <<>>,
           ArrayInv', OrderInv'
    PROVE  IInv'
<1>1. FreeCountExact' /\ ShadowInv' /\ ChipInv'
  BY BlockKept DEF IInv
<1>2. TypeOK'
  BY DEF IInv, TypeOK, block
<1>3. CallInv' /\ MoveInv' /\ ShiftInv' /\ WriteInv'
  BY DEF IInv, CallInv, MoveInv, ShiftInv, WriteInv
<1> QED BY <1>1, <1>2, <1>3 DEF IInv

LEMMA ReorderSkipInv == ASSUME IInv, ReorderSkip PROVE IInv'
<1>1. /\ ArrayInv /\ pc = "reorder" /\ mv = Null /\ idx \in Nat \ {0} /\ idx <= Len(target_a)
      /\ idx' = idx + 1 /\ This.o # This.t /\ ~MoveOk
      /\ UNCHANGED <<block, entries, hw, index, free_count, after_cnt, pc, new, after,
                     target, temp, shift, mv, target_a, order>>
  BY DEF IInv, ArrayInv, ReorderSkip, InPass, block
<1>2. target_a \in Seq(Targets) /\ Len(target_a) \in Nat
  BY DEF IInv, TypeOK
<1>3. \A n \in 1 .. Len(target_a) : target_a[n].o \in Nat /\ target_a[n].t \in Nat
  BY <1>1, SlotFacts DEF ArrayInv, UsedSlots
<1>4. ASSUME idx > 1 PROVE target_a[idx - 1].o <= target_a[idx].t
  <2>1. idx \in 1 .. Len(target_a) /\ idx - 1 \in 1 .. Len(target_a) /\ idx - 1 < idx
    BY <1>1, <1>2, <1>4
  <2>2. target_a[idx - 1].o < target_a[idx].o
    BY <1>1, <2>1 DEF ArrayInv
  <2>3. CASE MoveDown
    BY <1>3, <2>1, <2>2, <2>3 DEF MoveDown, This
  <2>4. CASE ~MoveDown
    BY <1>1, <1>3, <1>4, <2>1, <2>4 DEF MoveOk, This
  <2> QED BY <2>3, <2>4
<1>5. ArrayInv'
  <2>1. \A m, n \in 1 .. Len(target_a) :
           n = m + 1 /\ n < idx + 1 => target_a[m].o <= target_a[n].t
    <3> SUFFICES ASSUME NEW m \in 1 .. Len(target_a), NEW n \in 1 .. Len(target_a),
                        n = m + 1, n < idx + 1
                 PROVE  target_a[m].o <= target_a[n].t
      OBVIOUS
    <3>1. n < idx \/ (n = idx /\ m = idx - 1 /\ idx > 1)
      BY <1>1
    <3> QED BY <1>1, <1>4, <3>1 DEF ArrayInv
  <2> QED BY <1>1, <2>1 DEF ArrayInv, UsedSlots, Used, Listed
<1>6. OrderInv'
  BY <1>1, OrderKept DEF IInv
<1> QED BY <1>1, <1>2, <1>5, <1>6, ReorderKeeps

LEMMA ReorderPassInv == ASSUME IInv, ReorderPass PROVE IInv'
<1>1. /\ ArrayInv /\ pc = "reorder" /\ mv = Null /\ idx' = 1 /\ pc' \in {"idle", "reorder"}
      /\ pc' = "idle" => target_a = <<>>
      /\ UNCHANGED <<block, entries, hw, index, free_count, after_cnt, new, after,
                     target, temp, shift, mv, target_a, order>>
  BY DEF IInv, ReorderPass, block
<1>2. target_a \in Seq(Targets)
  BY DEF IInv, TypeOK
<1>3. ArrayInv'
  BY <1>1 DEF ArrayInv, UsedSlots, Used, Listed
<1>4. OrderInv'
  BY <1>1, OrderKept DEF IInv
<1> QED BY <1>1, <1>2, <1>3, <1>4, ReorderKeeps

(* An entry leaves the array: the others stay in it, in order.             *)
LEMMA LeaveArray ==
    ASSUME target_a \in Seq(Targets), idx \in 1 .. Len(target_a),
           target_a' = DeleteAt(target_a, idx)
    PROVE  /\ target_a' \in Seq(Targets) /\ Len(target_a') = Len(target_a) - 1
           /\ \A n \in 1 .. Len(target_a') :
                 \/ n < idx /\ n \in 1 .. Len(target_a) /\ target_a'[n] = target_a[n]
                 \/ n >= idx /\ n + 1 \in 1 .. Len(target_a) /\ target_a'[n] = target_a[n + 1]
           /\ \A m \in 1 .. Len(target_a) : m # idx =>
                 \E n \in 1 .. Len(target_a') : target_a'[n] = target_a[m]
<1>1. Len(target_a) \in Nat /\ idx \in Nat
  OBVIOUS
<1>2. /\ target_a' \in Seq(Targets) /\ Len(target_a') = Len(target_a) - 1
      /\ \A n \in 1 .. Len(target_a) - 1 :
            target_a'[n] = IF n < idx THEN target_a[n] ELSE target_a[n + 1]
  BY DeleteProps
<1>3. ASSUME NEW n \in 1 .. Len(target_a')
      PROVE  \/ n < idx /\ n \in 1 .. Len(target_a) /\ target_a'[n] = target_a[n]
             \/ n >= idx /\ n + 1 \in 1 .. Len(target_a) /\ target_a'[n] = target_a[n + 1]
  BY <1>1, <1>2
<1>4. ASSUME NEW m \in 1 .. Len(target_a), m # idx
      PROVE  \E n \in 1 .. Len(target_a') : target_a'[n] = target_a[m]
  <2>1. CASE m < idx
    BY <1>1, <1>2, <2>1
  <2>2. CASE m > idx
    <3>1. m - 1 \in 1 .. Len(target_a) - 1 /\ ~(m - 1 < idx) /\ (m - 1) + 1 = m
      BY <1>1, <2>2
    <3> QED BY <1>2, <3>1
  <2> QED BY <1>1, <1>4, <2>1, <2>2
<1> QED BY <1>2, <1>3, <1>4

(* ... and the array stays what the reorder needs when the entry is in its *)
(* target and nothing else has changed place.                              *)
LEMMA LeaveArrayInv ==
    ASSUME ArrayInv, target_a \in Seq(Targets), idx \in 1 .. Len(target_a),
           target_a' = DeleteAt(target_a, idx), idx' = idx, mv' = Null,
           UsedSlots' = (UsedSlots \ {target_a[idx].o}) \cup {target_a[idx].t}
    PROVE  ArrayInv'
<1> DEFINE A == 1 .. Len(target_a)
           B == 1 .. Len(target_a')
<1>1. /\ \A n \in A : target_a[n].o \in UsedSlots /\ target_a[n].t \in Ordinary
                      /\ target_a[n].o \in Nat /\ target_a[n].t \in Nat
      /\ \A m, n \in A : m < n => target_a[m].o < target_a[n].o /\ target_a[m].t < target_a[n].t
      /\ \A s \in UsedSlots : ~Listed(s) => \A n \in A : target_a[n].t # s
      /\ \A m, n \in A : n = m + 1 /\ n < idx => target_a[m].o <= target_a[n].t
  BY SlotFacts DEF ArrayInv, UsedSlots
<1>2. \A m \in A : m # idx => target_a[m].o # target_a[idx].o /\ target_a[m].t # target_a[idx].t
  <2> SUFFICES ASSUME NEW m \in A, m # idx
               PROVE  target_a[m].o # target_a[idx].o /\ target_a[m].t # target_a[idx].t
    OBVIOUS
  <2>1. m < idx \/ idx < m
    OBVIOUS
  <2> QED BY <1>1, <2>1
<1>3. \A n \in B : \E m \in A : /\ m # idx /\ target_a'[n] = target_a[m]
                                /\ m = IF n < idx THEN n ELSE n + 1
  BY LeaveArray
<1>4. \A n \in B : target_a'[n].o \in UsedSlots' /\ target_a'[n].t \in Ordinary
  BY <1>1, <1>2, <1>3
<1>5. \A m, n \in B :
         m < n => target_a'[m].o < target_a'[n].o /\ target_a'[m].t < target_a'[n].t
  <2> SUFFICES ASSUME NEW m \in B, NEW n \in B, m < n
               PROVE  target_a'[m].o < target_a'[n].o /\ target_a'[m].t < target_a'[n].t
    OBVIOUS
  <2>1. PICK i \in A : target_a'[m] = target_a[i] /\ i = IF m < idx THEN m ELSE m + 1
    BY <1>3
  <2>2. PICK j \in A : target_a'[n] = target_a[j] /\ j = IF n < idx THEN n ELSE n + 1
    BY <1>3
  <2>3. i < j
    BY <2>1, <2>2
  <2> QED BY <1>1, <2>1, <2>2, <2>3
<1>6. \A s \in UsedSlots' : ~Listed(s)' => \A n \in B : target_a'[n].t # s
  <2> SUFFICES ASSUME NEW s \in UsedSlots', ~Listed(s)', NEW n \in B, target_a'[n].t = s
               PROVE  FALSE
    OBVIOUS
  <2>1. PICK m \in A : m # idx /\ target_a'[n] = target_a[m]
    BY <1>3
  <2>2. s # target_a[idx].t
    BY <1>2, <2>1
  <2>3. s \in UsedSlots /\ s # target_a[idx].o
    BY <1>1, <1>2, <2>2
  <2>4. PICK j \in A : target_a[j].o = s
    BY <1>1, <2>1, <2>3 DEF Listed
  <2>5. \E k \in B : target_a'[k] = target_a[j]
    BY <2>3, <2>4, LeaveArray
  <2> QED BY <2>4, <2>5 DEF Listed
<1>7. \A m, n \in B : n = m + 1 /\ n < idx => target_a'[m].o <= target_a'[n].t
  <2> SUFFICES ASSUME NEW m \in B, NEW n \in B, n = m + 1, n < idx
               PROVE  target_a'[m].o <= target_a'[n].t
    OBVIOUS
  <2>1. m < idx /\ m \in A /\ n \in A /\ target_a'[m] = target_a[m] /\ target_a'[n] = target_a[n]
    BY LeaveArray
  <2> QED BY <1>1, <2>1
<1> QED BY <1>4, <1>5, <1>6, <1>7 DEF ArrayInv

(* The goals: they do not change when an entry leaves the array in place.  *)
LEMMA LeaveArrayGoal ==
    ASSUME ArrayInv, target_a \in Seq(Targets), idx \in 1 .. Len(target_a),
           target_a' = DeleteAt(target_a, idx), NEW s, NEW g, s # target_a[idx].o, Goal(s, g)'
    PROVE  Goal(s, g)
<1>1. CASE ~Listed(s)' /\ g = s
  <2>1. ~Listed(s)
    BY <1>1, LeaveArray DEF Listed
  <2> QED BY <1>1, <2>1 DEF Goal
<1>2. ASSUME NEW n \in 1 .. Len(target_a'), target_a'[n].o = s, g = target_a'[n].t
      PROVE  Goal(s, g)
  <2>1. \E m \in 1 .. Len(target_a) : target_a'[n] = target_a[m]
    BY LeaveArray
  <2> QED BY <1>2, <2>1 DEF Goal
<1> QED BY <1>1, <1>2 DEF Goal

(* A step that keeps every entry known and its goal keeps the order.       *)
LEMMA GoalsKept ==
    ASSUME OrderInv, order \in Seq(Ids), order' = order,
           \A x \in Ids : Known(x)' <=> Known(x),
           \A x \in Ids, g \in Slots : Known(x) /\ Goal(index[x], g)' => Goal(index[x], g)
    PROVE  OrderInv'
<1>1. \A i \in 1 .. Len(order) : order[i] \in Ids /\ Known(order[i])
  BY DEF OrderInv
<1>2. \A i, j \in 1 .. Len(order) : i < j =>
         \A g, h \in Slots :
            Goal(index[order[i]], g) /\ Goal(index[order[j]], h) => g < h
  BY DEF OrderInv
<1>3. \A i \in 1 .. Len(order) : Known(order[i])'
  BY <1>1
<1>4. \A e \in Ids : Known(e)' => \E i \in 1 .. Len(order) : order[i] = e
  BY DEF OrderInv
<1>5. ASSUME NEW i \in 1 .. Len(order), NEW j \in 1 .. Len(order), i < j,
             NEW g \in Slots, NEW h \in Slots,
             Goal(index[order[i]], g)', Goal(index[order[j]], h)'
      PROVE  g < h
  <2>1. order'[i] = order[i] /\ order'[j] = order[j]
    OBVIOUS
  <2>2. Goal(index[order[i]], g) /\ Goal(index[order[j]], h)
    BY <1>1, <1>5, <2>1 DEF Goal, Listed
  <2> QED BY <1>2, <1>5, <2>2
<1> QED BY <1>3, <1>4, <1>5 DEF OrderInv

LEMMA ReorderStayInv == ASSUME IInv, ReorderStay PROVE IInv'
<1>1. /\ ArrayInv /\ OrderInv /\ pc = "reorder" /\ mv = Null /\ idx \in Nat \ {0}
      /\ idx <= Len(target_a) /\ target_a[idx].o = target_a[idx].t
      /\ target_a' = DeleteAt(target_a, idx)
      /\ UNCHANGED <<block, entries, hw, index, free_count, after_cnt, pc, new, after,
                     target, temp, shift, mv, idx, order>>
  BY DEF IInv, ArrayInv, ReorderStay, InPass, block, This
<1>2. target_a \in Seq(Targets) /\ Len(target_a) \in Nat /\ order \in Seq(Ids)
  BY DEF IInv, TypeOK
<1>3. idx \in 1 .. Len(target_a) /\ target_a[idx].o \in UsedSlots
  BY <1>1, <1>2 DEF ArrayInv
<1>4. UsedSlots' = (UsedSlots \ {target_a[idx].o}) \cup {target_a[idx].t}
  BY <1>1, <1>3 DEF UsedSlots, Used
<1>5. ArrayInv'
  BY <1>1, <1>2, <1>3, <1>4, LeaveArrayInv
<1>6. \A x \in Ids, g \in Slots : Known(x) /\ Goal(index[x], g)' => Goal(index[x], g)
  <2> SUFFICES ASSUME NEW x \in Ids, NEW g \in Slots, Goal(index[x], g)'
               PROVE  Goal(index[x], g)
    OBVIOUS
  <2>1. (Goal(index[x], g)' <=> \/ ~Listed(index[x])' /\ g = index[x]
                               \/ \E n \in 1 .. Len(target_a') :
                                     target_a'[n].o = index[x] /\ g = target_a'[n].t)
    BY <1>1 DEF Goal
  <2>2. CASE index[x] # target_a[idx].o
    BY <1>1, <1>2, <1>3, <2>2, LeaveArrayGoal
  <2>3. CASE index[x] = target_a[idx].o
    <3>1. \A n \in 1 .. Len(target_a') : target_a'[n].o # index[x]
      <4> SUFFICES ASSUME NEW n \in 1 .. Len(target_a'), target_a'[n].o = target_a[idx].o
                   PROVE  FALSE
        BY <2>3
      <4>1. PICK m \in 1 .. Len(target_a) : m # idx /\ target_a'[n] = target_a[m]
        <5>1. target_a' = DeleteAt(target_a, idx)
          BY <1>1
        <5>2. \/ n < idx /\ n \in 1 .. Len(target_a) /\ target_a'[n] = target_a[n]
              \/ n >= idx /\ n + 1 \in 1 .. Len(target_a) /\ target_a'[n] = target_a[n + 1]
          BY <1>2, <1>3, <5>1, LeaveArray
        <5> QED BY <1>3, <5>2
      <4>2. m < idx \/ idx < m
        BY <1>1, <4>1
      <4>3. target_a[m].o \in Nat /\ target_a[idx].o \in Nat
        BY <1>1, <1>3, SlotFacts DEF ArrayInv, UsedSlots
      <4> QED BY <1>1, <1>3, <4>1, <4>2, <4>3 DEF ArrayInv
    <3>2. g = index[x]
      BY <2>1, <3>1
    <3> QED BY <1>1, <1>3, <2>3, <3>2 DEF Goal
  <2> QED BY <2>2, <2>3
<1>7. OrderInv'
  BY <1>1, <1>2, <1>6, GoalsKept DEF Known
<1>8. target_a' \in Seq(Targets)
  BY <1>1, <1>2, <1>3, LeaveArray
<1> QED BY <1>1, <1>2, <1>5, <1>7, <1>8, ReorderKeeps

----------------------------------------------------------------------------
(* The second half of a move: what it does to the block.                   *)
LEMMA MoveEndBlock ==
    ASSUME IInv, MoveEnd
    PROVE  /\ mv # Null /\ mv \in Moves /\ mv.from \in Ordinary /\ mv.to \in Ordinary
           /\ Used(mv.from) /\ ~Used(mv.to) /\ mv' = Null
           /\ entries[mv.from] \in Ids /\ index[entries[mv.from]] = mv.from
           /\ entries' \in [Slots -> Ids \cup {Null}] /\ index' \in [Ids -> Slots \cup {Null}]
           /\ entries'[mv.to] = entries[mv.from] /\ entries'[mv.from] = Null
           /\ \A s \in Slots : s # mv.from /\ s # mv.to => entries'[s] = entries[s]
           /\ hw' = entries'
           /\ index'[entries[mv.from]] = mv.to
           /\ \A x \in Ids : x # entries[mv.from] => index'[x] = index[x]
           /\ \A x \in Ids : Known(x)' <=> Known(x)
           /\ UsedSlots' = (UsedSlots \ {mv.from}) \cup {mv.to}
           /\ NullSlots' = (NullSlots \ {mv.to}) \cup {mv.from}
<1> DEFINE f == mv.from
           t == mv.to
           e == entries[f]
<1>1. /\ mv # Null /\ mv \in Moves /\ f \in Ordinary /\ t \in Ordinary /\ Used(f) /\ ~Used(t)
      /\ hw = [entries EXCEPT ![t] = entries[f]]
      /\ entries \in [Slots -> Ids \cup {Null}] /\ index \in [Ids -> Slots \cup {Null}]
  BY DEF MoveEnd, MoveDelete, IInv, ChipInv, TypeOK
<1>2. /\ hw' = [hw EXCEPT ![f] = Null]
      /\ entries' = [entries EXCEPT ![t] = e, ![f] = Null]
      /\ index' = [index EXCEPT ![e] = t] /\ mv' = Null
  BY DEF MoveEnd, MoveDelete
<1>3. f # t /\ f \in Slots /\ t \in Slots
  BY <1>1, SlotFacts
<1>4. e \in Ids /\ index[e] = f
  BY <1>1, <1>3 DEF IInv, ShadowInv, Used
<1>5. /\ entries' \in [Slots -> Ids \cup {Null}] /\ index' \in [Ids -> Slots \cup {Null}]
      /\ entries'[t] = e /\ entries'[f] = Null
      /\ \A s \in Slots : s # f /\ s # t => entries'[s] = entries[s]
      /\ index'[e] = t /\ \A x \in Ids : x # e => index'[x] = index[x]
  BY <1>1, <1>2, <1>3, <1>4
<1>6. hw' = entries'
  <2>1. hw' \in [Slots -> Ids \cup {Null}]
    BY <1>1, <1>2, <1>3, <1>4
  <2>2. \A s \in Slots : hw'[s] = entries'[s]
    BY <1>1, <1>2, <1>3, <1>4, <1>5
  <2> QED BY <1>5, <2>1, <2>2
<1>7. \A x \in Ids : Known(x)' <=> Known(x)
  BY <1>3, <1>4, <1>5, SlotFacts DEF Known
<1>8. /\ UsedSlots' = (UsedSlots \ {f}) \cup {t} /\ NullSlots' = (NullSlots \ {t}) \cup {f}
  <2>1. entries'[t] # Null /\ entries'[f] = Null
        /\ \A s \in Slots \ {f, t} : entries'[s] = entries[s]
    BY <1>3, <1>4, <1>5, IdFacts
  <2>2. UsedSlots' = {s \in Ordinary : entries'[s] # Null}
        /\ NullSlots' = {s \in Ordinary : entries'[s] = Null}
    BY DEF UsedSlots, NullSlots, Used
  <2> QED BY <1>1, <1>3, <2>1, <2>2, SlotFacts DEF UsedSlots, NullSlots, Used
<1> QED BY <1>1, <1>2, <1>4, <1>5, <1>6, <1>7, <1>8

LEMMA MoveEndShadow ==
    ASSUME IInv, MoveEnd
    PROVE  TypeOK' /\ FreeCountExact' /\ ShadowInv' /\ ChipInv' /\ CallInv' /\ MoveInv' /\ WriteInv'
<1> DEFINE f == mv.from
           t == mv.to
           e == entries[f]
<1>1. /\ mv # Null /\ mv \in Moves /\ f \in Ordinary /\ t \in Ordinary /\ Used(f) /\ ~Used(t) /\ mv' = Null
      /\ e \in Ids /\ index[e] = f /\ f \in Slots /\ t \in Slots
      /\ entries' \in [Slots -> Ids \cup {Null}] /\ index' \in [Ids -> Slots \cup {Null}]
      /\ entries'[t] = e /\ entries'[f] = Null
      /\ \A s \in Slots : s # f /\ s # t => entries'[s] = entries[s]
      /\ hw' = entries'
      /\ index'[e] = t /\ \A x \in Ids : x # e => index'[x] = index[x]
      /\ \A x \in Ids : Known(x)' <=> Known(x)
      /\ NullSlots' = (NullSlots \ {t}) \cup {f}
  BY MoveEndBlock, SlotFacts
<1>2. /\ temp' = IF pc \in {"shift_down", "shift_up"} THEN f ELSE temp
      /\ target_a' = IF pc = "reorder" THEN DeleteAt(target_a, idx) ELSE target_a
      /\ UNCHANGED <<free_count, after_cnt, pc, new, after, target, shift, idx, order>>
  BY DEF MoveEnd
<1>3. TypeOK'
  <2>1. target_a' \in Seq(Targets)
    BY <1>1, <1>2, LeaveArray DEF IInv, TypeOK, ArrayInv
  <2>2. temp' \in Slots
    BY <1>1, <1>2 DEF IInv, TypeOK
  <2> QED BY <1>1, <1>2, <2>1, <2>2 DEF IInv, TypeOK
<1>4. FreeCountExact'
  <2>1. t \in NullSlots /\ f \notin NullSlots
    BY <1>1 DEF NullSlots
  <2>2. IsFiniteSet(NullSlots) /\ Cardinality(NullSlots) \in Nat
    BY CountFacts
  <2>3. IsFiniteSet(NullSlots \ {t}) /\ Cardinality(NullSlots \ {t}) = Cardinality(NullSlots) - 1
    BY <2>1, <2>2, FS_RemoveElement
  <2>4. Cardinality((NullSlots \ {t}) \cup {f}) = Cardinality(NullSlots \ {t}) + 1
    BY <2>1, <2>3, FS_AddElement
  <2>5. Cardinality(NullSlots') = Cardinality(NullSlots)
    BY <1>1, <2>2, <2>3, <2>4
  <2> QED BY <1>2, <2>5 DEF IInv, FreeCountExact
<1>5. ShadowInv'
  <2>1. ASSUME NEW s \in Slots, Used(s)' PROVE index'[entries'[s]] = s
    <3>1. s # f
      BY <1>1, <2>1 DEF Used
    <3>2. CASE s = t
      BY <1>1, <3>2
    <3>3. CASE s # t
      <4>1. entries'[s] = entries[s] /\ Used(s) /\ entries[s] \in Ids /\ index[entries[s]] = s
        BY <1>1, <2>1, <3>1, <3>3 DEF Used, IInv, ShadowInv, TypeOK
      <4>2. entries[s] # e
        BY <1>1, <3>1, <4>1
      <4> QED BY <1>1, <4>1, <4>2
    <3> QED BY <3>2, <3>3
  <2>2. ASSUME NEW x \in Ids, Known(x)'
        PROVE  entries'[index'[x]] = x /\ (x \in EntryIds <=> index'[x] \in Ordinary)
    <3>1. Known(x) /\ entries[index[x]] = x /\ (x \in EntryIds <=> index[x] \in Ordinary)
          /\ index[x] \in Slots
      BY <1>1, <2>2 DEF IInv, ShadowInv, TypeOK, Known
    <3>2. CASE x = e
      BY <1>1, <3>1, <3>2
    <3>3. CASE x # e
      <4>1. index'[x] = index[x] /\ index[x] # f /\ index[x] # t
        BY <1>1, <3>1, <3>3, IdFacts DEF Used
      <4> QED BY <1>1, <3>1, <4>1
    <3> QED BY <3>2, <3>3
  <2>3. \A d, c \in Default : c < d /\ Used(d)' => Used(c)'
    <3>1. \A d \in Default : d \in Slots /\ d # f /\ d # t
      BY <1>1, SlotFacts
    <3> QED BY <1>1, <3>1 DEF IInv, ShadowInv, Used
  <2> QED BY <2>1, <2>2, <2>3 DEF ShadowInv
<1>6. ChipInv' /\ MoveInv' /\ WriteInv'
  BY <1>1, <1>2 DEF ChipInv, MoveInv, WriteInv, IInv, CallInv
<1>7. CallInv'
  <2>1. \A x \in EntryIds : index'[x] # Null <=> index[x] # Null
    BY <1>1, IdFacts DEF Known
  <2> QED BY <1>1, <1>2, <2>1 DEF IInv, CallInv, Place
<1> QED BY <1>3, <1>4, <1>5, <1>6, <1>7

(* The shifts after a move: the vacant slot is where the entry came from.  *)
LEMMA MoveEndShift == ASSUME IInv, MoveEnd PROVE ShiftInv'
<1> DEFINE f == mv.from
           t == mv.to
           e == entries[f]
<1>1. /\ mv # Null /\ f \in Ordinary /\ t \in Ordinary /\ Used(f) /\ ~Used(t) /\ mv' = Null
      /\ e \in Ids /\ index[e] = f /\ f \in Slots /\ t \in Slots
      /\ entries'[f] = Null
      /\ \A s \in Slots : s # f /\ s # t => entries'[s] = entries[s]
      /\ index'[e] = t /\ \A x \in Ids : x # e => index'[x] = index[x]
  BY MoveEndBlock, SlotFacts
<1>2. /\ temp' = IF pc \in {"shift_down", "shift_up"} THEN f ELSE temp
      /\ UNCHANGED <<pc, after, target>>
  BY DEF MoveEnd
<1>3. ASSUME pc = "shift_down"
      PROVE  /\ target' \in Ordinary /\ temp' \in Ordinary /\ target' <= temp' /\ ~Used(temp)'
             /\ \A s \in target' .. temp' - 1 : Used(s)'
             /\ after' = ID_HEAD \/ after' \in EntryIds
             /\ after' = ID_HEAD => target' = 0
             /\ after' \in EntryIds => index'[after'] = target' - 1
  <2>1. /\ target \in Ordinary /\ temp \in Ordinary /\ temp > target
        /\ target \in Nat /\ temp \in Nat /\ temp < EntryCount
        /\ f = temp - 1 /\ t = temp /\ \A s \in target .. temp - 1 : Used(s)
        /\ after = ID_HEAD \/ after \in EntryIds
        /\ after = ID_HEAD => target = 0
        /\ after \in EntryIds => index[after] = target - 1
    <3>1. /\ target \in Ordinary /\ temp \in Ordinary /\ temp > target
          /\ mv = [from |-> temp - 1, to |-> temp] /\ \A s \in target .. temp - 1 : Used(s)
          /\ after = ID_HEAD \/ after \in EntryIds
          /\ after = ID_HEAD => target = 0
          /\ after \in EntryIds => index[after] = target - 1
      BY <1>1, <1>3 DEF IInv, ShiftInv
    <3>2. target \in Nat /\ temp \in Nat /\ temp < EntryCount
      BY <3>1, SlotFacts
    <3> QED BY <3>1, <3>2
  <2>2. temp' = f /\ target' = target /\ after' = after
    BY <1>2, <1>3
  <2>3. \A s \in target .. f - 1 : Used(s)'
    <3>1. \A s \in target .. f - 1 : s \in Slots /\ s # f /\ s # t /\ s \in target .. temp - 1
      BY <2>1, SlotFacts
    <3> QED BY <1>1, <2>1, <3>1 DEF Used
  <2>4. after \in EntryIds => index'[after] = target - 1
    <3>1. after \in EntryIds => after # e /\ after \in Ids
      BY <1>1, <2>1, IdFacts
    <3> QED BY <1>1, <2>1, <3>1
  <2>5. target <= f
    BY <2>1
  <2> QED BY <1>1, <2>1, <2>2, <2>3, <2>4, <2>5 DEF Used
<1>4. ASSUME pc = "shift_up"
      PROVE  /\ target' \in Ordinary /\ temp' \in Ordinary /\ temp' <= target' /\ ~Used(temp)'
             /\ \A s \in temp' + 1 .. target' : Used(s)'
             /\ after' \in EntryIds
             /\ index'[after'] = IF temp' < target' THEN target' ELSE target' - 1
  <2>1. /\ target \in Ordinary /\ temp \in Ordinary /\ temp < target
        /\ target \in Nat /\ temp \in Nat /\ target < EntryCount
        /\ f = temp + 1 /\ t = temp /\ \A s \in temp + 1 .. target : Used(s)
        /\ after \in EntryIds /\ index[after] = target /\ after \in Ids
    <3>1. /\ target \in Ordinary /\ temp \in Ordinary /\ temp < target
          /\ mv = [from |-> temp + 1, to |-> temp] /\ \A s \in temp + 1 .. target : Used(s)
          /\ after \in EntryIds /\ index[after] = target
      BY <1>1, <1>4 DEF IInv, ShiftInv
    <3>2. target \in Nat /\ temp \in Nat /\ target < EntryCount /\ after \in Ids
      BY <3>1, SlotFacts, IdFacts
    <3> QED BY <3>1, <3>2
  <2>2. temp' = f /\ target' = target /\ after' = after
    BY <1>2, <1>4
  <2>3. \A s \in f + 1 .. target : Used(s)'
    <3>1. \A s \in f + 1 .. target : s \in Slots /\ s # f /\ s # t /\ s \in temp + 1 .. target
      BY <2>1, SlotFacts
    <3> QED BY <1>1, <2>1, <3>1 DEF Used
  <2>4. index'[after] = IF f < target THEN target ELSE target - 1
    <3>1. CASE f < target
      <4>1. after # e
        BY <1>1, <2>1, <3>1
      <4> QED BY <1>1, <2>1, <3>1, <4>1
    <3>2. CASE ~(f < target)
      <4>1. f = target
        BY <2>1, <3>2
      <4>2. entries[index[after]] = after
        BY <2>1, SlotFacts DEF IInv, ShadowInv, Known
      <4>3. after = e
        BY <2>1, <4>1, <4>2
      <4> QED BY <1>1, <2>1, <3>2, <4>1, <4>3
    <3> QED BY <3>1, <3>2
  <2>5. f <= target
    BY <2>1
  <2> QED BY <1>1, <2>1, <2>2, <2>3, <2>4, <2>5 DEF Used
<1> QED BY <1>1, <1>2, <1>3, <1>4 DEF ShiftInv

(* The order after a move.                                                 *)
LEMMA MoveEndOrder == ASSUME IInv, MoveEnd PROVE ArrayInv' /\ OrderInv'
<1> DEFINE f == mv.from
           t == mv.to
           e == entries[f]
<1>1. /\ mv # Null /\ f \in Ordinary /\ t \in Ordinary /\ Used(f) /\ ~Used(t) /\ mv' = Null
      /\ e \in Ids /\ index[e] = f /\ f \in Slots /\ t \in Slots
      /\ index'[e] = t /\ \A x \in Ids : x # e => index'[x] = index[x]
      /\ \A x \in Ids : Known(x)' <=> Known(x)
      /\ UsedSlots' = (UsedSlots \ {f}) \cup {t}
  BY MoveEndBlock, SlotFacts
<1>2. /\ target_a' = IF pc = "reorder" THEN DeleteAt(target_a, idx) ELSE target_a
      /\ UNCHANGED <<pc, idx, order>>
  BY DEF MoveEnd
<1>3. /\ ArrayInv /\ OrderInv /\ target_a \in Seq(Targets) /\ order \in Seq(Ids)
  BY DEF IInv, TypeOK
<1>4. \A x \in Ids : Known(x) => index[x] \in Slots /\ entries[index[x]] = x
                                 /\ (x # e => index[x] # f /\ index[x] # t)
  BY <1>1, IdFacts DEF IInv, ShadowInv, TypeOK, Known, Used
<1>5. CASE pc = "reorder"
  <2>1. idx \in 1 .. Len(target_a) /\ f = target_a[idx].o /\ t = target_a[idx].t
        /\ target_a' = DeleteAt(target_a, idx)
    BY <1>1, <1>2, <1>3, <1>5 DEF ArrayInv
  <2>2. ArrayInv'
    BY <1>1, <1>2, <1>3, <2>1, LeaveArrayInv
  <2>3. \A n \in 1 .. Len(target_a') : target_a'[n].o # t
    <3>1. \A n \in 1 .. Len(target_a') : \E m \in 1 .. Len(target_a) : target_a'[n] = target_a[m]
      BY <1>3, <2>1, LeaveArray
    <3> QED BY <1>1, <1>3, <3>1 DEF ArrayInv, UsedSlots
  <2>4. \A x \in Ids, g \in Slots : Known(x) /\ Goal(index[x], g)' => Goal(index[x], g)
    <3> SUFFICES ASSUME NEW x \in Ids, NEW g \in Slots, Known(x), Goal(index[x], g)'
                 PROVE  Goal(index[x], g)
      OBVIOUS
    <3>1. CASE x # e
      <4>1. PICK s : s = index[x] /\ s = index'[x]
        BY <1>1, <3>1
      <4>2. Goal(s, g)'
        BY <4>1 DEF Goal, Listed
      <4>3. Goal(s, g)
        BY <1>3, <1>4, <2>1, <3>1, <4>1, <4>2, LeaveArrayGoal
      <4> QED BY <4>1, <4>3
    <3>2. CASE x = e
      <4>1. g = t
        BY <1>1, <2>3, <3>2 DEF Goal
      <4> QED BY <1>1, <2>1, <3>2, <4>1 DEF Goal
    <3> QED BY <3>1, <3>2
  <2>5. OrderInv'
    BY <1>1, <1>2, <1>3, <2>4, GoalsKept
  <2> QED BY <2>2, <2>5
<1>6. CASE pc # "reorder"
  <2>1. Len(target_a) = 0 /\ target_a' = target_a
    BY <1>2, <1>6 DEF IInv, CallInv
  <2>2. ArrayInv'
    BY <1>1, <1>2, <1>3, <2>1 DEF ArrayInv
  <2>3. \A s, g : (Goal(s, g) <=> g = s)
    BY <2>1 DEF Goal, Listed
  <2>5. \A i \in 1 .. Len(order) : order[i] \in Ids /\ Known(order[i])
    BY <1>3 DEF OrderInv
  <2>6. ASSUME NEW i \in 1 .. Len(order), NEW j \in 1 .. Len(order), i < j
        PROVE  index'[order[i]] < index'[order[j]]
    <3> DEFINE a == order[i]
               b == order[j]
    <3>1. a \in Ids /\ b \in Ids /\ Known(a) /\ Known(b)
      BY <2>5
    <3>2. index[a] \in Slots /\ index[b] \in Slots /\ index[a] < index[b]
          /\ index[a] \in Nat /\ index[b] \in Nat /\ f \in Nat /\ t \in Nat
      BY <1>1, <1>3, <1>4, <2>3, <2>6, <3>1, SlotFacts DEF OrderInv
    <3>3. \A x \in Ids : Known(x) /\ x # e /\ index[x] \in Ordinary => (index[x] < f <=> index[x] < t)
      BY <1>1, <1>4, <1>6, IdFacts DEF IInv, MoveInv, UsedSlots, Used
    <3>4. \A x \in Ids : Known(x) /\ index[x] \notin Ordinary => ~(index[x] < f) /\ ~(index[x] < t)
      BY <1>1, <1>4, SlotFacts
    <3>5. a # b
      BY <3>2
    <3>6. CASE a = e
      BY <1>1, <1>4, <3>1, <3>2, <3>3, <3>4, <3>5, <3>6
    <3>7. CASE b = e
      BY <1>1, <1>4, <3>1, <3>2, <3>3, <3>4, <3>5, <3>7
    <3>8. CASE a # e /\ b # e
      BY <1>1, <3>1, <3>2, <3>8
    <3> QED BY <3>6, <3>7, <3>8
  <2>7. OrderInv'
    <3>2. \A i \in 1 .. Len(order) : Known(order[i])'
      BY <1>1, <1>2, <2>5 DEF Known
    <3>3. \A x \in Ids : Known(x)' => \E i \in 1 .. Len(order) : order[i] = x
      BY <1>1, <1>3 DEF OrderInv
    <3>4. ASSUME NEW i \in 1 .. Len(order), NEW j \in 1 .. Len(order), i < j,
                 NEW g \in Slots, NEW h \in Slots,
                 Goal(index[order[i]], g)', Goal(index[order[j]], h)'
          PROVE  g < h
      <4>1. g = index'[order[i]] /\ h = index'[order[j]]
        BY <1>2, <2>1, <3>4 DEF Goal
      <4> QED BY <2>6, <3>4, <4>1
    <3>5. order' = order
      BY <1>2
    <3> QED BY <3>2, <3>3, <3>4, <3>5 DEF OrderInv
  <2> QED BY <2>2, <2>7
<1> QED BY <1>5, <1>6

LEMMA MoveEndInv == ASSUME IInv, MoveEnd PROVE IInv'
  BY MoveEndShadow, MoveEndShift, MoveEndOrder DEF IInv

----------------------------------------------------------------------------
(* A function on 1 .. n is a sequence.                                     *)
LEMMA FunctionIsSeq ==
    ASSUME NEW T, NEW n \in Nat, NEW f \in [1 .. n -> T]
    PROVE  f \in Seq(T) /\ Len(f) = n
  OBVIOUS

(* Division with a remainder.                                              *)
LEMMA DivProps ==
    ASSUME NEW a \in Nat, NEW k \in Nat \ {0}
    PROVE  a \div k \in Int /\ k * (a \div k) <= a /\ a < k * (a \div k) + k
  OBVIOUS

LEMMA QuotientLess ==
    ASSUME NEW q \in Int, NEW r \in Int, NEW k \in Nat \ {0}, NEW a \in Int, NEW b \in Int,
           b >= a + k, k * q <= a, a < k * q + k, k * r <= b,  b < k * r + k
    PROVE  q < r
  OBVIOUS

(* The targets entry_count * n / real_num grow and stay in the block.      *)
LEMMA SpreadProps ==
    ASSUME NEW k \in Nat \ {0}, k <= EntryCount
    PROVE  /\ \A n \in 1 .. k : (EntryCount * (n - 1)) \div k \in Ordinary
           /\ \A m, n \in 1 .. k : m < n =>
                 (EntryCount * (m - 1)) \div k < (EntryCount * (n - 1)) \div k
<1> DEFINE E == EntryCount
           T(n) == (E * (n - 1)) \div k
<1>1. E \in Nat /\ E > 0
  BY SlotFacts
<1>2. ASSUME NEW n \in 1 .. k
      PROVE  /\ E * (n - 1) \in Nat /\ T(n) \in Int
             /\ k * T(n) <= E * (n - 1) /\ E * (n - 1) < k * T(n) + k
  <2>1. n - 1 \in Nat
    OBVIOUS
  <2>2. E * (n - 1) \in Nat
    BY <1>1, <2>1
  <2> QED BY <2>2, DivProps
<1>3. ASSUME NEW n \in 1 .. k PROVE T(n) \in Ordinary
  <2>1. T(n) >= 0
    <3>1. k * T(n) + k > 0
      BY <1>1, <1>2
    <3> HIDE DEF T
    <3> QED BY <1>2, <3>1
  <2>2. T(n) < E
    <3>1. E * k >= E * (n - 1) + k
      <4>1. n - 1 \in Nat /\ n - 1 <= k - 1
        OBVIOUS
      <4>2. E * (n - 1) <= E * (k - 1)
        BY <1>1, <4>1
      <4>3. E * (k - 1) = E * k - E
        BY <1>1
      <4> QED BY <1>1, <4>1, <4>2, <4>3
    <3>2. k * E <= E * k /\ E * k < k * E + k /\ E * k \in Int
      BY <1>1
    <3> HIDE DEF T
    <3> QED BY SMTT(30), <1>1, <1>2, <3>1, <3>2, QuotientLess
  <2> HIDE DEF T
  <2> QED BY <1>1, <1>2, <2>1, <2>2 DEF Ordinary
<1>4. ASSUME NEW m \in 1 .. k, NEW n \in 1 .. k, m < n PROVE T(m) < T(n)
  <2>1. E * (n - 1) >= E * (m - 1) + k
    <3>1. n - 1 >= m /\ n - 1 \in Nat /\ m \in Nat
      BY <1>4
    <3>2. E * (n - 1) >= E * m
      BY <1>1, <3>1
    <3>3. E * (m - 1) = E * m - E
      BY <1>1
    <3> QED BY <1>1, <3>1, <3>2, <3>3
  <2>2. /\ E * (m - 1) \in Int /\ T(m) \in Int /\ k * T(m) <= E * (m - 1)
        /\ E * (m - 1) < k * T(m) + k
    BY <1>2
  <2>3. /\ E * (n - 1) \in Int /\ T(n) \in Int /\ k * T(n) <= E * (n - 1)
        /\ E * (n - 1) < k * T(n) + k
    BY <1>2
  <2> HIDE DEF T
  <2> QED BY <2>1, <2>2, <2>3, QuotientLess
<1> QED BY <1>3, <1>4

(* The ordinary slots a table uses.                                        *)
UsedIn(ents) == {s \in Ordinary : ents[s] # Null}

(* The array the reorder starts with holds every entry of the ordinary     *)
(* slots, from top to bottom.                                              *)
LEMMA NewTargetsProps ==
    ASSUME NEW ents \in [Slots -> Ids \cup {Null}], NEW U, NEW k,
           U = UsedIn(ents), k = Cardinality(U)
    PROVE  /\ k \in Nat /\ NewTargets(ents, k) \in Seq(Targets) /\ Len(NewTargets(ents, k)) = k
           /\ \A n \in 1 .. k : /\ NewTargets(ents, k)[n].o \in U
                                /\ NewTargets(ents, k)[n].t \in Ordinary
           /\ \A m, n \in 1 .. k : m < n =>
                 /\ NewTargets(ents, k)[m].o < NewTargets(ents, k)[n].o
                 /\ NewTargets(ents, k)[m].t < NewTargets(ents, k)[n].t
           /\ \A s \in U : \E n \in 1 .. k : NewTargets(ents, k)[n].o = s
<1> USE DEF UsedIn
<1> DEFINE Below(s) == {u \in 0 .. s : ents[u] # Null}
           Rank == [s \in U |-> Cardinality(Below(s))]
<1>1. /\ IsFiniteSet(U) /\ k \in Nat /\ k <= EntryCount
      /\ U \subseteq Ordinary /\ U \subseteq Nat /\ U \subseteq Slots
  <2>1. IsFiniteSet(Ordinary) /\ Cardinality(Ordinary) = EntryCount /\ U \in SUBSET Ordinary
    BY CountFacts
  <2> QED BY <2>1, FS_Subset, FS_CardinalityType, SlotFacts
<1>2. ASSUME NEW s \in U
      PROVE  /\ Below(s) \subseteq U /\ s \in Below(s) /\ IsFiniteSet(Below(s))
             /\ Cardinality(Below(s)) \in 1 .. k
  <2>1. \A u \in 0 .. s : u \in Ordinary
    BY <1>1, SlotFacts
  <2>2. Below(s) \subseteq U /\ s \in Below(s)
    BY <1>1, <2>1
  <2> HIDE DEF Below
  <2>3. IsFiniteSet(Below(s)) /\ Cardinality(Below(s)) <= k /\ Cardinality(Below(s)) \in Nat
    BY <1>1, <2>2, FS_Subset, FS_CardinalityType
  <2>4. Cardinality(Below(s)) # 0
    BY <2>2, <2>3, FS_EmptySet
  <2> QED BY <1>1, <2>2, <2>3, <2>4
<1>3. ASSUME NEW s \in U, NEW r \in U, s < r
      PROVE  Cardinality(Below(s)) < Cardinality(Below(r))
  <2>1. Below(s) \subseteq Below(r) /\ r \notin Below(s)
    BY <1>1, <1>3
  <2> HIDE DEF Below
  <2>2. r \in Below(r) /\ IsFiniteSet(Below(r)) /\ Cardinality(Below(r)) \in Nat
        /\ Cardinality(Below(s)) \in Nat
    BY <1>2
  <2>3. Cardinality(Below(s)) <= Cardinality(Below(r))
        /\ Cardinality(Below(r)) # Cardinality(Below(s))
    BY <2>1, <2>2, FS_Subset
  <2> QED BY <2>2, <2>3
<1>4. Rank \in Injection(U, 1 .. k)
  <2>1. Rank \in [U -> 1 .. k]
    BY <1>2
  <2>2. ASSUME NEW s \in U, NEW r \in U, Rank[s] = Rank[r] PROVE s = r
    <3>1. (s < r => Rank[s] < Rank[r]) /\ (r < s => Rank[r] < Rank[s])
      BY <1>3
    <3> HIDE DEF Rank
    <3>2. s \in Nat /\ r \in Nat /\ Rank[s] \in Nat /\ Rank[r] \in Nat
      BY <1>1, <2>1
    <3> QED BY <2>2, <3>1, <3>2
  <2> HIDE DEF Rank
  <2> QED BY <2>1, <2>2 DEF Injection, IsInjective
<1>5. \A n \in 1 .. k : \E s \in U : Rank[s] = n
  <2>1. IsFiniteSet(1 .. k) /\ Cardinality(1 .. k) = k
    BY <1>1, FS_Interval
  <2> HIDE DEF Rank
  <2>2. Rank \in Surjection(U, 1 .. k)
    BY <1>4, <2>1, FS_Injection
  <2> QED BY <2>2 DEF Surjection
<1> DEFINE a == NewTargets(ents, k)
           O(n) == CHOOSE s \in Ordinary : ents[s] # Null /\ Cardinality(Below(s)) = n
<1>6. ASSUME NEW n \in 1 .. k PROVE O(n) \in U /\ Cardinality(Below(O(n))) = n
  <2>1. PICK s \in U : Rank[s] = n
    BY <1>5
  <2>2. s \in Ordinary /\ ents[s] # Null /\ Cardinality(Below(s)) = n
    BY <1>1, <2>1
  <2> HIDE DEF Below
  <2>3. O(n) \in Ordinary /\ ents[O(n)] # Null /\ Cardinality(Below(O(n))) = n
    BY <2>2
  <2> QED BY <2>3
<1>7. a = [n \in 1 .. k |-> [o |-> O(n), t |-> (EntryCount * (n - 1)) \div k]]
  BY DEF NewTargets
<1>8. ASSUME NEW n \in 1 .. k PROVE (EntryCount * (n - 1)) \div k \in Ordinary
  BY <1>1, SpreadProps
<1>9. a \in Seq(Targets) /\ Len(a) = k
  <2>1. \A n \in 1 .. k : O(n) \in Slots
    BY <1>1, <1>6
  <2>2. \A n \in 1 .. k : (EntryCount * (n - 1)) \div k \in Nat
    BY <1>8, SlotFacts
  <2> HIDE DEF a, O
  <2>3. a \in [1 .. k -> Targets]
    BY <1>7, <2>1, <2>2 DEF Targets
  <2>4. k \in Nat
    BY <1>1
  <2> QED BY <2>3, <2>4, FunctionIsSeq
<1>10. \A n \in 1 .. k : a[n].o = O(n) /\ a[n].t = (EntryCount * (n - 1)) \div k
  <2> HIDE DEF a, O
  <2> QED BY <1>7
<1>11. ASSUME NEW m \in 1 .. k, NEW n \in 1 .. k, m < n PROVE a[m].o < a[n].o /\ a[m].t < a[n].t
  <2>1. O(m) \in U /\ O(n) \in U
        /\ Cardinality(Below(O(m))) = m /\ Cardinality(Below(O(n))) = n
    BY <1>6
  <2> HIDE DEF O, Below
  <2>2. O(n) < O(m) => n < m
    BY <1>3, <2>1
  <2>3. O(n) # O(m)
    BY <1>11, <2>1
  <2>4. O(m) < O(n)
    BY <1>1, <1>11, <2>1, <2>2, <2>3
  <2>5. (EntryCount * (m - 1)) \div k < (EntryCount * (n - 1)) \div k
    BY <1>1, <1>11, SpreadProps
  <2> HIDE DEF O, a
  <2> QED BY <1>10, <2>4, <2>5
<1>12. ASSUME NEW s \in U PROVE \E n \in 1 .. k : a[n].o = s
  <2> DEFINE n == Cardinality(Below(s))
  <2>1. n \in 1 .. k
    BY <1>2
  <2>2. O(n) \in U /\ Rank[O(n)] = n /\ Rank[s] = n
    BY <1>6, <2>1
  <2> HIDE DEF O, Rank, n, a
  <2>3. O(n) = s
    BY <1>4, <2>2 DEF Injection, IsInjective
  <2> QED BY <1>10, <2>1, <2>3
<1>13. \A n \in 1 .. k : a[n].o \in U /\ a[n].t \in Ordinary
  <2> HIDE DEF O, a
  <2> QED BY <1>6, <1>8, <1>10
<1> HIDE DEF a
<1> QED BY <1>1, <1>9, <1>11, <1>12, <1>13 DEF a

----------------------------------------------------------------------------
(* _sys_humber_aclqos_entry_write: what it does to the block.              *)
LEMMA WriteBlock ==
    ASSUME IInv, Write
    PROVE  /\ target_a = <<>> /\ mv = Null /\ mv' = Null /\ new \in Ids /\ ~Known(new)
           /\ target \in Slots /\ ~Used(target)
           /\ entries' \in [Slots -> Ids \cup {Null}] /\ index' \in [Ids -> Slots \cup {Null}]
           /\ entries'[target] = new /\ hw' = entries'
           /\ \A s \in Slots : s # target => entries'[s] = entries[s]
           /\ index'[new] = target /\ \A x \in Ids : x # new => index'[x] = index[x]
           /\ \A x \in Ids : Known(x)' <=> Known(x) \/ x = new
           /\ free_count' \in Nat /\ FreeCountExact' /\ ShadowInv'
<1>1. /\ pc = "write" /\ target_a = <<>> /\ mv = Null /\ mv' = Null /\ new \in Ids /\ ~Known(new)
      /\ target \in Slots /\ ~Used(target) /\ hw = entries
      /\ entries \in [Slots -> Ids \cup {Null}] /\ index \in [Ids -> Slots \cup {Null}]
      /\ new \in EntryIds <=> target \in Ordinary
      /\ Place(new, after)
  BY DEF Write, IInv, CallInv, ChipInv, WriteInv, TypeOK
<1>2. /\ hw' = [hw EXCEPT ![target] = new] /\ entries' = [entries EXCEPT ![target] = new]
      /\ index' = [index EXCEPT ![new] = target]
      /\ free_count' = IF target < EntryCount THEN free_count - 1 ELSE free_count
  BY DEF Write
<1>3. /\ entries' \in [Slots -> Ids \cup {Null}] /\ index' \in [Ids -> Slots \cup {Null}]
      /\ entries'[target] = new /\ hw' = entries'
      /\ \A s \in Slots : s # target => entries'[s] = entries[s]
      /\ index'[new] = target /\ \A x \in Ids : x # new => index'[x] = index[x]
  BY <1>1, <1>2
<1>4. \A x \in Ids : Known(x)' <=> Known(x) \/ x = new
  BY <1>1, <1>3, SlotFacts DEF Known
<1>5. free_count' \in Nat /\ FreeCountExact'
  <2>1. free_count = Cardinality(NullSlots) /\ IsFiniteSet(NullSlots) /\ Cardinality(NullSlots) \in Nat
    BY CountFacts DEF IInv, FreeCountExact
  <2>2. NullSlots' = {s \in Ordinary : entries'[s] = Null}
    BY DEF NullSlots, Used
  <2>3. CASE target \in Ordinary
    <3>1. target \in NullSlots /\ NullSlots' = NullSlots \ {target}
      BY <1>1, <1>3, <2>2, <2>3, SlotFacts, IdFacts DEF NullSlots, Used
    <3>2. Cardinality(NullSlots \ {target}) = Cardinality(NullSlots) - 1
          /\ Cardinality(NullSlots \ {target}) \in Nat
      BY <2>1, <3>1, FS_RemoveElement, FS_CardinalityType
    <3>3. free_count' = free_count - 1
      BY <1>1, <1>2, <2>3, SlotFacts
    <3> QED BY <2>1, <3>1, <3>2, <3>3 DEF FreeCountExact
  <2>4. CASE target \notin Ordinary
    <3>1. NullSlots' = NullSlots
      BY <1>1, <1>3, <2>2, <2>4, SlotFacts DEF NullSlots, Used
    <3>2. free_count' = free_count
      BY <1>1, <1>2, <2>4, SlotFacts
    <3> QED BY <2>1, <3>1, <3>2 DEF FreeCountExact
  <2> QED BY <2>3, <2>4
<1>6. ShadowInv'
  <2>1. ASSUME NEW s \in Slots, Used(s)' PROVE index'[entries'[s]] = s
    <3>1. CASE s = target
      BY <1>3, <3>1
    <3>2. CASE s # target
      <4>1. entries'[s] = entries[s] /\ entries[s] \in Ids /\ index[entries[s]] = s
        BY <1>1, <1>3, <2>1, <3>2 DEF Used, IInv, ShadowInv
      <4>2. entries[s] # new
        BY <1>1, <4>1, SlotFacts DEF Known
      <4> QED BY <1>3, <4>1, <4>2
    <3> QED BY <3>1, <3>2
  <2>2. ASSUME NEW x \in Ids, Known(x)'
        PROVE  entries'[index'[x]] = x /\ (x \in EntryIds <=> index'[x] \in Ordinary)
    <3>1. CASE x = new
      BY <1>1, <1>3, <3>1
    <3>2. CASE x # new
      <4>1. Known(x) /\ index[x] \in Slots /\ entries[index[x]] = x
            /\ (x \in EntryIds <=> index[x] \in Ordinary)
        BY <1>1, <1>4, <2>2, <3>2 DEF IInv, ShadowInv, Known
      <4>2. index[x] # target
        BY <1>1, <4>1, IdFacts DEF Used
      <4> QED BY <1>3, <3>2, <4>1, <4>2
    <3> QED BY <3>1, <3>2
  <2>3. ASSUME NEW d \in Default, NEW c \in Default, c < d, Used(d)' PROVE Used(c)'
    <3>1. d \in Slots /\ c \in Slots /\ new # Null
      BY <1>1, SlotFacts, IdFacts
    <3>2. Used(d) \/ d = target
      BY <1>3, <2>3, <3>1 DEF Used
    <3>3. Used(c)
      <4>1. CASE Used(d)
        BY <2>3, <4>1 DEF IInv, ShadowInv
      <4>2. CASE d = target
        <5>1. target \notin Ordinary /\ new \notin EntryIds /\ after = ID_TAIL
          BY <1>1, <2>3, <4>2, SlotFacts, IdFacts DEF Place
        <5> QED BY <1>1, <2>3, <4>2, <5>1 DEF IInv, WriteInv
      <4> QED BY <3>2, <4>1, <4>2
    <3> QED BY <1>3, <3>1, <3>3 DEF Used
  <2> QED BY <2>1, <2>2, <2>3 DEF ShadowInv
<1> QED BY <1>1, <1>3, <1>4, <1>5, <1>6

(* The new entry is written where its caller asked for it.                 *)
LEMMA WriteOrder ==
    ASSUME IInv, Write
    PROVE  /\ order' \in Seq(Ids)
           /\ \A i \in 1 .. Len(order') : order'[i] \in Ids /\ index'[order'[i]] # Null
           /\ \A x \in Ids : Known(x)' => \E i \in 1 .. Len(order') : order'[i] = x
           /\ \A i, j \in 1 .. Len(order') : i < j => index'[order'[i]] < index'[order'[j]]
<1> DEFINE W == WantedAt
           L == Len(order)
<1>1. /\ pc = "write" /\ order' = InsertBehind(order, W, new) /\ order \in Seq(Ids) /\ OrderInv
      /\ new \in Ids /\ Place(new, after) /\ L \in Nat
  BY DEF Write, IInv, CallInv, TypeOK
<1>2. /\ target_a = <<>> /\ target \in Slots /\ target \in Nat /\ ~Used(target) /\ ~Known(new)
      /\ index'[new] = target /\ \A x \in Ids : x # new => index'[x] = index[x]
      /\ \A x \in Ids : Known(x)' <=> Known(x) \/ x = new
  BY WriteBlock, SlotFacts
<1>3. \A i \in 1 .. L : /\ order[i] \in Ids /\ Known(order[i]) /\ order[i] # new
                        /\ index[order[i]] \in Slots /\ index[order[i]] \in Nat
                        /\ Used(index[order[i]]) /\ index[order[i]] # target
  <2> SUFFICES ASSUME NEW i \in 1 .. L
               PROVE  /\ order[i] \in Ids /\ Known(order[i]) /\ order[i] # new
                      /\ index[order[i]] \in Slots /\ index[order[i]] \in Nat
                      /\ Used(index[order[i]]) /\ index[order[i]] # target
    OBVIOUS
  <2>1. order[i] \in Ids /\ Known(order[i])
    BY <1>1 DEF OrderInv
  <2>2. index[order[i]] \in Slots /\ entries[index[order[i]]] = order[i]
    BY <2>1 DEF IInv, ShadowInv, TypeOK, Known
  <2> QED BY <1>2, <2>1, <2>2, SlotFacts, IdFacts DEF Used
<1>4. \A i, j \in 1 .. L : i < j => index[order[i]] < index[order[j]]
  <2>1. \A s, g : g = s => Goal(s, g)
    BY <1>2 DEF Goal, Listed
  <2> QED BY <1>1, <1>3, <2>1 DEF OrderInv
<1>5. /\ W \in 0 .. L
      /\ \A i \in 1 .. L : i <= W => index[order[i]] < target
      /\ \A i \in 1 .. L : i > W => index[order[i]] > target
  <2>1. CASE after = ID_HEAD
    <3>1. W = 0
      <4>1. after \notin EntryIds
        BY <2>1, IdFacts
      <4> QED BY <2>1, <4>1 DEF WantedAt
    <3>2. \A s \in Slots : Used(s) => s > target
      BY <1>1, <2>1 DEF IInv, WriteInv
    <3> QED BY <1>1, <1>3, <3>1, <3>2
  <2>2. CASE after \in EntryIds
    <3>1. Known(after) /\ after \in Ids /\ index[after] = target - 1
      <4>1. after # ID_TAIL /\ after # ID_HEAD /\ after \in Ids
        BY <2>2, IdFacts
      <4>2. index[after] # Null
        BY <1>1, <4>1 DEF Place
      <4> QED BY <1>1, <2>2, <4>1, <4>2 DEF IInv, WriteInv, Known
    <3>2. after \in Elems(order)
      BY <1>1, <3>1 DEF OrderInv, Elems
    <3>3. W = IndexIn(order, after)
      BY <2>2, IdFacts DEF WantedAt
    <3>4. W \in 1 .. L /\ order[W] = after
      BY <3>2, <3>3, IndexInProps
    <3> HIDE DEF W
    <3>5. \A i \in 1 .. L : i <= W => index[order[i]] < target
      <4> SUFFICES ASSUME NEW i \in 1 .. L, i <= W PROVE index[order[i]] < target
        OBVIOUS
      <4>1. i = W \/ i < W
        BY <3>4
      <4>2. index[order[i]] <= target - 1
        BY <1>2, <1>3, <1>4, <3>1, <3>4, <4>1
      <4> QED BY <1>2, <1>3, <4>2
    <3>6. \A i \in 1 .. L : i > W => index[order[i]] > target
      <4> SUFFICES ASSUME NEW i \in 1 .. L, i > W PROVE index[order[i]] > target
        OBVIOUS
      <4>1. index[order[i]] > target - 1
        BY <1>4, <3>1, <3>4
      <4> QED BY <1>2, <1>3, <4>1
    <3> QED BY <1>1, <3>4, <3>5, <3>6
  <2>3. CASE after # ID_HEAD /\ after \notin EntryIds
    <3>1. after = ID_TAIL
      BY <1>1, <2>3 DEF Place
    <3>2. W = L
      BY <2>3 DEF WantedAt
    <3>3. \A s \in Slots : Used(s) => s < target
      BY <1>1, <3>1 DEF IInv, WriteInv
    <3> QED BY <1>1, <1>3, <3>2, <3>3
  <2> QED BY <2>1, <2>2, <2>3
<1> HIDE DEF W
<1>6. /\ order' \in Seq(Ids) /\ Len(order') = L + 1
      /\ \A i \in 1 .. L + 1 : order'[i] = IF i <= W THEN order[i]
                                           ELSE IF i = W + 1 THEN new ELSE order[i - 1]
  <2>1. order \in Seq(Ids) /\ W \in 0 .. Len(order) /\ new \in Ids
    BY <1>1, <1>5
  <2>2. /\ InsertBehind(order, W, new) \in Seq(Ids) /\ Len(InsertBehind(order, W, new)) = L + 1
        /\ \A i \in 1 .. L + 1 :
              InsertBehind(order, W, new)[i] = IF i <= W THEN order[i]
                                               ELSE IF i = W + 1 THEN new ELSE order[i - 1]
    <3>1. /\ InsertBehind(order, W, new) \in Seq(Ids)
          /\ Len(InsertBehind(order, W, new)) = Len(order) + 1
          /\ \A i \in 1 .. Len(order) + 1 :
                InsertBehind(order, W, new)[i] = IF i <= W THEN order[i]
                                                 ELSE IF i = W + 1 THEN new ELSE order[i - 1]
      <4>1. Inserted(Ids, order, W, new)
        BY <2>1, InsertProps
      <4> QED BY <4>1 DEF Inserted
    <3> QED BY <3>1
  <2> QED BY <1>1, <2>2
<1>7. ASSUME NEW i \in 1 .. L + 1
      PROVE  \/ i = W + 1 /\ order'[i] = new /\ index'[order'[i]] = target
             \/ /\ i <= W /\ i \in 1 .. L /\ order'[i] = order[i]
                /\ index'[order'[i]] = index[order[i]]
             \/ /\ i > W + 1 /\ i - 1 \in 1 .. L /\ order'[i] = order[i - 1]
                /\ index'[order'[i]] = index[order[i - 1]]
  <2>1. i = W + 1 \/ (i <= W /\ i \in 1 .. L) \/ (i > W + 1 /\ i - 1 \in 1 .. L /\ ~(i <= W) /\ i # W + 1)
    BY <1>1, <1>5
  <2>2. CASE i = W + 1
    <3>1. ~(i <= W)
      BY <1>5, <2>2
    <3> QED BY <1>2, <1>6, <2>2, <3>1
  <2>3. CASE i <= W /\ i \in 1 .. L
    BY <1>2, <1>3, <1>6, <2>3
  <2>4. CASE i > W + 1 /\ i - 1 \in 1 .. L /\ ~(i <= W) /\ i # W + 1
    BY <1>2, <1>3, <1>6, <2>4
  <2> QED BY <2>1, <2>2, <2>3, <2>4
<1>8. \A i \in 1 .. Len(order') : order'[i] \in Ids /\ index'[order'[i]] # Null
  <2>1. \A s \in Slots : s # Null
    BY SlotFacts
  <2> QED BY <1>1, <1>2, <1>3, <1>6, <1>7, <2>1
<1>9. ASSUME NEW x \in Ids, Known(x)' PROVE \E i \in 1 .. Len(order') : order'[i] = x
  <2>1. CASE x = new
    <3>1. W + 1 \in 1 .. L + 1 /\ ~(W + 1 <= W)
      BY <1>1, <1>5
    <3> QED BY <1>6, <2>1, <3>1
  <2>2. CASE x # new
    <3>1. PICK i \in 1 .. L : order[i] = x
      BY <1>1, <1>2, <1>9, <2>2 DEF OrderInv
    <3>2. CASE i <= W
      BY <1>1, <1>6, <3>1, <3>2
    <3>3. CASE i > W
      <4>1. i + 1 \in 1 .. L + 1 /\ ~(i + 1 <= W) /\ i + 1 # W + 1 /\ (i + 1) - 1 = i
        BY <1>1, <1>5, <3>3
      <4> QED BY <1>6, <3>1, <4>1
    <3> QED BY <1>5, <3>2, <3>3
  <2> QED BY <2>1, <2>2
<1>10. ASSUME NEW i \in 1 .. L + 1, NEW j \in 1 .. L + 1, i < j
       PROVE  index'[order'[i]] < index'[order'[j]]
  <2>1. CASE i = W + 1 /\ index'[order'[i]] = target
    <3>1. j > W + 1 /\ j - 1 \in 1 .. L /\ index'[order'[j]] = index[order[j - 1]] /\ j - 1 > W
      BY <1>5, <1>7, <1>10, <2>1
    <3> QED BY <1>2, <1>3, <1>5, <2>1, <3>1
  <2>2. CASE i <= W /\ i \in 1 .. L /\ index'[order'[i]] = index[order[i]]
    <3>1. CASE j = W + 1 /\ index'[order'[j]] = target
      BY <1>5, <2>2, <3>1
    <3>2. CASE j <= W /\ j \in 1 .. L /\ index'[order'[j]] = index[order[j]]
      BY <1>4, <1>10, <2>2, <3>2
    <3>3. CASE j > W + 1 /\ j - 1 \in 1 .. L /\ index'[order'[j]] = index[order[j - 1]]
      <4>1. i < j - 1
        BY <1>5, <2>2, <3>3
      <4> QED BY <1>4, <2>2, <3>3, <4>1
    <3> QED BY <1>7, <3>1, <3>2, <3>3
  <2>3. CASE i > W + 1 /\ i - 1 \in 1 .. L /\ index'[order'[i]] = index[order[i - 1]]
    <3>1. j > W + 1 /\ ~(j <= W) /\ j # W + 1 /\ i - 1 < j - 1
      BY <1>5, <1>10, <2>3
    <3>2. j - 1 \in 1 .. L /\ index'[order'[j]] = index[order[j - 1]]
      BY <1>7, <3>1
    <3> QED BY <1>4, <2>3, <3>1, <3>2
  <2> QED BY <1>7, <2>1, <2>2, <2>3
<1> QED BY <1>6, <1>8, <1>9, <1>10

(* The array and the goals a reorder starts with, from the sorted block.   *)
LEMMA ReorderStarts ==
    ASSUME IInv, Write, DoReorder
    PROVE  /\ target_a' \in Seq(Targets) /\ ArrayInv'
           /\ \A s, r \in Slots, g, h \in Slots :
                 (/\ s < r /\ entries'[s] # Null /\ entries'[r] # Null
                  /\ Goal(s, g)' /\ Goal(r, h)') => g < h
<1> DEFINE U == {s \in Ordinary : entries'[s] # Null}
           k == Cardinality(U)
           A == 1 .. Len(target_a')
<1>1. entries' \in [Slots -> Ids \cup {Null}] /\ mv' = Null /\ FreeCountExact'
  BY WriteBlock
<1>2. UsedSlots' = U /\ U \subseteq Ordinary
  BY DEF UsedSlots, Used
<1>3. EntryCount - free_count' = k
  <2>1. NullSlots' \in SUBSET Ordinary /\ U = Ordinary \ NullSlots'
        /\ Ordinary \cap NullSlots' = NullSlots'
    BY DEF NullSlots, Used
  <2>2. IsFiniteSet(Ordinary) /\ Cardinality(Ordinary) = EntryCount /\ EntryCount \in Nat
    BY CountFacts, SlotFacts
  <2>3. IsFiniteSet(NullSlots') /\ Cardinality(NullSlots') \in Nat
    BY <2>1, <2>2, FS_Subset, FS_CardinalityType
  <2>4. Cardinality(Ordinary \ NullSlots') = EntryCount - Cardinality(NullSlots')
    BY <2>1, <2>2, FS_Difference
  <2>5. free_count' = Cardinality(NullSlots')
    BY <1>1 DEF FreeCountExact
  <2> QED BY <2>1, <2>2, <2>3, <2>4, <2>5
<1>4. target_a' = NewTargets(entries', k) /\ idx' = 1
  BY <1>3 DEF Write
<1>5. /\ k \in Nat /\ target_a' \in Seq(Targets) /\ Len(target_a') = k
      /\ \A n \in A : target_a'[n].o \in U /\ target_a'[n].t \in Ordinary
      /\ \A m, n \in A : m < n => target_a'[m].o < target_a'[n].o /\ target_a'[m].t < target_a'[n].t
      /\ \A s \in U : \E n \in A : target_a'[n].o = s
  <2>1. PICK ents : ents = entries'
    OBVIOUS
  <2>2. ents \in [Slots -> Ids \cup {Null}] /\ U = UsedIn(ents)
        /\ target_a' = NewTargets(ents, k)
    BY <1>1, <1>4, <2>1 DEF UsedIn
  <2>3. k = Cardinality(U)
    OBVIOUS
  <2> HIDE DEF U, k
  <2>4. /\ k \in Nat /\ NewTargets(ents, k) \in Seq(Targets) /\ Len(NewTargets(ents, k)) = k
        /\ \A n \in 1 .. k : NewTargets(ents, k)[n].o \in U /\ NewTargets(ents, k)[n].t \in Ordinary
        /\ \A m, n \in 1 .. k : m < n =>
              /\ NewTargets(ents, k)[m].o < NewTargets(ents, k)[n].o
              /\ NewTargets(ents, k)[m].t < NewTargets(ents, k)[n].t
        /\ \A s \in U : \E n \in 1 .. k : NewTargets(ents, k)[n].o = s
    BY <2>2, <2>3, NewTargetsProps
  <2> QED BY <2>2, <2>4
<1>6. ArrayInv'
  <2>1. \A s \in U : Listed(s)'
    BY <1>5 DEF Listed
  <2> HIDE DEF U, k
  <2> QED BY <1>1, <1>2, <1>4, <1>5, <2>1 DEF ArrayInv
<1>7. ASSUME NEW s \in Slots, NEW r \in Slots, NEW g \in Slots, NEW h \in Slots, s < r,
             entries'[s] # Null, entries'[r] # Null, Goal(s, g)', Goal(r, h)'
      PROVE  g < h
  <2>1. s \in Nat /\ r \in Nat /\ EntryCount \in Nat
    BY <1>7, SlotFacts
  <2>2. \A n \in A : target_a'[n].o \in Ordinary /\ target_a'[n].o \in Nat /\ target_a'[n].t \in Nat
                     /\ target_a'[n].o < EntryCount /\ target_a'[n].t < EntryCount
    BY <1>2, <1>5, SlotFacts
  <2>3. s \in Ordinary => \E m \in A : target_a'[m].o = s /\ g = target_a'[m].t
    BY <1>5, <1>7 DEF Goal, Listed
  <2>4. r \in Ordinary => \E n \in A : target_a'[n].o = r /\ h = target_a'[n].t
    BY <1>5, <1>7 DEF Goal, Listed
  <2>5. s \notin Ordinary => g = s /\ s >= EntryCount
    BY <1>7, <2>2, SlotFacts DEF Goal
  <2>6. r \notin Ordinary => h = r /\ r >= EntryCount
    BY <1>7, <2>2, SlotFacts DEF Goal
  <2> HIDE DEF U, k
  <2>7. CASE s \in Ordinary /\ r \in Ordinary
    <3>1. PICK m \in A : target_a'[m].o = s /\ g = target_a'[m].t
      BY <2>3, <2>7
    <3>2. PICK n \in A : target_a'[n].o = r /\ h = target_a'[n].t
      BY <2>4, <2>7
    <3>3. m < n
      BY <1>5, <1>7, <2>1, <2>2, <3>1, <3>2
    <3> QED BY <1>5, <3>1, <3>2, <3>3
  <2>8. CASE s \in Ordinary /\ r \notin Ordinary
    BY <2>1, <2>2, <2>3, <2>6, <2>8
  <2>9. CASE s \notin Ordinary
    <3>1. r \notin Ordinary
      BY <1>7, <2>1, <2>9, SlotFacts
    <3> QED BY <1>7, <2>5, <2>6, <2>9, <3>1
  <2> QED BY <2>7, <2>8, <2>9
<1> QED BY <1>5, <1>6, <1>7

LEMMA WriteStepInv == ASSUME IInv, Write PROVE IInv'
<1>1. /\ mv' = Null /\ free_count' \in Nat /\ FreeCountExact' /\ ShadowInv'
      /\ entries' \in [Slots -> Ids \cup {Null}] /\ index' \in [Ids -> Slots \cup {Null}]
      /\ hw' = entries'
  BY WriteBlock
<1>2. /\ order' \in Seq(Ids)
      /\ \A i \in 1 .. Len(order') : order'[i] \in Ids /\ index'[order'[i]] # Null
      /\ \A x \in Ids : Known(x)' => \E i \in 1 .. Len(order') : order'[i] = x
      /\ \A i, j \in 1 .. Len(order') : i < j => index'[order'[i]] < index'[order'[j]]
  BY WriteOrder
<1>3. /\ pc' = IF DoReorder THEN "reorder" ELSE "idle"
      /\ ~DoReorder => target_a' = <<>>
      /\ idx' = 1 /\ new' = Null /\ after' = Null /\ target' = 0 /\ temp' = 0 /\ shift' = 0
      /\ after_cnt' = after_cnt
  BY DEF Write
<1>4. target_a' \in Seq(Targets) /\ ArrayInv'
  <2>1. CASE DoReorder
    BY <2>1, ReorderStarts
  <2>2. CASE ~DoReorder
    <3>1. target_a' = <<>>
      BY <1>3, <2>2
    <3>2. target_a' \in Seq(Targets) /\ Len(target_a') = 0
      BY <3>1
    <3> QED BY <1>1, <1>3, <3>2 DEF ArrayInv
  <2> QED BY <2>1, <2>2
<1>5. TypeOK'
  BY <1>1, <1>2, <1>3, <1>4, SlotFacts DEF TypeOK, IInv
<1>6. ChipInv' /\ CallInv' /\ MoveInv' /\ ShiftInv' /\ WriteInv'
  BY <1>1, <1>3 DEF ChipInv, CallInv, MoveInv, ShiftInv, WriteInv
<1>7. OrderInv'
  <2>1. \A i \in 1 .. Len(order') : index'[order'[i]] \in Slots /\ entries'[index'[order'[i]]] # Null
    BY <1>1, <1>2, IdFacts DEF ShadowInv, Known
  <2>2. ASSUME NEW i \in 1 .. Len(order'), NEW j \in 1 .. Len(order'), i < j,
               NEW g \in Slots, NEW h \in Slots,
               Goal(index[order[i]], g)', Goal(index[order[j]], h)'
        PROVE  g < h
    <3>1. CASE DoReorder
      <4>1. PICK s, r : s = index'[order'[i]] /\ r = index'[order'[j]]
        OBVIOUS
      <4>2. Goal(s, g)' /\ Goal(r, h)'
        BY <2>2, <4>1 DEF Goal, Listed
      <4>3. s \in Slots /\ r \in Slots /\ s < r /\ entries'[s] # Null /\ entries'[r] # Null
        BY <1>2, <2>1, <2>2, <4>1
      <4> QED BY <3>1, <4>2, <4>3, ReorderStarts
    <3>2. CASE ~DoReorder
      <4>1. Len(target_a') = 0
        BY <1>3, <3>2
      <4>2. g = index'[order'[i]] /\ h = index'[order'[j]]
        BY <2>2, <4>1 DEF Goal
      <4> QED BY <1>2, <2>2, <4>2
    <3> QED BY <3>1, <3>2
  <2> QED BY <1>2, <2>2 DEF OrderInv, Known
<1> QED BY <1>1, <1>4, <1>5, <1>6, <1>7 DEF IInv

----------------------------------------------------------------------------
(* sys_humber_aclqos_entry_delete.                                         *)
LEMMA EntryDeleteInv == ASSUME IInv, NEW e \in EntryIds, EntryDelete(e) PROVE IInv'
<1> DEFINE z == index[e]
           L == Len(order)
<1>1. /\ pc = "idle" /\ mv = Null /\ target_a = <<>> /\ hw = entries /\ z # Null /\ e \in Ids
      /\ entries \in [Slots -> Ids \cup {Null}] /\ index \in [Ids -> Slots \cup {Null}]
      /\ order \in Seq(Ids) /\ L \in Nat /\ OrderInv /\ ShadowInv /\ new = Null
  BY IdFacts DEF EntryDelete, IInv, CallInv, ChipInv, TypeOK
<1>2. /\ hw' = [hw EXCEPT ![z] = Null] /\ entries' = [entries EXCEPT ![z] = Null]
      /\ index' = [index EXCEPT ![e] = Null]
      /\ free_count' = IF z < EntryCount THEN free_count + 1 ELSE free_count
      /\ after_cnt' = IF free_count' = EntryCount THEN [i \in 0 .. 1 |-> 0] ELSE after_cnt
      /\ order' = HwDel(order, e)
      /\ UNCHANGED <<pc, new, after, target, temp, shift, mv, target_a, idx>>
  BY DEF EntryDelete, loops
<1>3. z \in Slots /\ z \in Ordinary /\ entries[z] = e /\ Used(z) /\ z < EntryCount
  BY <1>1, SlotFacts, IdFacts DEF ShadowInv, Known, Used
<1>4. /\ entries' \in [Slots -> Ids \cup {Null}] /\ index' \in [Ids -> Slots \cup {Null}]
      /\ hw' = entries' /\ entries'[z] = Null
      /\ \A s \in Slots : s # z => entries'[s] = entries[s]
      /\ index'[e] = Null /\ \A x \in Ids : x # e => index'[x] = index[x]
  BY <1>1, <1>2, <1>3
<1>5. free_count' \in Nat /\ FreeCountExact'
  <2>1. free_count = Cardinality(NullSlots) /\ IsFiniteSet(NullSlots) /\ Cardinality(NullSlots) \in Nat
    BY CountFacts DEF IInv, FreeCountExact
  <2>2. z \notin NullSlots /\ NullSlots' = NullSlots \cup {z}
    <3>1. NullSlots' = {s \in Ordinary : entries'[s] = Null}
      BY DEF NullSlots, Used
    <3>2. \A s \in Ordinary : entries'[s] = Null <=> entries[s] = Null \/ s = z
      BY <1>4, SlotFacts
    <3> HIDE DEF z
    <3>3. NullSlots = {s \in Ordinary : entries[s] = Null} /\ z \in Ordinary /\ entries[z] # Null
      BY <1>3 DEF NullSlots, Used
    <3> QED BY <3>1, <3>2, <3>3
  <2>3. Cardinality(NullSlots \cup {z}) = Cardinality(NullSlots) + 1
    BY <2>1, <2>2, FS_AddElement
  <2>4. free_count' = free_count + 1
    BY <1>2, <1>3
  <2> QED BY <2>1, <2>2, <2>3, <2>4 DEF FreeCountExact
<1>6. ShadowInv'
  <2>1. ASSUME NEW s \in Slots, Used(s)' PROVE index'[entries'[s]] = s
    <3>1. s # z /\ entries'[s] = entries[s] /\ entries[s] \in Ids /\ index[entries[s]] = s
      BY <1>1, <1>4, <2>1 DEF ShadowInv, Used
    <3>2. entries[s] # e
      BY <3>1
    <3> QED BY <1>4, <3>1, <3>2
  <2>2. ASSUME NEW x \in Ids, Known(x)'
        PROVE  entries'[index'[x]] = x /\ (x \in EntryIds <=> index'[x] \in Ordinary)
    <3>1. x # e /\ index'[x] = index[x] /\ Known(x)
      BY <1>4, <2>2 DEF Known
    <3>2. index[x] \in Slots /\ entries[index[x]] = x /\ (x \in EntryIds <=> index[x] \in Ordinary)
      BY <1>1, <3>1 DEF ShadowInv, Known
    <3>3. index[x] # z
      BY <1>3, <3>1, <3>2
    <3> QED BY <1>4, <3>1, <3>2, <3>3
  <2>3. \A d, c \in Default : c < d /\ Used(d)' => Used(c)'
    <3>1. \A d \in Default : d \in Slots /\ d # z
      BY <1>3, SlotFacts
    <3> QED BY <1>1, <1>4, <3>1 DEF ShadowInv, Used
  <2> QED BY <2>1, <2>2, <2>3 DEF ShadowInv
<1>7. \A i \in 1 .. L : order[i] \in Ids /\ Known(order[i]) /\ index[order[i]] \in Slots
                        /\ index[order[i]] \in Nat
  <2>1. \A i \in 1 .. L : order[i] \in Ids /\ Known(order[i])
    BY <1>1 DEF OrderInv
  <2> QED BY <1>1, <2>1, SlotFacts DEF Known
<1>8. \A i, j \in 1 .. L : i < j => index[order[i]] < index[order[j]]
  <2>1. \A s, g : g = s => Goal(s, g)
    BY <1>1 DEF Goal, Listed
  <2> QED BY <1>1, <1>7, <2>1 DEF OrderInv
<1>9. PICK k \in 1 .. L : order[k] = e /\ order' = DeleteAt(order, k)
  <2>1. e \in Elems(order)
    BY <1>1 DEF OrderInv, Elems, Known
  <2> QED BY <1>2, <2>1, IndexInProps DEF HwDel
<1>10. /\ order' \in Seq(Ids) /\ Len(order') = L - 1
       /\ \A i \in 1 .. L - 1 : order'[i] = IF i < k THEN order[i] ELSE order[i + 1]
  BY <1>1, <1>9, DeleteProps
<1>11. \A m \in 1 .. L : m # k => order[m] # e
  <2> SUFFICES ASSUME NEW m \in 1 .. L, m # k, order[m] = e PROVE FALSE
    OBVIOUS
  <2>1. m < k \/ k < m
    BY <1>1
  <2>2. index[order[m]] = index[order[k]]
    BY <1>9
  <2> QED BY <1>7, <1>8, <2>1, <2>2
<1>12. ASSUME NEW i \in 1 .. L - 1
       PROVE  \E m \in 1 .. L : /\ m = IF i < k THEN i ELSE i + 1
                                /\ order'[i] = order[m] /\ order[m] # e
                                /\ index'[order'[i]] = index[order[m]]
  <2> DEFINE m == IF i < k THEN i ELSE i + 1
  <2>1. m \in 1 .. L /\ m # k /\ order'[i] = order[m]
    BY <1>1, <1>10
  <2> HIDE DEF m
  <2>2. order[m] # e /\ order[m] \in Ids
    BY <1>7, <1>11, <2>1
  <2> QED BY <1>4, <2>1, <2>2 DEF m
<1>13. OrderInv'
  <2>1. \A i \in 1 .. Len(order') : index'[order'[i]] # Null
    BY <1>7, <1>10, <1>12 DEF Known
  <2>2. ASSUME NEW x \in Ids, Known(x)' PROVE \E i \in 1 .. Len(order') : order'[i] = x
    <3>1. x # e /\ Known(x)
      BY <1>4, <2>2 DEF Known
    <3>2. PICK m \in 1 .. L : order[m] = x
      BY <1>1, <3>1 DEF OrderInv
    <3>3. m # k
      BY <1>9, <3>1, <3>2
    <3>4. CASE m < k
      <4>1. m \in 1 .. L - 1
        BY <1>1, <3>4
      <4> QED BY <1>10, <3>2, <3>4, <4>1
    <3>5. CASE m > k
      <4>1. m - 1 \in 1 .. L - 1 /\ ~(m - 1 < k) /\ (m - 1) + 1 = m
        BY <1>1, <3>5
      <4> QED BY <1>10, <3>2, <4>1
    <3> QED BY <1>1, <3>3, <3>4, <3>5
  <2>3. ASSUME NEW i \in 1 .. Len(order'), NEW j \in 1 .. Len(order'), i < j,
               NEW g \in Slots, NEW h \in Slots,
               Goal(index[order[i]], g)', Goal(index[order[j]], h)'
        PROVE  g < h
    <3>1. Len(target_a') = 0
      BY <1>1, <1>2
    <3>2. g = index'[order'[i]] /\ h = index'[order'[j]]
      BY <2>3, <3>1 DEF Goal
    <3>3. PICK m \in 1 .. L : m = (IF i < k THEN i ELSE i + 1) /\ index'[order'[i]] = index[order[m]]
      BY <1>10, <1>12
    <3>4. PICK n \in 1 .. L : n = (IF j < k THEN j ELSE j + 1) /\ index'[order'[j]] = index[order[n]]
      BY <1>10, <1>12
    <3>5. m < n
      BY <1>1, <2>3, <3>3, <3>4
    <3> QED BY <1>8, <3>2, <3>3, <3>4, <3>5
  <2> QED BY <2>1, <2>2, <2>3 DEF OrderInv, Known
<1>14. TypeOK'
  <2>1. after_cnt' \in [0 .. 1 -> Nat]
    BY <1>2 DEF IInv, TypeOK
  <2> QED BY <1>2, <1>4, <1>5, <1>10, <2>1 DEF IInv, TypeOK
<1>15. ChipInv' /\ CallInv' /\ MoveInv' /\ ShiftInv' /\ WriteInv'
  BY <1>1, <1>2, <1>4 DEF ChipInv, CallInv, MoveInv, ShiftInv, WriteInv
<1>16. ArrayInv'
  <2>1. Len(target_a') = 0 /\ mv' = Null /\ idx' \in Nat \ {0}
    BY <1>1, <1>2 DEF IInv, ArrayInv
  <2> QED BY <2>1 DEF ArrayInv
<1> QED BY <1>5, <1>6, <1>13, <1>14, <1>15, <1>16 DEF IInv

----------------------------------------------------------------------------
(* Every step keeps the inductive invariant.                               *)
LEMMA NextInv == IInv /\ [Next]_vars => IInv'
<1> SUFFICES ASSUME IInv, [Next]_vars PROVE IInv'
  OBVIOUS
<1>1. CASE Call
  BY <1>1, InsertBeginInv, EntryDeleteInv DEF Call
<1>2. CASE Step
  BY <1>2, MoveEndInv, ShiftAllMoveInv, ShiftAllEndInv, PlaceTailInv, PlaceFirstInv,
     PlaceHeadInv, PlaceAfterInv, ShiftMoveInv, ShiftEndInv, WriteStepInv,
     ReorderStayInv, ReorderMoveInv, ReorderSkipInv, ReorderPassInv DEF Step
<1>3. CASE UNCHANGED vars
  <2>1. UNCHANGED <<block, mv>> /\ UNCHANGED <<index, order, target_a>>
        /\ UNCHANGED <<entries, target_a, idx, mv>> /\ pc' = pc
    BY <1>3 DEF vars, block, loops
  <2>2. FreeCountExact' /\ ShadowInv' /\ ChipInv' /\ OrderInv' /\ ArrayInv'
    BY <2>1, BlockKept, OrderKept, ArrayKept DEF IInv
  <2>3. TypeOK'
    BY <1>3 DEF vars, block, loops, IInv, TypeOK
  <2>4. CallInv' /\ MoveInv' /\ WriteInv'
    BY <1>3 DEF vars, block, loops, IInv, CallInv, MoveInv, WriteInv, UsedSlots, Used, Known, Place
  <2>5. ShiftInv'
    BY <1>3 DEF vars, block, loops, IInv, ShiftInv, Used
  <2> QED BY <2>2, <2>3, <2>4, <2>5 DEF IInv
<1> QED BY <1>1, <1>2, <1>3 DEF Next

(* The state of the block keeps its type: no slot beyond its end is read,  *)
(* free_count never falls below zero.                                      *)
THEOREM TypeCorrect == Spec => []TypeOK
<1>1. IInv => TypeOK
  BY DEF IInv
<1> QED BY <1>1, InitInv, NextInv, PTL DEF Spec

(* Whatever is shifted or spread, every entry the driver knows is valid in *)
(* the chip at its block_index, at every instant: no move overwrites an    *)
(* entry, not even one of the reorder.                                     *)
THEOREM NoEntryIsLost == Spec => []NoEntryLost
<1>1. IInv => NoEntryLost
  <2> SUFFICES ASSUME IInv, NEW e \in Ids, index[e] # Null
               PROVE  hw[index[e]] = e /\ entries[index[e]] = e
    BY DEF NoEntryLost
  <2>1. entries[index[e]] = e /\ index[e] \in Slots /\ entries \in [Slots -> Ids \cup {Null}]
    BY DEF IInv, ShadowInv, Known, TypeOK
  <2>2. CASE mv = Null
    BY <2>1, <2>2 DEF IInv, ChipInv
  <2>3. CASE mv # Null
    <3>1. ~Used(mv.to) /\ hw = [entries EXCEPT ![mv.to] = entries[mv.from]]
      BY <2>3 DEF IInv, ChipInv
    <3>2. index[e] # mv.to
      BY <2>1, <3>1, IdFacts DEF Used
    <3> QED BY <2>1, <3>1, <3>2
  <2> QED BY <2>2, <2>3
<1> QED BY <1>1, InitInv, NextInv, PTL DEF Spec

(* free_count is exact, so the tests that rely on it are.                  *)
THEOREM FreeCountIsExact == Spec => []FreeCountExact
<1>1. IInv => FreeCountExact
  BY DEF IInv
<1> QED BY <1>1, InitInv, NextInv, PTL DEF Spec

(* No call leaves a second copy of an entry in the chip.                   *)
THEOREM ChipFollowsShadow == Spec => []ChipIsShadow
<1>1. IInv => ChipIsShadow
  BY DEF IInv, CallInv, ChipInv, ChipIsShadow
<1> QED BY <1>1, InitInv, NextInv, PTL DEF Spec

(* The invariant orders the table of the chip.                             *)
LEMMA InvInOrder == IInv => OrderOutsideReorder
<1> SUFFICES ASSUME IInv, pc # "reorder", NEW i \in 1 .. Len(order), NEW j \in 1 .. Len(order),
                    i < j, NEW t \in Slots, hw[t] = order[j]
             PROVE  \E s \in Slots : s < t /\ hw[s] = order[i]
  BY DEF OrderOutsideReorder, OrderAlways, Before
<1> DEFINE a == order[i]
           b == order[j]
<1>1. /\ a \in Ids /\ b \in Ids /\ Known(a) /\ Known(b)
      /\ index[a] \in Slots /\ index[b] \in Slots /\ index[a] \in Nat /\ index[b] \in Nat
      /\ entries[index[a]] = a /\ entries[index[b]] = b /\ entries \in [Slots -> Ids \cup {Null}]
      /\ t \in Nat
  <2>1. order \in Seq(Ids) /\ a \in Ids /\ b \in Ids /\ Known(a) /\ Known(b)
    BY DEF IInv, OrderInv, TypeOK
  <2> HIDE DEF a, b
  <2> QED BY <2>1, SlotFacts DEF IInv, ShadowInv, Known, TypeOK
<1>2. index[a] < index[b]
  <2>1. target_a = <<>>
    BY DEF IInv, CallInv
  <2>2. \A s, g : g = s => Goal(s, g)
    BY <2>1 DEF Goal, Listed
  <2> QED BY <1>1, <2>2 DEF IInv, OrderInv
<1> HIDE DEF a, b
<1>3. b # Null /\ hw[t] = b
  BY <1>1, IdFacts DEF b
<1>4. CASE mv = Null
  <2>1. hw = entries /\ index[entries[t]] = t
    BY <1>3, <1>4 DEF IInv, ChipInv, ShadowInv, Used
  <2>2. t = index[b]
    BY <1>3, <2>1
  <2> QED BY <1>1, <1>2, <2>1, <2>2 DEF a
<1>5. CASE mv # Null
  <2>1. /\ mv.from \in Ordinary /\ mv.to \in Ordinary /\ Used(mv.from) /\ ~Used(mv.to)
        /\ hw = [entries EXCEPT ![mv.to] = entries[mv.from]]
        /\ \A s \in UsedSlots \ {mv.from} : s < mv.from <=> s < mv.to
        /\ mv.from \in Slots /\ mv.to \in Slots /\ mv.from \in Nat /\ mv.to \in Nat
    BY <1>5, SlotFacts DEF IInv, ChipInv, MoveInv
  <2>2. hw[index[a]] = a
    BY <1>1, <2>1, IdFacts DEF Used
  <2>3. index[a] < t
    <3>1. CASE t # mv.to
      <4>1. entries[t] = b
        BY <1>1, <1>3, <2>1, <3>1
      <4>2. t = index[b]
        BY <1>3, <4>1 DEF IInv, ShadowInv, Used
      <4> QED BY <1>2, <4>2
    <3>2. CASE t = mv.to
      <4>1. entries[mv.from] = b
        BY <1>1, <1>3, <2>1, <3>2
      <4>2. mv.from = index[b]
        BY <2>1, <4>1 DEF IInv, ShadowInv, Used
      <4>3. index[a] \in UsedSlots \ {mv.from}
        <5>1. index[a] < EntryCount /\ index[a] # mv.from
          BY <1>1, <1>2, <2>1, <4>2, SlotFacts
        <5> QED BY <1>1, <5>1, SlotFacts, IdFacts DEF UsedSlots, Used
      <4> QED BY <1>2, <2>1, <3>2, <4>2, <4>3
    <3> QED BY <3>1, <3>2
  <2> QED BY <1>1, <2>2, <2>3 DEF a
<1> QED BY <1>4, <1>5

(* Whenever the entries are not being spread, packets meet them in the     *)
(* order the callers asked for, in the midst of a shift too; and once a    *)
(* reorder is over they do so again.                                       *)
THEOREM InOrderOutsideReorder == Spec => []OrderOutsideReorder
  BY InvInOrder, InitInv, NextInv, PTL DEF Spec
----------------------------------------------------------------------------
(* The i-th smallest number of S.                                          *)
AtRank(S, i) == CHOOSE s \in S : Cardinality({u \in S : u <= s}) = i

(* Counting up to an element of a sorted enumeration of S gives its place. *)
LEMMA RankOf ==
    ASSUME NEW n \in Nat, NEW S \in SUBSET Nat, NEW p \in [1 .. n -> S],
           \A i, j \in 1 .. n : i < j => p[i] < p[j],
           \A s \in S : \E i \in 1 .. n : p[i] = s
    PROVE  /\ Cardinality(S) = n
           /\ \A i \in 1 .. n : AtRank(S, i) = p[i]
<1>1. \A i, j \in 1 .. n : p[i] \in Nat /\ p[j] \in Nat /\ (p[i] = p[j] => i = j)
      /\ (p[i] <= p[j] => i <= j)
  <2> SUFFICES ASSUME NEW i \in 1 .. n, NEW j \in 1 .. n
               PROVE  p[i] \in Nat /\ p[j] \in Nat /\ (p[i] = p[j] => i = j) /\ (p[i] <= p[j] => i <= j)
    OBVIOUS
  <2>1. i < j \/ i = j \/ j < i
    OBVIOUS
  <2>2. p[i] \in Nat /\ p[j] \in Nat
    OBVIOUS
  <2>3. (i < j => p[i] < p[j]) /\ (j < i => p[j] < p[i])
    OBVIOUS
  <2> QED BY <2>1, <2>2, <2>3
<1>2. Cardinality(S) = n
  <2>1. p \in Bijection(1 .. n, S)
    BY <1>1 DEF Bijection, Injection, Surjection, IsInjective
  <2> QED BY <2>1, FS_CountingElements DEF ExistsBijection
<1>3. ASSUME NEW i \in 1 .. n PROVE Cardinality({u \in S : u <= p[i]}) = i
  <2> DEFINE T == {u \in S : u <= p[i]}
             q == [m \in 1 .. i |-> p[m]]
  <2>1. \A m \in 1 .. i : m \in 1 .. n /\ p[m] \in T
    <3> SUFFICES ASSUME NEW m \in 1 .. i PROVE m \in 1 .. n /\ p[m] \in S /\ p[m] <= p[i]
      OBVIOUS
    <3>1. m \in 1 .. n /\ (m < i \/ m = i)
      OBVIOUS
    <3> QED BY <1>1, <3>1
  <2>2. \A u \in T : \E m \in 1 .. i : p[m] = u
    <3> SUFFICES ASSUME NEW u \in S, u <= p[i] PROVE \E m \in 1 .. i : p[m] = u
      OBVIOUS
    <3>1. PICK m \in 1 .. n : p[m] = u
      OBVIOUS
    <3>2. m \in 1 .. i
      BY <1>1, <3>1
    <3> QED BY <3>1, <3>2
  <2> HIDE DEF T
  <2>3. q \in [1 .. i -> T] /\ \A m \in 1 .. i : q[m] = p[m]
    BY <2>1
  <2> HIDE DEF q
  <2>4. \A m, k \in 1 .. i : q[m] = q[k] => m = k
    BY <1>1, <2>1, <2>3
  <2>5. q \in Bijection(1 .. i, T)
    BY <2>2, <2>3, <2>4 DEF Bijection, Injection, Surjection, IsInjective
  <2>6. i \in Nat /\ Cardinality(T) = i
    BY <2>5, FS_CountingElements DEF ExistsBijection
  <2> QED BY <2>6 DEF T
<1>4. ASSUME NEW i \in 1 .. n, NEW s \in S, Cardinality({u \in S : u <= s}) = i PROVE s = p[i]
  <2>1. PICK j \in 1 .. n : p[j] = s
    OBVIOUS
  <2>2. j = i
    BY <1>3, <1>4, <2>1
  <2> QED BY <2>1, <2>2
<1>5. ASSUME NEW i \in 1 .. n
      PROVE  AtRank(S, i) = p[i]
  <2> DEFINE R(s) == Cardinality({u \in S : u <= s}) = i
  <2>1. p[i] \in S /\ R(p[i])
    BY <1>3
  <2>2. \A s \in S : R(s) => s = p[i]
    BY <1>4
  <2> HIDE DEF R
  <2>3. (CHOOSE s \in S : R(s)) = p[i]
    BY <2>1, <2>2
  <2> QED BY <2>3 DEF R, AtRank
<1> QED BY <1>2, <1>5

(* The slot of the first copy of the n-th entry.                           *)
FirstCopy(n) ==
    IF mv # Null /\ index[order[n]] = mv.from /\ mv.to < mv.from
    THEN mv.to ELSE index[order[n]]

LEMMA FirstCopyProps ==
    ASSUME IInv, NEW n \in 1 .. Len(order)
    PROVE  /\ FirstCopy(n) \in Slots /\ hw[FirstCopy(n)] = order[n] /\ order[n] \in Ids
           /\ \A t \in Slots : hw[t] = order[n] => FirstCopy(n) <= t
<1> DEFINE a == order[n]
<1>1. /\ a \in Ids /\ Known(a) /\ index[a] \in Slots /\ entries[index[a]] = a
      /\ entries \in [Slots -> Ids \cup {Null}] /\ a # Null
  <2>1. a \in Ids /\ Known(a)
    BY DEF IInv, OrderInv, TypeOK
  <2> HIDE DEF a
  <2> QED BY <2>1, IdFacts DEF IInv, ShadowInv, Known, TypeOK
<1> HIDE DEF a
<1>2. \A t \in Slots : entries[t] = a => t = index[a]
  BY <1>1 DEF IInv, ShadowInv, Used
<1>3. CASE mv = Null
  <2>1. hw = entries /\ FirstCopy(n) = index[a]
    BY <1>3 DEF IInv, ChipInv, FirstCopy, a
  <2> QED BY <1>1, <1>2, <2>1, SlotFacts DEF a
<1>4. CASE mv # Null
  <2>1. /\ mv.from \in Slots /\ mv.to \in Slots /\ mv.from \in Nat /\ mv.to \in Nat
        /\ Used(mv.from) /\ ~Used(mv.to)
        /\ hw = [entries EXCEPT ![mv.to] = entries[mv.from]]
    BY <1>4, SlotFacts DEF IInv, ChipInv
  <2>2. FirstCopy(n) = IF index[a] = mv.from /\ mv.to < mv.from THEN mv.to ELSE index[a]
    BY <1>4 DEF FirstCopy, a
  <2>3. index[a] # mv.to /\ hw[mv.to] = entries[mv.from]
        /\ \A t \in Slots : t # mv.to => hw[t] = entries[t]
    BY <1>1, <2>1 DEF Used
  <2>4. FirstCopy(n) \in Slots /\ hw[FirstCopy(n)] = a
    BY <1>1, <2>1, <2>2, <2>3
  <2>5. ASSUME NEW t \in Slots, hw[t] = a PROVE FirstCopy(n) <= t
    <3>1. t \in Nat /\ index[a] \in Nat
      BY <1>1, SlotFacts
    <3>2. CASE t = mv.to
      <4>1. index[a] = mv.from
        BY <1>2, <2>1, <2>3, <2>5, <3>2
      <4> QED BY <2>1, <2>2, <3>1, <3>2, <4>1
    <3>3. CASE t # mv.to
      <4>1. t = index[a]
        BY <1>2, <2>3, <2>5, <3>3
      <4> QED BY <2>1, <2>2, <3>1, <4>1
    <3> QED BY <3>2, <3>3
  <2> QED BY <1>1, <2>4, <2>5 DEF a
<1> QED BY <1>3, <1>4

(* Outside the reorder the table of the chip is the list of the callers.   *)
LEMMA ChipOrderIsOrder == IInv /\ pc # "reorder" => ChipOrder = order
<1> SUFFICES ASSUME IInv, pc # "reorder" PROVE ChipOrder = order
  OBVIOUS
<1> DEFINE n == Len(order)
           p == [i \in 1 .. n |-> FirstCopy(i)]
           S == FirstCopies
<1>0. order \in Seq(Ids) /\ n \in Nat
  <2>1. order \in Seq(Ids)
    BY DEF IInv, TypeOK
  <2> QED BY <2>1
<1>1. S \in SUBSET Nat
  <2>1. S \subseteq Slots
    BY DEF FirstCopies
  <2> QED BY <2>1, SlotFacts
<1> HIDE DEF S
<1>9. \A i \in 1 .. n : FirstCopy(i) \in Slots /\ FirstCopy(i) \in Nat
  <2>1. \A i \in 1 .. n : FirstCopy(i) \in Slots
    BY FirstCopyProps
  <2> QED BY <2>1, SlotFacts
<1>2. ASSUME NEW i \in 1 .. n PROVE FirstCopy(i) \in S
  <2>1. /\ FirstCopy(i) \in Slots /\ hw[FirstCopy(i)] = order[i] /\ order[i] # Null
        /\ \A t \in Slots : hw[t] = order[i] => FirstCopy(i) <= t
    BY FirstCopyProps, IdFacts
  <2> DEFINE f == FirstCopy(i)
  <2>2. f \in Nat /\ f \in Slots
    BY <1>9
  <2> HIDE DEF f
  <2>3. \A t \in 0 .. f - 1 : t \in Slots /\ ~(f <= t)
    <3>1. f <= EntryCount + DftMax - 1 /\ EntryCount + DftMax - 1 \in Int
      BY <2>2, SlotFacts DEF Slots
    <3> QED BY <2>2, <3>1 DEF Slots
  <2>4. hw[f] # Null /\ \A t \in 0 .. f - 1 : hw[t] # hw[f]
    BY <2>1, <2>3 DEF f
  <2> QED BY <2>2, <2>4 DEF FirstCopies, S, f
<1>3. ASSUME NEW i \in 1 .. n, NEW j \in 1 .. n, i < j PROVE FirstCopy(i) < FirstCopy(j)
  <2>1. FirstCopy(j) \in Slots /\ hw[FirstCopy(j)] = order[j]
    BY FirstCopyProps
  <2>2. PICK s \in Slots : s < FirstCopy(j) /\ hw[s] = order[i]
    <3>1. Before(hw, order[i], order[j])
      BY <1>3, InvInOrder DEF OrderOutsideReorder, OrderAlways
    <3> QED BY <2>1, <3>1 DEF Before
  <2>3. FirstCopy(i) <= s
    BY <2>2, FirstCopyProps
  <2>4. s \in Nat /\ FirstCopy(i) \in Nat /\ FirstCopy(j) \in Nat
    BY <1>9, SlotFacts
  <2> QED BY <2>2, <2>3, <2>4
<1>4. ASSUME NEW s \in S PROVE \E i \in 1 .. n : FirstCopy(i) = s
  <2>1. s \in Slots /\ hw[s] # Null /\ \A t \in 0 .. s - 1 : hw[t] # hw[s]
    BY DEF FirstCopies, S
  <2>2. hw[s] \in Ids /\ Known(hw[s])
    <3>1. entries \in [Slots -> Ids \cup {Null}] /\ hw \in [Slots -> Ids \cup {Null}]
      BY DEF IInv, TypeOK
    <3>2. \A t \in Slots : entries[t] # Null => Known(entries[t])
      BY <3>1, SlotFacts DEF IInv, ShadowInv, Used, Known
    <3>3. \E t \in Slots : hw[s] = entries[t]
      BY <2>1, <3>1, SlotFacts DEF IInv, ChipInv
    <3> QED BY <2>1, <3>1, <3>2, <3>3
  <2>3. PICK i \in 1 .. n : order[i] = hw[s]
    BY <2>2 DEF IInv, OrderInv
  <2>4. FirstCopy(i) \in Slots /\ hw[FirstCopy(i)] = hw[s] /\ FirstCopy(i) <= s
    BY <2>1, <2>3, FirstCopyProps
  <2>5. s \in Nat /\ FirstCopy(i) \in Nat
    BY <1>9, <2>1, SlotFacts
  <2>6. FirstCopy(i) \notin 0 .. s - 1
    BY <2>1, <2>4
  <2>7. FirstCopy(i) = s
    BY <2>4, <2>5, <2>6
  <2> QED BY <2>7
<1>5. p \in [1 .. n -> S] /\ \A i \in 1 .. n : p[i] = FirstCopy(i)
  BY <1>2
<1> HIDE DEF p
<1>6. /\ Cardinality(S) = n
      /\ \A i \in 1 .. n : AtRank(S, i) = p[i]
  <2>1. \A i, j \in 1 .. n : i < j => p[i] < p[j]
    BY <1>3, <1>5
  <2>2. \A s \in S : \E i \in 1 .. n : p[i] = s
    BY <1>4, <1>5
  <2> HIDE DEF n
  <2> QED BY <1>0, <1>1, <1>5, <2>1, <2>2, RankOf
<1>7. ChipOrder = [i \in 1 .. n |-> hw[AtRank(S, i)]]
  BY <1>6 DEF ChipOrder, AtRank, S
<1>8. ChipOrder = [i \in 1 .. n |-> order[i]]
  <2>1. \A i \in 1 .. n : hw[p[i]] = order[i]
    BY <1>5, FirstCopyProps
  <2> QED BY <1>6, <1>7, <2>1
<1> QED BY <1>0, <1>8

(* The abstract block holds the list the callers asked for.                *)
LEMMA ListIsOrder == IInv => List = order
  BY ChipOrderIsOrder DEF List

(* And it does so behind every step.                                       *)
LEMMA ListIsOrderNext == IInv' => List' = order'
<1>1. IInv' => (List = order)'
  BY ListIsOrder, PTL
<1> QED BY <1>1

(* What a request says, and when there is none.                            *)
LEMMA ReqProps ==
    ASSUME TypeOK, CallInv
    PROVE  /\ pc \in {"idle", "reorder"} => Req = Null
           /\ pc \notin {"idle", "reorder"} =>
                 Req # Null /\ Req = [id |-> new, after |-> after]
<1>1. CASE pc \in {"idle", "reorder"}
  BY <1>1 DEF CallInv, Req
<1>2. CASE pc \notin {"idle", "reorder"}
  <2>1. new \in Ids /\ Place(new, after) /\ new # Null
    BY <1>2, IdFacts DEF CallInv
  <2>2. after \in Ids \cup {ID_HEAD, ID_TAIL}
    BY <2>1, IdFacts DEF Place
  <2>3. [id |-> new, after |-> after] \in Requests
    BY <2>1, <2>2 DEF Requests
  <2>4. [id |-> new, after |-> after] # Null
    BY <2>3, NullAssumption
  <2> QED BY <1>2, <2>1, <2>4 DEF Req
<1> QED BY <1>1, <1>2

(* The entries the driver knows are the elements of the list.              *)
LEMMA KnownInList ==
    ASSUME IInv, NEW e \in Ids PROVE Known(e) <=> e \in Block!Elems(List)
<1>1. List = order /\ OrderInv /\ order \in Seq(Ids)
  BY ListIsOrder DEF IInv, TypeOK
<1>2. Block!Elems(List) = {order[n] : n \in 1 .. Len(order)}
  BY <1>1 DEF Block!Elems
<1> QED BY <1>1, <1>2 DEF OrderInv

(* Inserting an entry in the block asks the abstract block for it.         *)
LEMMA InsertBeginIsInsert ==
    ASSUME IInv, IInv', NEW e \in Ids, NEW a \in EntryIds \cup {ID_HEAD, ID_TAIL},
           InsertBegin(e, a)
    PROVE  Block!Insert(e, a)
<1>1. List = order /\ List' = order'
  BY ListIsOrder, ListIsOrderNext
<1>2. pc = "idle" /\ new' = e /\ after' = a /\ order' = order /\ ~Known(e) /\ Place(e, a)
      /\ pc' \notin {"idle", "reorder"}
  BY DEF InsertBegin, Known, MagicPc
<1>3. Req = Null
  BY <1>2, ReqProps DEF IInv
<1>4. Req' = [id |-> e, after |-> a]
  <2>1. new' # Null
    BY <1>2, IdFacts
  <2> QED BY <1>2, <2>1 DEF Req
<1>5. e \notin Block!Elems(List)
  BY <1>2, KnownInList
<1>6. IF e \in DftIds THEN a = ID_TAIL
      ELSE a = ID_HEAD \/ a \in Block!Elems(List) \cap EntryIds
  BY <1>2, KnownInList, IdFacts DEF Place, Known
<1> QED BY <1>1, <1>2, <1>3, <1>4, <1>5, <1>6 DEF Block!Insert, Block!Free

(* Writing the new entry is the instant at which it is in its place.       *)
LEMMA WriteIsTake ==
    ASSUME IInv, IInv', Write
    PROVE  Block!Take
<1>1. List = order /\ List' = order'
  BY ListIsOrder, ListIsOrderNext
<1>2. pc = "write" /\ new' = Null /\ order' = InsertBehind(order, WantedAt, new)
  BY DEF Write
<1>3. Req # Null /\ Req.id = new /\ Req.after = after /\ Req' = Null
  BY <1>2, ReqProps DEF IInv, Req
<1>4. order \in Seq(Ids) /\ new \in Ids /\ Place(new, after)
  BY <1>2 DEF IInv, TypeOK, CallInv
<1>5. order' = IF after = ID_TAIL THEN Append(order, new)
               ELSE Block!HwAdd(order, after, new)
  <2>1. CASE after = ID_TAIL
    <3>1. WantedAt = Len(order)
      BY <2>1, IdFacts DEF WantedAt
    <3>2. InsertBehind(order, Len(order), new) = Append(order, new)
      <4> DEFINE n == Len(order)
                 s == InsertBehind(order, n, new)
                 r == Append(order, new)
      <4>1. n \in Nat /\ n \in 0 .. n /\ n = Len(order)
        BY <1>4
      <4>3. /\ r \in Seq(Ids) /\ Len(r) = n + 1
            /\ \A i \in 1 .. n + 1 : r[i] = IF i <= n THEN order[i] ELSE new
        BY <1>4
      <4> HIDE DEF n
      <4>2. /\ s \in Seq(Ids) /\ Len(s) = n + 1
            /\ \A i \in 1 .. n + 1 :
                  s[i] = IF i <= n THEN order[i] ELSE IF i = n + 1 THEN new ELSE order[i - 1]
        <5>1. /\ s \in Seq(Ids) /\ Len(s) = Len(order) + 1
              /\ \A i \in 1 .. Len(order) + 1 :
                    s[i] = IF i <= n THEN order[i] ELSE IF i = n + 1 THEN new ELSE order[i - 1]
          <6>1. n \in 0 .. Len(order)
            BY <4>1
          <6> QED BY <1>4, <6>1, InsertProps DEF Inserted
        <5> HIDE DEF s
        <5> QED BY <4>1, <5>1
      <4> HIDE DEF s, r
      <4>4. \A i \in 1 .. n + 1 : s[i] = r[i]
        BY <4>1, <4>2, <4>3
      <4>5. s = r
        BY <4>1, <4>2, <4>3, <4>4
      <4> QED BY <4>5 DEF n, s, r
    <3> QED BY <1>2, <2>1, <3>1, <3>2
  <2>2. CASE after = ID_HEAD
    BY <1>2, <2>2, IdFacts
       DEF WantedAt, InsertBehind, Block!HwAdd, Block!HwPlace, Block!InsertBehind
  <2>3. CASE after \in EntryIds
    BY <1>2, <2>3, IdFacts
       DEF WantedAt, InsertBehind, IndexIn, Block!HwAdd, Block!HwPlace,
           Block!InsertBehind, Block!IndexIn
  <2> QED BY <1>4, <2>1, <2>2, <2>3 DEF Place
<1> QED BY <1>1, <1>3, <1>5 DEF Block!Take

(* Deleting an entry takes it off the list.                                *)
LEMMA EntryDeleteIsDelete ==
    ASSUME IInv, IInv', NEW e \in EntryIds, EntryDelete(e)
    PROVE  Block!Delete(e)
<1>1. List = order /\ List' = order'
  BY ListIsOrder, ListIsOrderNext
<1>2. pc = "idle" /\ Known(e) /\ order' = HwDel(order, e) /\ UNCHANGED <<new, after>>
  BY DEF EntryDelete, Known
<1>3. Req = Null /\ Req' = Req
  <2>1. Req = Null
    BY <1>2, ReqProps DEF IInv
  <2> QED BY <1>2, <2>1 DEF Req
<1>4. e \in Block!Elems(List)
  BY <1>2, KnownInList, IdFacts
<1>5. HwDel(order, e) = Block!HwDel(order, e)
  BY DEF HwDel, Elems, DeleteAt, IndexIn, Block!HwDel, Block!Elems, Block!DeleteAt,
         Block!IndexIn
<1> QED BY <1>1, <1>2, <1>3, <1>4, <1>5 DEF Block!Delete

(* Every other step of the driver is none of the abstract block.           *)
LEMMA OtherStepsStutter ==
    ASSUME IInv, IInv', Step, ~Write
    PROVE  UNCHANGED <<List, Req>>
<1>1. List = order /\ List' = order'
  BY ListIsOrder, ListIsOrderNext
<1>2. UNCHANGED <<new, after, order>>
  BY DEF Step, MoveEnd, MoveWrite, Goto, PlaceAt, ShiftTo, ShiftAllDownMove, ShiftAllDownEnd,
         ShiftAllUpMove, ShiftAllUpEnd, PlaceTail, PlaceFirst, PlaceHead, PlaceAfter,
         ShiftDownMove, ShiftDownEnd, ShiftUpMove, ShiftUpEnd, ReorderStay, ReorderMove,
         ReorderSkip, ReorderPass
<1> QED BY <1>1, <1>2 DEF Req

(* The block implements the ordered list its callers see: the shifts, the  *)
(* pushes to one end and the moves of single slots are steps of no call,   *)
(* and packets find a new entry in its place by the one write of it.       *)
THEOREM BlockIsAList == Spec => BlockIsList
<1>1. Init => Block!Init
  <2> SUFFICES ASSUME Init PROVE List = <<>> /\ Req = Null
    BY DEF Block!Init
  <2>1. IInv
    BY InitInv
  <2> QED BY <2>1, ListIsOrder DEF Init, Req
<1>2. IInv /\ IInv' /\ [Next]_vars => [Block!Next]_<<List, Req>>
  <2> SUFFICES ASSUME IInv, IInv', [Next]_vars PROVE [Block!Next]_<<List, Req>>
    OBVIOUS
  <2>1. ASSUME NEW e \in Ids, NEW a \in EntryIds \cup {ID_HEAD, ID_TAIL}, InsertBegin(e, a)
        PROVE  Block!Next
    BY <2>1, InsertBeginIsInsert DEF Block!Next, Ids
  <2>2. ASSUME NEW e \in EntryIds, EntryDelete(e) PROVE Block!Next
    BY <2>2, EntryDeleteIsDelete DEF Block!Next
  <2>3. ASSUME Write PROVE Block!Next
    BY <2>3, WriteIsTake DEF Block!Next
  <2>4. ASSUME Step, ~Write PROVE UNCHANGED <<List, Req>>
    BY <2>4, OtherStepsStutter
  <2>5. ASSUME UNCHANGED vars PROVE UNCHANGED <<List, Req>>
    <3>1. UNCHANGED <<new, after, order>>
      BY <2>5 DEF vars
    <3>2. List = order /\ List' = order'
      BY ListIsOrder, ListIsOrderNext
    <3> QED BY <3>1, <3>2 DEF Req
  <2> QED BY <2>1, <2>2, <2>3, <2>4, <2>5 DEF Next, Call
<1>3. Spec => []IInv
  BY InitInv, NextInv, PTL DEF Spec
<1> QED BY <1>1, <1>2, <1>3, PTL DEF Spec, BlockIsList, Block!Spec

=============================================================================
