--------------------------- MODULE FlowTableProofs ---------------------------
(***************************************************************************)
(* Proofs about FlowTable, for every set of rules, priorities and actions  *)
(* and every size of the pools and tables.                                 *)
(*                                                                         *)
(* That the block stays in step with the priority database (DbIsHw) is not *)
(* inductive by itself: a new entry must be new to both, which is so       *)
(* because the pool does not hand out an id twice (PoolsHold), and the     *)
(* entry that a deletion takes out must be the one the database has under  *)
(* the priority of the rule (Placed) and no other rule's (Apart).  A       *)
(* modify writes only the action of entries that are there, so what the    *)
(* chip does needs what it held before (Programmed, Counting).             *)
(***************************************************************************)
EXTENDS FlowTable, PriorityDbProofs, FiniteSetTheorems

Live(r) == rule[r] # Null

(* A block holds only ids taken from its pool.                             *)
PoolsHold ==
    \A b \in Blocks : used[b] \subseteq PoolIds[b] /\ Elems(hw[b]) \subseteq used[b]

(* A rule has its entries where the database lists its priority.           *)
Placed ==
    \A r \in Rules : Live(r) => \A b \in Blocks :
        IF b \in BlocksOf(rule[r].kind)
        THEN rule[r].entry[b] \in Elems(db[b].ids[rule[r].prio])
        ELSE rule[r].entry[b] = Null

(* No two rules share an entry or a statistics pointer, and no statistics  *)
(* pointer of a rule is free.                                              *)
Apart ==
    \A r, q \in Rules : Live(r) /\ Live(q) /\ r # q =>
        /\ \A b \in Blocks : rule[r].entry[b] = rule[q].entry[b] => rule[r].entry[b] = Null
        /\ rule[r].stats_ptr # rule[q].stats_ptr
Counting == \A r \in Rules : Live(r) => rule[r].stats_ptr \in stats

(* The entries of a rule do what it says and count where it counts.        *)
Programmed ==
    \A r \in Rules : Live(r) => \A b \in BlocksOf(rule[r].kind) :
        chip[rule[r].entry[b]] = [act |-> rule[r].act, stats_ptr |-> rule[r].stats_ptr]

IInv == TypeOK /\ DbIsHw /\ PoolsHold /\ Placed /\ Apart /\ Counting /\ Programmed

----------------------------------------------------------------------------
(* The allocators.                                                         *)

(* A search for the lowest free number of a pool finds one.                *)
LEMMA FirstOfProps ==
    ASSUME NEW S, S \subseteq Nat, S # {}
    PROVE  FirstOf(S) \in S
<1>1. \E x \in S : LowestOf(x, S)
  BY LeastExists DEF LowestOf
<1> QED BY <1>1 DEF FirstOf

(* The entry ids of a new flow: free ones where it needs any.              *)
LEMMA NewEntryProps ==
    ASSUME TypeOK, NEW k \in Kinds, NEW b \in BlocksOf(k), FreeIds(b) # {}
    PROVE  /\ b \in Blocks
           /\ NewEntry(k)[b] \in PoolIds[b]
           /\ NewEntry(k)[b] \in Ids
           /\ NewEntry(k)[b] \notin used[b]
<1>1. b \in Blocks
  BY DEF BlocksOf
<1>2. FreeIds(b) \subseteq Ids
  BY <1>1, PoolAssumption DEF FreeIds
<1>3. FirstOf(FreeIds(b)) \in FreeIds(b)
  BY <1>2, IdsAssumption, FirstOfProps
<1> QED BY <1>1, <1>2, <1>3 DEF NewEntry, FreeIds

(* The same for all blocks: entry_id and extra_entry_id of a new flow.     *)
LEMMA NewEntryType ==
    ASSUME TypeOK, NEW k \in Kinds, IdsLeft(k)
    PROVE  /\ NewEntry(k) \in [Blocks -> Ids \cup {Null}]
           /\ \A b \in Blocks \ BlocksOf(k) : NewEntry(k)[b] = Null
<1>1. \A b \in BlocksOf(k) : NewEntry(k)[b] \in Ids
  BY NewEntryProps DEF IdsLeft
<1> QED BY <1>1 DEF NewEntry

(* A null entry is no id.                                                  *)
LEMMA NullNoId == Null \notin Ids /\ Null \notin StatsPtrs
BY SizeAssumption, IdsAssumption

(* The ether type table keeps its type.                                    *)
LEMMA EtherTypeOK ==
    ASSUME NEW m \in [Slots -> EtherRecords], NEW et \in EtherTypes \cup {Null}
    PROVE  /\ SlotsOf(m, et) # {} \/ FreeSlots(m) # {} =>
                 EtherAdd(m, et) \in [Slots -> EtherRecords]
           /\ EtherDel(m, et) \in [Slots -> EtherRecords]
<1>1. Slots \subseteq Nat /\ SlotsOf(m, et) \subseteq Slots /\ FreeSlots(m) \subseteq Slots
  BY SizeAssumption DEF Slots, SlotsOf, FreeSlots
<1>2. SlotsOf(m, et) # {} => FirstOf(SlotsOf(m, et)) \in SlotsOf(m, et)
  BY <1>1, FirstOfProps
<1>3. FreeSlots(m) # {} => FirstOf(FreeSlots(m)) \in FreeSlots(m)
  BY <1>1, FirstOfProps
<1> DEFINE a == FirstOf(SlotsOf(m, et))
           f == FirstOf(FreeSlots(m))
<1> HIDE DEF a, f
<1>4. SlotsOf(m, et) # {} => a \in Slots /\ m[a].ref > 0 /\ m[a] \in EtherRecords
  BY <1>2 DEF SlotsOf, a
<1>5. FreeSlots(m) # {} => f \in Slots
  BY <1>3 DEF FreeSlots, f
<1>6. ASSUME SlotsOf(m, et) # {} PROVE EtherAdd(m, et) \in [Slots -> EtherRecords]
  <2>1. EtherAdd(m, et) = [m EXCEPT ![a].ref = @ + 1]
    BY <1>6 DEF EtherAdd, a
  <2>2. [m[a] EXCEPT !.ref = @ + 1] \in EtherRecords
    BY <1>4, <1>6 DEF EtherRecords
  <2> QED BY <2>1, <2>2
<1>7. ASSUME SlotsOf(m, et) = {}, FreeSlots(m) # {}
      PROVE  EtherAdd(m, et) \in [Slots -> EtherRecords]
  <2>1. EtherAdd(m, et) = [m EXCEPT ![f] = [et |-> et, ref |-> 1, parser |-> et]]
    BY <1>7 DEF EtherAdd, f
  <2>2. [et |-> et, ref |-> 1, parser |-> et] \in EtherRecords
    BY DEF EtherRecords
  <2> QED BY <2>1, <2>2
<1>8. EtherDel(m, et) \in [Slots -> EtherRecords]
  <2>1. CASE SlotsOf(m, et) = {}
    BY <2>1 DEF EtherDel
  <2>2. CASE SlotsOf(m, et) # {}
    <3> DEFINE x == [et |-> et, ref |-> m[a].ref - 1,
                     parser |-> IF m[a].ref = 1 THEN Null ELSE m[a].parser]
    <3>1. EtherDel(m, et) = [m EXCEPT ![a] = x]
      BY <2>2, <1>4 DEF EtherDel, a
    <3>2. x \in EtherRecords
      BY <2>2, <1>4 DEF EtherRecords
    <3> QED BY <3>1, <3>2
  <2> QED BY <2>1, <2>2
<1> QED BY <1>6, <1>7, <1>8

----------------------------------------------------------------------------
(* The empty table of adpt_flow_init.                                      *)
LEMMA InitIInv == Init => IInv
<1> SUFFICES ASSUME Init PROVE IInv
  OBVIOUS
<1>1. EmptyDb \in Db /\ EmptyDb.prios = <<>> /\ EmptyDb.ids = [p \in Prios |-> <<>>]
  BY DEF EmptyDb, Db
<1>2. TypeOK
  BY <1>1, SizeAssumption DEF Init, TypeOK, EtherRecords
<1>3. Consistent(EmptyDb, <<>>)
  <2> DEFINE d == EmptyDb
  <2> HIDE DEF d
  <2>1. d.prios = <<>> /\ \A p \in Prios : d.ids[p] = <<>>
    BY <1>1 DEF d
  <2>2. Len(<<>>) = 0 /\ Elems(<<>>) = {}
    BY DEF Elems
  <2>3. Descending(d) /\ EachIdOnce(d) /\ SameEntries(d, <<>>) /\ SameOrder(d, <<>>)
    BY <2>1, <2>2 DEF Descending, EachIdOnce, SameEntries, SameOrder
  <2>4. ListedIffUsed(d)
    BY <2>1, <2>2 DEF ListedIffUsed
  <2> QED BY <2>3, <2>4 DEF Consistent, d
<1>4. DbIsHw
  BY <1>3 DEF Init, DbIsHw
<1>5. PoolsHold
  BY DEF Init, PoolsHold, Elems
<1>6. Placed /\ Apart /\ Counting /\ Programmed
  BY DEF Init, Placed, Apart, Counting, Programmed, Live
<1> QED BY <1>2, <1>4, <1>5, <1>6 DEF IInv

----------------------------------------------------------------------------
(* Whose an entry is.                                                      *)

(* The entries of a rule are taken from the pools of their blocks.         *)
LEMMA EntryInUse ==
    ASSUME IInv, NEW r \in Rules, rule[r] # Null, NEW b \in Blocks
    PROVE  IF b \in BlocksOf(rule[r].kind)
           THEN /\ rule[r].entry[b] \in used[b]
                /\ rule[r].entry[b] \in PoolIds[b]
                /\ rule[r].entry[b] \in Ids
           ELSE rule[r].entry[b] = Null
<1>1. IF b \in BlocksOf(rule[r].kind)
      THEN rule[r].entry[b] \in Elems(db[b].ids[rule[r].prio])
      ELSE rule[r].entry[b] = Null
  BY DEF IInv, Placed, Live
<1>2. rule[r].prio \in Prios
  <2>1. rule[r] \in RuleRecords
    BY DEF IInv, TypeOK
  <2> QED BY <2>1 DEF RuleRecords
<1>3. SameEntries(db[b], hw[b]) /\ Elems(hw[b]) \subseteq used[b]
      /\ used[b] \subseteq PoolIds[b] /\ PoolIds[b] \subseteq Ids
  BY PoolAssumption DEF IInv, DbIsHw, Consistent, PoolsHold
<1>4. Elems(db[b].ids[rule[r].prio]) \subseteq Elems(hw[b])
  BY ZenonT(40), <1>2, <1>3 DEF SameEntries, Elems
<1> QED BY <1>1, <1>3, <1>4

(* An entry of one rule is no entry of another, in whichever block.        *)
LEMMA EntriesApart ==
    ASSUME IInv, NEW r \in Rules, NEW q \in Rules, rule[r] # Null, rule[q] # Null,
           r # q, NEW b \in BlocksOf(rule[r].kind), NEW c \in Blocks
    PROVE  rule[r].entry[b] # rule[q].entry[c]
<1>1. b \in Blocks
  BY DEF BlocksOf
<1>2. rule[r].entry[b] \in PoolIds[b] /\ rule[r].entry[b] \in Ids
  BY <1>1, EntryInUse
<1>3. rule[q].entry[c] = Null \/ rule[q].entry[c] \in PoolIds[c]
  BY EntryInUse
<1>4. rule[r].entry[b] # Null
  BY <1>2, NullNoId
<1>5. CASE b = c
  BY <1>1, <1>4, <1>5 DEF IInv, Apart, Live
<1>6. CASE b # c
  <2>1. PoolIds[b] \cap PoolIds[c] = {}
    BY <1>1, <1>6, PoolAssumption DEF Blocks
  <2> QED BY <2>1, <1>2, <1>3, <1>4
<1> QED BY <1>5, <1>6

----------------------------------------------------------------------------
(* What one block looks like after an add: the lemma on databases, for the *)
(* entry the pool has handed out.                                          *)
LEMMA BlockAdd ==
    ASSUME IInv, NEW k \in Kinds, NEW p \in Prios, NEW b \in BlocksOf(k), FreeIds(b) # {}
    PROVE  /\ b \in Blocks
           /\ NewEntry(k)[b] \in Ids
           /\ NewEntry(k)[b] \in PoolIds[b]
           /\ NewEntry(k)[b] \notin used[b]
           /\ NewEntry(k)[b] \notin Elems(hw[b])
           /\ InDb(b, p, NewEntry(k)[b]) \in Db
           /\ InHw(b, p, NewEntry(k)[b]) \in Seq(Ids)
           /\ Consistent(InDb(b, p, NewEntry(k)[b]), InHw(b, p, NewEntry(k)[b]))
           /\ Elems(InHw(b, p, NewEntry(k)[b])) \subseteq Elems(hw[b]) \cup {NewEntry(k)[b]}
           /\ NewEntry(k)[b] \in Elems(InDb(b, p, NewEntry(k)[b]).ids[p])
           /\ \A q \in Prios :
                 Elems(db[b].ids[q]) \subseteq Elems(InDb(b, p, NewEntry(k)[b]).ids[q])
           /\ DbDel(InDb(b, p, NewEntry(k)[b]), p, NewEntry(k)[b]) = db[b]
           /\ HwDel(InHw(b, p, NewEntry(k)[b]), NewEntry(k)[b]) = hw[b]
<1> DEFINE e == NewEntry(k)[b]
<1>1. b \in Blocks
  BY DEF BlocksOf
<1>2. TypeOK /\ DbIsHw /\ PoolsHold
  BY DEF IInv
<1>3. e \in Ids /\ e \in PoolIds[b] /\ e \notin used[b]
  BY <1>2, NewEntryProps
<1>4. e \notin Elems(hw[b])
  BY <1>1, <1>2, <1>3 DEF PoolsHold
<1>5. db[b] \in Db /\ hw[b] \in Seq(Ids) /\ Consistent(db[b], hw[b])
  BY <1>1, <1>2 DEF TypeOK, DbIsHw
<1> DEFINE d == db[b]
           h == hw[b]
<1> HIDE DEF e, d, h
<1>6. /\ DbAdd(d, p, e) \in Db
      /\ HwAdd(h, PrevId(DbAdd(d, p, e), p, e), e) \in Seq(Ids)
      /\ Consistent(DbAdd(d, p, e), HwAdd(h, PrevId(DbAdd(d, p, e), p, e), e))
      /\ Elems(HwAdd(h, PrevId(DbAdd(d, p, e), p, e), e)) \subseteq Elems(h) \cup {e}
      /\ e \in Elems(DbAdd(d, p, e).ids[p])
      /\ \A q \in Prios : Elems(d.ids[q]) \subseteq Elems(DbAdd(d, p, e).ids[q])
  BY <1>3, <1>4, <1>5, AddConsistent DEF d, h
<1>7. DbDel(DbAdd(d, p, e), p, e) = d
  BY <1>3, <1>4, <1>5, UndoDb DEF d, h
<1>8. HwDel(HwAdd(h, PrevId(DbAdd(d, p, e), p, e), e), e) = h
  BY <1>3, <1>4, <1>5, UndoHw DEF d, h
<1> QED BY <1>1, <1>3, <1>4, <1>6, <1>7, <1>8 DEF InDb, InHw, d, h, e

(* adpt_flow_add_flow keeps the invariant.                                 *)
LEMMA AddFlowIInv ==
    ASSUME IInv, NEW r \in Rules, NEW k \in Kinds, NEW et \in EtherTypes \cup {Null},
           NEW p \in Prios, NEW a \in Actions, AddFlow(r, k, et, p, a)
    PROVE  IInv'
<1> DEFINE ent == NewEntry(k)
           t == FirstOf(FreeStats)
           new == [kind |-> k, et |-> et, prio |-> p, act |-> a, entry |-> ent,
                   flow_id |-> NewFlowId, stats_ptr |-> t]
<1>1. TypeOK /\ DbIsHw /\ PoolsHold /\ Placed /\ Apart /\ Counting /\ Programmed
  BY DEF IInv
<1>2. rule[r] = Null /\ Match(k, et) /\ KeyFits(k, et) /\ IdsLeft(k) /\ FreeStats # {}
  BY DEF AddFlow, Accepts
<1>3. ent \in [Blocks -> Ids \cup {Null}]
      /\ \A b \in Blocks \ BlocksOf(k) : ent[b] = Null
  BY <1>1, <1>2, NewEntryType
<1>4. t \in StatsPtrs /\ t \notin stats
  <2>1. FreeStats \subseteq Nat
    BY SizeAssumption DEF FreeStats
  <2>2. t \in FreeStats
    BY <1>2, <2>1, FirstOfProps
  <2> QED BY <2>2 DEF FreeStats
<1>5. NewFlowId \in FlowIds \cup {0}
  <2>1. FreeFlowIds \subseteq Nat /\ FreeFlowIds \subseteq FlowIds
    BY SizeAssumption DEF FreeFlowIds
  <2> QED BY <2>1, FirstOfProps DEF NewFlowId
<1>6. new \in RuleRecords
  BY <1>3, <1>4, <1>5 DEF RuleRecords
<1>7. /\ rule' = [rule EXCEPT ![r] = new]
      /\ used' = [b \in Blocks |->
            IF b \in BlocksOf(k) THEN used[b] \cup {ent[b]} ELSE used[b]]
      /\ db' = [b \in Blocks |->
            IF b \in BlocksOf(k) THEN InDb(b, p, ent[b]) ELSE db[b]]
      /\ hw' = [b \in Blocks |->
            IF b \in BlocksOf(k) THEN InHw(b, p, ent[b]) ELSE hw[b]]
      /\ chip' = [e \in Ids |->
            IF \E b \in Blocks : e = ent[b] THEN [act |-> a, stats_ptr |-> t]
            ELSE chip[e]]
      /\ stats' = stats \cup {t}
      /\ info' = TimerAdd(NewFlowId, r, FALSE)
      /\ etmap' = KeyAdd(etmap, k, et)
      /\ num' = num + 1
  BY DEF AddFlow
<1>8. \A b \in BlocksOf(k) :
         /\ b \in Blocks
         /\ ent[b] \in Ids
         /\ ent[b] \in PoolIds[b]
         /\ ent[b] \notin used[b]
         /\ InDb(b, p, ent[b]) \in Db
         /\ InHw(b, p, ent[b]) \in Seq(Ids)
         /\ Consistent(InDb(b, p, ent[b]), InHw(b, p, ent[b]))
         /\ Elems(InHw(b, p, ent[b])) \subseteq Elems(hw[b]) \cup {ent[b]}
         /\ ent[b] \in Elems(InDb(b, p, ent[b]).ids[p])
         /\ \A q \in Prios : Elems(db[b].ids[q]) \subseteq Elems(InDb(b, p, ent[b]).ids[q])
  BY ZenonT(40), <1>2, BlockAdd DEF IdsLeft
<1> HIDE DEF ent, t
<1>9. TypeOK'
  <2>1. rule' \in [Rules -> RuleRecords \cup {Null}]
    BY <1>1, <1>6, <1>7 DEF TypeOK
  <2>2. db' \in [Blocks -> Db] /\ hw' \in [Blocks -> Seq(Ids)]
    BY <1>1, <1>7, <1>8 DEF TypeOK
  <2>3. chip' \in [Ids -> ChipRecords \cup {Null}]
    BY <1>1, <1>4, <1>7 DEF TypeOK, ChipRecords
  <2>4. used' \in [Blocks -> SUBSET Ids] /\ stats' \in SUBSET StatsPtrs /\ num' \in Nat
    BY <1>1, <1>4, <1>7, <1>8 DEF TypeOK
  <2>5. etmap' \in [Slots -> EtherRecords]
    BY <1>1, <1>2, <1>7, EtherTypeOK DEF TypeOK, KeyAdd, Match, KeyFits
  <2>6. info' \in [FlowIds -> InfoRecords \cup {Null}]
    BY <1>1, <1>5, <1>7 DEF TypeOK, TimerAdd, InfoRecords
  <2> QED BY <2>1, <2>2, <2>3, <2>4, <2>5, <2>6 DEF TypeOK
<1>10. DbIsHw'
  BY <1>1, <1>7, <1>8 DEF DbIsHw
<1>11. PoolsHold'
  <2> SUFFICES ASSUME NEW b \in Blocks
               PROVE  used'[b] \subseteq PoolIds[b] /\ Elems(hw'[b]) \subseteq used'[b]
    BY DEF PoolsHold
  <2>1. used[b] \subseteq PoolIds[b] /\ Elems(hw[b]) \subseteq used[b]
    BY <1>1 DEF PoolsHold
  <2>2. CASE b \in BlocksOf(k)
    <3>1. used'[b] = used[b] \cup {ent[b]} /\ hw'[b] = InHw(b, p, ent[b])
      BY <1>7, <2>2
    <3> QED BY <3>1, <2>1, <2>2, <1>8
  <2>3. CASE b \notin BlocksOf(k)
    BY <1>7, <2>1, <2>3
  <2> QED BY <2>2, <2>3
(* What the step leaves of the other rules, and what the new one is.       *)
<1> HIDE DEF new
<1>12. /\ rule'[r] = new
       /\ \A q \in Rules : q # r => rule'[q] = rule[q]
  BY <1>1, <1>7 DEF TypeOK
<1>13. /\ new.kind = k /\ new.prio = p /\ new.entry = ent /\ new.stats_ptr = t
  BY DEF new
<1>14. \A b \in Blocks, q \in Prios : Elems(db[b].ids[q]) \subseteq Elems(db'[b].ids[q])
  <2> SUFFICES ASSUME NEW b \in Blocks, NEW q \in Prios
               PROVE  Elems(db[b].ids[q]) \subseteq Elems(db'[b].ids[q])
    OBVIOUS
  <2>1. CASE b \in BlocksOf(k)
    BY <1>7, <1>8, <2>1
  <2>2. CASE b \notin BlocksOf(k)
    BY <1>7, <2>2
  <2> QED BY <2>1, <2>2
<1>15. ASSUME NEW q \in Rules, rule[q] # Null
       PROVE  /\ rule[q].kind \in Kinds /\ rule[q].prio \in Prios
              /\ rule[q].entry \in [Blocks -> Ids \cup {Null}]
  <2>1. rule[q] \in RuleRecords
    BY <1>1, <1>15 DEF TypeOK
  <2> QED BY <2>1 DEF RuleRecords
<1>16. Placed'
  <2> SUFFICES ASSUME NEW q \in Rules, rule'[q] # Null, NEW b \in Blocks
               PROVE  IF b \in BlocksOf(rule'[q].kind)
                      THEN rule'[q].entry[b] \in Elems(db'[b].ids[rule'[q].prio])
                      ELSE rule'[q].entry[b] = Null
    BY DEF Placed, Live, BlocksOf, Elems
  <2>1. CASE q = r
    <3>1. b \in BlocksOf(k) => db'[b] = InDb(b, p, ent[b])
      BY <1>7
    <3> QED BY <3>1, <2>1, <1>3, <1>8, <1>12, <1>13
  <2>2. CASE q # r
    <3>1. rule'[q] = rule[q]
      BY <1>12, <2>2
    <3>2. IF b \in BlocksOf(rule[q].kind)
          THEN rule[q].entry[b] \in Elems(db[b].ids[rule[q].prio])
          ELSE rule[q].entry[b] = Null
      BY <1>1, <3>1 DEF Placed, Live
    <3>3. rule[q].prio \in Prios
      BY <1>15, <3>1
    <3> QED BY <3>1, <3>2, <3>3, <1>14
  <2> QED BY <2>1, <2>2
(* The new entries are not those of another rule: those are in use.        *)
<1>17. ASSUME NEW q \in Rules, rule[q] # Null, NEW b \in Blocks,
              rule[q].entry[b] = ent[b]
       PROVE  ent[b] = Null
  <2> SUFFICES ASSUME ent[b] # Null PROVE FALSE
    OBVIOUS
  <2>1. b \in BlocksOf(k) /\ ent[b] \notin used[b]
    BY <1>3, <1>8
  <2>2. ent[b] \in Elems(db[b].ids[rule[q].prio]) /\ rule[q].prio \in Prios
    BY <1>1, <1>15, <1>17 DEF Placed, Live
  <2>3. ent[b] \in Elems(hw[b])
    <3>1. SameEntries(db[b], hw[b])
      BY <1>1 DEF DbIsHw, Consistent
    <3> QED BY <2>2, <3>1 DEF SameEntries, Elems
  <2>4. Elems(hw[b]) \subseteq used[b]
    BY <1>1 DEF PoolsHold
  <2> QED BY <2>1, <2>3, <2>4
<1>18. Counting'
  BY <1>1, <1>7, <1>12, <1>13 DEF Counting, Live
<1>19. Apart'
  <2> SUFFICES ASSUME NEW q \in Rules, NEW o \in Rules,
                      rule'[q] # Null, rule'[o] # Null, q # o
               PROVE  /\ \A b \in Blocks : rule'[q].entry[b] = rule'[o].entry[b]
                                           => rule'[q].entry[b] = Null
                      /\ rule'[q].stats_ptr # rule'[o].stats_ptr
    BY DEF Apart, Live
  <2>1. \A x \in Rules : x # r /\ rule'[x] # Null =>
           rule'[x] = rule[x] /\ rule[x] # Null /\ rule[x].stats_ptr # t
    BY <1>1, <1>4, <1>12 DEF Counting, Live
  <2>2. CASE q # r /\ o # r
    BY <1>1, <2>1, <2>2 DEF Apart, Live
  <2>3. CASE q = r
    BY <1>12, <1>13, <1>17, <2>1, <2>3
  <2>4. CASE o = r
    BY <1>12, <1>13, <1>17, <2>1, <2>4
  <2> QED BY <2>2, <2>3, <2>4
<1>20. Programmed'
  <2> SUFFICES ASSUME NEW q \in Rules, rule'[q] # Null, NEW b \in BlocksOf(rule'[q].kind)
               PROVE  chip'[rule'[q].entry[b]] =
                         [act |-> rule'[q].act, stats_ptr |-> rule'[q].stats_ptr]
    BY DEF Programmed, Live, BlocksOf, MainBlock
  <2>1. b \in Blocks
    BY DEF BlocksOf
  <2>2. CASE q = r
    <3>1. ent[b] \in Ids /\ rule'[q].entry[b] = ent[b]
      BY <1>8, <1>12, <1>13, <2>2
    <3>2. chip'[ent[b]] = [act |-> a, stats_ptr |-> t]
      BY <1>7, <2>1, <3>1
    <3> QED BY <3>1, <3>2, <2>2, <1>12 DEF new
  <2>3. CASE q # r
    <3>1. rule'[q] = rule[q]
      BY <1>12, <2>3
    <3>2. rule[q].entry[b] \in PoolIds[b] /\ rule[q].entry[b] \in Ids
          /\ rule[q].entry[b] \in used[b]
      BY <2>1, <3>1, EntryInUse
    <3>3. \A c \in Blocks : rule[q].entry[b] # ent[c]
      <4> SUFFICES ASSUME NEW c \in Blocks, rule[q].entry[b] = ent[c] PROVE FALSE
        OBVIOUS
      <4>1. c \in BlocksOf(k)
        BY <1>3, <3>2, NullNoId
      <4>2. ent[c] \in PoolIds[c] /\ ent[c] \notin used[c]
        BY <4>1, <1>8
      <4>3. c = b
        BY <2>1, <3>2, <4>2, PoolAssumption DEF Blocks
      <4> QED BY <3>2, <4>2, <4>3
    <3>4. chip'[rule[q].entry[b]] = chip[rule[q].entry[b]]
      BY <1>7, <3>2, <3>3
    <3> QED BY <3>1, <3>4, <1>1 DEF Programmed, Live
  <2> QED BY <2>2, <2>3
<1> QED BY <1>9, <1>10, <1>11, <1>16, <1>18, <1>19, <1>20 DEF IInv

----------------------------------------------------------------------------
(* A failed add.                                                           *)

(* A reference to an ether type that is taken and given back at once: the  *)
(* slots in use are those of before.                                       *)
LEMMA EtherUndone ==
    ASSUME NEW m \in [Slots -> EtherRecords], NEW et \in EtherTypes,
           SlotsOf(m, et) # {} \/ FreeSlots(m) # {}
    PROVE  \A s \in Slots :
              \/ EtherDel(EtherAdd(m, et), et)[s] = m[s]
              \/ m[s].ref = 0 /\ EtherDel(EtherAdd(m, et), et)[s].ref = 0
<1>1. Slots \subseteq Nat /\ SlotsOf(m, et) \subseteq Slots /\ FreeSlots(m) \subseteq Slots
  BY SizeAssumption DEF Slots, SlotsOf, FreeSlots
<1>2. CASE SlotsOf(m, et) # {}
  <2> DEFINE x == FirstOf(SlotsOf(m, et))
             n == EtherAdd(m, et)
  <2>1. x \in SlotsOf(m, et)
    BY <1>1, <1>2, FirstOfProps
  <2> HIDE DEF x
  <2>2. n = [m EXCEPT ![x].ref = @ + 1]
    BY <1>2 DEF EtherAdd, x
  <2>3. x \in Slots /\ m[x].ref > 0 /\ m[x].et = et /\ m[x] \in EtherRecords
    BY <2>1 DEF SlotsOf
  <2> HIDE DEF n
  <2>4. /\ n[x].et = et /\ n[x].ref = m[x].ref + 1 /\ n[x].parser = m[x].parser
        /\ \A s \in Slots : s # x => n[s] = m[s]
    BY <2>2, <2>3 DEF EtherRecords
  <2>5. SlotsOf(n, et) = SlotsOf(m, et)
    BY <2>3, <2>4 DEF SlotsOf, EtherRecords
  <2>6. EtherDel(n, et) = [n EXCEPT ![x] = [et |-> et, ref |-> @.ref - 1,
                parser |-> IF @.ref = 1 THEN Null ELSE @.parser]]
    BY <2>5, <1>2 DEF EtherDel, x
  <2>7. n \in [Slots -> EtherRecords]
    BY <1>2, EtherTypeOK DEF n
  <2>8. EtherDel(n, et)[x] = [et |-> et, ref |-> m[x].ref, parser |-> m[x].parser]
    BY <2>3, <2>4, <2>6, <2>7 DEF EtherRecords
  <2>9. m[x] = [et |-> et, ref |-> m[x].ref, parser |-> m[x].parser]
    BY <2>3 DEF EtherRecords
  <2>10. \A s \in Slots : s # x => EtherDel(n, et)[s] = m[s]
    BY <2>3, <2>4, <2>6, <2>7
  <2> QED BY <2>8, <2>9, <2>10 DEF n
<1>3. CASE SlotsOf(m, et) = {}
  <2> DEFINE f == FirstOf(FreeSlots(m))
             n == EtherAdd(m, et)
  <2>1. f \in FreeSlots(m)
    BY <1>1, <1>3, FirstOfProps
  <2> HIDE DEF f
  <2>2. n = [m EXCEPT ![f] = [et |-> et, ref |-> 1, parser |-> et]]
    BY <1>3 DEF EtherAdd, f
  <2>3. f \in Slots /\ m[f].ref = 0
    BY <2>1 DEF FreeSlots
  <2> HIDE DEF n
  <2>4. n[f] = [et |-> et, ref |-> 1, parser |-> et] /\ \A s \in Slots : s # f => n[s] = m[s]
    BY <2>2, <2>3
  <2>5. SlotsOf(n, et) = {f}
    BY <2>3, <2>4, <1>3 DEF SlotsOf
  <2>6. FirstOf(SlotsOf(n, et)) = f
    <3>1. SlotsOf(n, et) \subseteq Nat /\ SlotsOf(n, et) # {}
      BY <2>3, <2>5, <1>1
    <3>2. FirstOf(SlotsOf(n, et)) \in SlotsOf(n, et)
      BY <3>1, FirstOfProps
    <3> QED BY <3>2, <2>5
  <2>7. EtherDel(n, et) = [n EXCEPT ![f] = [et |-> et, ref |-> @.ref - 1,
                parser |-> IF @.ref = 1 THEN Null ELSE @.parser]]
    BY <2>5, <2>6 DEF EtherDel
  <2>8. n \in [Slots -> EtherRecords]
    BY EtherTypeOK DEF n
  <2>9. EtherDel(n, et)[f].ref = 0
    BY <2>3, <2>4, <2>7, <2>8
  <2>10. \A s \in Slots : s # f => EtherDel(n, et)[s] = m[s]
    BY <2>3, <2>4, <2>7, <2>8
  <2> QED BY <2>3, <2>9, <2>10 DEF n
<1> QED BY <1>2, <1>3

(* The labels Err6 .. Err2 of adpt_flow_add_flow give back everything.     *)
LEMMA AddFailsUndone ==
    ASSUME IInv, NEW r \in Rules, NEW k \in Kinds, NEW et \in EtherTypes \cup {Null},
           NEW p \in Prios, NEW indb \in SUBSET Blocks, NEW inhw \in SUBSET Blocks,
           AddFails(r, k, et, p, indb, inhw)
    PROVE  /\ db' = db /\ hw' = hw /\ EtherInUse' = EtherInUse
           /\ UNCHANGED <<rule, used, stats, num>>
           /\ etmap' \in [Slots -> EtherRecords]
<1>1. TypeOK /\ Match(k, et) /\ KeyFits(k, et)
      /\ inhw \subseteq indb /\ indb \subseteq BlocksOf(k)
      /\ \A b \in indb \cup {MainBlock(k)} : FreeIds(b) # {}
  BY DEF IInv, AddFails, FailPoint
<1>2. \A b \in indb :
         /\ DbDel(InDb(b, p, NewEntry(k)[b]), p, NewEntry(k)[b]) = db[b]
         /\ HwDel(InHw(b, p, NewEntry(k)[b]), NewEntry(k)[b]) = hw[b]
  BY <1>1, BlockAdd
<1>3. db' = [b \in Blocks |-> db[b]] /\ hw' = [b \in Blocks |-> hw[b]]
  BY <1>1, <1>2 DEF AddFails
<1>4. db' = db /\ hw' = hw /\ UNCHANGED <<rule, used, stats, num>>
  <2>1. MainBlock(k) \in BlocksOf(k)
    BY DEF MainBlock, BlocksOf, Blocks
  <2>2. \A b \in indb \cup {MainBlock(k)} : NewEntry(k)[b] \notin used[b]
    BY <1>1, <2>1, NewEntryProps
  <2>3. used' = [b \in Blocks |-> used[b]]
    BY <2>2 DEF AddFails
  <2>4. stats' = stats
    <3>1. FreeStats # {} => FirstOf(FreeStats) \in FreeStats
      BY SizeAssumption, FirstOfProps DEF FreeStats
    <3> QED BY <3>1 DEF AddFails, FreeStats
  <2> QED BY <1>1, <1>3, <2>3, <2>4 DEF TypeOK, AddFails
<1>5. etmap' = KeyDel(KeyAdd(etmap, k, et), k, et) /\ etmap \in [Slots -> EtherRecords]
  BY <1>1 DEF AddFails, TypeOK
<1>6. CASE k # "OTHER"
  <2>1. etmap' = etmap
    BY <1>5, <1>6 DEF KeyDel, KeyAdd
  <2> QED BY <1>4, <1>5, <2>1 DEF EtherInUse
<1>7. CASE k = "OTHER"
  <2>1. et \in EtherTypes /\ (SlotsOf(etmap, et) # {} \/ FreeSlots(etmap) # {})
    BY <1>1, <1>7 DEF Match, KeyFits
  <2>2. etmap' = EtherDel(EtherAdd(etmap, et), et)
    BY <1>5, <1>7 DEF KeyDel, KeyAdd
  <2>3. etmap' \in [Slots -> EtherRecords]
    BY <1>5, <2>1, <2>2, EtherTypeOK
  <2>4. \A s \in Slots : etmap'[s] = etmap[s] \/ (etmap[s].ref = 0 /\ etmap'[s].ref = 0)
    BY <1>5, <2>1, <2>2, EtherUndone
  <2>5. EtherInUse' = EtherInUse
    BY <2>4 DEF EtherInUse
  <2> QED BY <1>4, <2>3, <2>5
<1> QED BY <1>6, <1>7

(* Types and chip aside, the invariant speaks of five variables: a step    *)
(* that leaves those alone keeps it.                                       *)
LEMMA UnchangedIInv ==
    ASSUME IInv, UNCHANGED <<rule, db, hw, used, stats>>, TypeOK', Programmed'
    PROVE  IInv'
<1> USE DEF IInv
<1>1. DbIsHw'
  <2>1. DbIsHw /\ db' = db /\ hw' = hw
    OBVIOUS
  <2>2. \A b \in Blocks : Consistent(db'[b], hw'[b])
    BY <2>1 DEF DbIsHw
  <2> QED BY <2>2 DEF DbIsHw
<1>2. PoolsHold'
  BY DEF PoolsHold, Elems
<1>3. Placed'
  BY DEF Placed, Live, Elems, BlocksOf, MainBlock
<1>4. Apart' /\ Counting'
  BY DEF Apart, Counting, Live
<1> QED BY <1>1, <1>2, <1>3, <1>4

(* A failed add keeps the invariant.                                       *)
LEMMA AddFailsIInv ==
    ASSUME IInv, NEW r \in Rules, NEW k \in Kinds, NEW et \in EtherTypes \cup {Null},
           NEW p \in Prios, NEW indb \in SUBSET Blocks, NEW inhw \in SUBSET Blocks,
           AddFails(r, k, et, p, indb, inhw)
    PROVE  IInv'
<1>1. /\ UNCHANGED <<rule, db, hw, used, stats, num>>
      /\ etmap' \in [Slots -> EtherRecords]
  BY AddFailsUndone
<1>2. NewFlowId \in FlowIds \cup {0}
  <2>1. FreeFlowIds \subseteq Nat /\ FreeFlowIds \subseteq FlowIds
    BY SizeAssumption DEF FreeFlowIds
  <2> QED BY <2>1, FirstOfProps DEF NewFlowId
<1>3. info' \in [FlowIds -> InfoRecords \cup {Null}]
  BY <1>2 DEF IInv, TypeOK, AddFails, TimerAdd, InfoRecords
<1>4. chip' \in [Ids -> ChipRecords \cup {Null}]
  BY DEF IInv, TypeOK, AddFails
<1>5. TypeOK'
  BY <1>1, <1>3, <1>4 DEF IInv, TypeOK
<1>6. Programmed'
  <2> SUFFICES ASSUME NEW q \in Rules, rule[q] # Null, NEW b \in BlocksOf(rule[q].kind)
               PROVE  chip'[rule[q].entry[b]] =
                         [act |-> rule[q].act, stats_ptr |-> rule[q].stats_ptr]
    BY <1>1 DEF Programmed, Live, BlocksOf, MainBlock
  <2>1. b \in Blocks
    BY DEF BlocksOf
  <2>2. rule[q].entry[b] \in PoolIds[b] /\ rule[q].entry[b] \in Ids
        /\ rule[q].entry[b] \in used[b]
    BY <2>1, EntryInUse
  <2>3. \A c \in inhw : rule[q].entry[b] # NewEntry(k)[c]
    <3> SUFFICES ASSUME NEW c \in inhw, rule[q].entry[b] = NewEntry(k)[c] PROVE FALSE
      OBVIOUS
    <3>1. c \in BlocksOf(k) /\ FreeIds(c) # {} /\ TypeOK
      BY DEF IInv, AddFails, FailPoint
    <3>2. c \in Blocks /\ NewEntry(k)[c] \in PoolIds[c] /\ NewEntry(k)[c] \notin used[c]
      BY <3>1, NewEntryProps
    <3>3. c = b
      BY <2>1, <2>2, <3>2, PoolAssumption DEF Blocks
    <3> QED BY <2>2, <3>2, <3>3
  <2>4. chip'[rule[q].entry[b]] = chip[rule[q].entry[b]]
    BY <2>2, <2>3 DEF AddFails
  <2> QED BY <2>4 DEF IInv, Programmed, Live
<1> QED BY <1>1, <1>5, <1>6, UnchangedIInv

(* adpt_flow_idle_timeout_timer keeps the invariant.                       *)
LEMMA IdleTimerIInv == ASSUME IInv, IdleTimer PROVE IInv'
<1>1. info' \in [FlowIds -> InfoRecords \cup {Null}]
  BY DEF IInv, TypeOK, IdleTimer
<1>2. UNCHANGED <<rule, db, hw, chip, used, etmap, stats, num>>
  BY DEF IdleTimer
<1>3. TypeOK'
  BY <1>1, <1>2 DEF IInv, TypeOK
<1>4. Programmed'
  BY <1>2 DEF IInv, Programmed, Live, BlocksOf, MainBlock
<1> QED BY <1>2, <1>3, <1>4, UnchangedIInv

(* As long as the chip takes every action, adpt_flow_modify_flow_action    *)
(* finds the rule with a statistics pointer and leaves it that one.        *)
LEMMA ModifyFlowStats ==
    ASSUME IInv, NEW r \in Rules, NEW a \in Actions, ModifyFlow(r, a)
    PROVE  /\ rule' = [rule EXCEPT ![r].act = a]
           /\ stats' = stats
           /\ chip' = [e \in Ids |->
                 IF \E b \in Blocks : e = rule[r].entry[b]
                 THEN [act |-> a, stats_ptr |-> rule[r].stats_ptr] ELSE chip[e]]
           /\ UNCHANGED <<db, hw, used, etmap, info, num>>
<1>1. rule[r] # Null /\ rule[r] \in RuleRecords /\ rule \in [Rules -> RuleRecords \cup {Null}]
  BY DEF IInv, TypeOK, ModifyFlow
<1>2. rule[r].stats_ptr \in stats /\ stats \subseteq StatsPtrs
  BY <1>1 DEF IInv, TypeOK, Counting, Live
<1>3. rule[r].stats_ptr # Null
  BY <1>2, NullNoId
<1>4. /\ rule' = [rule EXCEPT ![r].act = a, ![r].stats_ptr = rule[r].stats_ptr]
      /\ stats' = stats \cup {rule[r].stats_ptr}
      /\ chip' = [e \in Ids |->
            IF \E b \in Blocks : e = rule[r].entry[b]
            THEN [chip[e] EXCEPT !.act = a] ELSE chip[e]]
      /\ UNCHANGED <<db, hw, used, etmap, info, num>>
  BY <1>3 DEF ModifyFlow, SetAction
<1>5. [rule[r] EXCEPT !.act = a, !.stats_ptr = rule[r].stats_ptr] = [rule[r] EXCEPT !.act = a]
  BY <1>1 DEF RuleRecords
<1>6. rule' = [rule EXCEPT ![r].act = a]
  BY <1>1, <1>4, <1>5
<1>7. ASSUME NEW e \in Ids, NEW b \in Blocks, e = rule[r].entry[b]
      PROVE  [chip[e] EXCEPT !.act = a] = [act |-> a, stats_ptr |-> rule[r].stats_ptr]
  <2>1. b \in BlocksOf(rule[r].kind)
    BY <1>1, <1>7, EntryInUse, NullNoId
  <2>2. chip[e] = [act |-> rule[r].act, stats_ptr |-> rule[r].stats_ptr]
    BY <1>1, <1>7, <2>1 DEF IInv, Programmed, Live
  <2> QED BY <2>2
<1>8. chip' = [e \in Ids |->
         IF \E b \in Blocks : e = rule[r].entry[b]
         THEN [act |-> a, stats_ptr |-> rule[r].stats_ptr] ELSE chip[e]]
  BY <1>4, <1>7
<1>9. stats' = stats
  BY <1>2, <1>4
<1>10. UNCHANGED <<db, hw, used, etmap, info, num>>
  BY <1>4
<1> QED BY <1>6, <1>8, <1>9, <1>10

(* adpt_flow_modify_flow_action keeps the invariant.                       *)
LEMMA ModifyFlowIInv ==
    ASSUME IInv, NEW r \in Rules, NEW a \in Actions, ModifyFlow(r, a)
    PROVE  IInv'
<1>1. TypeOK /\ DbIsHw /\ PoolsHold /\ Placed /\ Apart /\ Counting /\ Programmed
  BY DEF IInv
<1>2. rule[r] # Null /\ rule[r] \in RuleRecords
  BY <1>1 DEF TypeOK, ModifyFlow
<1>3. /\ rule' = [rule EXCEPT ![r].act = a]
      /\ stats' = stats
      /\ chip' = [e \in Ids |->
            IF \E b \in Blocks : e = rule[r].entry[b]
            THEN [act |-> a, stats_ptr |-> rule[r].stats_ptr] ELSE chip[e]]
      /\ UNCHANGED <<db, hw, used, etmap, info, num>>
  BY ModifyFlowStats
<1>4. [rule[r] EXCEPT !.act = a] \in RuleRecords
  BY <1>2 DEF RuleRecords
<1>5. /\ rule'[r] = [rule[r] EXCEPT !.act = a]
      /\ \A q \in Rules : q # r => rule'[q] = rule[q]
  BY <1>1, <1>3 DEF TypeOK
<1>6. \A q \in Rules : rule'[q] # Null =>
         /\ rule[q] # Null
         /\ rule'[q].kind = rule[q].kind /\ rule'[q].prio = rule[q].prio
         /\ rule'[q].entry = rule[q].entry /\ rule'[q].stats_ptr = rule[q].stats_ptr
         /\ rule'[q].act = IF q = r THEN a ELSE rule[q].act
  BY <1>2, <1>5 DEF RuleRecords
<1>7. TypeOK'
  <2>1. rule' \in [Rules -> RuleRecords \cup {Null}]
    BY <1>1, <1>3, <1>4 DEF TypeOK
  <2>2. chip' \in [Ids -> ChipRecords \cup {Null}]
    <3>1. [act |-> a, stats_ptr |-> rule[r].stats_ptr] \in ChipRecords
      BY <1>2 DEF RuleRecords, ChipRecords
    <3> QED BY <3>1, <1>1, <1>3 DEF TypeOK
  <2> QED BY <1>1, <1>3, <2>1, <2>2 DEF TypeOK
<1>8. DbIsHw' /\ PoolsHold'
  BY <1>1, <1>3 DEF DbIsHw, PoolsHold, Consistent, Descending, ListedIffUsed,
                    EachIdOnce, SameEntries, SameOrder, Elems
<1>9. Placed'
  BY SMTT(30), <1>1, <1>3, <1>6 DEF Placed, Live, Elems, BlocksOf, MainBlock
<1>10. Apart' /\ Counting'
  BY <1>1, <1>3, <1>6 DEF Apart, Counting, Live
<1>11. Programmed'
  <2> SUFFICES ASSUME NEW q \in Rules, rule'[q] # Null, NEW b \in BlocksOf(rule[q].kind)
               PROVE  chip'[rule[q].entry[b]] =
                         [act |-> rule'[q].act, stats_ptr |-> rule[q].stats_ptr]
    BY <1>6 DEF Programmed, Live, BlocksOf, MainBlock
  <2>1. b \in Blocks /\ rule[q] # Null
    BY <1>6 DEF BlocksOf
  <2>2. rule[q].entry[b] \in Ids
    BY <2>1, EntryInUse
  <2>3. CASE q = r
    BY <1>3, <1>6, <2>1, <2>2, <2>3
  <2>4. CASE q # r
    <3>1. \A c \in Blocks : rule[q].entry[b] # rule[r].entry[c]
      BY <1>2, <2>1, <2>4, EntriesApart
    <3>2. chip'[rule[q].entry[b]] = chip[rule[q].entry[b]]
      BY <1>3, <2>2, <3>1
    <3> QED BY <3>2, <2>1, <2>4, <1>1, <1>6 DEF Programmed, Live
  <2> QED BY <2>3, <2>4
<1> QED BY <1>7, <1>8, <1>9, <1>10, <1>11 DEF IInv

(* adpt_flow_del_flow keeps the invariant: it takes out the entries of its *)
(* own rule and no other's.                                                *)
LEMMA DelFlowIInv ==
    ASSUME IInv, NEW r \in Rules, DelFlow(r)
    PROVE  IInv'
<1> DEFINE o == rule[r]
           B == BlocksOf(o.kind)
<1>1. TypeOK /\ DbIsHw /\ PoolsHold /\ Placed /\ Apart /\ Counting /\ Programmed
  BY DEF IInv
<1>2. o # Null /\ o \in RuleRecords
  BY <1>1 DEF TypeOK, DelFlow
<1>3. /\ o.kind \in Kinds /\ o.prio \in Prios /\ o.entry \in [Blocks -> Ids \cup {Null}]
      /\ o.et \in EtherTypes \cup {Null}
  BY <1>2 DEF RuleRecords
<1>4. /\ rule' = [rule EXCEPT ![r] = Null]
      /\ db' = [b \in Blocks |->
            IF b \in B THEN DbDel(db[b], o.prio, o.entry[b]) ELSE db[b]]
      /\ hw' = [b \in Blocks |-> IF b \in B THEN HwDel(hw[b], o.entry[b]) ELSE hw[b]]
      /\ used' = [b \in Blocks |-> used[b] \ {o.entry[b]}]
      /\ chip' = [e \in Ids |->
            IF \E b \in Blocks : e = o.entry[b] THEN Null ELSE chip[e]]
      /\ etmap' = KeyDel(etmap, o.kind, o.et)
      /\ stats' = stats \ {o.stats_ptr}
      /\ info' = TimerDel(o.flow_id)
      /\ num' = IF num = 0 THEN 0 ELSE num - 1
  BY DEF DelFlow
<1>5. ASSUME NEW b \in Blocks, b \in B
      PROVE  /\ DbDel(db[b], o.prio, o.entry[b]) \in Db
             /\ HwDel(hw[b], o.entry[b]) \in Seq(Ids)
             /\ Consistent(DbDel(db[b], o.prio, o.entry[b]), HwDel(hw[b], o.entry[b]))
             /\ Elems(HwDel(hw[b], o.entry[b])) \subseteq Elems(hw[b]) \ {o.entry[b]}
             /\ \A q \in Prios : \A f \in Elems(db[b].ids[q]) :
                   f # o.entry[b] => f \in Elems(DbDel(db[b], o.prio, o.entry[b]).ids[q])
  <2>1. o.entry[b] \in Elems(db[b].ids[o.prio])
    BY <1>1, <1>2, <1>5 DEF Placed, Live
  <2>2. db[b] \in Db /\ hw[b] \in Seq(Ids) /\ Consistent(db[b], hw[b])
    BY <1>1 DEF TypeOK, DbIsHw
  <2> QED BY ZenonT(40), <2>1, <2>2, <1>3, DelConsistent
<1> HIDE DEF o, B
<1>6. TypeOK'
  <2>1. rule' \in [Rules -> RuleRecords \cup {Null}]
    BY <1>1, <1>4 DEF TypeOK
  <2>2. db' \in [Blocks -> Db] /\ hw' \in [Blocks -> Seq(Ids)]
    BY <1>1, <1>4, <1>5 DEF TypeOK
  <2>3. chip' \in [Ids -> ChipRecords \cup {Null}]
    BY <1>1, <1>4 DEF TypeOK
  <2>4. used' \in [Blocks -> SUBSET Ids] /\ stats' \in SUBSET StatsPtrs /\ num' \in Nat
    BY <1>1, <1>4 DEF TypeOK
  <2>5. etmap' \in [Slots -> EtherRecords]
    BY <1>1, <1>3, <1>4, EtherTypeOK DEF TypeOK, KeyDel
  <2>6. info' \in [FlowIds -> InfoRecords \cup {Null}]
    <3> DEFINE f == o.flow_id
    <3>1. CASE f \in FlowIds /\ info[f] # Null
      <4>1. info[f] \in InfoRecords
        BY <1>1, <3>1 DEF TypeOK
      <4>2. [info[f] EXCEPT !.need_delete = TRUE] \in InfoRecords
        BY <4>1 DEF InfoRecords
      <4> HIDE DEF f
      <4>3. info' = [info EXCEPT ![f].need_delete = TRUE]
        BY <1>4, <3>1 DEF TimerDel, f
      <4> QED BY <1>1, <4>2, <4>3 DEF TypeOK
    <3>2. CASE ~(f \in FlowIds /\ info[f] # Null)
      BY <1>1, <1>4, <3>2 DEF TypeOK, TimerDel
    <3> QED BY <3>1, <3>2
  <2> QED BY <2>1, <2>2, <2>3, <2>4, <2>5, <2>6 DEF TypeOK
<1>7. DbIsHw'
  BY <1>1, <1>4, <1>5 DEF DbIsHw
<1>8. PoolsHold'
  <2> SUFFICES ASSUME NEW b \in Blocks
               PROVE  used'[b] \subseteq PoolIds[b] /\ Elems(hw'[b]) \subseteq used'[b]
    BY DEF PoolsHold
  <2>1. used[b] \subseteq PoolIds[b] /\ Elems(hw[b]) \subseteq used[b]
    BY <1>1 DEF PoolsHold
  <2>2. used'[b] = used[b] \ {o.entry[b]}
    BY <1>4
  <2>3. CASE b \in B
    <3>1. hw'[b] = HwDel(hw[b], o.entry[b])
      BY <1>4, <2>3
    <3> QED BY <3>1, <2>1, <2>2, <2>3, <1>5
  <2>4. CASE b \notin B
    <3>1. hw'[b] = hw[b] /\ o.entry[b] = Null
      BY <1>1, <1>2, <1>4, <2>4 DEF Placed, Live, o, B
    <3>2. Null \notin Elems(hw[b])
      BY <1>1, <2>1, NullNoId DEF TypeOK
    <3> QED BY <3>1, <3>2, <2>1, <2>2
  <2> QED BY <2>3, <2>4
<1>9. rule'[r] = Null /\ \A q \in Rules : q # r => rule'[q] = rule[q]
  BY <1>1, <1>4 DEF TypeOK
<1>10. Placed'
  <2> SUFFICES ASSUME NEW q \in Rules, rule'[q] # Null, NEW b \in Blocks
               PROVE  IF b \in BlocksOf(rule'[q].kind)
                      THEN rule'[q].entry[b] \in Elems(db'[b].ids[rule'[q].prio])
                      ELSE rule'[q].entry[b] = Null
    BY DEF Placed, Live, BlocksOf, Elems
  <2>1. q # r /\ rule'[q] = rule[q]
    BY <1>9
  <2>2. IF b \in BlocksOf(rule[q].kind)
        THEN rule[q].entry[b] \in Elems(db[b].ids[rule[q].prio])
        ELSE rule[q].entry[b] = Null
    BY <1>1, <2>1 DEF Placed, Live
  <2>3. rule[q].prio \in Prios /\ rule[q] \in RuleRecords
    BY <1>1, <2>1 DEF TypeOK, RuleRecords
  <2>4. CASE b \notin BlocksOf(rule[q].kind)
    BY <2>1, <2>2, <2>4
  <2>5. CASE b \in BlocksOf(rule[q].kind) /\ b \notin B
    BY <2>1, <2>2, <2>5, <1>4
  <2>6. CASE b \in BlocksOf(rule[q].kind) /\ b \in B
    <3>1. rule[q].entry[b] # o.entry[b]
      <4>1. o.entry[b] \in Elems(db[b].ids[o.prio])
        BY <1>1, <1>2, <2>6 DEF Placed, Live, o, B
      <4>2. o.entry[b] # Null
        <5>1. SameEntries(db[b], hw[b])
          BY <1>1 DEF DbIsHw, Consistent
        <5>2. o.entry[b] \in Elems(hw[b])
          BY <4>1, <5>1, <1>3 DEF SameEntries, Elems
        <5> QED BY <5>2, <1>1, NullNoId DEF PoolsHold, TypeOK
      <4> QED BY <4>2, <1>1, <1>2, <2>1 DEF Apart, Live, o
    <3>2. db'[b] = DbDel(db[b], o.prio, o.entry[b])
      BY <1>4, <2>6
    <3> QED BY <3>1, <3>2, <2>1, <2>2, <2>3, <2>6, <1>5
  <2> QED BY <2>4, <2>5, <2>6
<1>11. Apart'
  BY <1>1, <1>9 DEF Apart, Live
<1>12. Counting'
  <2> SUFFICES ASSUME NEW q \in Rules, rule'[q] # Null PROVE rule'[q].stats_ptr \in stats'
    BY DEF Counting, Live
  <2>1. q # r /\ rule'[q] = rule[q]
    BY <1>9
  <2> QED BY <2>1, <1>1, <1>2, <1>4 DEF Apart, Counting, Live, o
<1>13. Programmed'
  <2> SUFFICES ASSUME NEW q \in Rules, rule'[q] # Null, NEW b \in BlocksOf(rule'[q].kind)
               PROVE  chip'[rule'[q].entry[b]] =
                         [act |-> rule'[q].act, stats_ptr |-> rule'[q].stats_ptr]
    BY DEF Programmed, Live, BlocksOf, MainBlock
  <2>1. q # r /\ rule'[q] = rule[q] /\ b \in Blocks
    BY <1>9 DEF BlocksOf
  <2>2. rule[q].entry[b] \in Ids
    BY <2>1, EntryInUse
  <2>3. \A c \in Blocks : rule[q].entry[b] # o.entry[c]
    BY <1>2, <2>1, EntriesApart DEF o
  <2>4. chip'[rule[q].entry[b]] = chip[rule[q].entry[b]]
    BY <1>4, <2>2, <2>3
  <2> QED BY <2>1, <2>4, <1>1 DEF Programmed, Live
<1> QED BY <1>6, <1>7, <1>8, <1>10, <1>11, <1>12, <1>13 DEF IInv

----------------------------------------------------------------------------
(* Every step keeps the invariant.                                         *)
LEMMA NextIInv == IInv /\ [Next]_vars => IInv'
<1> SUFFICES ASSUME IInv, [Next]_vars PROVE IInv'
  OBVIOUS
<1>1. CASE UNCHANGED vars
  <2>1. TypeOK'
    BY <1>1 DEF IInv, TypeOK, vars
  <2>2. Programmed'
    BY <1>1 DEF IInv, Programmed, Live, BlocksOf, MainBlock, vars
  <2> QED BY <1>1, <2>1, <2>2, UnchangedIInv DEF vars
<1>2. CASE \E r \in Rules, k \in Kinds, et \in EtherTypes \cup {Null}, p \in Prios :
              \E a \in Actions : AddFlow(r, k, et, p, a)
  BY <1>2, AddFlowIInv
<1>3. CASE \E r \in Rules, k \in Kinds, et \in EtherTypes \cup {Null}, p \in Prios :
              \E indb, inhw \in SUBSET Blocks : AddFails(r, k, et, p, indb, inhw)
  BY <1>3, AddFailsIInv
<1>4. CASE \E r \in Rules, a \in Actions : ModifyFlow(r, a)
  BY <1>4, ModifyFlowIInv
<1>5. CASE \E r \in Rules : DelFlow(r)
  BY <1>5, DelFlowIInv
<1>6. CASE IdleTimer
  BY <1>6, IdleTimerIInv
<1> QED BY <1>1, <1>2, <1>3, <1>4, <1>5, <1>6 DEF Next

(* The inductive invariant holds in every behaviour of the flow table.     *)
THEOREM Invariance == Spec => []IInv
<1> QED BY InitIInv, NextIInv, PTL DEF Spec

(* Type correctness: no allocator of adpt_flow_add_flow is asked for       *)
(* something it does not have, and no reference count of an ether type     *)
(* falls below zero.                                                       *)
THEOREM TypeCorrect == Spec => []TypeOK
<1>1. IInv => TypeOK
  BY DEF IInv
<1> QED BY <1>1, Invariance, PTL

(* The priority database and the block of the chip never part: the entry   *)
(* that adpt_flowdb_get_prev_entry_id names is in the block, and the block *)
(* is in the order of the database.                                        *)
THEOREM DatabaseIsBlock == Spec => []DbIsHw
<1>1. IInv => DbIsHw
  BY DEF IInv
<1> QED BY <1>1, Invariance, PTL

(* A packet meets the flow of higher priority first.                       *)
THEOREM HigherFirst == Spec => []PriorityOrder
<1>1. IInv => PriorityOrder
  <2> SUFFICES ASSUME IInv, NEW r \in Rules, NEW q \in Rules, NEW b \in Blocks,
                      NEW n \in 1 .. Len(hw[b]), NEW m \in 1 .. Len(hw[b]),
                      rule[r] # Null, rule[q] # Null,
                      hw[b][n] = rule[r].entry[b], hw[b][m] = rule[q].entry[b],
                      rule[r].prio > rule[q].prio
               PROVE  n < m
    BY DEF PriorityOrder
  <2>1. hw[b] \in Seq(Ids) /\ rule[r].prio \in Prios /\ rule[q].prio \in Prios
    <3>1. rule[r] \in RuleRecords /\ rule[q] \in RuleRecords
      BY DEF IInv, TypeOK
    <3> QED BY <3>1 DEF IInv, TypeOK, RuleRecords
  <2>2. hw[b][n] # Null /\ hw[b][m] # Null
    BY <2>1, NullNoId
  <2>3. /\ rule[r].entry[b] \in Elems(db[b].ids[rule[r].prio])
        /\ rule[q].entry[b] \in Elems(db[b].ids[rule[q].prio])
    BY <2>2 DEF IInv, Placed, Live
  <2>4. PICK k \in 1 .. Len(db[b].ids[rule[r].prio]) :
             hw[b][n] = db[b].ids[rule[r].prio][k]
    BY <2>3 DEF Elems
  <2>5. PICK l \in 1 .. Len(db[b].ids[rule[q].prio]) :
             hw[b][m] = db[b].ids[rule[q].prio][l]
    BY <2>3 DEF Elems
  <2>6. SameOrder(db[b], hw[b])
    BY DEF IInv, DbIsHw, Consistent
  <2>7. \A i, j \in 1 .. Len(hw[b]) :
           /\ hw[b][i] = db[b].ids[rule[r].prio][k]
           /\ hw[b][j] = db[b].ids[rule[q].prio][l]
           => i < j
    BY <2>1, <2>6, Zenon DEF SameOrder
  <2> QED BY <2>4, <2>5, <2>7
<1> QED BY <1>1, Invariance, PTL

(* Main and extra entry of a flow do in the chip what the rule says,       *)
(* whatever was added, modified and deleted in between and failed.         *)
THEOREM ActionsApplied == Spec => []ChipFollowsRule
<1>1. IInv => ChipFollowsRule
  <2> SUFFICES ASSUME IInv, NEW r \in Rules, rule[r] # Null,
                      NEW b \in BlocksOf(rule[r].kind)
               PROVE  chip[rule[r].entry[b]].act = rule[r].act
    BY DEF ChipFollowsRule, Owns
  <2>1. chip[rule[r].entry[b]] = [act |-> rule[r].act, stats_ptr |-> rule[r].stats_ptr]
    BY DEF IInv, Programmed, Live
  <2> QED BY <2>1
<1> QED BY <1>1, Invariance, PTL

(* A failed add is undone: the error labels of adpt_flow_add_flow restore  *)
(* the database, the block, the pools, the statistics, the count and the   *)
(* references to ether types.                                              *)
THEOREM FailedAddUndone == Spec => FailureUndone
<1> DEFINE Step == rule' = rule =>
                       UNCHANGED <<db, hw, used, EtherInUse, stats, num>>
<1>1. IInv /\ [Next]_vars => [Step]_vars
  <2> SUFFICES ASSUME IInv, Next, rule' = rule
               PROVE  UNCHANGED <<db, hw, used, EtherInUse, stats, num>>
    OBVIOUS
  <2>1. ASSUME NEW r \in Rules, NEW k \in Kinds, NEW et \in EtherTypes \cup {Null},
               NEW p \in Prios, NEW a \in Actions, AddFlow(r, k, et, p, a)
        PROVE  FALSE
    <3>1. IInv'
      BY <2>1, AddFlowIInv
    <3>2. rule[r] = Null /\ rule \in [Rules -> RuleRecords \cup {Null}]
      BY <2>1 DEF AddFlow, Accepts, IInv, TypeOK
    <3>3. rule'[r] = [kind |-> k, et |-> et, prio |-> p, act |-> a,
                      entry |-> NewEntry(k), flow_id |-> NewFlowId,
                      stats_ptr |-> FirstOf(FreeStats)]
      BY <2>1, <3>2 DEF AddFlow
    <3>4. rule'[r] \in RuleRecords
      <4>1. NewEntry(k) \in [Blocks -> Ids \cup {Null}]
        BY <2>1, NewEntryType DEF IInv, AddFlow, Accepts
      <4>2. FirstOf(FreeStats) \in StatsPtrs
        <5>1. FreeStats \subseteq Nat /\ FreeStats \subseteq StatsPtrs /\ FreeStats # {}
          BY <2>1, SizeAssumption DEF FreeStats, AddFlow, Accepts
        <5> QED BY <5>1, FirstOfProps
      <4>3. NewFlowId \in FlowIds \cup {0}
        <5>1. FreeFlowIds \subseteq Nat /\ FreeFlowIds \subseteq FlowIds
          BY SizeAssumption DEF FreeFlowIds
        <5> QED BY <5>1, FirstOfProps DEF NewFlowId
      <4> QED BY <3>3, <4>1, <4>2, <4>3 DEF RuleRecords
    <3> QED BY <3>2, <3>4, NullAssumption
  <2>2. ASSUME NEW r \in Rules, NEW k \in Kinds, NEW et \in EtherTypes \cup {Null},
               NEW p \in Prios, NEW indb \in SUBSET Blocks, NEW inhw \in SUBSET Blocks,
               AddFails(r, k, et, p, indb, inhw)
        PROVE  UNCHANGED <<db, hw, used, EtherInUse, stats, num>>
    BY <2>2, AddFailsUndone
  <2>3. ASSUME NEW r \in Rules, NEW a \in Actions, ModifyFlow(r, a)
        PROVE  UNCHANGED <<db, hw, used, EtherInUse, stats, num>>
    BY <2>3, ModifyFlowStats DEF EtherInUse
  <2>4. ASSUME NEW r \in Rules, DelFlow(r) PROVE FALSE
    BY <2>4 DEF DelFlow, IInv, TypeOK
  <2>5. ASSUME IdleTimer PROVE UNCHANGED <<db, hw, used, EtherInUse, stats, num>>
    BY <2>5 DEF IdleTimer, EtherInUse
  <2> QED BY <2>1, <2>2, <2>3, <2>4, <2>5 DEF Next
<1> QED BY <1>1, Invariance, PTL DEF Spec, FailureUndone

----------------------------------------------------------------------------
(* The rule that adpt_flow_add_flow has filled in, and the others.         *)
LEMMA AddFlowRule ==
    ASSUME IInv, NEW r \in Rules, NEW k \in Kinds, NEW et \in EtherTypes \cup {Null},
           NEW p \in Prios, NEW a \in Actions, AddFlow(r, k, et, p, a)
    PROVE  /\ rule[r] = Null /\ rule'[r] # Null
           /\ rule'[r].kind = k /\ rule'[r].et = et /\ rule'[r].prio = p
           /\ rule'[r].act = a /\ rule'[r].entry = NewEntry(k)
           /\ rule'[r].flow_id = NewFlowId /\ rule'[r].stats_ptr = FirstOf(FreeStats)
           /\ \A q \in Rules : q # r => rule'[q] = rule[q]
<1>1. rule[r] = Null /\ rule \in [Rules -> RuleRecords \cup {Null}]
  BY DEF AddFlow, Accepts, IInv, TypeOK
<1>2. rule' = [rule EXCEPT ![r] =
         [kind |-> k, et |-> et, prio |-> p, act |-> a, entry |-> NewEntry(k),
          flow_id |-> NewFlowId, stats_ptr |-> FirstOf(FreeStats)]]
  BY DEF AddFlow
<1>3. rule'[r] # Null
  <2>1. IInv'
    BY AddFlowIInv
  <2>2. rule'[r] \in RuleRecords \cup {Null}
    BY <2>1 DEF IInv, TypeOK
  <2>3. NewEntry(k) \in [Blocks -> Ids \cup {Null}]
    BY NewEntryType DEF IInv, AddFlow, Accepts
  <2>4. FirstOf(FreeStats) \in StatsPtrs
    <3>1. FreeStats \subseteq Nat /\ FreeStats \subseteq StatsPtrs /\ FreeStats # {}
      BY SizeAssumption DEF FreeStats, AddFlow, Accepts
    <3> QED BY <3>1, FirstOfProps
  <2>5. NewFlowId \in FlowIds \cup {0}
    <3>1. FreeFlowIds \subseteq Nat /\ FreeFlowIds \subseteq FlowIds
      BY SizeAssumption DEF FreeFlowIds
    <3> QED BY <3>1, FirstOfProps DEF NewFlowId
  <2>6. rule'[r] \in RuleRecords
    BY <1>1, <1>2, <2>3, <2>4, <2>5 DEF RuleRecords
  <2> QED BY <2>6, NullAssumption
<1> QED BY <1>1, <1>2, <1>3

(* Nothing is in use that no rule needs: no entry id, no entry of the chip *)
(* and no statistics pointer.                                              *)
NoOrphans ==
    /\ \A b \in Blocks : \A e \in used[b] : \E r \in Rules :
          Live(r) /\ b \in BlocksOf(rule[r].kind) /\ rule[r].entry[b] = e
    /\ \A e \in Ids : chip[e] # Null => \E r \in Rules : Owns(r, e)
    /\ \A t \in stats : \E r \in Rules : Live(r) /\ rule[r].stats_ptr = t

(* Every step of the handlers leaves nothing without an owner.             *)
LEMMA NextNoOrphans == IInv /\ NoOrphans /\ [Next]_vars => NoOrphans'
<1> SUFFICES ASSUME IInv, NoOrphans, [Next]_vars PROVE NoOrphans'
  OBVIOUS
<1>0. TypeOK
  BY DEF IInv
<1>1. ASSUME UNCHANGED <<rule, used, stats>>,
             chip' \in [Ids -> ChipRecords \cup {Null}],
             \A e \in Ids : chip'[e] # Null => chip[e] # Null
      PROVE  NoOrphans'
  <2>1. \A e \in Ids : chip'[e] # Null => \E r \in Rules : Owns(r, e)'
    BY <1>1 DEF NoOrphans, Owns, BlocksOf, MainBlock
  <2> QED BY <1>1, <2>1 DEF NoOrphans, Live, BlocksOf, MainBlock
<1>2. CASE UNCHANGED vars
  BY <1>0, <1>1, <1>2 DEF vars, TypeOK
<1>3. ASSUME NEW r \in Rules, NEW k \in Kinds, NEW et \in EtherTypes \cup {Null},
             NEW p \in Prios, NEW a \in Actions, AddFlow(r, k, et, p, a)
      PROVE  NoOrphans'
  <2>1. /\ rule[r] = Null /\ rule'[r] # Null
        /\ rule'[r].kind = k /\ rule'[r].entry = NewEntry(k)
        /\ rule'[r].stats_ptr = FirstOf(FreeStats)
        /\ \A q \in Rules : q # r => rule'[q] = rule[q]
    BY <1>3, AddFlowRule
  <2>2. \A q \in Rules : Live(q) => Live(q)' /\ rule'[q] = rule[q]
    BY <2>1 DEF Live
  <2>3. /\ used' = [b \in Blocks |->
              IF b \in BlocksOf(k) THEN used[b] \cup {NewEntry(k)[b]} ELSE used[b]]
        /\ chip' = [e \in Ids |->
              IF \E b \in Blocks : e = NewEntry(k)[b]
              THEN [act |-> a, stats_ptr |-> FirstOf(FreeStats)] ELSE chip[e]]
        /\ stats' = stats \cup {FirstOf(FreeStats)}
    BY <1>3 DEF AddFlow
  <2>4. \A b \in Blocks : \A e \in used'[b] : \E q \in Rules :
           Live(q)' /\ b \in BlocksOf(rule'[q].kind) /\ rule'[q].entry[b] = e
    BY <2>1, <2>2, <2>3 DEF NoOrphans, Live
  <2>5. ASSUME NEW e \in Ids, chip'[e] # Null PROVE \E q \in Rules : Owns(q, e)'
    <3>1. CASE \E b \in Blocks : e = NewEntry(k)[b]
      <4>1. PICK b \in Blocks : e = NewEntry(k)[b]
        BY <3>1
      <4>2. b \in BlocksOf(k)
        BY <4>1, <1>0, <1>3, NewEntryType, NullNoId DEF AddFlow, Accepts
      <4> QED BY <2>1, <4>1, <4>2 DEF Owns, BlocksOf, MainBlock
    <3>2. CASE ~\E b \in Blocks : e = NewEntry(k)[b]
      <4>1. PICK q \in Rules : Owns(q, e)
        BY <2>3, <2>5, <3>2 DEF NoOrphans
      <4> QED BY <4>1, <2>2 DEF Owns, BlocksOf, MainBlock, Live
    <3> QED BY <3>1, <3>2
  <2>6. \A t \in stats' : \E q \in Rules : Live(q)' /\ rule'[q].stats_ptr = t
    BY <2>1, <2>2, <2>3 DEF NoOrphans, Live
  <2> QED BY <2>4, <2>5, <2>6 DEF NoOrphans, BlocksOf, MainBlock
<1>4. ASSUME NEW r \in Rules, NEW k \in Kinds, NEW et \in EtherTypes \cup {Null},
             NEW p \in Prios, NEW indb \in SUBSET Blocks, NEW inhw \in SUBSET Blocks,
             AddFails(r, k, et, p, indb, inhw)
      PROVE  NoOrphans'
  <2>1. UNCHANGED <<rule, used, stats>>
    BY <1>4, AddFailsUndone
  <2>2. chip' = [e \in Ids |-> IF \E b \in inhw : e = NewEntry(k)[b] THEN Null ELSE chip[e]]
    BY <1>4 DEF AddFails
  <2> QED BY <1>0, <1>1, <2>1, <2>2 DEF TypeOK
<1>5. ASSUME NEW r \in Rules, NEW a \in Actions, ModifyFlow(r, a)
      PROVE  NoOrphans'
  <2>1. /\ rule' = [rule EXCEPT ![r].act = a]
        /\ stats' = stats /\ used' = used
        /\ chip' = [e \in Ids |->
              IF \E b \in Blocks : e = rule[r].entry[b]
              THEN [act |-> a, stats_ptr |-> rule[r].stats_ptr] ELSE chip[e]]
    BY <1>5, ModifyFlowStats
  <2>2. rule[r] # Null /\ rule[r] \in RuleRecords /\ [rule[r] EXCEPT !.act = a] \in RuleRecords
    BY ZenonT(40), <1>0, <1>5 DEF ModifyFlow, TypeOK, RuleRecords
  <2>3. \A q \in Rules : Live(q) =>
           /\ Live(q)' /\ rule'[q].kind = rule[q].kind /\ rule'[q].entry = rule[q].entry
           /\ rule'[q].stats_ptr = rule[q].stats_ptr
    BY <1>0, <2>1, <2>2, NullAssumption DEF TypeOK, Live, RuleRecords
  <2>4. \A b \in Blocks : \A e \in used'[b] : \E q \in Rules :
           Live(q)' /\ b \in BlocksOf(rule'[q].kind) /\ rule'[q].entry[b] = e
    BY <2>1, <2>3 DEF NoOrphans
  <2>5. ASSUME NEW e \in Ids, chip'[e] # Null PROVE \E q \in Rules : Owns(q, e)'
    <3>1. CASE \E b \in Blocks : e = rule[r].entry[b]
      <4>1. PICK b \in Blocks : e = rule[r].entry[b]
        BY <3>1
      <4>2. b \in BlocksOf(rule[r].kind)
        BY <4>1, <2>2, EntryInUse, NullNoId
      <4> QED BY <2>2, <2>3, <4>1, <4>2 DEF Owns, BlocksOf, MainBlock, Live
    <3>2. CASE ~\E b \in Blocks : e = rule[r].entry[b]
      <4>1. PICK q \in Rules : Owns(q, e)
        BY <2>1, <2>5, <3>2 DEF NoOrphans
      <4> QED BY <4>1, <2>3 DEF Owns, BlocksOf, MainBlock, Live
    <3> QED BY <3>1, <3>2
  <2>6. \A t \in stats' : \E q \in Rules : Live(q)' /\ rule'[q].stats_ptr = t
    BY <2>1, <2>3 DEF NoOrphans
  <2> QED BY <2>4, <2>5, <2>6 DEF NoOrphans, BlocksOf, MainBlock
<1>6. ASSUME NEW r \in Rules, DelFlow(r) PROVE NoOrphans'
  <2>1. /\ rule[r] # Null
        /\ rule' = [rule EXCEPT ![r] = Null]
        /\ used' = [b \in Blocks |-> used[b] \ {rule[r].entry[b]}]
        /\ chip' = [e \in Ids |->
              IF \E b \in Blocks : e = rule[r].entry[b] THEN Null ELSE chip[e]]
        /\ stats' = stats \ {rule[r].stats_ptr}
    BY <1>6 DEF DelFlow
  <2>2. \A q \in Rules : Live(q) /\ q # r => Live(q)' /\ rule'[q] = rule[q]
    BY <1>0, <2>1 DEF TypeOK, Live
  <2>3. \A b \in Blocks : \A e \in used'[b] : \E q \in Rules :
           Live(q)' /\ b \in BlocksOf(rule'[q].kind) /\ rule'[q].entry[b] = e
    BY <2>1, <2>2 DEF NoOrphans
  <2>4. ASSUME NEW e \in Ids, chip'[e] # Null PROVE \E q \in Rules : Owns(q, e)'
    <3>1. chip[e] # Null /\ ~\E b \in Blocks : e = rule[r].entry[b]
      BY <2>1, <2>4
    <3>2. PICK q \in Rules : Owns(q, e)
      BY <3>1 DEF NoOrphans
    <3>3. q # r
      BY <3>1, <3>2 DEF Owns, BlocksOf
    <3> QED BY <3>2, <3>3, <2>2 DEF Owns, BlocksOf, MainBlock, Live
  <2>5. \A t \in stats' : \E q \in Rules : Live(q)' /\ rule'[q].stats_ptr = t
    BY <2>1, <2>2 DEF NoOrphans
  <2> QED BY <2>3, <2>4, <2>5 DEF NoOrphans, BlocksOf, MainBlock
<1>7. CASE IdleTimer
  BY <1>0, <1>1, <1>7 DEF IdleTimer, TypeOK
<1> QED BY <1>2, <1>3, <1>4, <1>5, <1>6, <1>7 DEF Next

(* In every behaviour all that is in use belongs to a rule.                *)
LEMMA Orphanless == Spec => []NoOrphans
<1>1. Init => NoOrphans
  BY DEF Init, NoOrphans
<1> QED BY <1>1, NextNoOrphans, Invariance, PTL DEF Spec

(* Blocks, pools and chip hold the entries of the installed flows and no   *)
(* other: whatever fails half-way, no entry and no id is left behind.      *)
THEOREM NothingOrphaned == Spec => []EntriesOwned
<1>1. ASSUME IInv, NoOrphans PROVE EntriesOwned
  <2> DEFINE Own(b) == {rule[r].entry[b] :
                 r \in {q \in Rules : rule[q] # Null /\ b \in BlocksOf(rule[q].kind)}}
  <2>1. ASSUME NEW b \in Blocks PROVE Elems(hw[b]) = Own(b) /\ used[b] = Own(b)
    <3>1. used[b] \subseteq Own(b)
      BY <1>1 DEF NoOrphans, Live
    <3>2. Own(b) \subseteq Elems(hw[b])
      <4> SUFFICES ASSUME NEW r \in Rules, rule[r] # Null, b \in BlocksOf(rule[r].kind)
                   PROVE  rule[r].entry[b] \in Elems(hw[b])
        OBVIOUS
      <4>1. rule[r].entry[b] \in Elems(db[b].ids[rule[r].prio])
        BY <1>1 DEF IInv, Placed, Live
      <4>2. rule[r].prio \in Prios
        BY <1>1 DEF IInv, TypeOK, RuleRecords
      <4>3. SameEntries(db[b], hw[b])
        BY <1>1 DEF IInv, DbIsHw, Consistent
      <4> QED BY <4>1, <4>2, <4>3 DEF SameEntries, Elems
    <3>3. Elems(hw[b]) \subseteq used[b]
      BY <1>1 DEF IInv, PoolsHold
    <3> QED BY <3>1, <3>2, <3>3
  <2>2. ASSUME NEW e \in Ids, NEW r \in Rules, Owns(r, e) PROVE chip[e] # Null
    <3>1. PICK b \in BlocksOf(rule[r].kind) : rule[r].entry[b] = e
      BY <2>2 DEF Owns
    <3>2. chip[e] = [act |-> rule[r].act, stats_ptr |-> rule[r].stats_ptr]
      BY <1>1, <2>2, <3>1 DEF IInv, Programmed, Live, Owns
    <3>3. rule[r] \in RuleRecords
      BY <1>1, <2>2 DEF IInv, TypeOK, Owns
    <3>4. chip[e] \in ChipRecords
      BY <3>2, <3>3 DEF RuleRecords, ChipRecords
    <3> QED BY <3>4, NullAssumption
  <2>3. \A e \in Ids : chip[e] # Null => \E r \in Rules : Owns(r, e)
    BY <1>1 DEF NoOrphans
  <2>4. \A b \in Blocks : Elems(hw[b]) = Own(b) /\ used[b] = Own(b)
    BY <2>1
  <2>5. \A e \in Ids : chip[e] # Null <=> \E r \in Rules : Owns(r, e)
    BY <2>2, <2>3
  <2> QED BY <2>4, <2>5 DEF EntriesOwned
<1> QED BY <1>1, Invariance, Orphanless, PTL

(* Each flow counts its own packets: main and extra entry count into the   *)
(* pointer of the rule, no two rules share one, and none is in use that no *)
(* rule has.                                                               *)
THEOREM CountersOwned == Spec => []StatsOwned
<1>1. ASSUME IInv, NoOrphans PROVE StatsOwned
  <2>1. ASSUME NEW r \in Rules, NEW e \in Ids, Owns(r, e)
        PROVE  chip[e].stats_ptr = rule[r].stats_ptr
    <3>1. PICK b \in BlocksOf(rule[r].kind) : rule[r].entry[b] = e
      BY <2>1 DEF Owns
    <3>2. chip[e] = [act |-> rule[r].act, stats_ptr |-> rule[r].stats_ptr]
      BY <1>1, <2>1, <3>1 DEF IInv, Programmed, Live, Owns
    <3> QED BY <3>2
  <2>2. \A r, q \in Rules :
           rule[r] # Null /\ rule[q] # Null /\ rule[r].stats_ptr = rule[q].stats_ptr => r = q
    BY <1>1 DEF IInv, Apart, Live
  <2>3. stats = {rule[r].stats_ptr : r \in {q \in Rules : rule[q] # Null}}
    BY <1>1 DEF IInv, Counting, NoOrphans, Live
  <2> QED BY <2>1, <2>2, <2>3 DEF StatsOwned
<1> QED BY <1>1, Invariance, Orphanless, PTL

----------------------------------------------------------------------------
(* Flow information is not Null.                                           *)
LEMMA NullNoInfo ==
    ASSUME NEW r \in Rules, NEW d \in BOOLEAN
    PROVE  [rule |-> r, need_delete |-> d] # Null
<1>1. [rule |-> r, need_delete |-> d] \in InfoRecords
  BY DEF InfoRecords
<1> QED BY <1>1, NullAssumption

(* A flow id that adpt_flow_add_flow_timer hands out is free.              *)
LEMMA NewFlowIdProps == NewFlowId = 0 \/ (NewFlowId \in FlowIds /\ info[NewFlowId] = Null)
<1>1. FreeFlowIds \subseteq Nat
  BY SizeAssumption DEF FreeFlowIds
<1>2. FreeFlowIds # {} => FirstOf(FreeFlowIds) \in FreeFlowIds
  BY <1>1, FirstOfProps
<1> QED BY <1>2 DEF NewFlowId, FreeFlowIds

(* What the timer and the packet-in path find under a flow id is an        *)
(* installed rule, and the rule's flow id leads back to it, for as long as *)
(* the information is not marked: ids may be freed late, never early.      *)
THEOREM FlowIdsLive == Spec => []InfoLive
<1>1. Init => InfoLive
  BY DEF Init, InfoLive
<1>2. ASSUME IInv, InfoLive, [Next]_vars PROVE InfoLive'
  <2>0. TypeOK /\ 0 \notin FlowIds
    BY <1>2, SizeAssumption DEF IInv
  <2>1. CASE UNCHANGED vars
    BY <1>2, <2>1 DEF vars, InfoLive
  <2>2. ASSUME NEW r \in Rules, NEW k \in Kinds, NEW et \in EtherTypes \cup {Null},
               NEW p \in Prios, NEW a \in Actions, AddFlow(r, k, et, p, a)
        PROVE  InfoLive'
    <3>1. /\ rule[r] = Null /\ rule'[r] # Null /\ rule'[r].flow_id = NewFlowId
          /\ \A q \in Rules : q # r => rule'[q] = rule[q]
      BY <1>2, <2>2, AddFlowRule
    <3>2. info' = IF NewFlowId = 0 THEN info
                  ELSE [info EXCEPT ![NewFlowId] = [rule |-> r, need_delete |-> FALSE]]
      BY <2>2 DEF AddFlow, TimerAdd
    <3> DEFINE f == NewFlowId
    <3> HIDE DEF f
    <3>3. f = 0 \/ (f \in FlowIds /\ info[f] = Null)
      BY NewFlowIdProps DEF f
    <3>4. info \in [FlowIds -> InfoRecords \cup {Null}]
          /\ \A q \in Rules : rule[q] # Null => rule[q].flow_id \in FlowIds \cup {0}
      BY <2>0 DEF TypeOK, RuleRecords
    <3>5. \A g \in FlowIds : info[g] # Null => info[g] \in InfoRecords /\ info[g].rule \in Rules
      BY <3>4 DEF InfoRecords
    <3>6. CASE f = 0
      BY <1>2, <2>0, <3>1, <3>2, <3>4, <3>5, <3>6 DEF InfoLive, f
    <3>7. CASE f # 0
      <4>1. /\ f \in FlowIds /\ info[f] = Null
            /\ info'[f] = [rule |-> r, need_delete |-> FALSE]
            /\ \A g \in FlowIds : g # f => info'[g] = info[g]
        BY <3>2, <3>3, <3>4, <3>7 DEF f
      <4>2. \A q \in Rules : rule[q] # Null => rule[q].flow_id # f
        <5> SUFFICES ASSUME NEW q \in Rules, rule[q] # Null, rule[q].flow_id = f PROVE FALSE
          OBVIOUS
        <5>1. info[f] = [rule |-> q, need_delete |-> FALSE]
          BY <1>2, <3>7 DEF InfoLive
        <5> QED BY <4>1, <5>1, NullNoInfo
      <4>3. ASSUME NEW g \in FlowIds, info'[g] # Null, ~info'[g].need_delete
            PROVE  rule'[info'[g].rule] # Null /\ rule'[info'[g].rule].flow_id = g
        <5>1. CASE g = f
          BY <3>1, <4>1, <5>1 DEF f
        <5>2. CASE g # f
          BY <1>2, <3>1, <3>5, <4>1, <4>3, <5>2 DEF InfoLive
        <5> QED BY <5>1, <5>2
      <4>4. ASSUME NEW q \in Rules, rule'[q] # Null, rule'[q].flow_id # 0
            PROVE  info'[rule'[q].flow_id] = [rule |-> q, need_delete |-> FALSE]
        <5>1. CASE q = r
          BY <3>1, <4>1, <5>1 DEF f
        <5>2. CASE q # r
          BY <1>2, <3>1, <3>4, <4>1, <4>2, <4>4, <5>2 DEF InfoLive
        <5> QED BY <5>1, <5>2
      <4> QED BY <4>3, <4>4 DEF InfoLive
    <3> QED BY <3>6, <3>7
  <2>3. ASSUME NEW r \in Rules, NEW k \in Kinds, NEW et \in EtherTypes \cup {Null},
               NEW p \in Prios, NEW indb \in SUBSET Blocks, NEW inhw \in SUBSET Blocks,
               AddFails(r, k, et, p, indb, inhw)
        PROVE  InfoLive'
    <3>1. rule' = rule
      BY <2>3 DEF AddFails
    <3>2. info' = IF NewFlowId = 0 THEN info
                  ELSE [info EXCEPT ![NewFlowId] = [rule |-> r, need_delete |-> TRUE]]
      BY <2>3 DEF AddFails, TimerAdd
    <3> DEFINE f == NewFlowId
    <3> HIDE DEF f
    <3>3. f = 0 \/ (f \in FlowIds /\ info[f] = Null)
      BY NewFlowIdProps DEF f
    <3>4. info \in [FlowIds -> InfoRecords \cup {Null}]
          /\ \A q \in Rules : rule[q] # Null => rule[q].flow_id \in FlowIds \cup {0}
      BY <2>0 DEF TypeOK, RuleRecords
    <3>5. CASE f = 0
      BY <1>2, <3>1, <3>2, <3>5 DEF InfoLive, f
    <3>6. CASE f # 0
      <4>1. /\ f \in FlowIds /\ info[f] = Null
            /\ info'[f] = [rule |-> r, need_delete |-> TRUE]
            /\ \A g \in FlowIds : g # f => info'[g] = info[g]
        BY <3>2, <3>3, <3>4, <3>6 DEF f
      <4>2. \A q \in Rules : rule[q] # Null => rule[q].flow_id # f
        <5> SUFFICES ASSUME NEW q \in Rules, rule[q] # Null, rule[q].flow_id = f PROVE FALSE
          OBVIOUS
        <5>1. info[f] = [rule |-> q, need_delete |-> FALSE]
          BY <1>2, <3>6 DEF InfoLive
        <5> QED BY <4>1, <5>1, NullNoInfo
      <4> QED BY <1>2, <3>1, <3>4, <4>1, <4>2 DEF InfoLive
    <3> QED BY <3>5, <3>6
  <2>4. ASSUME NEW r \in Rules, NEW a \in Actions, ModifyFlow(r, a) PROVE InfoLive'
    <3>1. rule' = [rule EXCEPT ![r].act = a] /\ info' = info
      BY <1>2, <2>4, ModifyFlowStats
    <3>2. rule[r] # Null /\ rule[r] \in RuleRecords /\ [rule[r] EXCEPT !.act = a] \in RuleRecords
      <4>1. rule[r] # Null /\ rule[r] \in RuleRecords
        BY <2>0, <2>4 DEF ModifyFlow, TypeOK
      <4> QED BY <4>1 DEF RuleRecords
    <3>3. \A q \in Rules : (rule'[q] # Null <=> rule[q] # Null)
             /\ (rule[q] # Null => rule'[q].flow_id = rule[q].flow_id)
      BY <2>0, <3>1, <3>2, NullAssumption DEF TypeOK, RuleRecords
    <3>4. \A f \in FlowIds : info[f] # Null => info[f].rule \in Rules
      BY <2>0 DEF TypeOK, InfoRecords
    <3> QED BY <1>2, <3>1, <3>3, <3>4 DEF InfoLive
  <2>5. ASSUME NEW r \in Rules, DelFlow(r) PROVE InfoLive'
    <3>1. /\ rule[r] # Null /\ rule'[r] = Null
          /\ \A q \in Rules : q # r => rule'[q] = rule[q]
      BY <2>0, <2>5 DEF DelFlow, TypeOK
    <3> DEFINE f == rule[r].flow_id
    <3>2. info' = IF f \in FlowIds /\ info[f] # Null
                  THEN [info EXCEPT ![f].need_delete = TRUE] ELSE info
      BY <2>5 DEF DelFlow, TimerDel
    <3>3. f \in FlowIds \cup {0}
      BY <2>0, <3>1 DEF TypeOK, RuleRecords
    <3>4. f # 0 => info[f] = [rule |-> r, need_delete |-> FALSE]
      BY <1>2, <3>1 DEF InfoLive
    <3> HIDE DEF f
    <3>5. info \in [FlowIds -> InfoRecords \cup {Null}]
          /\ \A q \in Rules : rule[q] # Null => rule[q].flow_id \in FlowIds \cup {0}
      BY <2>0 DEF TypeOK, RuleRecords
    <3>6. \A g \in FlowIds : g # f => info'[g] = info[g]
      BY <3>2, <3>5
    <3>7. f \in FlowIds => info'[f].need_delete
      <4>1. f \in FlowIds => info[f] # Null
        BY <2>0, <3>4, NullNoInfo
      <4> QED BY <4>1, <3>2, <3>4, <3>5, <2>0
    <3>8. \A q \in Rules : rule[q] # Null /\ q # r /\ rule[q].flow_id # 0 => rule[q].flow_id # f
      <4> SUFFICES ASSUME NEW q \in Rules, rule[q] # Null, q # r, rule[q].flow_id # 0,
                          rule[q].flow_id = f
                   PROVE  FALSE
        OBVIOUS
      <4>1. info[f] = [rule |-> q, need_delete |-> FALSE]
        BY <1>2 DEF InfoLive
      <4> QED BY <4>1, <3>4
    <3>9. ASSUME NEW g \in FlowIds, info'[g] # Null, ~info'[g].need_delete
          PROVE  rule'[info'[g].rule] # Null /\ rule'[info'[g].rule].flow_id = g
      <4>1. g # f /\ info'[g] = info[g]
        BY <3>6, <3>7, <3>9
      <4>2. rule[info[g].rule] # Null /\ rule[info[g].rule].flow_id = g /\ info[g].rule \in Rules
        BY <1>2, <3>5, <3>9, <4>1 DEF InfoLive, InfoRecords
      <4> QED BY <4>1, <4>2, <3>1 DEF f
    <3>10. ASSUME NEW q \in Rules, rule'[q] # Null, rule'[q].flow_id # 0
           PROVE  info'[rule'[q].flow_id] = [rule |-> q, need_delete |-> FALSE]
      BY <1>2, <3>1, <3>5, <3>6, <3>8, <3>10 DEF InfoLive
    <3> QED BY <3>9, <3>10 DEF InfoLive
  <2>6. CASE IdleTimer
    <3>1. rule' = rule
          /\ info' = [f \in FlowIds |->
                IF info[f] # Null THEN IF info[f].need_delete THEN Null ELSE info[f] ELSE Null]
      BY <2>6 DEF IdleTimer
    <3>2. \A q \in Rules : rule[q] # Null => rule[q].flow_id \in FlowIds \cup {0}
      BY <2>0 DEF TypeOK, RuleRecords
    <3>3. \A q \in Rules : Null # [rule |-> q, need_delete |-> FALSE]
      BY NullNoInfo
    <3> QED BY <1>2, <3>1, <3>2, <3>3 DEF InfoLive
  <2> QED BY <1>2, <2>1, <2>2, <2>3, <2>4, <2>5, <2>6 DEF Next
<1> QED BY <1>1, <1>2, Invariance, PTL DEF Spec

----------------------------------------------------------------------------
(* The ether type table m holds n[et] references of every ether type, all  *)
(* in one slot, and the parser knows the types that have any.              *)
RefsAre(m, n) ==
    /\ \A et \in EtherTypes :
          IF n[et] = 0 THEN SlotsOf(m, et) = {}
          ELSE \E s \in Slots : SlotsOf(m, et) = {s} /\ m[s].ref = n[et]
    /\ \A s \in Slots : m[s].parser = IF m[s].ref > 0 THEN m[s].et ELSE Null

(* adpt_flowdb_insert_map_ether_type_l3_type counts one more.              *)
LEMMA EtherAddRefs ==
    ASSUME NEW m \in [Slots -> EtherRecords], NEW n \in [EtherTypes -> Nat],
           NEW et \in EtherTypes, RefsAre(m, n), SlotsOf(m, et) # {} \/ FreeSlots(m) # {}
    PROVE  RefsAre(EtherAdd(m, et), [n EXCEPT ![et] = @ + 1])
<1> DEFINE w == EtherAdd(m, et)
           c == [n EXCEPT ![et] = @ + 1]
<1>1. Slots \subseteq Nat /\ FreeSlots(m) \subseteq Slots
      /\ \A s \in Slots : m[s].ref \in Nat /\ m[s].et \in EtherTypes \cup {Null}
  BY SizeAssumption DEF Slots, FreeSlots, EtherRecords
<1>2. c[et] = n[et] + 1 /\ \A x \in EtherTypes : x # et => c[x] = n[x]
  OBVIOUS
<1>3. CASE SlotsOf(m, et) # {}
  <2>1. PICK s \in Slots : SlotsOf(m, et) = {s} /\ m[s].ref = n[et]
    BY <1>3 DEF RefsAre
  <2>2. m[s].et = et /\ m[s].ref > 0
    BY <2>1 DEF SlotsOf
  <2>3. FirstOf(SlotsOf(m, et)) = s
    BY <2>1, <1>1, FirstOfProps
  <2>4. w = [m EXCEPT ![s].ref = @ + 1]
    BY <1>3, <2>3 DEF EtherAdd
  <2>5. /\ w[s].ref = m[s].ref + 1 /\ w[s].et = et /\ w[s].parser = m[s].parser
        /\ \A z \in Slots : z # s => w[z] = m[z]
    BY <2>2, <2>4 DEF EtherRecords
  <2> HIDE DEF w, c
  <2>6. \A x \in EtherTypes : SlotsOf(w, x) = SlotsOf(m, x)
    <3>1. \A z \in Slots : w[z].et = m[z].et /\ (w[z].ref > 0 <=> m[z].ref > 0)
      BY <2>2, <2>5, <1>1
    <3> QED BY <3>1 DEF SlotsOf
  <2>7. \A x \in EtherTypes : IF c[x] = 0 THEN SlotsOf(w, x) = {}
           ELSE \E z \in Slots : SlotsOf(w, x) = {z} /\ w[z].ref = c[x]
    <3> SUFFICES ASSUME NEW x \in EtherTypes
                 PROVE  IF c[x] = 0 THEN SlotsOf(w, x) = {}
                        ELSE \E z \in Slots : SlotsOf(w, x) = {z} /\ w[z].ref = c[x]
      OBVIOUS
    <3>1. CASE x = et
      BY <3>1, <1>2, <2>1, <2>5, <2>6
    <3>2. CASE x # et
      <4>1. s \notin SlotsOf(m, x)
        BY <2>2, <3>2 DEF SlotsOf
      <4> QED BY <3>2, <4>1, <1>2, <2>5, <2>6 DEF RefsAre
    <3> QED BY <3>1, <3>2
  <2>8. \A z \in Slots : w[z].parser = IF w[z].ref > 0 THEN w[z].et ELSE Null
    BY <2>2, <2>5, <1>1 DEF RefsAre
  <2> QED BY <2>7, <2>8 DEF RefsAre, w, c
<1>4. CASE SlotsOf(m, et) = {}
  <2> DEFINE s == FirstOf(FreeSlots(m))
  <2>1. s \in FreeSlots(m)
    BY <1>1, <1>4, FirstOfProps
  <2>2. s \in Slots /\ m[s].ref = 0 /\ n[et] = 0
    BY <2>1, <1>4 DEF FreeSlots, RefsAre
  <2>3. w = [m EXCEPT ![s] = [et |-> et, ref |-> 1, parser |-> et]]
    BY <1>4 DEF EtherAdd
  <2> HIDE DEF s
  <2>4. /\ w[s] = [et |-> et, ref |-> 1, parser |-> et]
        /\ \A z \in Slots : z # s => w[z] = m[z]
    BY <2>2, <2>3
  <2> HIDE DEF w, c
  <2>5. SlotsOf(w, et) = {s}
    BY <2>2, <2>4, <1>4 DEF SlotsOf
  <2>6. \A x \in EtherTypes : x # et => SlotsOf(w, x) = SlotsOf(m, x) /\ s \notin SlotsOf(m, x)
    BY <2>2, <2>4 DEF SlotsOf
  <2>7. \A x \in EtherTypes : IF c[x] = 0 THEN SlotsOf(w, x) = {}
           ELSE \E z \in Slots : SlotsOf(w, x) = {z} /\ w[z].ref = c[x]
    <3> SUFFICES ASSUME NEW x \in EtherTypes
                 PROVE  IF c[x] = 0 THEN SlotsOf(w, x) = {}
                        ELSE \E z \in Slots : SlotsOf(w, x) = {z} /\ w[z].ref = c[x]
      OBVIOUS
    <3>1. CASE x = et
      BY <3>1, <1>2, <2>2, <2>4, <2>5
    <3>2. CASE x # et
      BY <3>2, <1>2, <2>4, <2>6 DEF RefsAre
    <3> QED BY <3>1, <3>2
  <2>8. \A z \in Slots : w[z].parser = IF w[z].ref > 0 THEN w[z].et ELSE Null
    BY <2>4 DEF RefsAre
  <2> QED BY <2>7, <2>8 DEF RefsAre, w, c
<1> QED BY <1>3, <1>4

(* adpt_flowdb_remove_map_ether_type_l3_type counts one less.              *)
LEMMA EtherDelRefs ==
    ASSUME NEW m \in [Slots -> EtherRecords], NEW n \in [EtherTypes -> Nat],
           NEW et \in EtherTypes, RefsAre(m, n), n[et] > 0
    PROVE  RefsAre(EtherDel(m, et), [n EXCEPT ![et] = @ - 1])
<1> DEFINE w == EtherDel(m, et)
           c == [n EXCEPT ![et] = @ - 1]
<1>1. Slots \subseteq Nat
      /\ \A s \in Slots : m[s].ref \in Nat /\ m[s].et \in EtherTypes \cup {Null}
  BY SizeAssumption DEF Slots, EtherRecords
<1>2. c[et] = n[et] - 1 /\ \A x \in EtherTypes : x # et => c[x] = n[x]
  OBVIOUS
<1>3. PICK s \in Slots : SlotsOf(m, et) = {s} /\ m[s].ref = n[et]
  BY DEF RefsAre
<1>4. m[s].et = et /\ m[s].ref > 0
  BY <1>3 DEF SlotsOf
<1>5. FirstOf(SlotsOf(m, et)) = s
  BY <1>3, <1>1, FirstOfProps
<1>6. w = [m EXCEPT ![s] = [et |-> et, ref |-> m[s].ref - 1,
                            parser |-> IF m[s].ref = 1 THEN Null ELSE m[s].parser]]
  BY <1>3, <1>5 DEF EtherDel
<1>7. /\ w[s].ref = m[s].ref - 1 /\ w[s].et = et
      /\ w[s].parser = IF m[s].ref = 1 THEN Null ELSE m[s].parser
      /\ \A z \in Slots : z # s => w[z] = m[z]
  BY <1>6
<1> HIDE DEF w, c
<1>8. SlotsOf(w, et) = IF m[s].ref = 1 THEN {} ELSE {s}
  BY <1>1, <1>3, <1>4, <1>7 DEF SlotsOf
<1>9. \A x \in EtherTypes : x # et => SlotsOf(w, x) = SlotsOf(m, x) /\ s \notin SlotsOf(m, x)
  BY <1>4, <1>7 DEF SlotsOf
<1>10. \A x \in EtherTypes : IF c[x] = 0 THEN SlotsOf(w, x) = {}
          ELSE \E z \in Slots : SlotsOf(w, x) = {z} /\ w[z].ref = c[x]
  <2> SUFFICES ASSUME NEW x \in EtherTypes
               PROVE  IF c[x] = 0 THEN SlotsOf(w, x) = {}
                      ELSE \E z \in Slots : SlotsOf(w, x) = {z} /\ w[z].ref = c[x]
    OBVIOUS
  <2>1. CASE x = et
    BY <2>1, <1>1, <1>2, <1>3, <1>7, <1>8
  <2>2. CASE x # et
    BY <2>2, <1>2, <1>7, <1>9 DEF RefsAre
  <2> QED BY <2>1, <2>2
<1>11. \A z \in Slots : w[z].parser = IF w[z].ref > 0 THEN w[z].et ELSE Null
  BY <1>1, <1>4, <1>7 DEF RefsAre
<1> QED BY <1>10, <1>11 DEF RefsAre, w, c

(* The flows of an ether type, and how many there are.                     *)
FlowsOf(et) == {r \in Rules : rule[r] # Null /\ rule[r].et = et}
FlowCount == [et \in EtherTypes |-> Cardinality(FlowsOf(et))]

(* EtherRefs with what it needs: the flows are finitely many, and only     *)
(* those of FLOW_TYPE_OTHER have an ether type.                            *)
EtherInv ==
    /\ \A et \in EtherTypes : IsFiniteSet(FlowsOf(et))
    /\ \A r \in Rules : Live(r) => Match(rule[r].kind, rule[r].et)
    /\ RefsAre(etmap, FlowCount)

(* The ether types of the flows and the table are the same after a step    *)
(* that leaves both alone.                                                 *)
LEMMA EtherUnchanged ==
    ASSUME EtherInv, NEW n \in [EtherTypes -> Nat], RefsAre(etmap', n),
           n = FlowCount,
           \A r \in Rules : /\ rule'[r] # Null <=> rule[r] # Null
                            /\ rule[r] # Null => rule'[r].et = rule[r].et
                                                 /\ rule'[r].kind = rule[r].kind
    PROVE  EtherInv'
<1>1. \A et \in EtherTypes : FlowsOf(et)' = FlowsOf(et)
  BY DEF FlowsOf
<1>2. FlowCount' = FlowCount
  BY <1>1 DEF FlowCount
<1>3. RefsAre(etmap, FlowCount)'
  BY <1>2 DEF RefsAre, SlotsOf
<1> QED BY <1>1, <1>3 DEF EtherInv, Match, Live

(* Every step keeps the counts exact.                                      *)
LEMMA NextEtherInv == IInv /\ EtherInv /\ [Next]_vars => EtherInv'
<1> SUFFICES ASSUME IInv, EtherInv, [Next]_vars PROVE EtherInv'
  OBVIOUS
<1>1. TypeOK /\ etmap \in [Slots -> EtherRecords] /\ RefsAre(etmap, FlowCount)
  BY DEF IInv, TypeOK, EtherInv
<1>2. FlowCount \in [EtherTypes -> Nat]
  BY FS_CardinalityType DEF FlowCount, EtherInv
<1>3. Null \notin EtherTypes
  BY SizeAssumption
<1>4. CASE UNCHANGED vars
  BY <1>1, <1>2, <1>4, EtherUnchanged DEF vars
<1>5. ASSUME NEW r \in Rules, NEW k \in Kinds, NEW et \in EtherTypes \cup {Null},
             NEW p \in Prios, NEW a \in Actions, AddFlow(r, k, et, p, a)
      PROVE  EtherInv'
  <2>1. /\ rule[r] = Null /\ rule'[r] # Null /\ rule'[r].kind = k /\ rule'[r].et = et
        /\ \A q \in Rules : q # r => rule'[q] = rule[q]
    BY <1>5, AddFlowRule
  <2>2. Match(k, et) /\ KeyFits(k, et) /\ etmap' = KeyAdd(etmap, k, et)
    BY <1>5 DEF AddFlow, Accepts
  <2>3. \A x \in EtherTypes : FlowsOf(x)' = IF x = et THEN FlowsOf(x) \cup {r} ELSE FlowsOf(x)
    BY <2>1 DEF FlowsOf
  <2>4. \A x \in EtherTypes : IsFiniteSet(FlowsOf(x)')
    BY <2>3, FS_AddElement DEF EtherInv
  <2>5. \A q \in Rules : Live(q)' => Match(rule'[q].kind, rule'[q].et)
    BY <2>1, <2>2 DEF EtherInv, Live
  <2>6. RefsAre(etmap', FlowCount')
    <3>1. CASE k # "OTHER"
      <4>1. et \notin EtherTypes /\ etmap' = etmap
        BY <3>1, <2>2, <1>3 DEF Match, KeyAdd
      <4>2. FlowCount' = FlowCount
        BY <2>3, <4>1 DEF FlowCount
      <4> QED BY <1>1, <4>1, <4>2
    <3>2. CASE k = "OTHER"
      <4>1. et \in EtherTypes /\ etmap' = EtherAdd(etmap, et)
            /\ (SlotsOf(etmap, et) # {} \/ FreeSlots(etmap) # {})
        BY <3>2, <2>2 DEF Match, KeyAdd, KeyFits
      <4>2. r \notin FlowsOf(et)
        BY <2>1 DEF FlowsOf
      <4>3. Cardinality(FlowsOf(et) \cup {r}) = Cardinality(FlowsOf(et)) + 1
        BY <4>1, <4>2, FS_AddElement DEF EtherInv
      <4>4. FlowCount' = [FlowCount EXCEPT ![et] = @ + 1]
        BY <2>3, <4>1, <4>3 DEF FlowCount
      <4> QED BY <1>1, <1>2, <4>1, <4>4, EtherAddRefs
    <3> QED BY <3>1, <3>2
  <2> QED BY <2>4, <2>5, <2>6 DEF EtherInv, Match, RefsAre, SlotsOf
<1>6. ASSUME NEW r \in Rules, NEW k \in Kinds, NEW et \in EtherTypes \cup {Null},
             NEW p \in Prios, NEW indb \in SUBSET Blocks, NEW inhw \in SUBSET Blocks,
             AddFails(r, k, et, p, indb, inhw)
      PROVE  EtherInv'
  <2>1. rule' = rule /\ Match(k, et) /\ KeyFits(k, et)
        /\ etmap' = KeyDel(KeyAdd(etmap, k, et), k, et)
    BY <1>6 DEF AddFails, FailPoint
  <2>2. RefsAre(etmap', FlowCount)
    <3>1. CASE k # "OTHER"
      BY <1>1, <2>1, <3>1 DEF KeyAdd, KeyDel
    <3>2. CASE k = "OTHER"
      <4> DEFINE n == [FlowCount EXCEPT ![et] = @ + 1]
                 m == EtherAdd(etmap, et)
      <4>1. et \in EtherTypes /\ etmap' = EtherDel(m, et)
            /\ (SlotsOf(etmap, et) # {} \/ FreeSlots(etmap) # {})
        BY <3>2, <2>1 DEF Match, KeyAdd, KeyDel, KeyFits
      <4>2. m \in [Slots -> EtherRecords] /\ RefsAre(m, n)
        BY <4>1, <1>1, <1>2, EtherAddRefs, EtherTypeOK
      <4>3. n \in [EtherTypes -> Nat] /\ n[et] > 0 /\ [n EXCEPT ![et] = @ - 1] = FlowCount
        <5> DEFINE c == FlowCount
        <5>1. c \in [EtherTypes -> Nat]
          BY <1>2
        <5> HIDE DEF c
        <5>2. [c EXCEPT ![et] = @ + 1] \in [EtherTypes -> Nat]
              /\ [c EXCEPT ![et] = @ + 1][et] = c[et] + 1
          BY <5>1, <4>1
        <5>3. [[c EXCEPT ![et] = @ + 1] EXCEPT ![et] = @ - 1] = c
          <6>1. [[c EXCEPT ![et] = @ + 1] EXCEPT ![et] = @ - 1] = [c EXCEPT ![et] = c[et]]
            BY <5>1, <5>2, <4>1
          <6> QED BY <6>1, <5>1, <4>1
        <5>4. [c EXCEPT ![et] = @ + 1][et] > 0
          BY <5>1, <5>2, <4>1
        <5> QED BY <5>2, <5>3, <5>4 DEF c, n
      <4> HIDE DEF m, n
      <4>4. RefsAre(EtherDel(m, et), [n EXCEPT ![et] = @ - 1])
        BY <4>1, <4>2, <4>3, EtherDelRefs
      <4> QED BY <4>1, <4>3, <4>4
    <3> QED BY <3>1, <3>2
  <2> QED BY <1>2, <2>1, <2>2, EtherUnchanged
<1>7. ASSUME NEW r \in Rules, NEW a \in Actions, ModifyFlow(r, a) PROVE EtherInv'
  <2>1. rule' = [rule EXCEPT ![r].act = a] /\ etmap' = etmap
    BY <1>7, ModifyFlowStats
  <2>2. rule[r] # Null /\ rule[r] \in RuleRecords
    BY <1>1, <1>7 DEF ModifyFlow, TypeOK
  <2>3. [rule[r] EXCEPT !.act = a] # Null
    <3>1. [rule[r] EXCEPT !.act = a] \in RuleRecords
      BY <2>2 DEF RuleRecords
    <3> QED BY <3>1, NullAssumption
  <2>4. \A q \in Rules : /\ rule'[q] # Null <=> rule[q] # Null
                         /\ rule[q] # Null => rule'[q].et = rule[q].et
                                              /\ rule'[q].kind = rule[q].kind
    BY <1>1, <2>1, <2>2, <2>3 DEF TypeOK, RuleRecords
  <2> QED BY <1>1, <1>2, <2>1, <2>4, EtherUnchanged
<1>8. ASSUME NEW r \in Rules, DelFlow(r) PROVE EtherInv'
  <2> DEFINE k == rule[r].kind
             et == rule[r].et
  <2>1. /\ rule[r] # Null /\ rule'[r] = Null
        /\ \A q \in Rules : q # r => rule'[q] = rule[q]
    BY <1>1, <1>8 DEF DelFlow, TypeOK
  <2>2. etmap' = KeyDel(etmap, k, et) /\ Match(k, et)
    BY <1>8, <2>1 DEF DelFlow, EtherInv, Live
  <2>3. \A x \in EtherTypes : FlowsOf(x)' = IF x = et THEN FlowsOf(x) \ {r} ELSE FlowsOf(x)
    BY <2>1 DEF FlowsOf
  <2>4. \A x \in EtherTypes : IsFiniteSet(FlowsOf(x)')
    BY <2>3, FS_RemoveElement DEF EtherInv
  <2>5. \A q \in Rules : Live(q)' => Match(rule'[q].kind, rule'[q].et)
    BY <2>1 DEF EtherInv, Live
  <2>6. r \in FlowsOf(et)
    BY <2>1 DEF FlowsOf
  <2> HIDE DEF k, et
  <2>7. RefsAre(etmap', FlowCount')
    <3>1. CASE k # "OTHER"
      <4>1. et \notin EtherTypes /\ etmap' = etmap
        BY <3>1, <2>2, <1>3 DEF Match, KeyDel
      <4>2. FlowCount' = FlowCount
        BY <2>3, <4>1 DEF FlowCount
      <4> QED BY <1>1, <4>1, <4>2
    <3>2. CASE k = "OTHER"
      <4>1. et \in EtherTypes /\ etmap' = EtherDel(etmap, et)
        BY <3>2, <2>2 DEF Match, KeyDel
      <4>2. Cardinality(FlowsOf(et) \ {r}) = Cardinality(FlowsOf(et)) - 1
            /\ IsFiniteSet(FlowsOf(et))
        BY <4>1, <2>6, FS_RemoveElement DEF EtherInv
      <4>3. FlowCount[et] > 0
        <5>1. Cardinality(FlowsOf(et)) # 0
          BY <4>2, <2>6, FS_EmptySet
        <5> QED BY <5>1, <4>1, <1>2 DEF FlowCount
      <4>4. FlowCount' = [FlowCount EXCEPT ![et] = @ - 1]
        BY <2>3, <4>1, <4>2 DEF FlowCount
      <4> QED BY <1>1, <1>2, <4>1, <4>3, <4>4, EtherDelRefs
    <3> QED BY <3>1, <3>2
  <2> QED BY <2>4, <2>5, <2>7 DEF EtherInv, Match, RefsAre, SlotsOf
<1>9. CASE IdleTimer
  BY <1>1, <1>2, <1>9, EtherUnchanged DEF IdleTimer
<1> QED BY <1>4, <1>5, <1>6, <1>7, <1>8, <1>9 DEF Next

(* The references to ether types are the flows that match them: the parser *)
(* of the chip knows a type exactly as long as a flow needs it, also after *)
(* adds that failed.                                                       *)
THEOREM EtherTypesExact == Spec => []EtherRefs
<1>1. Init => EtherInv
  <2> SUFFICES ASSUME Init PROVE EtherInv
    OBVIOUS
  <2>1. \A et \in EtherTypes : FlowsOf(et) = {}
    BY DEF Init, FlowsOf
  <2>2. \A et \in EtherTypes : IsFiniteSet(FlowsOf(et)) /\ FlowCount[et] = 0
    BY <2>1, FS_EmptySet DEF FlowCount
  <2>3. RefsAre(etmap, FlowCount)
    BY <2>2 DEF Init, RefsAre, SlotsOf
  <2> QED BY <2>2, <2>3 DEF EtherInv, Init, Live
<1>2. ASSUME EtherInv PROVE EtherRefs
  <2>1. ASSUME NEW et \in EtherTypes
        PROVE  \/ FlowsOf(et) = {} /\ SlotsOf(etmap, et) = {}
               \/ \E s \in Slots : SlotsOf(etmap, et) = {s}
                                /\ etmap[s].ref = Cardinality(FlowsOf(et))
    <3>1. IsFiniteSet(FlowsOf(et)) /\ FlowCount[et] = Cardinality(FlowsOf(et))
      BY <1>2 DEF EtherInv, FlowCount
    <3>2. Cardinality(FlowsOf(et)) = 0 <=> FlowsOf(et) = {}
      BY <3>1, FS_EmptySet
    <3> QED BY <1>2, <3>1, <3>2 DEF EtherInv, RefsAre
  <2>2. \A s \in Slots : etmap[s].parser = IF etmap[s].ref > 0 THEN etmap[s].et ELSE Null
    BY <1>2 DEF EtherInv, RefsAre
  <2> QED BY <2>1, <2>2 DEF EtherRefs, FlowsOf
<1> QED BY <1>1, <1>2, NextEtherInv, Invariance, PTL DEF Spec

----------------------------------------------------------------------------
(* The flow table implements LookupTable.                                  *)

(* What packets see of an installed rule.                                  *)
FlowOf(r) == [rule |-> r, prio |-> rule[r].prio, act |-> rule[r].act]
HasEntry(r, b, e) == Live(r) /\ b \in BlocksOf(rule[r].kind) /\ rule[r].entry[b] = e

(* Packets see the flows of installed rules, in the order of the block.    *)
SeenIs ==
    \A b \in Blocks :
        /\ Seen[b] \in Seq(Lookup!Flows)
        /\ Len(Seen[b]) = Len(hw[b])
        /\ \A n \in 1 .. Len(hw[b]) : \E r \in Rules :
              HasEntry(r, b, hw[b][n]) /\ Seen[b][n] = FlowOf(r)

(* That follows from what the invariant says of entries and their owners.  *)
LEMMA SeenHolds == IInv /\ NoOrphans => SeenIs
<1> SUFFICES ASSUME IInv, NoOrphans, NEW b \in Blocks
             PROVE  /\ Seen[b] \in Seq(Lookup!Flows)
                    /\ Len(Seen[b]) = Len(hw[b])
                    /\ \A n \in 1 .. Len(hw[b]) : \E r \in Rules :
                          HasEntry(r, b, hw[b][n]) /\ Seen[b][n] = FlowOf(r)
  BY DEF SeenIs
<1>1. hw[b] \in Seq(Ids) /\ Len(hw[b]) \in Nat
  BY DEF IInv, TypeOK
<1>2. ASSUME NEW n \in 1 .. Len(hw[b])
      PROVE  \E r \in Rules :
                /\ HasEntry(r, b, hw[b][n])
                /\ FlowOf(r) \in Lookup!Flows
                /\ SeenIn(b)[n] = FlowOf(r)
  <2>1. hw[b][n] \in used[b] /\ hw[b][n] \in Ids
    BY <1>1 DEF IInv, PoolsHold, Elems
  <2>2. PICK r \in Rules : HasEntry(r, b, hw[b][n])
    BY <2>1 DEF NoOrphans, HasEntry
  <2>3. rule[r] # Null /\ rule[r] \in RuleRecords /\ rule[r].entry[b] = hw[b][n]
    BY <2>2 DEF HasEntry, Live, IInv, TypeOK
  <2>4. \A q \in Rules : rule[q] # Null /\ rule[q].entry[b] = hw[b][n] => q = r
    BY <2>1, <2>3, NullNoId DEF IInv, Apart, Live
  <2>5. OwnerOf(b, hw[b][n]) = r
    BY <2>3, <2>4 DEF OwnerOf
  <2>6. chip[hw[b][n]].act = rule[r].act
    <3>1. chip[rule[r].entry[b]] = [act |-> rule[r].act, stats_ptr |-> rule[r].stats_ptr]
      BY <2>2 DEF HasEntry, IInv, Programmed
    <3> QED BY <2>3, <3>1
  <2>7. FlowOf(r) \in Lookup!Flows
    BY <2>3 DEF FlowOf, Lookup!Flows, RuleRecords
  <2> QED BY <2>2, <2>5, <2>6, <2>7 DEF SeenIn, FlowOf
<1>3. SeenIn(b) \in [1 .. Len(hw[b]) -> Lookup!Flows]
  <2>1. \A n \in 1 .. Len(hw[b]) : SeenIn(b)[n] \in Lookup!Flows
    BY <1>2
  <2> QED BY <2>1 DEF SeenIn
<1>4. Seen[b] = SeenIn(b)
  BY DEF Seen
<1>5. Seen[b] \in Seq(Lookup!Flows) /\ Len(Seen[b]) = Len(hw[b])
  BY <1>1, <1>3, <1>4
<1> QED BY <1>2, <1>4, <1>5

(* An entry that the step leaves with its rule is seen as before.          *)
LEMMA SeenSame ==
    ASSUME IInv, SeenIs, SeenIs', NEW b \in Blocks,
           NEW n \in 1 .. Len(hw[b]), NEW m \in 1 .. Len(hw'[b]),
           hw'[b][m] = hw[b][n],
           \A q \in Rules : rule'[q] # Null /\ rule'[q].entry[b] = hw[b][n] =>
               rule'[q] = rule[q]
    PROVE  Seen'[b][m] = Seen[b][n]
<1>1. PICK r \in Rules : HasEntry(r, b, hw[b][n]) /\ Seen[b][n] = FlowOf(r)
  BY DEF SeenIs
<1>2. PICK q \in Rules : HasEntry(q, b, hw[b][m])' /\ Seen'[b][m] = FlowOf(q)'
  BY DEF SeenIs
<1>3. rule'[q] # Null /\ rule'[q].entry[b] = hw[b][n]
  BY <1>2 DEF HasEntry, Live
<1>4. rule'[q] = rule[q] /\ rule[q] # Null /\ rule[q].entry[b] = hw[b][n]
  BY <1>3
<1>5. hw[b][n] # Null
  BY NullNoId DEF IInv, TypeOK
<1>6. q = r
  BY <1>1, <1>4, <1>5 DEF IInv, Apart, HasEntry, Live
<1> QED BY <1>1, <1>2, <1>4, <1>6 DEF FlowOf

(* A block whose entries and their rules do not change is seen as before.  *)
LEMMA SeenBlock ==
    ASSUME IInv, SeenIs, SeenIs', NEW b \in Blocks, hw'[b] = hw[b],
           \A q \in Rules : \A n \in 1 .. Len(hw[b]) :
               rule'[q] # Null /\ rule'[q].entry[b] = hw[b][n] => rule'[q] = rule[q]
    PROVE  Seen'[b] = Seen[b]
<1>1. \A n \in 1 .. Len(hw[b]) : Seen'[b][n] = Seen[b][n]
  BY SeenSame
<1>2. /\ Seen[b] \in Seq(Lookup!Flows) /\ Seen'[b] \in Seq(Lookup!Flows)
      /\ Len(Seen[b]) = Len(hw[b]) /\ Len(Seen'[b]) = Len(hw[b])
  BY DEF SeenIs, Lookup!Flows
<1> QED BY <1>1, <1>2


(* A step that changes neither rules nor blocks is seen by no packet.      *)
LEMMA SeenUnchanged ==
    ASSUME IInv, SeenIs, SeenIs', rule' = rule, hw' = hw
    PROVE  Seen' = Seen
<1>1. \A b \in Blocks : Seen'[b] = Seen[b]
  BY SeenBlock
<1> QED BY <1>1 DEF Seen

(* An installed rule is listed exactly in the blocks it needs, at the      *)
(* place of its entry.                                                     *)
LEMMA SeenPlaces ==
    ASSUME IInv, SeenIs, NEW r \in Rules, NEW b \in Blocks
    PROVE  /\ \A n \in 1 .. Len(Seen[b]) : Seen[b][n].rule = r <=>
                 HasEntry(r, b, hw[b][n])
           /\ ~Live(r) => Lookup!PlacesIn(b, r) = {}
           /\ Live(r) /\ b \notin BlocksOf(rule[r].kind) => Lookup!PlacesIn(b, r) = {}
           /\ Live(r) /\ b \in BlocksOf(rule[r].kind) =>
                 /\ rule[r].entry[b] \in Elems(hw[b])
                 /\ Lookup!PlacesIn(b, r) = {IndexIn(hw[b], rule[r].entry[b])}
<1>1. hw[b] \in Seq(Ids) /\ Len(Seen[b]) = Len(hw[b])
  BY DEF IInv, TypeOK, SeenIs
<1>2. ASSUME NEW n \in 1 .. Len(Seen[b])
      PROVE  Seen[b][n].rule = r <=> HasEntry(r, b, hw[b][n])
  <2>1. PICK q \in Rules : HasEntry(q, b, hw[b][n]) /\ Seen[b][n] = FlowOf(q)
    BY <1>1, <1>2 DEF SeenIs
  <2>2. Seen[b][n].rule = q
    BY <2>1 DEF FlowOf
  <2>3. hw[b][n] # Null
    BY <1>1, <1>2, NullNoId
  <2>4. HasEntry(r, b, hw[b][n]) => r = q
    BY <2>1, <2>3 DEF IInv, Apart, HasEntry, Live
  <2> QED BY <2>1, <2>2, <2>4
<1>3. Lookup!PlacesIn(b, r) = {n \in 1 .. Len(hw[b]) : HasEntry(r, b, hw[b][n])}
  BY <1>1, <1>2 DEF Lookup!PlacesIn
<1>4. ~Live(r) \/ b \notin BlocksOf(rule[r].kind) => Lookup!PlacesIn(b, r) = {}
  BY <1>3 DEF HasEntry
<1>5. ASSUME Live(r), b \in BlocksOf(rule[r].kind)
      PROVE  /\ rule[r].entry[b] \in Elems(hw[b])
             /\ Lookup!PlacesIn(b, r) = {IndexIn(hw[b], rule[r].entry[b])}
  <2>1. rule[r].entry[b] \in Elems(hw[b])
    <3>1. rule[r].entry[b] \in Elems(db[b].ids[rule[r].prio])
      BY <1>5 DEF IInv, Placed
    <3>2. rule[r].prio \in Prios
      BY <1>5 DEF IInv, TypeOK, RuleRecords, Live
    <3>3. SameEntries(db[b], hw[b])
      BY DEF IInv, DbIsHw, Consistent
    <3> QED BY <3>1, <3>2, <3>3 DEF SameEntries, Elems
  <2>2. /\ IndexIn(hw[b], rule[r].entry[b]) \in 1 .. Len(hw[b])
        /\ hw[b][IndexIn(hw[b], rule[r].entry[b])] = rule[r].entry[b]
    BY <1>1, <2>1, IndexInProps
  <2>3. \A n, m \in 1 .. Len(hw[b]) : hw[b][n] = hw[b][m] => n = m
    BY DEF IInv, DbIsHw, Consistent, SameEntries
  <2>4. \A n \in 1 .. Len(hw[b]) :
           HasEntry(r, b, hw[b][n]) <=> n = IndexIn(hw[b], rule[r].entry[b])
    BY <1>5, <2>2, <2>3 DEF HasEntry
  <2> QED BY <1>3, <2>1, <2>2, <2>4
<1> QED BY <1>2, <1>4, <1>5

(* An installed rule is listed, one that is not installed is not.          *)
LEMMA SeenListed ==
    ASSUME IInv, SeenIs, NEW r \in Rules
    PROVE  Lookup!Listed(r) <=> Live(r)
<1>1. ASSUME Live(r) PROVE Lookup!Listed(r)
  <2>1. PICK b \in Blocks : b \in BlocksOf(rule[r].kind)
    BY DEF BlocksOf, MainBlock, Blocks
  <2> QED BY <1>1, <2>1, SeenPlaces DEF Lookup!Listed
<1>2. ASSUME ~Live(r) PROVE ~Lookup!Listed(r)
  BY <1>2, SeenPlaces DEF Lookup!Listed
<1> QED BY <1>1, <1>2

(* A modify is seen as one change of the action in every block.            *)
LEMMA ModifySeen ==
    ASSUME IInv, IInv', SeenIs, SeenIs', NEW r \in Rules, NEW a \in Actions, ModifyFlow(r, a)
    PROVE  Lookup!Modify(r, a)
<1>1. /\ rule[r] # Null /\ rule' = [rule EXCEPT ![r].act = a] /\ hw' = hw
      /\ rule \in [Rules -> RuleRecords \cup {Null}]
  BY ModifyFlowStats DEF ModifyFlow, IInv, TypeOK
<1>2. /\ rule'[r] = [rule[r] EXCEPT !.act = a] /\ rule[r] \in RuleRecords
      /\ \A q \in Rules : q # r => rule'[q] = rule[q]
  BY <1>1
<1>3. \A q \in Rules : rule'[q] # Null =>
         /\ rule[q] # Null
         /\ rule'[q].prio = rule[q].prio /\ rule'[q].entry = rule[q].entry
         /\ rule'[q].act = IF q = r THEN a ELSE rule[q].act
  BY <1>1, <1>2 DEF RuleRecords
<1>4. ASSUME NEW b \in Blocks, NEW n \in 1 .. Len(hw[b])
      PROVE  Seen'[b][n] = IF Seen[b][n].rule = r THEN [Seen[b][n] EXCEPT !.act = a]
                           ELSE Seen[b][n]
  <2>1. PICK q \in Rules : HasEntry(q, b, hw[b][n]) /\ Seen[b][n] = FlowOf(q)
    BY <1>4 DEF SeenIs
  <2>2. PICK s \in Rules : HasEntry(s, b, hw[b][n])' /\ Seen'[b][n] = FlowOf(s)'
    BY <1>1, <1>4 DEF SeenIs
  <2>3. rule'[s] # Null /\ rule'[s].entry[b] = hw[b][n]
    BY <1>1, <2>2 DEF HasEntry, Live
  <2>4. rule[s] # Null /\ rule[s].entry[b] = hw[b][n]
    BY <1>3, <2>3
  <2>5. hw[b][n] # Null
    BY NullNoId DEF IInv, TypeOK
  <2>6. s = q
    BY <2>1, <2>4, <2>5 DEF IInv, Apart, HasEntry, Live
  <2>7. Seen'[b][n] = [rule |-> q, prio |-> rule[q].prio,
                       act |-> IF q = r THEN a ELSE rule[q].act]
    BY <1>3, <2>2, <2>3, <2>6 DEF FlowOf
  <2> QED BY <2>1, <2>7 DEF FlowOf
<1>5. \A b \in Blocks : Seen'[b] = [n \in 1 .. Len(Seen[b]) |->
         IF Seen[b][n].rule = r THEN [Seen[b][n] EXCEPT !.act = a] ELSE Seen[b][n]]
  <2> SUFFICES ASSUME NEW b \in Blocks
               PROVE  Seen'[b] = [n \in 1 .. Len(Seen[b]) |->
                         IF Seen[b][n].rule = r THEN [Seen[b][n] EXCEPT !.act = a]
                         ELSE Seen[b][n]]
    OBVIOUS
  <2>1. Len(Seen[b]) = Len(hw[b])
    BY DEF SeenIs
  <2>2. Seen'[b] \in Seq(Lookup!Flows) /\ Len(Seen'[b]) = Len(hw[b])
    BY <1>1 DEF SeenIs, Lookup!Flows
  <2>3. Seen'[b] = [n \in 1 .. Len(hw[b]) |-> Seen'[b][n]]
    BY <2>2
  <2> QED BY <1>4, <2>1, <2>3
<1>6. Seen' = [b \in Blocks |-> Seen'[b]]
  BY DEF Seen
<1>7. Lookup!Listed(r)
  BY <1>1, SeenListed DEF Live
<1> QED BY <1>5, <1>6, <1>7 DEF Lookup!Modify


(* A delete is seen as the flow leaving every block that listed it.        *)
LEMMA DeleteSeen ==
    ASSUME IInv, IInv', SeenIs, SeenIs', NEW r \in Rules, DelFlow(r)
    PROVE  Lookup!Delete(r)
<1>1. /\ rule[r] # Null /\ rule' = [rule EXCEPT ![r] = Null]
      /\ rule \in [Rules -> RuleRecords \cup {Null}]
      /\ hw' = [b \in Blocks |->
            IF b \in BlocksOf(rule[r].kind) THEN HwDel(hw[b], rule[r].entry[b]) ELSE hw[b]]
  BY DEF DelFlow, IInv, TypeOK
<1>2. \A q \in Rules : rule'[q] # Null => rule'[q] = rule[q]
  BY <1>1
<1>3. ASSUME NEW b \in Blocks
      PROVE  Seen'[b] = IF Lookup!PlacesIn(b, r) = {} THEN Seen[b]
                        ELSE DeleteAt(Seen[b], Lookup!PlaceIn(b, r))
  <2>1. /\ Seen[b] \in Seq(Lookup!Flows) /\ Seen'[b] \in Seq(Lookup!Flows)
        /\ Len(Seen[b]) = Len(hw[b]) /\ Len(Seen'[b]) = Len(hw'[b])
        /\ hw[b] \in Seq(Ids)
    BY DEF SeenIs, Lookup!Flows, IInv, TypeOK
  <2>2. CASE b \notin BlocksOf(rule[r].kind)
    <3>1. hw'[b] = hw[b]
      BY <1>1, <2>2
    <3>2. Seen'[b] = Seen[b]
      BY <1>2, <3>1, SeenBlock
    <3>3. Lookup!PlacesIn(b, r) = {}
      BY <1>1, <2>2, SeenPlaces DEF Live
    <3> QED BY <3>2, <3>3
  <2>3. CASE b \in BlocksOf(rule[r].kind)
    <3> DEFINE x == IndexIn(hw[b], rule[r].entry[b])
    <3>1. rule[r].entry[b] \in Elems(hw[b]) /\ Lookup!PlacesIn(b, r) = {x}
      BY <1>1, <2>3, SeenPlaces DEF Live
    <3>2. Lookup!PlaceIn(b, r) = x /\ Lookup!PlacesIn(b, r) # {}
      BY <3>1 DEF Lookup!PlaceIn
    <3>3. hw'[b] = DeleteAt(hw[b], x)
      BY <1>1, <2>3, <3>1 DEF HwDel
    <3>4. x \in 1 .. Len(hw[b])
      BY <2>1, <3>1, IndexInProps
    <3> HIDE DEF x
    <3>5. Taken(hw[b], x, hw'[b])
      BY <2>1, <3>3, <3>4, DeleteAtProps
    <3>6. /\ DeleteAt(Seen[b], x) \in Seq(Lookup!Flows)
          /\ Taken(Seen[b], x, DeleteAt(Seen[b], x))
      BY <2>1, <3>4, DeleteAtProps
    <3>7. Len(DeleteAt(Seen[b], x)) = Len(Seen'[b]) /\ Len(hw'[b]) = Len(hw[b]) - 1
      BY <2>1, <3>5, <3>6 DEF Taken
    <3>8. ASSUME NEW i \in 1 .. Len(hw'[b])
          PROVE  Seen'[b][i] = DeleteAt(Seen[b], x)[i]
      <4>1. CASE i < x
        <5>1. i \in 1 .. Len(hw[b]) /\ hw'[b][i] = hw[b][i]
          BY <2>1, <3>5, <3>7, <4>1 DEF Taken
        <5>2. Seen'[b][i] = Seen[b][i]
          BY <1>2, <5>1, SeenSame
        <5> QED BY <5>2, <2>1, <3>6, <3>7, <4>1 DEF Taken
      <4>2. CASE i >= x
        <5>1. i + 1 \in 1 .. Len(hw[b]) /\ hw'[b][i] = hw[b][i + 1]
          BY <2>1, <3>4, <3>5, <3>7, <4>2 DEF Taken
        <5>2. Seen'[b][i] = Seen[b][i + 1]
          BY <1>2, <5>1, SeenSame
        <5> QED BY <5>2, <2>1, <3>6, <3>7, <4>2 DEF Taken
      <4> QED BY <3>4, <4>1, <4>2
    <3>9. Seen'[b] = DeleteAt(Seen[b], x)
      BY <2>1, <3>6, <3>7, <3>8
    <3> QED BY <3>2, <3>9
  <2> QED BY <2>2, <2>3
<1>4. Seen' = [b \in Blocks |-> Seen'[b]]
  BY DEF Seen
<1>5. Lookup!Listed(r)
  BY <1>1, SeenListed DEF Live
<1> QED BY <1>3, <1>4, <1>5 DEF Lookup!Delete, Lookup!DeleteAt, DeleteAt

(* The place that the database finds for a new entry is the one its        *)
(* priority asks for: behind all flows of its priority or above.           *)
LEMMA PlaceIsRank ==
    ASSUME IInv, SeenIs, NEW b \in Blocks, NEW p \in Prios, NEW j \in 0 .. Len(hw[b]),
           Splits(db[b], hw[b], p, j)
    PROVE  Lookup!Rank(b, p) = j
<1>1. /\ hw[b] \in Seq(Ids) /\ Len(hw[b]) \in Nat /\ Len(Seen[b]) = Len(hw[b])
      /\ db[b] \in Db
  BY DEF IInv, TypeOK, SeenIs
<1>2. ASSUME NEW n \in 1 .. Len(hw[b]) PROVE Seen[b][n].prio >= p <=> n <= j
  <2>1. PICK q \in Rules : HasEntry(q, b, hw[b][n]) /\ Seen[b][n] = FlowOf(q)
    BY <1>2 DEF SeenIs
  <2>2. rule[q] # Null /\ rule[q] \in RuleRecords /\ rule[q].prio \in Prios
    BY <2>1 DEF HasEntry, Live, IInv, TypeOK, RuleRecords
  <2>3. hw[b][n] \in Elems(db[b].ids[rule[q].prio])
    BY <2>1 DEF HasEntry, IInv, Placed
  <2>4. PICK k \in 1 .. Len(db[b].ids[rule[q].prio]) :
               hw[b][n] = db[b].ids[rule[q].prio][k]
    BY <2>3 DEF Elems
  <2>5. n <= j <=> rule[q].prio >= p
    BY <1>2, <2>2, <2>4 DEF Splits
  <2> QED BY <2>1, <2>5 DEF FlowOf
<1>3. {n \in 1 .. Len(Seen[b]) : Seen[b][n].prio >= p} = 1 .. j
  BY <1>1, <1>2
<1>4. Cardinality(1 .. j) = j
  BY FS_Interval
<1>5. Lookup!Cardinality(1 .. j) = Cardinality(1 .. j)
  BY DEF Lookup!Cardinality, Cardinality, Lookup!IsFiniteSet, IsFiniteSet
<1> QED BY <1>3, <1>4, <1>5 DEF Lookup!Rank

(* An add is seen as the flow appearing in its place in the blocks it      *)
(* needs.                                                                  *)
LEMMA AddSeen ==
    ASSUME IInv, IInv', SeenIs, SeenIs', NEW r \in Rules, NEW k \in Kinds,
           NEW et \in EtherTypes \cup {Null}, NEW p \in Prios, NEW a \in Actions,
           AddFlow(r, k, et, p, a)
    PROVE  Lookup!Add(r, BlocksOf(k), p, a)
<1> DEFINE f == [rule |-> r, prio |-> p, act |-> a]
<1>1. /\ rule[r] = Null /\ rule'[r] # Null
      /\ rule'[r].kind = k /\ rule'[r].prio = p
      /\ rule'[r].act = a /\ rule'[r].entry = NewEntry(k)
      /\ \A q \in Rules : q # r => rule'[q] = rule[q]
  BY AddFlowRule
<1>2. /\ hw' = [b \in Blocks |->
            IF b \in BlocksOf(k) THEN InHw(b, p, NewEntry(k)[b]) ELSE hw[b]]
      /\ IdsLeft(k)
  BY DEF AddFlow, Accepts
<1>3. ASSUME NEW b \in Blocks
      PROVE  Seen'[b] = IF b \in BlocksOf(k) THEN InsertBehind(Seen[b], Lookup!Rank(b, p), f)
                        ELSE Seen[b]
  <2>1. /\ Seen[b] \in Seq(Lookup!Flows) /\ Seen'[b] \in Seq(Lookup!Flows)
        /\ Len(Seen[b]) = Len(hw[b]) /\ Len(Seen'[b]) = Len(hw'[b])
        /\ hw[b] \in Seq(Ids) /\ Len(hw[b]) \in Nat /\ Len(hw'[b]) \in Nat
    <3>1. hw[b] \in Seq(Ids) /\ hw'[b] \in Seq(Ids)
      BY DEF IInv, TypeOK
    <3>2. Len(hw[b]) \in Nat /\ Len(hw'[b]) \in Nat
      BY <3>1
    <3>3. Seen[b] \in Seq(Lookup!Flows) /\ Len(Seen[b]) = Len(hw[b])
      BY DEF SeenIs
    <3>4. Seen'[b] \in Seq(Lookup!Flows) /\ Len(Seen'[b]) = Len(hw'[b])
      BY DEF SeenIs, Lookup!Flows
    <3> QED BY <3>1, <3>2, <3>3, <3>4
  <2>2. NewEntry(k)[b] \notin Elems(hw[b])
    <3>1. CASE b \in BlocksOf(k)
      BY <1>2, <3>1, BlockAdd DEF IdsLeft
    <3>2. CASE b \notin BlocksOf(k)
      BY <1>2, <2>1, <3>2, NewEntryType, NullNoId DEF IInv, Elems
    <3> QED BY <3>1, <3>2
  <2>3. \A n \in 1 .. Len(hw[b]) : \A q \in Rules :
           rule'[q] # Null /\ rule'[q].entry[b] = hw[b][n] => rule'[q] = rule[q]
    BY <1>1, <2>2 DEF Elems
  <2>4. CASE b \notin BlocksOf(k)
    BY <1>2, <2>3, <2>4, SeenBlock
  <2>5. CASE b \in BlocksOf(k)
    <3> DEFINE e == NewEntry(k)[b]
               j == HwPlace(hw[b], PrevId(DbAdd(db[b], p, e), p, e))
    <3>1. e \in Ids /\ db[b] \in Db /\ Consistent(db[b], hw[b])
      BY <1>2, <2>5, BlockAdd DEF IdsLeft, IInv, TypeOK, DbIsHw
    <3>2. Splits(db[b], hw[b], p, j)
      BY <2>1, <2>2, <3>1, PrevIdProps
    <3>3. hw'[b] = InsertBehind(hw[b], j, e)
      BY <1>2, <2>5 DEF InHw, InDb, HwAdd
    <3> HIDE DEF j, e
    <3>4. j \in 0 .. Len(hw[b])
      BY <3>2 DEF Splits
    <3>5. Lookup!Rank(b, p) = j
      BY <3>2, <3>4, PlaceIsRank
    <3>6. Inserted(hw[b], j, e, hw'[b])
      BY <2>1, <3>1, <3>3, <3>4, InsertBehindProps
    <3>7. f \in Lookup!Flows
      BY DEF Lookup!Flows
    <3> DEFINE t == InsertBehind(Seen[b], j, f)
    <3>8. t \in Seq(Lookup!Flows) /\ Inserted(Seen[b], j, f, t)
      BY <2>1, <3>4, <3>7, InsertBehindProps
    <3> HIDE DEF t, f
    <3>9. Len(t) = Len(hw'[b]) /\ Len(hw'[b]) = Len(hw[b]) + 1
      BY <2>1, <3>6, <3>8 DEF Inserted
    <3>10. ASSUME NEW i \in 1 .. Len(hw'[b]) PROVE Seen'[b][i] = t[i]
      <4>1. CASE i <= j
        <5>1. i \in 1 .. Len(hw[b]) /\ hw'[b][i] = hw[b][i]
          BY <2>1, <3>4, <3>6, <3>9, <4>1 DEF Inserted
        <5>2. Seen'[b][i] = Seen[b][i]
          BY <2>3, <5>1, SeenSame
        <5> QED BY <5>2, <3>8, <3>9, <4>1 DEF Inserted
      <4>2. CASE i > j + 1
        <5>1. i - 1 \in 1 .. Len(hw[b]) /\ hw'[b][i] = hw[b][i - 1]
          BY <2>1, <3>4, <3>6, <3>9, <4>2 DEF Inserted
        <5>2. Seen'[b][i] = Seen[b][i - 1]
          BY <2>3, <5>1, SeenSame
        <5> QED BY <5>2, <3>8, <3>9, <4>2 DEF Inserted
      <4>3. CASE i = j + 1
        <5>1. hw'[b][i] = e
          BY <3>6, <4>3 DEF Inserted
        <5>2. PICK q \in Rules : HasEntry(q, b, hw[b][i])' /\ Seen'[b][i] = FlowOf(q)'
          BY DEF SeenIs
        <5>3. q = r
          <6>1. rule'[q] # Null /\ rule'[q].entry[b] = e /\ rule'[r].entry[b] = e
            BY <1>1, <5>1, <5>2 DEF HasEntry, Live, e
          <6>2. e # Null
            BY <3>1, NullNoId
          <6> QED BY <1>1, <6>1, <6>2 DEF IInv, Apart, Live
        <5>4. Seen'[b][i] = f
          BY <1>1, <5>2, <5>3 DEF FlowOf, f
        <5> QED BY <5>4, <3>8, <4>3 DEF Inserted
      <4> QED BY <3>4, <4>1, <4>2, <4>3
    <3>11. Seen'[b] = t
      <4>1. \A i \in 1 .. Len(t) : Seen'[b][i] = t[i]
        BY <3>9, <3>10
      <4>2. /\ t \in Seq(Lookup!Flows) /\ Seen'[b] \in Seq(Lookup!Flows)
            /\ Len(Seen'[b]) = Len(t) /\ Len(t) \in Nat
        BY <2>1, <3>8, <3>9
      <4>3. t = [i \in 1 .. Len(t) |-> t[i]] /\ Seen'[b] = [i \in 1 .. Len(t) |-> Seen'[b][i]]
        BY <4>2
      <4> QED BY <4>1, <4>3
    <3> QED BY <2>5, <3>5, <3>11 DEF t
  <2> QED BY <2>4, <2>5
<1>4. Seen' = [b \in Blocks |-> Seen'[b]]
  BY DEF Seen
<1>5. ~Lookup!Listed(r)
  BY <1>1, SeenListed DEF Live
<1> QED BY <1>3, <1>4, <1>5 DEF Lookup!Add, Lookup!InsertBehind, InsertBehind, f

(* The flow table is an OpenFlow table: whatever a handler allocates,      *)
(* inserts, moves or undoes on the way, packets see a flow appear behind   *)
(* all those of its priority or above in every block it needs, change its  *)
(* action in all of them or leave them all, and nothing else.              *)
THEOREM ImplementsLookup == Spec => IsOpenFlowTable
<1>1. ASSUME Init PROVE Lookup!Init
  <2>1. \A b \in Blocks : SeenIn(b) = <<>>
    BY <1>1 DEF Init, SeenIn
  <2> QED BY <2>1 DEF Seen, Lookup!Init
<1>2. ASSUME IInv, IInv', SeenIs, SeenIs', [Next]_vars PROVE [Lookup!Next]_Seen
  <2> SUFFICES ASSUME Seen' # Seen PROVE Lookup!Next
    OBVIOUS
  <2>1. ASSUME NEW r \in Rules, NEW k \in Kinds, NEW et \in EtherTypes \cup {Null},
               NEW p \in Prios, NEW a \in Actions, AddFlow(r, k, et, p, a)
        PROVE  Lookup!Next
    <3>1. Lookup!Add(r, BlocksOf(k), p, a) /\ BlocksOf(k) \in SUBSET Blocks
      BY <1>2, <2>1, AddSeen DEF BlocksOf
    <3> QED BY <3>1 DEF Lookup!Next
  <2>2. ASSUME NEW r \in Rules, NEW k \in Kinds, NEW et \in EtherTypes \cup {Null},
               NEW p \in Prios, NEW indb \in SUBSET Blocks, NEW inhw \in SUBSET Blocks,
               AddFails(r, k, et, p, indb, inhw)
        PROVE  FALSE
    <3>1. rule' = rule /\ hw' = hw
      BY <1>2, <2>2, AddFailsUndone
    <3> QED BY <1>2, <3>1, SeenUnchanged
  <2>3. ASSUME NEW r \in Rules, NEW a \in Actions, ModifyFlow(r, a) PROVE Lookup!Next
    <3>1. Lookup!Modify(r, a)
      BY <1>2, <2>3, ModifySeen
    <3> QED BY <3>1 DEF Lookup!Next
  <2>4. ASSUME NEW r \in Rules, DelFlow(r) PROVE Lookup!Next
    <3>1. Lookup!Delete(r)
      BY <1>2, <2>4, DeleteSeen
    <3> QED BY <3>1 DEF Lookup!Next
  <2>5. ASSUME IdleTimer \/ UNCHANGED vars PROVE FALSE
    <3>1. rule' = rule /\ hw' = hw
      BY <2>5 DEF IdleTimer, vars
    <3> QED BY <1>2, <3>1, SeenUnchanged
  <2> QED BY <1>2, <2>1, <2>2, <2>3, <2>4, <2>5 DEF Next
<1> QED BY <1>1, <1>2, SeenHolds, Invariance, Orphanless, PTL
        DEF Spec, IsOpenFlowTable, Lookup!Spec

=============================================================================
