------------------------------ MODULE FlowTable ------------------------------
(***************************************************************************)
(* The flow table of the adaptation layer: adpt_flow_add_flow, _modify_    *)
(* flow_action and _del_flow of adpt_flow.c with everything they allocate  *)
(* and give back, and the part of the idle timer that frees flow ids.      *)
(*                                                                         *)
(* All of it runs under pg_mutex: a handler is one step.  What makes it    *)
(* hard is that a handler takes from six tables and may fail between any   *)
(* two of them, that it touches two blocks of the chip, and that a flow id *)
(* outlives its flow until the timer thread frees it.                      *)
(***************************************************************************)
EXTENDS PriorityDb, FiniteSets

CONSTANTS
    Rules,         \* struct rule_ctc
    PoolIds,       \* block -> the entry ids adpt_opf.c hands out for it
    EtherTypes,    \* ether types other than IPv4 that flows match
    EtherSlots,    \* ether_type_l3type_map_max_num
    FlowIds,       \* the flow ids adpt_opf.c hands out
    StatsPtrs,     \* the statistics pointers of the chip
    Actions,       \* what a flow may do with a packet
    MaxNum,        \* flow_entry_num_max
    Null           \* no rule, no id, SPECIAL_STATS_PTR

Blocks == {"MAC", "IPV4"}

(* The id ranges that adpt_opf.c sets up are disjoint.                     *)
ASSUME PoolAssumption ==
    /\ PoolIds \in [Blocks -> SUBSET Ids]
    /\ PoolIds["MAC"] \cap PoolIds["IPV4"] = {}

ASSUME SizeAssumption ==
    /\ EtherSlots \in Nat
    /\ FlowIds \subseteq Nat \ {0}
    /\ StatsPtrs \subseteq Nat
    /\ MaxNum \in Nat
    /\ Null \notin Nat \cup EtherTypes \cup Rules \cup Actions

VARIABLES
    rule,     \* the installed rules, Null for one that is not
    db,       \* block -> its priority database
    hw,       \* block -> its entries in the order a packet meets them
    chip,     \* entry id -> what the chip does with its packets
    used,     \* block -> entry ids taken from the pool
    etmap,    \* ether_type_l3type_map, and what the parser knows of a slot
    stats,    \* statistics pointers in use
    info,     \* flow_info_ihmap: flow id -> rule and need_delete
    num       \* flow_entry_num_count

vars == <<rule, db, hw, chip, used, etmap, stats, info, num>>

(* FLOW_TYPE_IPV4, _ANY (any ether type) and _OTHER (one, not IPv4): the   *)
(* block of its entry and all the blocks it needs one in.                  *)
Kinds == {"IPV4", "ANY", "OTHER"}
MainBlock(k) == IF k = "IPV4" THEN "IPV4" ELSE "MAC"
BlocksOf(k) ==
    {b \in Blocks : k = "ANY" \/ b = MainBlock(k)}

(* A rule: entry holds entry_id and, for FLOW_TYPE_ANY, extra_entry_id.    *)
RuleRecords ==
    [kind : Kinds, et : EtherTypes \cup {Null}, prio : Prios, act : Actions,
     entry : [Blocks -> Ids \cup {Null}], flow_id : FlowIds \cup {0},
     stats_ptr : StatsPtrs \cup {Null}]

ChipRecords == [act : Actions, stats_ptr : StatsPtrs \cup {Null}]
Slots       == 1 .. EtherSlots
EtherRecords == [et : EtherTypes \cup {Null}, ref : Nat,
                 parser : EtherTypes \cup {Null}]
InfoRecords == [rule : Rules, need_delete : BOOLEAN]

ASSUME NullAssumption == Null \notin RuleRecords \cup ChipRecords \cup InfoRecords

TypeOK ==
    /\ rule \in [Rules -> RuleRecords \cup {Null}]
    /\ db \in [Blocks -> Db]
    /\ hw \in [Blocks -> Seq(Ids)]
    /\ chip \in [Ids -> ChipRecords \cup {Null}]
    /\ used \in [Blocks -> SUBSET Ids]
    /\ etmap \in [Slots -> EtherRecords]
    /\ stats \in SUBSET StatsPtrs
    /\ info \in [FlowIds -> InfoRecords \cup {Null}]
    /\ num \in Nat

Init ==
    /\ rule = [r \in Rules |-> Null]
    /\ db = [b \in Blocks |-> EmptyDb]
    /\ hw = [b \in Blocks |-> <<>>]
    /\ chip = [e \in Ids |-> Null]
    /\ used = [b \in Blocks |-> {}]
    /\ etmap = [s \in Slots |-> [et |-> Null, ref |-> 0, parser |-> Null]]
    /\ stats = {}
    /\ info = [f \in FlowIds |-> Null]
    /\ num = 0

----------------------------------------------------------------------------
(* The allocators hand out the lowest free offset (sys_humber_opf.c).      *)
LowestOf(x, S) == x \in S /\ \A y \in S : x <= y
FirstOf(S) == CHOOSE x \in S : LowestOf(x, S)

(* adpt_flow_alloc_entry_id, for every block the flow needs.               *)
FreeIds(b) == PoolIds[b] \ used[b]
IdsLeft(k) == \A b \in BlocksOf(k) : FreeIds(b) # {}
NewEntry(k) ==
    [b \in Blocks |-> IF b \in BlocksOf(k) THEN FirstOf(FreeIds(b)) ELSE Null]

AnyStats == StatsPtrs   \* mutant: a pointer in use is handed out again

(* hal_stats_create_stats_ptr.                                             *)
FreeStats == StatsPtrs \ stats

(* adpt_flowdb_insert_map_ether_type_l3_type: the slot of the ether type   *)
(* or else the first one without references, whose type the parser learns; *)
(* adpt_flowdb_remove_map_ether_type_l3_type: the way back.                *)
SlotsOf(m, et) == {s \in Slots : m[s].ref > 0 /\ m[s].et = et}
FreeSlots(m)   == {s \in Slots : m[s].ref = 0}

EtherAddSlot(m, et) ==   \* mutant: a new slot for every flow
    [m EXCEPT ![FirstOf(FreeSlots(m))] = [et |-> et, ref |-> 1, parser |-> et]]

EtherAdd(m, et) ==
    IF SlotsOf(m, et) # {}
    THEN [m EXCEPT ![FirstOf(SlotsOf(m, et))].ref = @ + 1]
    ELSE [m EXCEPT ![FirstOf(FreeSlots(m))] = [et |-> et, ref |-> 1, parser |-> et]]

EtherDel(m, et) ==
    IF SlotsOf(m, et) = {} THEN m
    ELSE [m EXCEPT ![FirstOf(SlotsOf(m, et))] =
            [et |-> et, ref |-> @.ref - 1,
             parser |-> IF @.ref = 1 THEN Null ELSE @.parser]]

(* adpt_flow_map_flow_key and adpt_flow_map_remove_flow_key: only a flow   *)
(* with an ether type of its own needs a slot.                             *)
Match(k, et)   == IF k = "OTHER" THEN et \in EtherTypes ELSE et = Null
KeyFits(k, et) == k = "OTHER" => SlotsOf(etmap, et) # {} \/ FreeSlots(etmap) # {}
KeyAdd(m, k, et) == IF k = "OTHER" THEN EtherAdd(m, et) ELSE m
KeyDel(m, k, et) == IF k = "OTHER" THEN EtherDel(m, et) ELSE m

(* adpt_flow_add_flow_timer: the caller ignores its result, so that a flow *)
(* that finds no free flow id is installed without one (flow_id 0).        *)
FreeFlowIds == {f \in FlowIds : info[f] = Null}
NewFlowId == IF FreeFlowIds = {} THEN 0 ELSE FirstOf(FreeFlowIds)

TimerAdd(f, r, need_delete) ==
    IF f = 0 THEN info
    ELSE [info EXCEPT ![f] = [rule |-> r, need_delete |-> need_delete]]

TimerForgets(f) == info   \* mutant: the flow information is not marked

TimerDel(f) ==
    IF f \in FlowIds /\ info[f] # Null THEN [info EXCEPT ![f].need_delete = TRUE]
    ELSE info

----------------------------------------------------------------------------
(* Entry e of priority p enters block b: first the database, which then    *)
(* names the entry it is to follow, then the chip.                         *)
InDb(b, p, e) == DbAdd(db[b], p, e)
InHw(b, p, e) == HwAdd(hw[b], PrevId(InDb(b, p, e), p, e), e)

(* The check of adpt_flow_check_flow_entry.                                *)
NotFull == num < MaxNum

(* What every adpt_flow_add_flow needs before it changes anything.         *)
Accepts(r, k, et) ==
    /\ rule[r] = Null
    /\ Match(k, et) /\ NotFull /\ KeyFits(k, et)
    /\ IdsLeft(k) /\ FreeStats # {}

(* adpt_flow_add_flow.                                                     *)
AddFlow(r, k, et, p, a) ==
    /\ Accepts(r, k, et)
    /\ LET ent == NewEntry(k)
           t   == FirstOf(FreeStats)
       IN /\ rule' = [rule EXCEPT ![r] =
                [kind |-> k, et |-> et, prio |-> p, act |-> a, entry |-> ent,
                 flow_id |-> NewFlowId, stats_ptr |-> t]]
          /\ used' = [b \in Blocks |->
                IF b \in BlocksOf(k) THEN used[b] \cup {ent[b]} ELSE used[b]]
          /\ db' = [b \in Blocks |->
                IF b \in BlocksOf(k) THEN InDb(b, p, ent[b]) ELSE db[b]]
          /\ hw' = [b \in Blocks |->
                IF b \in BlocksOf(k) THEN InHw(b, p, ent[b]) ELSE hw[b]]
          /\ chip' = [e \in Ids |->
                IF \E b \in Blocks : e = ent[b] THEN [act |-> a, stats_ptr |-> t]
                ELSE chip[e]]
          /\ stats' = stats \cup {t}
    /\ info' = TimerAdd(NewFlowId, r, FALSE)
    /\ etmap' = KeyAdd(etmap, k, et)
    /\ num' = num + 1

(***************************************************************************)
(* adpt_flow_add_flow failing after the key is mapped: the action cannot   *)
(* be mapped (no statistics pointer, no next hop), the chip refuses an     *)
(* entry, or no id is left for the extra one.  indb is the set of blocks   *)
(* whose database already has the new entry, inhw the set of those whose   *)
(* block has it too.                                                       *)
(***************************************************************************)
FailPoint(r, k, et, indb, inhw) ==
    /\ rule[r] = Null
    /\ Match(k, et) /\ NotFull /\ KeyFits(k, et)
    /\ inhw \subseteq indb /\ indb \subseteq BlocksOf(k)
    /\ inhw # BlocksOf(k)
    /\ k = "ANY" /\ "IPV4" \in indb => "MAC" \in inhw
    /\ \A b \in indb \cup {MainBlock(k)} : FreeIds(b) # {}
    /\ indb # {} => FreeStats # {}

(* Mutants: one place too many given back, one too few, and ids kept.      *)
AddFailsUncounts(r, k, et, p, indb, inhw) ==
    /\ FailPoint(r, k, et, indb, inhw)
    /\ num' = num - 1
    /\ UNCHANGED <<rule, db, hw, chip, used, etmap, stats, info>>
AddFailsKeepsIds(r, k, et, p, indb, inhw) ==
    /\ FailPoint(r, k, et, indb, inhw)
    /\ used' = [b \in Blocks |->
          IF b \in indb THEN used[b] \cup {NewEntry(k)[b]} ELSE used[b]]
    /\ UNCHANGED <<rule, db, hw, chip, etmap, stats, info, num>>

(* Everything up to the step that fails is done and then undone from the   *)
(* labels Err6 .. Err2.  Only the flow id is not given back: its           *)
(* information waits for the timer.                                        *)
AddFails(r, k, et, p, indb, inhw) ==
    /\ FailPoint(r, k, et, indb, inhw)
    /\ LET ent == NewEntry(k)
           t   == IF FreeStats = {} THEN {} ELSE {FirstOf(FreeStats)}
       IN /\ db' = [b \in Blocks |->
                IF b \in indb THEN DbDel(InDb(b, p, ent[b]), p, ent[b]) ELSE db[b]]
          /\ hw' = [b \in Blocks |->
                IF b \in inhw THEN HwDel(InHw(b, p, ent[b]), ent[b]) ELSE hw[b]]
          /\ chip' = [e \in Ids |->
                IF \E b \in inhw : e = ent[b] THEN Null ELSE chip[e]]
          /\ used' = [b \in Blocks |->
                IF b \in indb \cup {MainBlock(k)}
                THEN (used[b] \cup {ent[b]}) \ {ent[b]} ELSE used[b]]
          /\ stats' = (stats \cup t) \ t
    /\ info' = TimerAdd(NewFlowId, r, TRUE)
    /\ etmap' = KeyDel(KeyAdd(etmap, k, et), k, et)
    /\ UNCHANGED <<rule, num>>

ModifyMainEntry(r, a) ==   \* mutant: the extra entry keeps its old action
    /\ rule[r] # Null
    /\ NotFull
    /\ rule' = [rule EXCEPT ![r].act = a]
    /\ chip' = [e \in Ids |->
          IF e = rule[r].entry[MainBlock(rule[r].kind)]
          THEN [chip[e] EXCEPT !.act = a] ELSE chip[e]]
    /\ UNCHANGED <<db, hw, used, etmap, stats, info, num>>

(* hal_flow_set_flow_action for main and extra entry.  The driver writes   *)
(* only what the action names, so the entries go on counting where they    *)
(* did.  Asked to set the statistics of an entry that has some, as it is   *)
(* for a rule whose statistics pointer is gone, it returns success at once *)
(* and leaves the entry as it is.                                          *)
SetAction(o, a) ==
    [e \in Ids |->
        IF o.stats_ptr # Null /\ \E b \in Blocks : e = o.entry[b]
        THEN [chip[e] EXCEPT !.act = a] ELSE chip[e]]

(* adpt_flow_modify_flow_action: a rule whose statistics pointer is gone   *)
(* gets a new one on the way; the others keep theirs.                      *)
ModifyFlow(r, a) ==
    /\ rule[r] # Null
    /\ NotFull
    /\ rule[r].stats_ptr = Null => FreeStats # {}
    /\ LET t == IF rule[r].stats_ptr = Null THEN FirstOf(FreeStats)
                ELSE rule[r].stats_ptr
       IN /\ rule' = [rule EXCEPT ![r].act = a, ![r].stats_ptr = t]
          /\ chip' = SetAction(rule[r], a)
          /\ stats' = stats \cup {t}
    /\ UNCHANGED <<db, hw, used, etmap, info, num>>

(* The same when the chip refuses the action: Err1 removes the statistics  *)
(* pointer of the rule, which the entry in the chip goes on counting into. *)
ModifyFails(r) ==
    /\ rule[r] # Null
    /\ NotFull
    /\ rule' = [rule EXCEPT ![r].stats_ptr = Null]
    /\ stats' = stats \ {rule[r].stats_ptr}
    /\ UNCHANGED <<db, hw, chip, used, etmap, info, num>>

DelMainEntry(r) ==   \* mutant: the extra entry stays in its block
    /\ rule[r] # Null
    /\ LET o == rule[r]
           b == MainBlock(o.kind)
       IN /\ db' = [db EXCEPT ![b] = DbDel(@, o.prio, o.entry[b])]
          /\ hw' = [hw EXCEPT ![b] = HwDel(@, o.entry[b])]
          /\ used' = [used EXCEPT ![b] = @ \ {o.entry[b]}]
          /\ chip' = [chip EXCEPT ![o.entry[b]] = Null]
          /\ etmap' = KeyDel(etmap, o.kind, o.et)
          /\ stats' = stats \ {o.stats_ptr}
          /\ info' = TimerDel(o.flow_id)
    /\ rule' = [rule EXCEPT ![r] = Null]
    /\ num' = IF num = 0 THEN 0 ELSE num - 1

(* adpt_flow_del_flow.                                                     *)
DelFlow(r) ==
    /\ rule[r] # Null
    /\ LET o == rule[r]
           B == BlocksOf(o.kind)
       IN /\ db' = [b \in Blocks |->
                IF b \in B THEN DbDel(db[b], o.prio, o.entry[b]) ELSE db[b]]
          /\ hw' = [b \in Blocks |->
                IF b \in B THEN HwDel(hw[b], o.entry[b]) ELSE hw[b]]
          /\ used' = [b \in Blocks |-> used[b] \ {o.entry[b]}]
          /\ chip' = [e \in Ids |->
                IF \E b \in Blocks : e = o.entry[b] THEN Null ELSE chip[e]]
          /\ etmap' = KeyDel(etmap, o.kind, o.et)
          /\ stats' = stats \ {o.stats_ptr}
          /\ info' = TimerDel(o.flow_id)
    /\ rule' = [rule EXCEPT ![r] = Null]
    /\ num' = IF num = 0 THEN 0 ELSE num - 1

(* adpt_flow_idle_timeout_timer: what is marked need_delete is freed, flow *)
(* id and information.                                                     *)
IdleTimer ==
    /\ info' = [f \in FlowIds |->
          IF info[f] # Null THEN IF info[f].need_delete THEN Null ELSE info[f]
          ELSE Null]
    /\ UNCHANGED <<rule, db, hw, chip, used, etmap, stats, num>>

Next ==
    \/ \E r \in Rules, k \in Kinds, et \in EtherTypes \cup {Null}, p \in Prios :
          \/ \E a \in Actions : AddFlow(r, k, et, p, a)
          \/ \E indb, inhw \in SUBSET Blocks : AddFails(r, k, et, p, indb, inhw)
    \/ \E r \in Rules, a \in Actions : ModifyFlow(r, a)
    \/ \E r \in Rules : DelFlow(r)
    \/ IdleTimer

Spec == Init /\ [][Next]_vars

(* The table when the chip may refuse a new action.                        *)
RefusingNext == Next \/ \E r \in Rules : ModifyFails(r)
RefusingSpec == Init /\ [][RefusingNext]_vars

----------------------------------------------------------------------------
(* Of two flows with an entry in the same block, a packet meets the one of *)
(* higher priority first.                                                  *)
PriorityOrder ==
    \A r, q \in Rules : \A b \in Blocks :
        \A n, m \in 1 .. Len(hw[b]) :
            /\ rule[r] # Null /\ rule[q] # Null
            /\ hw[b][n] = rule[r].entry[b]
            /\ hw[b][m] = rule[q].entry[b]
            /\ rule[r].prio > rule[q].prio
            => n < m

(* What packets meet in the chip: in each block the flows whose entries    *)
(* are there, in their order, with the priority the rule asks for and the  *)
(* action the chip takes.                                                  *)
OwnerOf(b, e) == CHOOSE r \in Rules : rule[r] # Null /\ rule[r].entry[b] = e

SeenIn(b) ==
    [n \in 1 .. Len(hw[b]) |->
        [rule |-> OwnerOf(b, hw[b][n]), prio |-> rule[OwnerOf(b, hw[b][n])].prio,
         act  |-> chip[hw[b][n]].act]]
Seen == [b \in Blocks |-> SeenIn(b)]

Lookup == INSTANCE LookupTable WITH table <- Seen

(* The flow table is an OpenFlow table: whatever ids, lists and entries a  *)
(* handler goes through, packets see one flow appear in its place, change  *)
(* its action in every block or disappear, and a handler that fails is     *)
(* seen by no packet that comes after it.                                  *)
IsOpenFlowTable == Lookup!Spec

(* The priority database and the block list the same entries in the same   *)
(* order, so that the entry to insert behind is always there.              *)
DbIsHw == \A b \in Blocks : Consistent(db[b], hw[b])

(* A flow has its entry in each block it needs, with its action and its    *)
(* statistics pointer, and no entry in the chip belongs to no flow.        *)
Owns(r, e) == rule[r] # Null /\ \E b \in BlocksOf(rule[r].kind) : rule[r].entry[b] = e

EntriesOwned ==
    /\ \A b \in Blocks : Elems(hw[b]) = {rule[r].entry[b] :
          r \in {q \in Rules : rule[q] # Null /\ b \in BlocksOf(rule[q].kind)}}
    /\ \A b \in Blocks : used[b] = Elems(hw[b])
    /\ \A e \in Ids : chip[e] # Null <=> \E r \in Rules : Owns(r, e)

(* Main and extra entry of a flow do what the rule says.                   *)
ChipFollowsRule ==
    \A r \in Rules : \A e \in Ids :
        Owns(r, e) => chip[e].act = rule[r].act

(* Every entry counts into the statistics pointer of its own flow, and no  *)
(* two flows share one: the idle timer of a flow reads its own packets.    *)
StatsOwned ==
    /\ \A r \in Rules : \A e \in Ids :
          Owns(r, e) => chip[e].stats_ptr = rule[r].stats_ptr
    /\ \A r, q \in Rules :
          rule[r] # Null /\ rule[q] # Null /\ rule[r].stats_ptr = rule[q].stats_ptr
          => r = q
    /\ stats = {rule[r].stats_ptr : r \in {q \in Rules : rule[q] # Null}}

(* The reference count of an ether type is the number of flows that match  *)
(* it, it has one slot, and the parser knows exactly the types in use.     *)
EtherRefs ==
    /\ \A et \in EtherTypes :
          LET flows == {r \in Rules : rule[r] # Null /\ rule[r].et = et}
          IN \/ flows = {} /\ SlotsOf(etmap, et) = {}
             \/ \E s \in Slots : SlotsOf(etmap, et) = {s}
                              /\ etmap[s].ref = Cardinality(flows)
    /\ \A s \in Slots :
          etmap[s].parser = IF etmap[s].ref > 0 THEN etmap[s].et ELSE Null

(* What the timer and the packet-in path dereference is an installed rule, *)
(* and the flow id of a flow leads back to that flow.                      *)
InfoLive ==
    /\ \A f \in FlowIds :
          (info[f] # Null /\ ~info[f].need_delete) =>
              rule[info[f].rule] # Null /\ rule[info[f].rule].flow_id = f
    /\ \A r \in Rules : (rule[r] # Null /\ rule[r].flow_id # 0) =>
          info[rule[r].flow_id] = [rule |-> r, need_delete |-> FALSE]

(* A failed add leaves nothing behind but flow information that is marked  *)
(* for the timer: the database, the block, the pools, the references to    *)
(* ether types and the flow count are those of before.                     *)
EtherInUse == [s \in Slots |-> IF etmap[s].ref = 0 THEN Null ELSE etmap[s]]

FailureUndone ==
    [][rule' = rule =>
          UNCHANGED <<db, hw, used, EtherInUse, stats, num>>]_vars
=============================================================================
