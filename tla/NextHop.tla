------------------------------- MODULE NextHop -------------------------------
(***************************************************************************)
(* The next hops of the flows: how adpt_flow.c turns a list of actions     *)
(* into a multicast group of the chip with one member per output, how      *)
(* adpt_nexthop.c takes ids and offsets for them and gives them back, and  *)
(* the counters of adpt_flow_db.c that keep the outputs within what the    *)
(* chip can do.                                                            *)
(*                                                                         *)
(* The handlers run one at a time, under pg_mutex, but packets do not      *)
(* wait for them: every call that changes the chip is a step of its own.   *)
(* Each of these calls may be refused, and then changes nothing.           *)
(***************************************************************************)
EXTENDS Integers, Sequences, FiniteSets

CONSTANTS
    Rules,       \* struct rule_ctc
    Lists,       \* rule -> the action lists it may have
    InPort,      \* rule -> "PORT", "TUNNEL" or "ANY", what it matches in_port with
    AnyType,     \* the rules of FLOW_TYPE_ANY, which have an extra entry
    NPorts,      \* number of physical ports
    NhIds,       \* OPF_OFP_NH_ID
    Words,       \* OPF_OFP_GLB_NH, in units of four words
    Mets,        \* OPF_OFP_GLB_MET
    MaxOutput,   \* MAX_OUTPUT_PORT, outputs of one flow
    OutputMax,   \* output_port_max
    GreMax,      \* gre_mpls_output_max
    QinqMax,     \* qinq_with_mac_max
    Null

Ports == 1 .. NPorts
DROP  == 1       \* ADPT_NH_RSV_NHID_FOR_DROP

Fields == {"SET_DL_SRC", "SET_DL_DST", "SET_VLAN_VID", "STRIP_VLAN", "PUSH_VLAN",
           "SET_NW_DST", "SET_TP_DST", "SET_TUNNEL", "DEC_NW_TTL", "UNSUPPORTED"}
Targets == {"PORT", "TUNNEL", "CONTROLLER", "IN_PORT", "ALL", "NONE"}

(* An action sets a field or outputs the packet; "NONE" is a port the      *)
(* switch does not have.                                                   *)
Acts == [type : Fields, to : {Null}, n : {0}]
            \cup [type : {"OUTPUT"}, to : Targets, n : Ports \cup {0}]

ASSUME ListAssumption ==
    /\ DOMAIN Lists = Rules /\ \A r \in Rules : Lists[r] \subseteq Seq(Acts)
    /\ InPort \in [Rules -> {"PORT", "TUNNEL", "ANY"}]
    /\ AnyType \subseteq Rules

ASSUME PoolAssumption ==
    /\ NPorts \in Nat \ {0}
    /\ NhIds \subseteq {n \in Nat : n >= 5}      \* ADPT_NH_RSV_NHID_MAX
    /\ Words \subseteq Nat \ {0} /\ Words # {}
    /\ Mets \subseteq Nat \ {0}
    /\ {MaxOutput, OutputMax, GreMax, QinqMax} \subseteq Nat

VARIABLES
    rule,    \* installed rule -> its nh_info, Null for one that is not
    chip,    \* entry of a rule -> its next hop in the chip and the list the rule has
    hwnh,    \* next hop of the chip: where it sends packets and how edited
    group,   \* multicast group of the chip: its members
    pool,    \* what is taken of NhIds, Words and Mets
    cnt,     \* output_port_count, gre_mpls_output_count, qinq_with_mac_cur
    op,      \* the handler that is running
    stats,   \* rule -> whether it has a stats_ptr, "new" for one just taken
    stale    \* the entries whose next hop is not the one of their rule

driver == <<stats, stale>>
vars == <<rule, chip, hwnh, group, pool, cnt, op, driver>>

(* ofp_nh_offset_t and ofp_nexthop_info_t.                                 *)
Types == {"MAX", "FLEX", "FLEX_QINQ", "FLEX_IPDA", "IPUC", "USER_DEFINED_OFFSET"}
Nh    == [nhid : NhIds \cup {0, DROP}, offset : Words \cup Mets \cup {0}, type : Types]
NoNh  == [nhid |-> 0, offset |-> 0, type |-> "MAX"]
Drop  == [NoNh EXCEPT !.nhid = DROP]
Infos == [main : Nh, members : Seq(Nh), outs : Nat, tuns : Nat, use_mcast : BOOLEAN]
NoInfo == [main |-> NoNh, members |-> <<>>, outs |-> 0, tuns |-> 0, use_mcast |-> FALSE]
Idle  == [pc |-> "idle", mode |-> Null, r |-> Null, list |-> <<>>, i |-> 0, k |-> 0,
          combo |-> {}, cpu |-> FALSE, new |-> NoInfo, rel |-> NoInfo]

Flags == {"MACSA", "MACDA", "SVID", "CVID", "REPLACE_VID", "STRIP_SVLAN", "STRIP_CVLAN",
          "PUSH_SVLAN", "PUSH_CVLAN", "IPDA", "DST_PORT", "TUNNEL_ID", "DEC_TTL"}
Strips == {"STRIP_SVLAN", "STRIP_CVLAN"}
Pcs == {"idle", "group", "map", "member", "install", "extra", "installed", "delete",
        "release", "end"}

(* What a next hop of the chip is, and what an entry was written with.     *)
HwNhs   == [to : [kind : Targets \cup {"CPU"}, n : Nat], edit : SUBSET Flags, words : SUBSET Words]
Redirects == [nhid : NhIds \cup {DROP}, list : Seq(Acts)]

(* Null is none of the values, and no rule has the name of the handler.    *)
ASSUME NullAssumption ==
    /\ Null \notin Infos /\ Null \notin HwNhs /\ Null \notin Redirects
    /\ Null \notin Seq(NhIds) /\ "op" \notin Rules

(* entry_id and extra_entry_id of struct rule_ctc.                         *)
Entries == Rules \X {"main", "extra"}

(* adpt_nexthop_init and adpt_nexthop_phy_port_create: the group of output *)
(* to all, with an unedited next hop to every port, is there before the    *)
(* first flow.  Its ids and offsets are not part of the pools below.       *)
Init ==
    /\ rule = [r \in Rules |-> Null]
    /\ chip = [e \in Entries |-> Null]
    /\ hwnh = [n \in NhIds |-> Null]
    /\ group = [n \in NhIds |-> Null]
    /\ pool = [nh |-> {}, word |-> {}, met |-> {}]
    /\ cnt = [outs |-> 0, gre |-> 0, qinq |-> 0]
    /\ op = Idle
    /\ stats = [r \in Rules |-> "none"] /\ stale = {}

----------------------------------------------------------------------------
(* sys_humber_opf_alloc_offset takes the lowest n offsets in a row.        *)
BasesPastEnd(S, n) ==                      \* mutant: a block may stick out of the pool
    {b \in S : \A j \in 0 .. n - 1 : b + j \in S \/ b + j \notin Words}
Bases(S, n) == {b \in S : \A j \in 0 .. n - 1 : b + j \in S}
Lowest(S)   == CHOOSE b \in S : \A c \in S : b <= c

FreeNhs  == NhIds \ pool.nh
FreeMets == Mets \ pool.met
FreeWords(n) == Bases(Words \ pool.word, n)
Span(b, n) == b .. (b + n - 1)

(* adpt_flow_map_combo_action: what the actions up to here ask for, Null   *)
(* for a list that makes no sense.                                         *)
Combine(c, a) ==
    CASE a.type = "SET_VLAN_VID" ->
            IF "STRIP_SVLAN" \in c THEN Null
            ELSE c \cup (IF "PUSH_SVLAN" \in c THEN {"SVID"} ELSE {"SVID", "REPLACE_VID"})
      [] a.type = "STRIP_VLAN" ->
            IF c \cap {"STRIP_CVLAN", "PUSH_SVLAN", "PUSH_CVLAN"} # {} THEN Null
            ELSE (c \ {"REPLACE_VID"})
                    \cup (IF "STRIP_SVLAN" \in c THEN {"STRIP_CVLAN"} ELSE {"STRIP_SVLAN"})
      [] a.type = "PUSH_VLAN" ->
            IF c \cap ({"PUSH_CVLAN", "REPLACE_VID"} \cup Strips) # {} THEN Null
            ELSE IF "PUSH_SVLAN" \notin c THEN c \cup {"PUSH_SVLAN"}
            ELSE c \cup {"PUSH_CVLAN"} \cup (IF "SVID" \in c THEN {"CVID"} ELSE {})
      [] a.type = "DEC_NW_TTL" -> IF "DEC_TTL" \in c THEN Null ELSE c \cup {"DEC_TTL"}
      [] a.type = "SET_DL_SRC" -> c \cup {"MACSA"}
      [] a.type = "SET_DL_DST" -> c \cup {"MACDA"}
      [] a.type = "SET_NW_DST" -> c \cup {"IPDA"}
      [] a.type = "SET_TP_DST" -> c \cup {"DST_PORT"}
      [] a.type = "SET_TUNNEL" -> c \cup {"TUNNEL_ID"}
      [] a.type = "UNSUPPORTED" -> Null
      [] OTHER -> c

(* adpt_flow_get_output_count.                                             *)
Outputs(l) == {i \in DOMAIN l : l[i].type = "OUTPUT"}
CountsAllOnce(l) == Cardinality(Outputs(l))      \* mutant: output to all counts one
OutputCount(l) ==
    Cardinality(Outputs(l))
        + (NPorts - 1) * Cardinality({i \in Outputs(l) : l[i].to = "ALL"})
TunnelCount(l) == Cardinality({i \in Outputs(l) : l[i].to = "TUNNEL"})

(* adpt_flow_op_nexthop_res with CHECK, ADD and DEL.                       *)
Room(outs, gre) == cnt.outs + outs <= OutputMax /\ cnt.gre + gre <= GreMax
Less(a, b) == IF a < b THEN 0 ELSE a - b
Count(c, info)   == [c EXCEPT !.outs = @ + info.outs, !.gre = @ + info.tuns]
Uncount(c, info) == [c EXCEPT !.outs = Less(@, info.outs), !.gre = Less(@, info.tuns)]

----------------------------------------------------------------------------
(* The kinds of next hop of adpt_nexthop_alloc_flex_nh: with two tags and  *)
(* a new MAC address, or with a new IP address, it needs a double offset,  *)
(* and decrementing the TTL needs a next hop of IP unicast.                *)
IsQinq(c) == {"PUSH_SVLAN", "PUSH_CVLAN"} \subseteq c /\ c \cap {"MACDA", "MACSA"} # {}
TypeOf(c) ==
    IF "DEC_TTL" \in c THEN "IPUC"
    ELSE IF c \cap {"IPDA", "DST_PORT"} # {} THEN "FLEX_IPDA"
    ELSE IF IsQinq(c) THEN "FLEX_QINQ" ELSE "FLEX"
Size(type) == IF type \in {"FLEX_QINQ", "FLEX_IPDA"} THEN 2 ELSE 1

(* Only what adpt_nexthop_alloc_ipuc_nh can do goes with the TTL.          *)
TtlFits(c) == "MACDA" \in c /\ c \cap {"MACSA", "REPLACE_VID", "PUSH_SVLAN",
                                       "PUSH_CVLAN", "IPDA", "DST_PORT"} = {}
(* The counter the next hop needs a place in, and taking it.               *)
Fits(c) ==
    CASE TypeOf(c) = "IPUC"      -> TtlFits(c)
      [] TypeOf(c) = "FLEX_IPDA" -> Room(0, 1)
      [] TypeOf(c) = "FLEX_QINQ" -> cnt.qinq < QinqMax
      [] OTHER -> TRUE
Counted(type) ==
    CASE type = "FLEX_IPDA" -> [cnt EXCEPT !.gre = @ + 1]
      [] type = "FLEX_QINQ" -> [cnt EXCEPT !.qinq = @ + 1]
      [] OTHER -> cnt

(* adpt_nexthop_map_flex_nh_param: a pushed tag needs its VLAN id.         *)
PushFits(c) ==
    TypeOf(c) # "IPUC" => /\ "PUSH_SVLAN" \in c => "SVID" \in c
                          /\ "PUSH_CVLAN" \in c => "CVID" \in c

(* The member just allocated is stored behind the others.                  *)
Stored(nh) == [op.new EXCEPT !.members = Append(@, nh)]

(* The edits that get into the parameters of the chip.  A next hop of IP   *)
(* unicast strips the tags by itself; the end of a tunnel knows no other   *)
(* edits than stripping tags and the tunnel id.                            *)
FlexEdit(c)  == (c \ {"TUNNEL_ID"}) \cup (IF "DEC_TTL" \in c THEN Strips ELSE {})
EncapEdit(c) == c \cap (Strips \cup {"TUNNEL_ID"})

(* What the chip sends where: a port, the port a packet came from, the end *)
(* of a tunnel, the CPU.                                                   *)
To(kind, n) == [kind |-> kind, n |-> n]

(* adpt_nexthop_alloc_flex_nh for an output to a port; o is the handler    *)
(* with its loop advanced.                                                 *)
AllocFlex(c, to, o) ==
    LET type == TypeOf(c)
        off  == Lowest(FreeWords(Size(type)))
        id   == Lowest(FreeNhs)
    IN /\ Fits(c) /\ PushFits(c)
       /\ FreeWords(Size(type)) # {} /\ FreeNhs # {}
       /\ cnt' = Counted(type)
       /\ pool' = [pool EXCEPT !.nh = @ \cup {id}, !.word = @ \cup Span(off, Size(type))]
       /\ hwnh' = [hwnh EXCEPT ![id] = [to |-> to, edit |-> FlexEdit(c),
                                         words |-> Span(off, Size(type))]]
       /\ op' = [o EXCEPT !.new = Stored([nhid |-> id, offset |-> off, type |-> type])]

(* It fails: there is no room, an offset or an id is missing, a pushed tag *)
(* has no VLAN id, or the chip refuses.  Whatever was taken before that is *)
(* nowhere stored.                                                         *)
AllocFlexFails(c) ==
    LET type  == TypeOf(c)
        words == FreeWords(Size(type))
    IN IF Fits(c)
       THEN /\ cnt' = Counted(type)
            /\ pool' = [pool EXCEPT
                  !.word = IF words = {} THEN @ ELSE @ \cup Span(Lowest(words), Size(type)),
                  !.nh = IF words = {} \/ FreeNhs = {} THEN @ ELSE @ \cup {Lowest(FreeNhs)}]
       ELSE UNCHANGED <<cnt, pool>>

(* adpt_tunnel_alloc_encap_nhid, which gives back what the chip refuses    *)
(* but not the id that finds no offset.                                    *)
AllocEncap(c, to, o) ==
    LET off == Lowest(FreeWords(1))
        id  == Lowest(FreeNhs)
    IN /\ FreeNhs # {} /\ FreeWords(1) # {}
       /\ pool' = [pool EXCEPT !.nh = @ \cup {id}, !.word = @ \cup {off}]
       /\ hwnh' = [hwnh EXCEPT ![id] = [to |-> to, edit |-> EncapEdit(c), words |-> {off}]]
       /\ op' = [o EXCEPT !.new = Stored([nhid |-> id, offset |-> off, type |-> "IPUC"])]
       /\ UNCHANGED cnt

AllocEncapFails ==
    /\ pool' = IF FreeNhs # {} /\ FreeWords(1) = {}
               THEN [pool EXCEPT !.nh = @ \cup {Lowest(FreeNhs)}] ELSE pool
    /\ UNCHANGED cnt

----------------------------------------------------------------------------
(* A handler that fails releases what its rule holds and ends.             *)
Undone(o) == [o EXCEPT !.mode = "undo", !.pc = "release", !.rel = o.new, !.k = 1]

(* adpt_flow_map_flow_action and adpt_flow_add_output_action up to the     *)
(* group: a list without outputs drops the packets.  A flow that has no    *)
(* statistics pointer takes one first.                                     *)
Begin(mode, r, l) ==
    LET new == [NoInfo EXCEPT !.outs = OutputCount(l), !.tuns = TunnelCount(l)]
        o   == [Idle EXCEPT !.mode = mode, !.r = r, !.list = l, !.i = 1, !.new = new]
    IN /\ op.pc = "idle"
       /\ op' = IF l = <<>> \/ (new.outs = 0 /\ Room(0, 0))
                THEN [o EXCEPT !.pc = "install", !.new.main = Drop]
                ELSE IF new.outs <= MaxOutput /\ Room(new.outs, new.tuns)
                THEN [o EXCEPT !.pc = "group"]
                ELSE Undone(o)
       /\ stats' = [stats EXCEPT ![r] = IF mode = "modify" /\ @ = "none" THEN "new" ELSE "has"]
       /\ UNCHANGED <<rule, hwnh, group, pool, cnt, stale>>

AddFlow(r, l)    == rule[r] = Null /\ Begin("add", r, l) /\ UNCHANGED chip
ModifyFlow(r, l) == rule[r] # Null /\ Begin("modify", r, l) /\ UNCHANGED chip

(* adpt_flow_del_flow takes the entries out of the chip, then releases.    *)
Deleting(r) == [Idle EXCEPT !.mode = "del", !.r = r, !.rel = rule[r], !.k = 1]
DelReleasesFirst(r) ==   \* mutant: the extra entry is left while its next hops go
    /\ rule[r] # Null /\ op.pc = "idle"
    /\ chip' = [chip EXCEPT ![<<r, "main">>] = Null] /\ stale' = stale \ {<<r, "main">>}
    /\ op' = [Deleting(r) EXCEPT !.pc = "release"]
    /\ UNCHANGED <<rule, hwnh, group, pool, cnt, stats>>
DelFlow(r) ==
    /\ rule[r] # Null /\ op.pc = "idle"
    /\ chip' = [chip EXCEPT ![<<r, "main">>] = Null] /\ stale' = stale \ {<<r, "main">>}
    /\ op' = [Deleting(r) EXCEPT !.pc = IF r \in AnyType THEN "delete" ELSE "release"]
    /\ UNCHANGED <<rule, hwnh, group, pool, cnt, stats>>
DelExtra ==
    /\ op.pc = "delete"
    /\ chip' = [chip EXCEPT ![<<op.r, "extra">>] = Null] /\ stale' = stale \ {<<op.r, "extra">>}
    /\ op' = [op EXCEPT !.pc = "release"]
    /\ UNCHANGED <<rule, hwnh, group, pool, cnt, stats>>

(* adpt_nexthop_alloc_mcast_group.                                         *)
AllocGroup ==
    /\ op.pc = "group"
    /\ FreeNhs # {} /\ FreeMets # {}
    /\ LET id == Lowest(FreeNhs)
           m  == Lowest(FreeMets)
       IN /\ pool' = [pool EXCEPT !.nh = @ \cup {id}, !.met = @ \cup {m}]
          /\ group' = [group EXCEPT ![id] = <<>>]
          /\ op' = [op EXCEPT !.pc = "map", !.new.use_mcast = TRUE,
                              !.new.main = [nhid |-> id, offset |-> m, type |-> "MAX"]]
    /\ UNCHANGED <<rule, chip, hwnh, cnt, driver>>

AllocGroupFails ==
    /\ op.pc = "group"
    /\ pool' = [pool EXCEPT
          !.nh = IF FreeNhs = {} THEN @ ELSE @ \cup {Lowest(FreeNhs)},
          !.met = IF FreeNhs = {} \/ FreeMets = {} THEN @ ELSE @ \cup {Lowest(FreeMets)}]
    /\ op' = Undone(op)
    /\ UNCHANGED <<rule, chip, hwnh, group, cnt, driver>>

(***************************************************************************)
(* adpt_flow_map_output_action_to_mcast_members: one action of the list.   *)
(***************************************************************************)
Mapping == op.pc = "map" /\ op.i <= Len(op.list)
Act     == op.list[op.i]
Combo   == Combine(op.combo, Act)
Advance == [op EXCEPT !.i = @ + 1, !.k = 0, !.combo = Combo]
Is(tos) == Act.type = "OUTPUT" /\ Act.to \in tos
Local   == Is({"PORT", "ALL"}) \/ (Is({"IN_PORT"}) /\ InPort[op.r] = "PORT")

MapField ==
    /\ Mapping /\ Act.type # "OUTPUT" /\ Combo # Null
    /\ op' = Advance
    /\ UNCHANGED <<rule, chip, hwnh, group, pool, cnt, driver>>

(* Output to all is a loop over the ports, adpt_flow_map_all_to_mcast_     *)
(* members.                                                                *)
LocalPort == IF Act.to = "ALL" THEN To("PORT", op.k + 1) ELSE To(Act.to, Act.n)
MapLocal ==
    /\ Mapping /\ Local
    /\ AllocFlex(Combo, LocalPort,
          IF Act.to = "ALL" /\ op.k + 1 < NPorts THEN [op EXCEPT !.k = @ + 1] ELSE Advance)
    /\ UNCHANGED <<rule, chip, group, driver>>
MapLocalFails ==
    /\ Mapping /\ Local
    /\ AllocFlexFails(Combo)
    /\ op' = Undone(op)
    /\ UNCHANGED <<rule, chip, hwnh, group, driver>>

MapTunnel ==
    /\ Mapping /\ Is({"TUNNEL"})
    /\ AllocEncap(Combo, To("TUNNEL", Act.n), Advance)
    /\ UNCHANGED <<rule, chip, group, driver>>
MapTunnelFails ==
    /\ Mapping /\ Is({"TUNNEL"})
    /\ AllocEncapFails
    /\ op' = Undone(op)
    /\ UNCHANGED <<rule, chip, hwnh, group, driver>>

(* Output to the controller, and to in_port when the flow is for any port, *)
(* needs one next hop to the CPU, allocated last.                          *)
ForCpu == Is({"CONTROLLER"}) \/ (Is({"IN_PORT"}) /\ InPort[op.r] = "ANY")
MapCpu ==
    /\ Mapping /\ ForCpu
    /\ op' = [Advance EXCEPT !.cpu = TRUE]
    /\ UNCHANGED <<rule, chip, hwnh, group, pool, cnt, driver>>

MapBad ==
    /\ Mapping
    /\ \/ Combo = Null
       \/ Is({"NONE"})
       \/ Is({"IN_PORT"}) /\ InPort[op.r] = "TUNNEL"
    /\ op' = Undone(op)
    /\ UNCHANGED <<rule, chip, hwnh, group, pool, cnt, driver>>

(* adpt_nexthop_alloc_to_cpu_flex_nh.  Its offset is the flow id, which    *)
(* tells the CPU the flow; as a number it may be an offset of Words too.   *)
MapDone == op.pc = "map" /\ op.i > Len(op.list)
ToMembers(o) == [o EXCEPT !.pc = "member", !.k = 1]

AllocToCpu ==
    /\ MapDone /\ op.cpu /\ FreeNhs # {}
    /\ LET id == Lowest(FreeNhs)
       IN /\ pool' = [pool EXCEPT !.nh = @ \cup {id}]
          /\ hwnh' = [hwnh EXCEPT ![id] = [to |-> To("CPU", 0), edit |-> {}, words |-> {}]]
          /\ op' = [ToMembers(op) EXCEPT !.new =
                Stored([nhid |-> id, offset |-> Lowest(Words), type |-> "USER_DEFINED_OFFSET"])]
    /\ UNCHANGED <<rule, chip, group, cnt, driver>>
AllocToCpuFails ==
    /\ MapDone /\ op.cpu
    /\ pool' = IF FreeNhs = {} THEN pool ELSE [pool EXCEPT !.nh = @ \cup {Lowest(FreeNhs)}]
    /\ op' = Undone(op)
    /\ UNCHANGED <<rule, chip, hwnh, group, cnt, driver>>
NoCpu ==
    /\ MapDone /\ ~op.cpu
    /\ op' = ToMembers(op)
    /\ UNCHANGED <<rule, chip, hwnh, group, pool, cnt, driver>>

(* hal_nexthop_add_mcast_member, one after the other.                      *)
AddMember ==
    /\ op.pc = "member"
    /\ group' = [group EXCEPT ![op.new.main.nhid] = Append(@, op.new.members[op.k].nhid)]
    /\ op' = [op EXCEPT !.pc = IF op.k = Len(op.new.members) THEN "install" ELSE @,
                        !.k = @ + 1]
    /\ UNCHANGED <<rule, chip, hwnh, pool, cnt, driver>>
AddMemberFails ==
    /\ op.pc = "member"
    /\ op' = Undone(op)
    /\ UNCHANGED <<rule, chip, hwnh, group, pool, cnt, driver>>

----------------------------------------------------------------------------
(* sys_humber_aclqos_entry_action_add.  A modify that has just taken a     *)
(* statistics pointer asks the driver for statistics, and the driver,      *)
(* whose entry has them, is done before it gets to the next hop.           *)
LeftAlone == op.mode = "modify" /\ stats[op.r] = "new"

(* An entry reaches its group through a copy of where the group begins,    *)
(* one for all the entries with the same next hop id.  An entry that is    *)
(* left with what it had keeps the copy of a group about to be released,   *)
(* and whoever is given the id of that group meanwhile gets the copy too.  *)
Stuck(n) == n # DROP /\ \E s \in stale : chip[s].nhid = n
Kept(e) ==
    /\ chip' = [chip EXCEPT ![<<op.r, e>>].list = op.list]
    /\ stale' = stale \cup {<<op.r, e>>}
Written(e) ==
    /\ chip' = [chip EXCEPT ![<<op.r, e>>] = [nhid |-> op.new.main.nhid, list |-> op.list]]
    /\ stale' = IF Stuck(op.new.main.nhid) THEN stale \cup {<<op.r, e>>}
                ELSE stale \ {<<op.r, e>>}
SetAction(e) == IF LeftAlone THEN Kept(e) ELSE Written(e)

(* The entries of the flow get their next hop, in adpt_flow_add_flow one   *)
(* after the other and undone when the second is refused; in               *)
(* adpt_flow_modify_flow_action the result of the second is not looked at. *)
(* The flow whose first entry is refused also loses its statistics.        *)
Install ==
    /\ op.pc = "install"
    /\ SetAction("main")
    /\ op' = [op EXCEPT !.pc = IF op.r \in AnyType THEN "extra" ELSE "installed"]
    /\ UNCHANGED <<rule, hwnh, group, pool, cnt, stats>>
InstallFails ==
    /\ op.pc = "install"
    /\ op' = Undone(op)
    /\ stats' = [stats EXCEPT ![op.r] = "none"]
    /\ UNCHANGED <<rule, chip, hwnh, group, pool, cnt, stale>>
InstallExtra ==
    /\ op.pc = "extra"
    /\ SetAction("extra")
    /\ op' = [op EXCEPT !.pc = "installed"]
    /\ UNCHANGED <<rule, hwnh, group, pool, cnt, stats>>
InstallExtraFails ==
    /\ op.pc = "extra" /\ op.mode = "add"
    /\ chip' = [chip EXCEPT ![<<op.r, "main">>] = Null] /\ stale' = stale \ {<<op.r, "main">>}
    /\ op' = Undone(op)
    /\ UNCHANGED <<rule, hwnh, group, pool, cnt, stats>>
ExtraIgnored ==
    /\ op.pc = "extra" /\ op.mode = "modify"
    /\ Kept("extra")
    /\ op' = [op EXCEPT !.pc = "installed"]
    /\ UNCHANGED <<rule, hwnh, group, pool, cnt, stats>>

EndAdd ==
    /\ op.pc = "installed" /\ op.mode = "add"
    /\ rule' = [rule EXCEPT ![op.r] = op.new]
    /\ cnt' = Count(cnt, op.new)
    /\ op' = Idle
    /\ UNCHANGED <<chip, hwnh, group, pool, driver>>
ReleaseOld ==
    /\ op.pc = "installed" /\ op.mode = "modify"
    /\ op' = [op EXCEPT !.pc = "release", !.rel = rule[op.r], !.k = 1]
    /\ UNCHANGED <<rule, chip, hwnh, group, pool, cnt, driver>>

(* adpt_nexthop_release_nh_info.                                           *)
FreedAlways(nh) == Span(nh.offset, Size(nh.type))   \* mutant: a flow id is freed as an offset
Freed(nh) ==
    IF nh.offset = 0 \/ nh.type = "USER_DEFINED_OFFSET" THEN {}
    ELSE Span(nh.offset, Size(nh.type))
UncountsIpuc(type) ==                      \* mutant: a TTL next hop is uncounted too
    IF type \in {"FLEX_IPDA", "IPUC"} THEN [cnt EXCEPT !.gre = Less(@, 1)]
    ELSE IF type = "FLEX_QINQ" THEN [cnt EXCEPT !.qinq = Less(@, 1)] ELSE cnt
UncountedNh(type) ==
    CASE type = "FLEX_IPDA" -> [cnt EXCEPT !.gre = Less(@, 1)]
      [] type = "FLEX_QINQ" -> [cnt EXCEPT !.qinq = Less(@, 1)]
      [] OTHER -> cnt

(* adpt_nexthop_release_nh_info_res: the first output_count members, then  *)
(* the group; without a group the main next hop, which is a reserved one.  *)
MembersLeft == op.rel.use_mcast /\ op.k <= op.rel.outs /\ op.k <= Len(op.rel.members)
ReleaseMember ==
    /\ op.pc = "release" /\ MembersLeft
    /\ LET nh == op.rel.members[op.k]
       IN /\ cnt' = UncountedNh(nh.type)
          /\ hwnh' = [hwnh EXCEPT ![nh.nhid] = Null]
          /\ pool' = [pool EXCEPT !.nh = @ \ {nh.nhid}, !.word = @ \ Freed(nh)]
    /\ op' = [op EXCEPT !.k = @ + 1]
    /\ UNCHANGED <<rule, chip, group, driver>>
ReleaseGroup ==
    /\ op.pc = "release" /\ ~MembersLeft
    /\ IF op.rel.use_mcast
       THEN /\ group' = [group EXCEPT ![op.rel.main.nhid] = Null]
            /\ pool' = [pool EXCEPT !.nh = @ \ {op.rel.main.nhid},
                                    !.met = @ \ {op.rel.main.offset}]
       ELSE UNCHANGED <<group, pool>>
    /\ op' = [op EXCEPT !.pc = "end"]
    /\ UNCHANGED <<rule, chip, hwnh, cnt, driver>>

(* The counters follow, and the rule is what it is from now on, without    *)
(* statistics when it is not installed.                                    *)
Ended(info, c) ==
    /\ rule' = [rule EXCEPT ![op.r] = info]
    /\ cnt' = c
    /\ op' = Idle
    /\ stats' = [stats EXCEPT ![op.r] = IF info = Null \/ @ = "none" THEN "none" ELSE "has"]
    /\ UNCHANGED <<chip, hwnh, group, pool, stale>>
EndModify == op.pc = "end" /\ op.mode = "modify"
                /\ Ended(op.new, Uncount(Count(cnt, op.new), op.rel))
EndDel    == op.pc = "end" /\ op.mode = "del" /\ Ended(Null, Uncount(cnt, op.rel))
EndUndo   == op.pc = "end" /\ op.mode = "undo" /\ Ended(rule[op.r], cnt)

Next ==
    \/ \E r \in Rules : \E l \in Lists[r] : AddFlow(r, l) \/ ModifyFlow(r, l)
    \/ (\E r \in Rules : DelFlow(r)) \/ DelExtra
    \/ AllocGroup \/ AllocGroupFails
    \/ MapField \/ MapLocal \/ MapLocalFails \/ MapTunnel \/ MapTunnelFails
    \/ MapCpu \/ MapBad \/ AllocToCpu \/ AllocToCpuFails \/ NoCpu
    \/ AddMember \/ AddMemberFails
    \/ Install \/ InstallFails \/ InstallExtra \/ InstallExtraFails \/ ExtraIgnored
    \/ EndAdd \/ ReleaseOld
    \/ ReleaseMember \/ ReleaseGroup \/ EndModify \/ EndDel \/ EndUndo

Spec == Init /\ [][Next]_vars

----------------------------------------------------------------------------
Ops == [pc : Pcs, mode : {"add", "modify", "del", "undo", Null}, r : Rules \cup {Null},
        list : Seq(Acts), i : Nat, k : Nat, combo : SUBSET Flags, cpu : BOOLEAN,
        new : Infos, rel : Infos]

TablesOK ==
    /\ rule \in [Rules -> Infos \cup {Null}]
    /\ chip \in [Entries -> Redirects \cup {Null}]
    /\ \A e \in Entries : chip[e] # Null => chip[e].list \in Lists[e[1]]
    /\ hwnh \in [NhIds -> HwNhs \cup {Null}]
    /\ group \in [NhIds -> Seq(NhIds) \cup {Null}]
    /\ pool \in [nh : SUBSET NhIds, word : SUBSET Words, met : SUBSET Mets]
    /\ cnt \in [outs : Nat, gre : Nat, qinq : Nat]
    /\ op \in Ops
TypeOK == TablesOK /\ stats \in [Rules -> {"has", "none", "new"}] /\ stale \subseteq Entries

(* Who holds next hops: the rules, and the handler the ones it has         *)
(* allocated so far.  What a release has already given back is not held.   *)
Owners == Rules \cup {"op"}
Holds(o) == o = "op" \/ rule[o] # Null
Info(o)  == IF o = "op" THEN op.new ELSE rule[o]
Releasing(o) == op.pc \in {"release", "end"} /\ o = (IF op.mode = "undo" THEN "op" ELSE op.r)

Members(o) ==
    IF ~Holds(o) THEN {}
    ELSE {j \in DOMAIN Info(o).members : Releasing(o) => j >= op.k}
Held == UNION {{<<o, j>> : j \in Members(o)} : o \in Owners}
NhOf(h) == Info(h[1]).members[h[2]]
Groups == {o \in Owners : Holds(o) /\ Info(o).use_mcast /\ ~(Releasing(o) /\ op.pc = "end")}

(* No two outputs share a next hop, a word of the next hop table or a      *)
(* group, whatever fails in between: what is held is taken in the pools,   *)
(* exists in the chip, and there occupies exactly the words that will be   *)
(* given back.                                                             *)
Exclusive ==
    /\ \A h \in Held : /\ NhOf(h).nhid \in pool.nh
                       /\ hwnh[NhOf(h).nhid] # Null
                       /\ hwnh[NhOf(h).nhid].words = Freed(NhOf(h))
                       /\ Freed(NhOf(h)) \subseteq pool.word
    /\ \A g, h \in Held : g # h => /\ NhOf(g).nhid # NhOf(h).nhid
                                   /\ Freed(NhOf(g)) \cap Freed(NhOf(h)) = {}
    /\ \A o \in Groups : /\ Info(o).main.nhid \in pool.nh
                         /\ group[Info(o).main.nhid] # Null
                         /\ Info(o).main.offset \in pool.met
    /\ \A o, q \in Groups : o # q => /\ Info(o).main.nhid # Info(q).main.nhid
                                     /\ Info(o).main.offset # Info(q).main.offset

(* What the list of actions asks for: its outputs in order, each edited by *)
(* the actions before it, and one copy to the CPU at the end.              *)
Edits(l) ==
    LET edit[i \in 0 .. Len(l)] == IF i = 0 THEN {} ELSE Combine(edit[i - 1], l[i])
    IN edit
AskedBy(r, a, e) ==
    IF a.type # "OUTPUT" THEN <<>>
    ELSE CASE a.to \in {"PORT", "TUNNEL"} -> <<[to |-> To(a.to, a.n), edit |-> e]>>
           [] a.to = "ALL" -> [p \in Ports |-> [to |-> To("PORT", p), edit |-> e]]
           [] a.to = "IN_PORT" /\ InPort[r] = "PORT" -> <<[to |-> To("IN_PORT", a.n), edit |-> e]>>
           [] OTHER -> <<>>
AskedUpTo(r, l) ==
    LET upto[i \in 0 .. Len(l)] ==
            IF i = 0 THEN <<>> ELSE upto[i - 1] \o AskedBy(r, l[i], Edits(l)[i])
    IN upto
CpuAsked(r, a) == a.to = "CONTROLLER" \/ (a.to = "IN_PORT" /\ InPort[r] = "ANY")
ToCpu == [to |-> To("CPU", 0), edit |-> {}]
Asked(r, l) ==
    AskedUpTo(r, l)[Len(l)]
        \o (IF \E i \in Outputs(l) : CpuAsked(r, l[i]) THEN <<ToCpu>> ELSE <<>>)

(* At every moment, also while a handler modifies, deletes or gives up, a  *)
(* packet that meets an entry of a flow is sent to exactly the outputs     *)
(* the flow asks for, in their order: no entry ever points at a group that *)
(* is not complete or whose members are gone.  A port gets the packet      *)
(* edited as the actions before it ask, with the tags stripped as well     *)
(* when the TTL is decremented.  A tunnel gets it with the tags stripped   *)
(* and the tunnel id set as asked; of the other edits it makes none that   *)
(* was not asked for, but may leave out any.  The entries the driver has   *)
(* left with another next hop are excepted.                                *)
AtTunnel == Strips \cup {"TUNNEL_ID"}
Sent(h, a) ==
    /\ h.to = a.to
    /\ IF a.to.kind = "TUNNEL"
       THEN h.edit \subseteq a.edit /\ h.edit \cap AtTunnel = a.edit \cap AtTunnel
       ELSE a.edit \ {"TUNNEL_ID"} = IF "DEC_TTL" \in h.edit THEN h.edit \ (Strips \ a.edit)
                                     ELSE h.edit
ForwardsAsAsked ==
    \A e \in Entries \ stale : chip[e] # Null =>
        LET asked == Asked(e[1], chip[e].list)
            g     == group[chip[e].nhid]
        IN IF chip[e].nhid = DROP THEN asked = <<>>
           ELSE /\ g # Null /\ DOMAIN g = DOMAIN asked
                /\ \A j \in DOMAIN g : hwnh[g[j]] # Null /\ Sent(hwnh[g[j]], asked[j])

(* What the installed rules were counted for: their outputs, and the ones  *)
(* to tunnels.  A function stands for as many slots as its values add up   *)
(* to.                                                                     *)
Outs == [r \in Rules |-> IF rule[r] = Null THEN 0 ELSE rule[r].outs]
Tuns == [r \in Rules |-> IF rule[r] = Null THEN 0 ELSE rule[r].tuns]
Slots(f) == UNION {{r} \X (1 .. f[r]) : r \in DOMAIN f}

(* The output counter is exact and stays within the limit.                 *)
OutputsCounted == cnt.outs = Cardinality(Slots(Outs)) /\ cnt.outs <= OutputMax

(* The counters of double offsets never say less than what is in use.  The *)
(* one with tags and a new MAC address keeps to its limit.  The one shared *)
(* by new IP addresses and tunnels may pass it, for a list is checked for  *)
(* its tunnels before it is mapped and counted for them after it is in the *)
(* chip, when its new IP addresses have been counted as well: but never by *)
(* more than the tunnels of a single flow.                                 *)
HeldOf(type) == Cardinality({h \in Held : NhOf(h).type = type})
GreNearLimit == cnt.gre <= GreMax \/ \E r \in Rules : cnt.gre <= GreMax + Tuns[r]
NeverUndercounted ==
    /\ cnt.gre >= HeldOf("FLEX_IPDA") + Cardinality(Slots(Tuns))
    /\ cnt.qinq >= HeldOf("FLEX_QINQ")
    /\ cnt.qinq <= QinqMax

(* Whatever fails, what the flows use is covered by what was counted, and  *)
(* the counters keep their limits, but for the tunnels of one flow.        *)
CountersCover == OutputsCounted /\ NeverUndercounted /\ GreNearLimit

(* What is taken and held by nobody: it is never given back.               *)
Leaked ==
    ({"nh"} \X (pool.nh \ ({NhOf(h).nhid : h \in Held} \cup {Info(o).main.nhid : o \in Groups})))
      \cup ({"word"} \X (pool.word \ UNION {Freed(NhOf(h)) : h \in Held}))
      \cup ({"met"} \X (pool.met \ {Info(o).main.offset : o \in Groups}))

(* Deleting, replacing and undoing give back everything: only a step in    *)
(* which an allocation fails can lose ids and offsets.                     *)
OnlyFailuresLeak ==
    [][Leaked' # Leaked => op.mode \in {"add", "modify"} /\ op'.mode = "undo"]_vars
=============================================================================
