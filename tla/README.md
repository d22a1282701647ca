# Lantern: TLA+ models of the flow tables and ports of an OpenFlow switch

Lantern is Open vSwitch 1.10 on a Centec (Humber) switching chip. Open vSwitch
speaks OpenFlow and keeps the rules; the adaptation layer under `src/adapt/`
turns each rule into entries, next hops and counters of the chip; the SDK under
`src/sdk/` writes the chip. This directory holds TLA+ modules for the parts of
that stack in which the correctness of forwarding is decided, TLC instances of
them, and TLAPS proofs about them for every size of the tables.

## The system

```
 OpenFlow controller
      |
 Open vSwitch (src/ovs)            main loop, holds pg_mutex while it runs
      |  struct rule_ctc
 OpenFlow provider (adapt/ovs/src/ofproto-ctc.c)      rules, expiry, actions
      |  ofp_* calls (adapt/api)
 adaptation layer (adapt/adpt/src)
   flow table ── priority database ── pools (opf)
      |    \── next hops, GRE tunnels, ports
      |                                  \── idle timer (event loop thread)
 HAL (adapt/hal) -> SDK (sdk/core/humber) -> chip, which classifies packets
                                             all the time
```

| component | state | operations | what is hard | what makes it correct |
|---|---|---|---|---|
| TCAM block (`sys_humber_aclqos_entry.c`) | slots of a block, shadow and chip; `free_count`; insert counters | insert after an entry, delete; shift, spread, push to an end | packets are classified between any two writes; boundaries; failing insert | no entry is ever missing; requested order; exact free count; inserts end |
| Priority database (`adpt_flow_db.c`) | per block: list of priorities, entry ids of each; ether-type map; flow information; flow count | add, delete, find the entry to insert behind | search from either end; lists in step with the chip | database and block agree |
| Flow table (`adpt_flow.c`) | rule, entry ids, statistics pointers, flow ids, parser slots | add, modify action, delete | six tables, a failure after any of them; two entries per flow | higher priority first; failures leave nothing; entries, counters and references owned by exactly one flow |
| Flow time-outs (`adpt_flow.c`, `ofproto-ctc.c`) | `last_matched`, `modified`, packet counters | timer round, sweep | two threads and the chip | flows go in time, none goes that is used |
| Pools (`sys_humber_opf.c`, `adpt_opf.c`) | two lists of free blocks over one range, two marks between them | allocate from either end, free, reserve | which list a freed block belongs to; joining blocks; exhaustion | no offset handed out twice, none lost, served while there is room |
| OpenFlow provider (`ofproto-ctc.c`) | rules, ports | construct, destruct, modify, expire, port add/del | translation of actions; removal of rules when a port goes | every rule is in the chip or refused |
| Next hops (`adpt_nexthop.c`) | next-hop ids, offsets, resource counters | allocate, release, multicast groups | allocation in several steps that returns at the first failure | what a released next hop held is free again |
| GRE tunnels (`adpt_gre_tunnel*.c`) | tunnels, reference counts of addresses, service ids | create, delete, bind | twelve error labels | reference counts exact after failures |
| Ports and network devices (`adpt_port*.c`, `netdev-ctc.c`) | link state, modified flags, cached interface flags | link notification, poll, enable, disable, join and leave the bridge | LCM thread against OpenFlow thread without a lock | the controller hears of every change in the end |
| Event loop (`afx_evtlp.c`) | sorted timer list, sockets | start, stop, run | start and stop from another thread | timers fire in order and on time |
| Upcalls (`adpt_message.c`, `ofp_api.c`) | a socket | packet-in | threads | every packet is taken once |

The components, with what is not modelled and why, are listed in
`PROJECT.json`, and so are the hazards of the code, each at its line with the
properties that watch over it.

Calls go down the picture. Up come packet-in and link messages from SDK threads,
and the idle timer, which the event-loop thread runs under the same `pg_mutex`
as the OpenFlow main loop: a handler of the adaptation layer is therefore one
atomic step towards the other thread, but not towards the chip.

## The modules

| module | models | composed with |
|---|---|---|
| `OrderedList` | lists without repetitions; insertion and deletion in a block as its users see it | used by the five modules below |
| `OrderedBlock` | abstract: what a TCAM block promises to the flow table | implemented by `TcamBlock` |
| `TcamBlock` | one TCAM block, every write of the chip a step | implements `OrderedBlock` |
| `PriorityDb` | operators of the priority database | extends `OrderedList`, used by `FlowTable` |
| `LookupTable` | abstract: what an OpenFlow table promises to the controller | implemented by `FlowTable` |
| `FlowTable` | add, modify and delete of flows with all tables and error labels, freeing of flow ids | extends `PriorityDb`, implements `LookupTable` |
| `FlowExpiry` | packet counters, flow ids, idle timer, sweep, time | stand-alone |
| `NextHop` | mapping of action lists to multicast groups and next hops, their pools and resource counters | stand-alone; the handlers are those of `FlowTable`, seen from their outputs |
| `GreTunnel` | creation and deletion of tunnel ports with all error labels, reference counts, the way of a packet through the chip | stand-alone; shares the pool of next-hop ids with flows |
| `RangePool` | abstract: what a pool of offsets promises to those who allocate | implemented by `OffsetPool` |
| `OffsetPool` | the two free lists and the marks of `sys_humber_opf.c` | implements `RangePool`; the pools of `FlowTable`, `NextHop` and `GreTunnel` are sets of which the lowest is taken, which is what it promises of the bottom |
| `PortStatus` | the way of a link or interface change to the controller, two threads | stand-alone; the tunnels are those of `GreTunnel`, seen from their bind ports |
| `PriorityDbProofs`, `FlowTableProofs`, `FlowExpiryProofs`, `TcamBlockProofs`, `PortStatusProofs`, `GreTunnelProofs`, `OffsetPoolProofs`, `NextHopProofs` | proofs about the module of that name | extend it |
| `MC*` | TLC instances | |

### TcamBlock

The lowest slot that matches a packet wins, so the slots of the entries *are*
the priorities of the flows. `entries` is `pb->entries`, `hw` what is valid in
the chip, `index` the `block_index` of an id. The driver holds a lock during an
insert, but the chip does not know of it: each `_sys_humber_acl_entry_move` is
two steps (`MoveWrite`, `MoveEnd`), and the loops around it go step by step
through `pc`. `InsertBegin` is `sys_humber_aclqos_entry_insert` up to the magic
reorder, `ShiftAll*` push all entries to one end, `Place*` are the cases of
`_sys_humber_acl_get_block_index`, `Shift*` make room, `Write` writes the entry,
`Reorder*` are the loop bodies of `_sys_humber_acl_reorder`, `EntryDelete` is
`sys_humber_aclqos_entry_delete`. `order` is history: the order callers asked
for. `BlockIsList` says that `TcamBlock` implements `OrderedBlock`: read from the
lowest slot up, the chip is a list in which an insert takes effect at one
instant (the write of the new entry) and which no shift changes; while the
entries are spread, when finding 1 bites, the mapping uses the order asked for.
`InsertFails` (only in `FailingSpec`) is the error label of the insert. Default
entries have slots of their own at the end of a block, five of them, and the
switch inserts two at most (`hal_flow.c:130`, `hal_flow.c:158`,
`hal_gre_tunnel.c:314`); `DefaultAssumption` says that they do not fill, for with
no vacant slot left `PlaceTail` would index with an invalid one.

### PriorityDb and FlowTable

A flow has a kind: IPv4 flows own an entry in the IPv4 block, flows with another
ether type one in the MAC block, and flows that match any ether type one in each.
`AddFlow` is the successful `adpt_flow_add_flow`; `AddFails` is the same handler
failing after the key is mapped: the parameters `indb` and `inhw` say how far it
came, and the action does and undoes what the labels Err6 to Err2 undo. An add
that fails earlier changes nothing and is no step. `ModifyFlow`, `DelFlow` and
`IdleTimer` are the other handlers. `ModifyFails` (only in `RefusingSpec`) is a
modify the chip refuses. The keys of flows are reduced to the kind and the ether
type, actions to model values; next hops and tunnels are left to their own
modules.

In `FlowTable` the block is the ordered list that `TcamBlock` implements:
`OrderedBlock` is built on the same `HwAdd` and `HwDel` as `FlowTable`.

Upwards `FlowTable` implements `LookupTable` (`IsOpenFlowTable`): each block,
entry by entry read as the flow that owns it with its priority and action, is a
list by falling priority, older flows first; adds, modifies and deletes change
all blocks at one step and a failed operation changes nothing. The replacement
of a flow by one with the same match (`rule_construct` with a victim) adds the
new flow and then deletes the old one: two steps of the model, and between them
the old flow, which is met first, still acts.

### FlowExpiry

Time passes in seconds, kept as ages (`modified`, `last_matched`), cut off at
`MaxAge`, beyond which no comparison of the code tells them apart. The timer
fires every `Tick`, the sweep at least once a second (10 to 100 ms in the code);
in between packets, modifications and removals come in any order. `silent` and
`gap` are history. `Pass` waits for a due timer and for the sweep of the current
second: both threads keep up with time. A flow is known to the timer by its flow
id; deleting a flow only marks the id, and the timer frees it. `AddFlowTimer`
ignores that no id is left, as the code does: such a flow has its last match at
time 0 and goes at the next sweep, if it has an idle timeout.

### NextHop

The outputs of a flow become the members of a multicast group of the chip; each
member is a next hop with an id, one or two offsets of the next-hop table and
the edits the actions before it ask for. `rule` is the `nh_info` of a rule,
`chip` the group its entries point at, `hwnh` and `group` the next hops and
groups of the chip, `pool` what is taken of the three pools, `cnt` the resource
counters of `adpt_flow_db.c`, `stats` whether a rule has a statistics pointer,
`stale` the entries the driver has left with another next hop than their rule's.
The handlers run one at a time but packets are
forwarded all the while, so every call that changes the chip is a step of its
own, with `op` the handler that is running: `AddFlow` and `ModifyFlow` check the
counters (`Begin`), `AllocGroup` is `adpt_nexthop_alloc_mcast_group`, `Map*` are
the iterations of `adpt_flow_map_output_action_to_mcast_members` over the list,
with `AllocFlex` and `AllocEncap` for the allocation of one member, `AllocToCpu`
the copy to the controller behind the loop, `AddMember` puts a member into the
group, `Install*` write the one or two entries, `Release*` are
`adpt_nexthop_release_nh_info_res` for a deleted flow, for the old outputs of a
modified one and for what a failed handler had got so far. Each `...Fails` is
the same call refused by the chip or out of room; what it took before the
failure and where it put it follows the code's early returns. A refused call is
taken to have changed nothing in the chip, and removals are taken to succeed. A
flow that finds no statistics pointer is refused before it has anything, which is
no step.

`stats` and `stale` are about writes the driver does not make. A refused modify
takes the statistics pointer of its flow away (finding 3), and the next modify
takes a new one (`stats` is `"new"`) and asks the driver for statistics. The
driver's entry has them, so it returns with success before it comes to the next
hop (`sys_humber_aclqos_entry.c:7313`): the entry keeps its next hop although the
list of the flow is another and the old group is about to be released (`Kept`).
A modify whose second entry is refused does the same to that entry, because
`adpt_flow_modify_flow_action` ignores the result (`ExtraIgnored`). The driver
keeps one copy of where a group begins for all the entries with the same next hop
id, and an entry left behind keeps the copy alive; when the id is given to the
next group, an entry written with it, of whichever flow, is connected to the old
copy (`Stuck`). All these entries are in `stale` until they are written again
with a next hop that is not stuck, or deleted. Field values are left out: an edit
is the flag that asks for it. Left out as well are `release_nh_id`, `alloc_nexthop_offset`
and `phy_port_destory`, which nothing calls, and MPLS.

### GreTunnel

A packet that enters a bind port with the addresses of a tunnel meets the decap
route of the pair, the route's next hop, an internal port that loops it back,
and the default user id entry of that port, which gives it the service id of the
tunnel port. `tunnel` is the `adpt_tunnel_info_t` of a port, `db` the tables of
`adpt_gre_tunnel_db.c`, `pool` what is taken of internal ports and next-hop ids,
`chip` what the chip was told, `op` the handler that runs with what it has left
to undo. `CreatePort` is `adpt_tunnel_create_port` up to the addresses, each
action after it one of its calls, `CreateFails` the failure of any of them:
`Undone` is the table of its `goto`s and `Err(n)` what stands from label `Err n`
on. The same undo steps, in the order of `DeleteSteps`, are
`adpt_tunnel_delete_port`. A tunnel port has a service id of its own from
initialisation on, so the port stands for the id. `FlowAllocsNhid` and
`FlowReleasesNhid` are the flows, which take ids from the same pool. Removals
are taken to succeed; label `Err11` cannot be reached, since the data of a port
that was just created can always be set.

### OffsetPool

`pre` and `rev` are the two lists, `max_pre` and `min_rev` the marks
`max_offset_for_pre_alloc` and `min_offset_for_rev_alloc`, `held` is history:
what has been handed out and from which end. `rev` is kept in mirrored offsets,
as in the code. `AllocOffset`, `ReverseAllocOffset` and `FreeOffset` are the
three calls the switch uses; a refused allocation changes nothing. `PreFree` and
`RevFree` have every way of joining a freed block and the cases in which the
marks go back. Users free what they hold, once. `Served` is stated for the
bottom only, because it does not hold of the top: a mark at the end of the range
goes back only with a free that joins a block, and until then a request from the
top can be refused although there is room.

### PortStatus

`fea` and `modified` are what the LCM thread writes into the port database,
`kernel` the interface flags of the kernel, `cache` those in `netdev-ctc.c`,
`pp` the description of each port that was last sent. `RxLinkNotify` and the
`Lcm` actions are `adpt_port_rx_link_notify`, one action per write that the other
thread can see; the `Poll` actions are one round of `port_poll` and `update_port`,
one per read; `PortAdd`, `PortDel` and `PortMod` come between two rounds, under
`pg_mutex`. A description is reduced to three facts: down, carrier, features, the
last with what the link can do and what the port advertises apart, because
`handle_port_mod` sets the latter by itself (`netdev_set_advertisements`, which
writes into the record of the port and flags nothing). `SetInterface` is
`ofp_netdev_enable_interface` and `_disable_interface`: the flag of the kernel
changes first, then the PHY is set, and only when that succeeds is the port
flagged; whether it does is a choice. `Init` has the ports as LCM has created
and enabled them: flagged, except those whose PHY failed. Calls of the kernel and
the lookup of a port that exists are taken to succeed.

Three variables are history, one for each way in which a change goes by the
controller: `lost` has the ports flagged again after they were read and before
their flag was taken away, `refused` those that were enabled or disabled without
a flag because the PHY failed, `advertised` those that advertise something else
since they were last read. A port leaves them when it is read anew.

## What TLC checks

| run | instance | shows |
|---|---|---|
| `tcam_block` | 4 entries and a default entry, 6+1 slots | no entry lost, free count exact, chip equals shadow between calls, requested order at every instant except while spreading; implements `OrderedBlock`; every insert ends, under weak fairness of the driver's own steps |
| `tcam_reorder` | 5 entries, 11 slots | **violated**: order at every instant |
| `tcam_failed_insert` | 2 entries, 3 slots | **violated**: free count after a failing insert |
| `flow_order` | 3 rules, 4 priorities | higher priority first, database equals block, failed adds undone; implements `LookupTable` |
| `flow_table` | 3 rules, 2 actions, 3 ether types for 2 parser slots, scarce extra ids, one flow id | entries, actions and statistics have one owner; flow information and ether-type references exact; implements `LookupTable` |
| `flow_modify` | as above, chip may refuse | **violated**: statistics pointer after a refused modify |
| `flow_expiry` | 1 rule, 3 flow ids, timeouts below and above the timer period | gone in time, never early; a flow that stays gets packets forever; flow ids come back |
| `nexthop` | 2 rules (1 and 2 entries) with 4 and 2 lists and scarce pools, or 1 rule with 10 lists of every kind of action and target | packets are sent as asked at every instant, except by entries the driver has left alone; ids, offsets and groups have one owner; output counter exact, the others never too low, none past its limit but the one of tunnels by one flow's; releases give back everything |
| `gre_tunnel` | 3 tunnel ports, 3 local and 2 remote addresses, 2 bind ports, 3 internal ports, 6 next-hop ids | live tunnels are never disturbed, no way of packets is ever half built, reference counts exact, nothing left by failures and deletes |
| `offset_pool` | 8 offsets, blocks of 1, 2 and 3, no or 3 offsets reserved | blocks disjoint, freed to the right list, nothing lost or left unjoined, requests from the bottom served; implements `RangePool` |
| `port_status` | 2 ports, a tunnel on the second, 2 notifications, 3 operations | changes are lost in three ways only (flagged while the flag is taken away, a PHY that fails, the advertisement a controller sets itself), interface flags in the second only, everything else arrives |
| `port_polled` | the same, 4 operations | **violated**: the status of a port is polled whatever the other ports are |

Bounds. The block has few slots, so that it fills, and the parameters of the
driver are scaled with it: the reorder ratio so that a shift of one or two
entries triggers spreading, the base and margin of the magic reorder so that it
happens with two entries in the block. Four entries and six slots give every
relative position of target, vacant slots and both ends. `CountBound` caps the
insert counters, which only matter up to the margin. Three flows are the least
with which a priority lies between two others and is searched from the head
(1, 2, 5) or from the tail (1, 4, 5), and with which the third flow finds pools
empty that the first two took. In `flow_order` no flow ids are
configured (flow information is the subject of `flow_table`), and `flow_table`
has a single priority. One rule is enough for
`FlowExpiry`: the only thing rules share are the flow ids, which marked ids, of
flows and of failed adds, use up as other rules would. `NextHop` has two ports, so that
output to all is more than one member, five ids, four offsets and two
groups, so that two flows of two outputs compete for the last of each pool and
a double offset can find only single ones free, and one place for tunnels and
new addresses, so that their limit is reached and passed; the constraint `Apart`
keeps the competing flows and the flow with every kind of list in different
behaviours, and `Once` behaviours with leaked ids and behaviours with refused
modifies. Without `Once` and with four ids the run passes as well, in 3.5 million
states; the two kinds of failure do not meet in any property, and the theorems
below have neither constraint.
`OffsetPool` has room for three to eight blocks and for every order in which
neighbours of different sizes, at the ends and in the middle, are freed; the
sizes of the code are one and two words. `PortStatus` has one port before and
one behind another in the list, and two notifications, so that the second can
fall into the window of the first; three operations add both ports and the
tunnel, add a port and its tunnel and set what the port advertises, or take a
port out and in again. `GreTunnel` has one local address
more than the limit and fewer ids than three tunnels and a flow need, so that
every pool and table runs out; three tunnels share two bind ports. Symmetry is used for the
rules, ether types and actions of the flow table, for ports and addresses of
tunnels and for the entries of `tcam_reorder`; `tcam_block`, `flow_expiry` and
`port_status`, which check liveness, use none.

Fairness. `TcamBlock`: weak fairness of the steps of a call, because the thread
that called holds the lock and waits for nothing. `FlowExpiry`: weak fairness of
timer, sweep and time, because both threads are endless loops; packets,
modifications and removals are not fair. `PortStatus`: weak fairness of the
polling, an endless loop, and of the steps of a notification that has begun,
which wait for nothing; notifications and operations themselves are not fair.
`FlowTable`, `NextHop`, `GreTunnel` and `OffsetPool` have safety only.

## Findings

1. `tcam_reorder`: the test that lets an entry move up in
   `_sys_humber_acl_reorder` (line 6356) is inverted. While an insert spreads the
   entries, one overtakes another and packets match a lower priority first. When
   the insert returns, the order is right again.
2. `tcam_failed_insert`: an insert that fails before it has a slot is removed as
   if it had slot 0 (line 6827): the owner of slot 0 is cleared and `free_count`
   is one too high.
3. `flow_modify`: a modify the chip refuses frees the statistics pointer of a
   flow that lives on (`adpt_flow.c:2658`), and another flow may be given the
   pointer. The driver then answers the next modify with success without changing
   the entry, whose old group is released: what follows for forwarding is in
   `NextHop` (`stale`).
4. `port_polled`: `port_poll` gives up at the first flagged port when that port
   is not in the bridge, and leaves its flag (`ofproto-ctc.c:1555`). Every port
   whose PHY does not fail is flagged from its creation on: while one is outside
   the bridge, the ports behind it in the list are never reported.

Limits that the properties state as they are:

- With looks every 5 s a flow can be expired as idle although no pause of its
  full idle timeout occurred; packets at least every `idle_timeout - 5` seconds
  keep a flow (`NeverEarly`).
- Tunnel outputs are checked against `gre_mpls_output_max` before the next hops
  with a new address count themselves, and counted after, so that a list with both
  passes the limit, by as many tunnels as it has (`CountersCover`).
- The allocations of a group and of a next hop return at the first failure
  without giving back the id, the offset and the counter taken before
  (`adpt_nexthop.c:462`); `OnlyFailuresLeak` says that nothing else loses them.
- An output to a tunnel gets only stripped tags and the tunnel id of the edits
  before it (`adpt_gre_tunnel.c:141`), although `src/ARCH:295` says that
  "Modify-Field actions will be inherited for each subsequent forward action".
  `ForwardsAsAsked` does not hold with what the document says; it asks that a
  tunnel makes the strips and sets the id as asked and makes no edit that was not
  asked for.
- After a refused modify, and after one whose second entry is refused, an entry
  can point at a group that is gone or that has become another flow's
  (`adpt_flow.c:2647`, `adpt_flow.c:2658`); `ForwardsAsAsked` is about all the
  others.
- A link change that is flagged while `update_port` is between reading the port
  and `port_modified`, a change of the interface flags whose PHY fails
  (`ofp_netdev_api.c:538` and `:599`) and a new advertisement (`ofproto.c:2441`)
  are not reported until the port changes again (`NothingElseLost`,
  `AdminLostOnlyByPhy`).

## What is proved

`tlapm` checks the `...Proofs` modules. Their theorems hold for every value of
the constants that the named assumptions of the modules allow. These are typing
assumptions (numbers are natural, sets of ids and rules finite where they are
counted, `Null` is none of the values it is used beside) and, where the code
guarantees it, a little more: the pools of the blocks are disjoint (`adpt_opf.c`
sets up disjoint ranges), `ID_HEAD` and `ID_TAIL` are no ids, a block has at
least one ordinary slot and a default slot for every default entry, the switch
has a port and the table of next hops an offset. In every module the argument is one inductive
invariant `IInv`: a lemma that `Init` implies it, one lemma per action that the
action preserves it, and the properties as consequences. Each `IInv` was checked
by TLC on the instance of its run before it was proved.

**PriorityDb.** Adding an entry to a consistent database and inserting it into
the block behind the entry `PrevId` names gives a consistent pair
(`AddConsistent`), deleting it from both does (`DelConsistent`), and deletion
undoes addition exactly, list by list and slot by slot.

**FlowTable.** `IInv` has:

- `TypeOK` and `DbIsHw`, the goals;
- `PoolsHold`: a block holds only ids taken from its pool. Without it a new id
  could already be in the block and `AddConsistent` would not apply;
- `Placed`: a rule's entry is in the database under the rule's priority, so that
  a deletion takes out of the list what it takes out of the block;
- `Apart`, `Counting`: no two rules share an entry or a statistics pointer, so
  that a deletion leaves the other rules `Placed`;
- `Programmed`: what the chip does with the entries of a rule. A modify only
  changes the action of an entry, so the entry has to be there.

From it follow `TypeCorrect`, `DatabaseIsBlock`, `HigherFirst` (through
`Placed` and the order part of `DbIsHw`), `ActionsApplied` and
`FailedAddUndone`, an action property that needs `DbIsHw` before the step.
Ownership is proved on top of it: `NothingOrphaned` (every id of a pool, a block
and the chip is that of a rule), `CountersOwned`, `FlowIdsLive` (an unmarked flow
id leads to the rule that has it) and `EtherTypesExact` (reference counts as
cardinalities of sets of rules).

`ImplementsLookup` is the refinement `IsOpenFlowTable`. `SeenIs` says what
packets see: at each place of a block the flow of the one rule that has the
entry there, which needs both `Apart` (one rule) and `NoOrphans` (some rule). An
add inserts where `PrevId` says, and `PlaceIsRank` shows that this is the number
of flows of the same priority or above, the place `LookupTable` gives the flow;
a delete takes out the one place that lists the rule; a failed add, because it
restores blocks and rules exactly, and the timer are stuttering steps.

**FlowExpiry.** The timing properties need to relate the age of a flow, the time
since its last packet and the phases of timer and sweep: `Timely` bounds, for
every rule, `last_matched` and `silent` by each other and by the time since the
last round. `FlowsGoInTime`, `FlowsStayWhileUsed` and `FlowIdsComeBack` follow,
the last from a count: what is marked or used never exceeds the rules plus the
adds since the timer fired.

**TcamBlock.** The invariant follows the driver through every loop: where the
vacant slot of a shift is, that the entry being moved is in two slots and every
other in one, which slots the array of a reorder still has to serve, and that
the slots of the entries outside a reorder are in the order asked for.
`NoEntryIsLost`, `FreeCountIsExact` and `ChipFollowsShadow` follow, and
`InOrderOutsideReorder`, which is all that is left of the order by finding 1.
`BlockIsAList` is the refinement: the chip, read from the lowest slot up, is
unchanged by every step but the write of the new entry and the delete.

**PortStatus.** The invariant says for each place of the LCM thread and of the
poll which parts of a port's description may differ from what was last sent, and
that a difference is always covered by a flag, by a notification that will still
flag the port, by a read that is still to come, or by one of the histories: `lost`
for any part, `refused` for the flags of the interface and the carrier they hide,
`advertised` for what is advertised only. It gives `NothingElseIsLost` and
`AdminIsLostOnlyByPhy`.

**GreTunnel.** A step that a handler still has to undo stands for what it holds:
the invariant (`RecInv` to `RouteInv`) gives, for every list of undo steps that
is left, the owner of every address pair, reference, internal port, next-hop id
and chip entry. Since the error labels and a delete are suffixes of the same
kind of list, one argument covers all of them. `TunnelsUndisturbed`,
`RoutesLeadHome` and `BooksAreExact` follow.

**OffsetPool.** `Ordered` and `Exact` say that a list is in order, nowhere
touching, and covers exactly what its end has not handed out; `RevInv` has the
empty last node of the top and where it begins, `MarkInv` that the marks lie
between the blocks of the two ends. The joins of a free are one lemma each
(`JoinNone`, `JoinFront`, `JoinBehind`, `JoinBoth`), used by both lists. A place
that is free lies in one entry because entries do not touch (`OneEntry`): hence
`RequestsAreServed`, and that the first fitting entry is the nearest place, which
is the step of `PoolIsARangePool`.

**NextHop.** A handler is interrupted by packets after every write, and any
write may be refused, so the invariant has to say at each place what is held and
by whom. `Has(o, j, x)` is "the rule or handler `o` holds `x` through its member
`j`, or through its group", with what a release has passed already taken out.
`ResInv` says that what is held is taken and has one holder, `ChipInv` that it is
in the chip; they need `GroupInv` (no members without a group), `OpInv` (what the
handler has in hand at each place, above all that it releases the very record it
will drop) and `MapInv` (a list with an output never gets through the loop
without a member, or `AddMember` would read one that is not there). Every action
is then one of four things: nothing changes hands, something free is taken and
held, something held is given back, or a record changes its owner. `TypeCorrect`
and `NextHopsExclusive` follow. `OnlyFailuresLose` needs `CountInv` on top: while
the list is mapped, the members so far and the one for the CPU are no more than
the outputs counted so far (`UptoNext`, `UptoEnds`), so that `output_count`, which
bounds the loop of a release, never stops it early.

`Covered` compares counters with cardinalities. `CoverInv` says that the output
counter is the number of slots of the installed rules, that the set of next hops
of each double kind is finite, and that its counter is at least its size (plus
the slots of tunnels). `GreInv` is the limit: a handler with tunnels still to count has the counter
within `gre_mpls_output_max`, because each new address is checked when it is
counted, so that only the end of an add or modify brings it above, by the tunnels
of that flow; every later list with an output is refused until it is below again. A step changes one rule's slots (`SlotsChange`,
`RuleChange`), or adds or removes one next hop (`OneMore`, `OneLess`), so each
action is an argument about sets that differ by one element.

`Forwarded` needs `ForwardInv` on top of `IInv`:

- `PresentInv`: an installed rule has its entries in the chip, unless it is being
  deleted, so that what is left alone by the driver is an entry that is there;
- `OwnedInv`: every entry in the chip that is not stale belongs to its rule, or to the handler from
  the write of the entry until the rule takes over, and what its owner holds is
  `Fine`: the members match what the list asks for and the group lists exactly
  them, or there is no group and the list asks for nothing. An owner of an entry
  is never the one being released;
- `NullInv`: which entries are not in the chip while a flow is deleted, and that
  only rules of `FLOW_TYPE_ANY` have an extra one;
- `PathInv`: while the handler maps the list, its members match what the actions
  so far ask for (`Sofar`), in the midst of output to all too; then the group has
  the first members of the list; then what it has built is `Fine`.

What a list asks for is defined by recursive functions. That they exist, and what
they are at each place (`EditsAre`, `UpToIs`), is proved by taking the least
length at which it would fail (`Least`), which is the induction the library's
theorems with an operator parameter cannot be used for here. One action of the
list further is then one lemma per kind of output (`SofarSame`, `SofarOne`,
`SofarMore`, `SofarAll`, `SofarEnd`).

Only model-checked: liveness (`InsertEnds`, `StaysOnlyMatched`,
`ChangesArrive`), which is out of the prover's reach.

## Not modelled

Open vSwitch itself, register access of the SDK, drivers, packaging and vendored
code; the packet parser (a pure function); argument conversion in the HAL and
API layers. MPLS flows own no TCAM block and are not in `FlowTable`. The service
ids that flows bind to a tunnel id are left out: `adpt_flow_lookup_label_id` is
unfinished for tunnel ports (`adpt_flow.c:2214`), so that deleting such a flow
releases whatever id is on the stack. Of `sys_humber_opf.c` the allocation of the
last place and at a given position is left out, which only the sorted tables of
IPv6 routes (`sys_humber_sort.c`) use, and this switch installs no such routes;
so is the allocation of several blocks at once. Of the ports, `shutdown` and
`no_shutdown` have no caller, and a change of the options of a tunnel that
exists is left out. The event loop has one timer. The OpenFlow thread starts it
when it constructs the bridge and stops and frees it when it destructs the
bridge, without a lock, while the loop of the SDK thread already runs
(`ofp_master.c:91`): a race over the links of a list that is not modelled.
`FlowExpiry` is the life of one bridge between the two calls and takes the timer
to be in the list. The race of start-up over `pg_mutex` (`ofp_master.c:91`) is one
assignment. Packet-in keeps
no state. The translation of OpenFlow matches and actions in `ofproto-ctc.c` is a
conversion without state, and the removal of rules when a port goes is a series
of `DelFlow`.

## Plan

Every invariant, action property and refinement of a passing run is proved. What
is left are the liveness properties, which only TLC checks, and hazards without
a property, each with its reason in `PROJECT.json`.
