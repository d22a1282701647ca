----------------------------- MODULE PortStatus -----------------------------
(***************************************************************************)
(* How the state of a port gets to the controller.  The LCM thread writes  *)
(* a link change into the port database and flags the port, and the        *)
(* tunnels bound to it, as modified (adpt_port.c).  The OpenFlow thread    *)
(* polls for a flagged port, opens its network device, reads flags,        *)
(* carrier and features, sends a port status message when they differ from *)
(* what it sent last, and takes the flag away (ofproto-ctc.c, netdev-ctc.c *)
(* and update_port of ofproto.c).                                          *)
(*                                                                         *)
(* The OpenFlow thread holds pg_mutex, the LCM thread does not: every      *)
(* access of one of them to what the other one writes is a step.           *)
(***************************************************************************)
EXTENDS Naturals, Sequences, Functions

CONSTANTS
    Phys,        \* the physical ports, in the order of ADPT_PORT_LIST
    Tunnels,     \* the GRE ports there may be
    Bind,        \* tunnel -> bind_port_name
    Links,       \* what a link may be: down, up at some speed, with the features of that
    Down,        \* the link that is down
    MaxNotify,   \* number of link notifications
    MaxAdmin,    \* number of ports added, deleted and configured
    Null

PhysSet == Range(Phys)
Ports   == PhysSet \cup Tunnels
BindOf(p) == IF p \in Tunnels THEN Bind[p] ELSE p

ASSUME PortAssumption ==
    /\ Phys \in Seq(PhysSet) /\ IsInjective(Phys) /\ PhysSet \cap Tunnels = {}
    /\ Bind \in [Tunnels -> PhysSet]
    /\ Down \in Links /\ Null \notin Links \cup Ports
    /\ {MaxNotify, MaxAdmin} \subseteq Nat

VARIABLES
    fea,        \* adpt_port_of_fea_info_t of a physical port
    modified,   \* the ports flagged in adpt_port_status_info_t
    gre,        \* ADPT_PORT_LIST of the tunnels
    kernel,     \* the physical ports that are IFF_UP
    cache,      \* the ones that are so in ifi_flags of their network device
    attached,   \* the ports of the bridge, ofproto->ports
    pp,         \* port -> the description last sent, Null for one without ofport
    lcm,        \* the notification the LCM thread is working on
    op,         \* what the OpenFlow thread is doing
    lost,       \* history: ports flagged anew while their flag was being taken away
    refused,    \* history: ports that changed without a flag, the PHY having failed
    advertised, \* history: ports that advertise something else since they were read
    budget      \* notifications and operations left

unseen == <<lost, refused, advertised>>
vars == <<fea, modified, gre, kernel, cache, attached, pp, lcm, op, unseen, budget>>

(* What is advertised may be set by itself; the current, supported and     *)
(* peer features are the ones of the link.                                 *)
Features == [link : Links, adv : Links]
FeaturesOf(link) == [link |-> link, adv |-> link]

Descs   == [down : BOOLEAN, carrier : Links, features : Features]
LcmIdle == [pc |-> "idle", p |-> Null, link |-> Down, left |-> {}]
Idle    == [pc |-> "idle", p |-> Null, i |-> 0, install |-> FALSE, carrier |-> Down,
            features |-> FeaturesOf(Down), raced |-> FALSE]

(* adpt_port_create_phy_port: LCM creates every physical port before the   *)
(* bridge is there, without a link and enabled, and flagged by that unless *)
(* its PHY fails.                                                          *)
Init ==
    /\ fea = [p \in PhysSet |-> [carrier |-> Down, features |-> FeaturesOf(Down)]]
    /\ modified \in SUBSET PhysSet
    /\ gre = <<>>
    /\ kernel = PhysSet
    /\ cache = {}
    /\ attached = {}
    /\ pp = [p \in Ports |-> Null]
    /\ lcm = LcmIdle
    /\ op = Idle
    /\ lost = {} /\ refused = {} /\ advertised = {}
    /\ budget = [notify |-> MaxNotify, admin |-> MaxAdmin]

----------------------------------------------------------------------------
(***************************************************************************)
(* The LCM thread, adpt_port_rx_link_notify.                               *)
(***************************************************************************)
LcmOnly == UNCHANGED <<gre, kernel, cache, attached, pp, unseen>>

RxLinkNotify(p, link) ==
    /\ lcm.pc = "idle" /\ budget.notify > 0
    /\ lcm' = [pc |-> "carrier", p |-> p, link |-> link,
               left |-> {t \in Tunnels : Bind[t] = p}]
    /\ budget' = [budget EXCEPT !.notify = @ - 1]
    /\ LcmOnly /\ UNCHANGED <<fea, modified, op>>

(* adpt_port_map_phy_info_op_fea stores the carrier, then the features.    *)
MapCarrier ==
    /\ lcm.pc = "carrier"
    /\ fea' = [fea EXCEPT ![lcm.p].carrier = lcm.link]
    /\ lcm' = [lcm EXCEPT !.pc = "features"]
    /\ LcmOnly /\ UNCHANGED <<modified, op, budget>>
MapFeatures ==
    /\ lcm.pc = "features"
    /\ fea' = [fea EXCEPT ![lcm.p].features = FeaturesOf(lcm.link)]
    /\ lcm' = [lcm EXCEPT !.pc = "flag"]
    /\ LcmOnly /\ UNCHANGED <<modified, op, budget>>

(* A port is flagged.  When the OpenFlow thread has read its carrier and   *)
(* not yet taken the flag away, the flag set now will not survive.         *)
Reading == {"features", "report"}
Flag(p) ==
    /\ modified' = modified \cup {p}
    /\ op' = IF op.p = p /\ op.pc \in Reading THEN [op EXCEPT !.raced = TRUE] ELSE op

SetPortModified ==
    /\ lcm.pc = "flag"
    /\ Flag(lcm.p)
    /\ lcm' = [lcm EXCEPT !.pc = "tunnels"]
    /\ LcmOnly /\ UNCHANGED <<fea, budget>>

(* adpt_port_set_tunnel_port_modified_by_bind_port goes through the hash   *)
(* table of the ports.                                                     *)
SkipTunnels ==                             \* mutant: only the port itself is flagged
    /\ lcm.pc = "tunnels" /\ lcm' = LcmIdle
    /\ LcmOnly /\ UNCHANGED <<fea, modified, op, budget>>
SetTunnelModified ==
    /\ lcm.pc = "tunnels"
    /\ IF lcm.left = {} THEN lcm' = LcmIdle /\ UNCHANGED <<modified, op>>
       ELSE \E t \in lcm.left :
               /\ lcm' = [lcm EXCEPT !.left = @ \ {t}]
               /\ IF t \in Range(gre) THEN Flag(t) ELSE UNCHANGED <<modified, op>>
    /\ LcmOnly /\ UNCHANGED <<fea, budget>>

Lcm == MapCarrier \/ MapFeatures \/ SetPortModified \/ SetTunnelModified

----------------------------------------------------------------------------
(***************************************************************************)
(* The OpenFlow thread: ofproto_run calls port_poll until it says EAGAIN.  *)
(***************************************************************************)
OvsOnly == UNCHANGED <<fea, lcm>>
Scanned == Phys \o gre

PortPoll ==
    /\ op.pc = "idle"
    /\ op' = [Idle EXCEPT !.pc = "scan", !.i = 1]
    /\ OvsOnly /\ UNCHANGED <<modified, gre, kernel, cache, attached, pp, unseen, budget>>

(* adpt_port_get_any_port_modified: the first flagged port of the lists,   *)
(* the physical ports first.                                               *)
GetAnyPortModified ==
    /\ op.pc = "scan"
    /\ op' = IF op.i > Len(Scanned) THEN Idle
             ELSE IF Scanned[op.i] \in modified
             THEN [op EXCEPT !.pc = "query", !.p = Scanned[op.i]]
             ELSE [op EXCEPT !.i = @ + 1]
    /\ OvsOnly /\ UNCHANGED <<modified, gre, kernel, cache, attached, pp, unseen, budget>>

(* netdev_ctc_open reads the flags of the kernel into the cache when the   *)
(* port is flagged, and only then.                                         *)
CacheKept(p) == cache                      \* mutant: the cached flags are good enough
Refreshed(p) ==
    IF p \notin PhysSet \cap modified THEN cache
    ELSE IF p \in kernel THEN cache \cup {p} ELSE cache \ {p}

(* port_query_by_name: a port that is not in the bridge ends the polling.  *)
QueryByName ==
    /\ op.pc = "query"
    /\ IF op.p \in attached
       THEN op' = [op EXCEPT !.pc = "carrier"] /\ cache' = Refreshed(op.p)
       ELSE op' = Idle /\ UNCHANGED cache
    /\ OvsOnly /\ UNCHANGED <<modified, gre, kernel, attached, pp, unseen, budget>>

(* ofport_open: a port that is not up has no carrier, whatever the link; a *)
(* tunnel is always up, and has the carrier and features of its bind port. *)
Up(p, flags) == p \in Tunnels \cup flags
CarrierOf(p, flags) == IF Up(p, flags) THEN fea[BindOf(p)].carrier ELSE Down
ReadCarrier ==
    /\ op.pc = "carrier"
    /\ op' = [op EXCEPT !.pc = "features", !.carrier = CarrierOf(op.p, cache)]
    /\ OvsOnly /\ UNCHANGED <<modified, gre, kernel, cache, attached, pp, unseen, budget>>
ReadFeatures ==
    /\ op.pc = "features"
    /\ op' = [op EXCEPT !.pc = "report", !.features = fea[BindOf(op.p)].features]
    /\ OvsOnly /\ UNCHANGED <<modified, gre, kernel, cache, attached, pp, unseen, budget>>

(* The end of update_port.  A new port is installed.  A known one is       *)
(* reported when it differs, and port_modified takes the flag away; the    *)
(* polling goes on.                                                        *)
ReadDesc == [down |-> ~Up(op.p, cache), carrier |-> op.carrier, features |-> op.features]
OfportInstall ==
    /\ op.pc = "report" /\ op.install
    /\ pp' = [pp EXCEPT ![op.p] = ReadDesc]
    /\ op' = Idle
    /\ OvsOnly /\ UNCHANGED <<modified, gre, kernel, cache, attached, unseen, budget>>
FlagStays ==                               \* mutant: the flag is not taken away
    /\ op.pc = "report" /\ ~op.install
    /\ pp' = [pp EXCEPT ![op.p] = ReadDesc]
    /\ op' = [Idle EXCEPT !.pc = "scan", !.i = 1]
    /\ OvsOnly /\ UNCHANGED <<modified, gre, kernel, cache, attached, unseen, budget>>
PortModified ==
    /\ op.pc = "report" /\ ~op.install
    /\ pp' = [pp EXCEPT ![op.p] = ReadDesc]
    /\ modified' = modified \ {op.p}
    /\ lost' = IF op.raced THEN lost \cup {op.p} ELSE lost \ {op.p}
    /\ refused' = refused \ {op.p} /\ advertised' = advertised \ {op.p}
    /\ op' = [Idle EXCEPT !.pc = "scan", !.i = 1]
    /\ OvsOnly /\ UNCHANGED <<gre, kernel, cache, attached, budget>>

Poll == PortPoll \/ GetAnyPortModified \/ QueryByName \/ ReadCarrier \/ ReadFeatures
            \/ OfportInstall \/ PortModified

----------------------------------------------------------------------------
(***************************************************************************)
(* What the bridge and the controller ask for, between two polls.          *)
(***************************************************************************)
Admin ==
    /\ op.pc = "idle" /\ budget.admin > 0
    /\ budget' = [budget EXCEPT !.admin = @ - 1]
    /\ UNCHANGED lcm

(* ofp_netdev_enable_interface and ofp_netdev_disable_interface: the flag  *)
(* of the kernel, then the PHY, then the port is flagged as modified.  The *)
(* functions return before that when the PHY fails, which no caller looks  *)
(* at.  A port that is what it should be is only flagged.                  *)
SetInterface(p, up, phyok) ==
    /\ kernel' = IF up THEN kernel \cup {p} ELSE kernel \ {p}
    /\ modified' = IF phyok \/ kernel' = kernel THEN modified \cup {p} ELSE modified
    /\ refused' = IF p \in modified' THEN refused ELSE refused \cup {p}

(* port_add and the update_port that follows.  Creating the network device *)
(* reads the flags, and then a physical port that was deleted before is    *)
(* enabled again.  A tunnel is new in the port database and not flagged.   *)
PortAdd(p, phyok) ==
    /\ Admin /\ p \notin attached
    /\ attached' = attached \cup {p}
    /\ op' = [Idle EXCEPT !.pc = "query", !.p = p, !.install = TRUE]
    /\ IF p \in PhysSet
       THEN /\ IF p \in kernel THEN UNCHANGED <<kernel, modified, refused>>
               ELSE SetInterface(p, TRUE, phyok)
            /\ cache' = cache \cup ({p} \cap kernel)
            /\ UNCHANGED gre
       ELSE /\ gre' = Append(gre, p)
            /\ UNCHANGED <<kernel, modified, refused, cache>>
    /\ UNCHANGED <<fea, pp, lost, advertised>>

(* A list of ports without one of them, point by point: the form that the  *)
(* proofs need.                                                            *)
Without(s, p) ==
    LET n == CHOOSE m \in 1 .. Len(s) : s[m] = p
    IN  [i \in 1 .. Len(s) - 1 |-> IF i < n THEN s[i] ELSE s[i + 1]]

(* port_del: a physical port is disabled, and flagged by that; a tunnel    *)
(* leaves the port database with its flag.  The ofport goes either way.    *)
Leaves(p) ==
    /\ Admin /\ p \in attached
    /\ attached' = attached \ {p}
    /\ pp' = [pp EXCEPT ![p] = Null]
    /\ cache' = cache \ {p}
    /\ lost' = lost \ {p} /\ refused' = refused \ {p} /\ advertised' = advertised \ {p}
    /\ UNCHANGED <<fea, op>>
DelKeepsFlag(p, phyok) ==                  \* mutant: the flag outlives the tunnel
    /\ Leaves(p)
    /\ kernel' = kernel \ {p}
    /\ modified' = modified \cup (PhysSet \cap {p})
    /\ gre' = IF p \in PhysSet THEN gre ELSE Without(gre, p)
PortDel(p, phyok) ==
    /\ Leaves(p)
    /\ kernel' = kernel \ {p}
    /\ IF p \in PhysSet
       THEN /\ modified' = IF phyok \/ p \notin kernel THEN modified \cup {p} ELSE modified
            /\ UNCHANGED gre
       ELSE modified' = modified \ {p} /\ gre' = Without(gre, p)

(* handle_port_mod.  update_port_config compares what is asked for with    *)
(* the description sent last; netdev_ctc_update_flags then compares it     *)
(* with the cache.  What the port is to advertise, Down for a message that *)
(* does not say, goes into its feature record, and no port is flagged.  A  *)
(* tunnel has a record of its own there, from which nobody reads.          *)
Configured(p, up, phyok) ==
    IF pp[p].down = up /\ up # (p \in cache)
    THEN /\ SetInterface(p, up, phyok)
         /\ cache' = IF up THEN cache \cup {p} ELSE cache \ {p}
    ELSE /\ cache' = IF pp[p].down = up THEN Refreshed(p) ELSE cache
         /\ UNCHANGED <<kernel, modified, refused>>
PortMod(p, up, phyok, adv) ==
    /\ Admin /\ p \in attached \cap PhysSet
    /\ Configured(p, up, phyok)
    /\ IF adv \in {Down, fea[p].features.adv} THEN UNCHANGED <<fea, advertised>>
       ELSE /\ fea' = [fea EXCEPT ![p].features.adv = adv]
            /\ advertised' = advertised \cup {q \in attached : BindOf(q) = p}
    /\ UNCHANGED <<gre, attached, pp, op, lost>>

Next ==
    \/ \E p \in PhysSet, link \in Links : RxLinkNotify(p, link)
    \/ Lcm
    \/ Poll
    \/ \E p \in Ports, phyok \in BOOLEAN : PortAdd(p, phyok) \/ PortDel(p, phyok)
    \/ \E p \in PhysSet, up, phyok \in BOOLEAN, adv \in Links : PortMod(p, up, phyok, adv)

(* The main loop of the OpenFlow thread runs again and again, and a        *)
(* notification that has begun comes to its end.                           *)
Fairness == WF_vars(Poll) /\ WF_vars(Lcm)
Spec == Init /\ [][Next]_vars /\ Fairness

----------------------------------------------------------------------------
TypeOK ==
    /\ fea \in [PhysSet -> [carrier : Links, features : Features]]
    /\ modified \subseteq PhysSet \cup Range(gre)
    /\ gre \in Seq(Tunnels) /\ IsInjective(gre)
    /\ Range(gre) = attached \cap Tunnels
    /\ kernel \subseteq PhysSet /\ cache \subseteq attached /\ attached \subseteq Ports
    /\ lost \cup refused \cup advertised \subseteq attached /\ refused \subseteq PhysSet
    /\ pp \in [Ports -> Descs \cup {Null}]
    /\ budget.notify \in 0 .. MaxNotify /\ budget.admin \in 0 .. MaxAdmin

(* What a port is at this moment.                                          *)
Actual(p) == [down |-> ~Up(p, kernel), carrier |-> CarrierOf(p, kernel),
              features |-> fea[BindOf(p)].features]

(* What the controller may have been told of a port of which it will hear  *)
(* no more: what the port is, but for what was changed without a flag.     *)
Views(p) ==
    LET now == Actual(p)
    IN  {d \in Descs : /\ p \notin refused => d.down = now.down /\ d.carrier = now.carrier
                       /\ d.features.link = now.features.link
                       /\ p \notin advertised => d.features.adv = now.features.adv}

(* What has begun and will lead to a report: the LCM thread has yet to     *)
(* flag the port, or the OpenFlow thread is installing it.                 *)
Coming(p) ==
    \/ lcm.p = BindOf(p) /\ IF p \in Tunnels THEN p \in lcm.left
                            ELSE lcm.pc \in {"carrier", "features", "flag"}
    \/ op.p = p /\ op.install

(* The controller's view of a port of the bridge is right, or the port is  *)
(* flagged, or about to be.  There are three exceptions, and no other way  *)
(* to lose a change of a port or of a tunnel bound to it: adpt_port.c:843  *)
(* flags the port while update_port is between reading it and              *)
(* port_modified taking the flag away; the PHY fails when the port is      *)
(* enabled or disabled, and whether it is up, and with it the carrier, is  *)
(* what the controller misses (ofp_netdev_api.c:538 and 599); or the       *)
(* controller itself has set what the port advertises (ofproto.c:2441),    *)
(* and misses just that.                                                   *)
NothingElseLost ==
    \A p \in attached : pp[p] \in Views(p) \/ p \in modified \cup lost \/ Coming(p)

(* Whether a port is enabled is lost only with the PHY, not even in the    *)
(* window: the cached flags of netdev-ctc.c are the ones of the kernel     *)
(* unless the port is flagged, and the controller has been told of them.   *)
AdminLostOnlyByPhy ==
    \A p \in attached \cap PhysSet :
        p \notin modified \cup refused =>
            /\ (p \in cache) = (p \in kernel)
            /\ Coming(p) \/ pp[p].down = (p \notin kernel)

(* While every physical port is in the bridge, every change gets to the    *)
(* controller in the end, but for these three.                             *)
Told(p) == p \in attached => pp[p] \in Views(p) \/ p \in lost
ChangesArrive == <>[](PhysSet \subseteq attached) => <>[](\A p \in Ports : Told(p))

(* ARCH, 3.9.2: "OVS will periodically polling the link status from this   *)
(* array, and do further process": the status of a port of the bridge is   *)
(* not left as it is, whatever the other ports are.                        *)
LinkPolled == \A p \in Ports : ~Told(p) ~> Told(p)
=============================================================================
