------------------------------ MODULE GreTunnel ------------------------------
(***************************************************************************)
(* GRE tunnel ports (adpt_gre_tunnel.c, adpt_gre_tunnel_db.c): what        *)
(* adpt_tunnel_create_port takes and writes, in order, what its error      *)
(* labels give back, and adpt_tunnel_delete_port.                          *)
(*                                                                         *)
(* The handlers run one at a time, under pg_mutex, but packets arrive all  *)
(* the while: a packet from a remote to a local address is decapsulated by *)
(* the decap route of the pair, whose next hop loops it back through an    *)
(* internal port, whose default user id entry gives it the service id of   *)
(* the tunnel port.  Each write of the chip is therefore a step of its own.*)
(***************************************************************************)
EXTENDS Integers, Sequences, FiniteSets

CONSTANTS
    Ports,       \* OpenFlow numbers of tunnel ports
    Locals,      \* local addresses
    Remotes,     \* remote addresses
    BindPorts,   \* physical ports a tunnel can be bound to
    ILoops,      \* internal ports of CTC_INTERNAL_PORT_TYPE_ILOOP
    NhIds,       \* next-hop ids (NH_INFO_TYPE_NH_ID)
    MaxLocal,    \* OFP_TUNNEL_MAX_LOCAL_IP_NUM
    Null

ASSUME MaxLocalAssumption == MaxLocal \in Nat \ {0}

ASSUME PoolAssumption == ILoops \subseteq Nat /\ NhIds \subseteq Nat

ASSUME FiniteAssumption == IsFiniteSet(Ports) /\ IsFiniteSet(NhIds)

ASSUME NullAssumption ==
    Null \notin Ports \cup Locals \cup Remotes \cup BindPorts \cup ILoops \cup NhIds

VARIABLES
    tunnel,   \* tunnel port -> its adpt_tunnel_info_t, Null for a port not created
    db,       \* reference counts of local addresses and bind ports, address pairs
    pool,     \* internal ports and next-hop ids that are taken, and what flows have of them
    chip,     \* what the chip was told
    op        \* the handler that is running

vars == <<tunnel, db, pool, chip, op>>

Pairs == Locals \X Remotes
Kinds == {"wok", "wk"}       \* packets without and with a GRE key

(* adpt_tunnel_info_t.  The members a handler has not set yet are Null.    *)
Infos == [local : Locals, remote : Remotes, bind : BindPorts,
          iloop : ILoops \cup {Null}, nh : [Kinds -> NhIds \cup {Null}]]

ASSUME InfoAssumption == Null \notin Infos

(* The steps that take something; each is undone by the step of its name.  *)
Takes == {"iloop", "enable", "default", "userid", "nhid_wok", "nhid_wk", "nh_wok",
          "nh_wk", "route_wok", "route_wk", "bind", "port"}

Idle == [pc |-> "idle", port |-> Null, info |-> Null, todo |-> <<>>]

(* adpt_tunnel_init.  adpt_tunnel_init_tunnel_port_service_id binds every  *)
(* tunnel port, existing or not, to a service id of its own, which stands  *)
(* below as the port: the lookup of the service id never fails.            *)
Init ==
    /\ tunnel = [p \in Ports |-> Null]
    /\ db = [local |-> [l \in Locals |-> 0], pair |-> {}, bind |-> [b \in BindPorts |-> 0]]
    /\ pool = [iloop |-> {}, nh |-> {}, flow |-> {}]
    /\ chip = [on |-> {}, dflt |-> [i \in ILoops |-> Null], userid |-> {},
               nh |-> [n \in NhIds |-> Null],
               route |-> [q \in Pairs |-> [k \in Kinds |-> Null]], l3 |-> {}]
    /\ op = Idle

----------------------------------------------------------------------------
(* sys_humber_internal_port_allocate and sys_humber_opf_alloc_offset take  *)
(* the lowest that is free.                                                *)
Lowest(S) == CHOOSE n \in S : \A m \in S : n <= m
FreeLoops == ILoops \ pool.iloop
FreeNhs   == NhIds \ pool.nh

----------------------------------------------------------------------------
(* adpt_gre_tunnel_db.c                                                    *)

Used(ref)     == {x \in DOMAIN ref : ref[x] > 0}
AddRef(ref, x) == [ref EXCEPT ![x] = @ + 1]
DelRef(ref, x) == IF ref[x] = 0 THEN ref ELSE [ref EXCEPT ![x] = @ - 1]

(* adpt_tunneldb_add_local_ip has room, adpt_tunneldb_add_local_remote_ip  *)
(* finds no such pair.  If only the second fails, adpt_tunnel_bind_ip      *)
(* takes its reference back: a refused create changes nothing.             *)
CanBindIp(l, r) ==
    /\ l \in Used(db.local) \/ Cardinality(Used(db.local)) < MaxLocal
    /\ <<l, r>> \notin db.pair

BindIp(l, r)   == [db EXCEPT !.local = AddRef(@, l), !.pair = @ \cup {<<l, r>>}]
UnbindIp(l, r) == [db EXCEPT !.local = DelRef(@, l), !.pair = @ \ {<<l, r>>}]

----------------------------------------------------------------------------
(* The error labels of adpt_tunnel_create_port from label Err n on.        *)

ErrSteps == <<"port", "bind", "route_wok", "route_wk", "nh_wok", "nh_wk", "nhid_wk",
              "nhid_wok", "userid", "default", "enable", "iloop", "unbind">>
ErrBegin == <<13, 12, 11, 10, 9, 8, 7, 5, 3, 2, 1>>   \* where label Err n is

ErrMixed(n) ==                             \* mutant: one label too far
    SubSeq(ErrSteps, ErrBegin[IF n = 6 THEN 5 ELSE n], 13)
Err(n) == SubSeq(ErrSteps, ErrBegin[n], 13)

(* adpt_tunnel_delete_port.                                                *)
DeleteEarly ==                             \* mutant: the loop is cut before the routes
    <<"unbind", "bind", "nh_wok", "nh_wk", "route_wok", "route_wk", "nhid_wok",
      "nhid_wk", "userid", "default", "enable", "iloop", "port">>
DeleteSteps ==
    <<"unbind", "bind", "route_wok", "route_wk", "nh_wok", "nh_wk", "nhid_wok",
      "nhid_wk", "userid", "default", "enable", "iloop", "port">>

----------------------------------------------------------------------------
(* adpt_tunnel_create_port.                                                *)

(* Steps 1 to 4; the other outcomes return without a change.               *)
CreatePort(p, l, r, b) ==
    /\ op = Idle
    /\ tunnel[p] = Null
    /\ CanBindIp(l, r)
    /\ db' = BindIp(l, r)
    /\ op' = [pc |-> "iloop", port |-> p, todo |-> <<>>,
              info |-> [local |-> l, remote |-> r, bind |-> b, iloop |-> Null,
                        nh |-> [k \in Kinds |-> Null]]]
    /\ UNCHANGED <<tunnel, pool, chip>>

At(pc)      == op.pc = pc
Goto(pc)    == op' = [op EXCEPT !.pc = pc]
Fail(steps) == op' = [op EXCEPT !.pc = "undo", !.todo = steps]
ThePair     == <<op.info.local, op.info.remote>>
TheLoop     == op.info.iloop

AllocInternalPort ==
    /\ At("iloop")
    /\ FreeLoops # {}
    /\ pool' = [pool EXCEPT !.iloop = @ \cup {Lowest(FreeLoops)}]
    /\ op' = [op EXCEPT !.pc = "enable", !.info.iloop = Lowest(FreeLoops)]
    /\ UNCHANGED <<tunnel, db, chip>>

EnableIloopPort ==
    /\ At("enable")
    /\ chip' = [chip EXCEPT !.on = @ \cup {TheLoop}]
    /\ Goto("default")
    /\ UNCHANGED <<tunnel, db, pool>>

AddDefaultEntry ==
    /\ At("default")
    /\ chip' = [chip EXCEPT !.dflt[TheLoop] = op.port]
    /\ Goto("userid")
    /\ UNCHANGED <<tunnel, db, pool>>

SetUserIdEnable ==
    /\ At("userid")
    /\ chip' = [chip EXCEPT !.userid = @ \cup {TheLoop}]
    /\ Goto("nhid_wok")
    /\ UNCHANGED <<tunnel, db, pool>>

TakeNhid(k, n) ==
    /\ At(IF k = "wok" THEN "nhid_wok" ELSE "nhid_wk")
    /\ pool' = [pool EXCEPT !.nh = @ \cup {n}]
    /\ op' = [op EXCEPT !.pc = IF k = "wok" THEN "nhid_wk" ELSE "nh_wok",
                        !.info.nh[k] = n]
    /\ UNCHANGED <<tunnel, db, chip>>

AllocUnchecked(k) ==                       \* mutant: the result is not looked at
    TakeNhid(k, IF FreeNhs = {} THEN Null ELSE Lowest(FreeNhs))
AllocNhid(k) == FreeNhs # {} /\ TakeNhid(k, Lowest(FreeNhs))

(* hal_tunnel_create_decap_nhid                                            *)
CreateDecapNh(k) ==
    /\ At(IF k = "wok" THEN "nh_wok" ELSE "nh_wk")
    /\ chip' = [chip EXCEPT !.nh[op.info.nh[k]] = TheLoop]
    /\ Goto(IF k = "wok" THEN "nh_wk" ELSE "route_wok")
    /\ UNCHANGED <<tunnel, db, pool>>

(* hal_tunnel_add_decap_route                                              *)
AddDecapRoute(k) ==
    /\ At(IF k = "wok" THEN "route_wok" ELSE "route_wk")
    /\ chip' = [chip EXCEPT !.route[ThePair][k] = op.info.nh[k]]
    /\ Goto(IF k = "wok" THEN "route_wk" ELSE "bind")
    /\ UNCHANGED <<tunnel, db, pool>>

(* adpt_tunnel_set_bind_port_route_en(bind_port, TRUE)                     *)
EnableBindPort ==
    /\ At("bind")
    /\ chip' = [chip EXCEPT !.l3 = IF op.info.bind \in Used(db.bind)
                                   THEN @ ELSE @ \cup {op.info.bind}]
    /\ db' = [db EXCEPT !.bind = AddRef(@, op.info.bind)]
    /\ Goto("port")
    /\ UNCHANGED <<tunnel, pool>>

(* adpt_port_create_com_port and the port data, which cannot be refused    *)
(* once the port is there.                                                 *)
SavePort ==
    /\ At("port")
    /\ tunnel' = [tunnel EXCEPT ![op.port] = op.info]
    /\ op' = Idle
    /\ UNCHANGED <<db, pool, chip>>

(* What is left to undo if the step at hand fails: the label it jumps to,  *)
(* behind what the HAL call itself takes back.                             *)
Undone ==
    [iloop |-> Err(1), enable |-> Err(2), default |-> Err(3), userid |-> Err(4),
     nhid_wok |-> Err(5), nhid_wk |-> Err(6), nh_wok |-> Err(7),
     nh_wk |-> <<"nh_wok">> \o Err(7), route_wok |-> Err(8),
     route_wk |-> <<"route_wok">> \o Err(8), bind |-> Err(9), port |-> Err(10)]

(* A pool is empty or the chip refuses.  A bind port that other tunnels    *)
(* use is not written; hal_tunnel_enable_iloop_port may have enabled the   *)
(* port before one of its later settings is refused.                       *)
CreateFails ==
    /\ op.pc \in Takes
    /\ At("bind") => op.info.bind \notin Used(db.bind)
    /\ \/ UNCHANGED chip
       \/ At("enable") /\ chip' = [chip EXCEPT !.on = @ \cup {TheLoop}]
    /\ Fail(Undone[op.pc])
    /\ UNCHANGED <<tunnel, db, pool>>

----------------------------------------------------------------------------
(* adpt_tunnel_delete_port.                                                *)
DeletePort(p) ==
    /\ op = Idle
    /\ tunnel[p] # Null
    /\ op' = [pc |-> "undo", port |-> p, info |-> tunnel[p], todo |-> DeleteSteps]
    /\ UNCHANGED <<tunnel, db, pool, chip>>

(* The steps of the labels and of adpt_tunnel_delete_port.                 *)
Undoing(step) == op.pc = "undo" /\ op.todo # <<>> /\ Head(op.todo) = step
Done == op' = IF Len(op.todo) = 1 THEN Idle ELSE [op EXCEPT !.todo = Tail(@)]

UnbindAddresses ==
    /\ Undoing("unbind")
    /\ db' = UnbindIp(op.info.local, op.info.remote)
    /\ Done
    /\ UNCHANGED <<tunnel, pool, chip>>

(* adpt_tunnel_set_bind_port_route_en(bind_port, FALSE)                    *)
DisableAlways ==                           \* mutant: the other tunnels are forgotten
    /\ Undoing("bind")
    /\ db' = [db EXCEPT !.bind = DelRef(@, op.info.bind)]
    /\ chip' = [chip EXCEPT !.l3 = @ \ {op.info.bind}]
    /\ Done
    /\ UNCHANGED <<tunnel, pool>>
DisableBindPort ==
    /\ Undoing("bind")
    /\ db' = [db EXCEPT !.bind = DelRef(@, op.info.bind)]
    /\ chip' = [chip EXCEPT !.l3 = IF op.info.bind \in Used(db'.bind)
                                   THEN @ ELSE @ \ {op.info.bind}]
    /\ Done
    /\ UNCHANGED <<tunnel, pool>>

(* hal_tunnel_del_decap_route                                              *)
DelDecapRoute(k) ==
    /\ Undoing(IF k = "wok" THEN "route_wok" ELSE "route_wk")
    /\ chip' = [chip EXCEPT !.route[ThePair][k] = Null]
    /\ Done
    /\ UNCHANGED <<tunnel, db, pool>>

(* hal_tunnel_remove_decap_nhid                                            *)
RemoveDecapNh(k) ==
    /\ Undoing(IF k = "wok" THEN "nh_wok" ELSE "nh_wk")
    /\ chip' = [chip EXCEPT !.nh[op.info.nh[k]] = Null]
    /\ Done
    /\ UNCHANGED <<tunnel, db, pool>>

(* adpt_nexthop_release_nh_info_opf                                        *)
ReleaseNhid(k) ==
    /\ Undoing(IF k = "wok" THEN "nhid_wok" ELSE "nhid_wk")
    /\ pool' = [pool EXCEPT !.nh = @ \ {op.info.nh[k]}]
    /\ Done
    /\ UNCHANGED <<tunnel, db, chip>>

ResetUserIdEnable ==
    /\ Undoing("userid")
    /\ chip' = [chip EXCEPT !.userid = @ \ {TheLoop}]
    /\ Done
    /\ UNCHANGED <<tunnel, db, pool>>

DelDefaultEntry ==
    /\ Undoing("default")
    /\ chip' = [chip EXCEPT !.dflt[TheLoop] = Null]
    /\ Done
    /\ UNCHANGED <<tunnel, db, pool>>

DisableIloopPort ==
    /\ Undoing("enable")
    /\ chip' = [chip EXCEPT !.on = @ \ {TheLoop}]
    /\ Done
    /\ UNCHANGED <<tunnel, db, pool>>

ReleaseInternalPort ==
    /\ Undoing("iloop")
    /\ pool' = [pool EXCEPT !.iloop = @ \ {TheLoop}]
    /\ Done
    /\ UNCHANGED <<tunnel, db, chip>>

(* adpt_port_destroy_com_port                                              *)
DestroyPort ==
    /\ Undoing("port")
    /\ tunnel' = [tunnel EXCEPT ![op.port] = Null]
    /\ Done
    /\ UNCHANGED <<db, pool, chip>>

----------------------------------------------------------------------------
(* The flows between two calls: their next hops come from the same pool of *)
(* ids (adpt_nexthop_alloc_nh_info_opf, adpt_nexthop_release_nh_info_opf). *)
FlowAllocsNhid ==
    /\ op = Idle
    /\ FreeNhs # {}
    /\ pool' = [pool EXCEPT !.nh = @ \cup {Lowest(FreeNhs)}, !.flow = @ \cup {Lowest(FreeNhs)}]
    /\ UNCHANGED <<tunnel, db, chip, op>>

FlowReleasesNhid ==
    /\ op = Idle
    /\ \E n \in pool.flow : pool' = [pool EXCEPT !.nh = @ \ {n}, !.flow = @ \ {n}]
    /\ UNCHANGED <<tunnel, db, chip, op>>

Next ==
    \/ \E p \in Ports, l \in Locals, r \in Remotes, b \in BindPorts : CreatePort(p, l, r, b)
    \/ AllocInternalPort \/ EnableIloopPort \/ AddDefaultEntry \/ SetUserIdEnable
    \/ \E k \in Kinds : AllocNhid(k) \/ CreateDecapNh(k) \/ AddDecapRoute(k)
    \/ EnableBindPort \/ SavePort \/ CreateFails
    \/ \E p \in Ports : DeletePort(p)
    \/ UnbindAddresses \/ DisableBindPort
    \/ \E k \in Kinds : DelDecapRoute(k) \/ RemoveDecapNh(k) \/ ReleaseNhid(k)
    \/ ResetUserIdEnable \/ DelDefaultEntry \/ DisableIloopPort \/ ReleaseInternalPort
    \/ DestroyPort
    \/ FlowAllocsNhid \/ FlowReleasesNhid

Spec == Init /\ [][Next]_vars

----------------------------------------------------------------------------
Live    == {p \in Ports : tunnel[p] # Null}
Settled == Live \ {op.port}      \* the tunnels no handler is working on

TunnelNhs == {tunnel[p].nh[k] : p \in Live, k \in Kinds}

(* TypeOK: every variable has its type.                                    *)
TypeOK ==
    /\ tunnel \in [Ports -> Infos \cup {Null}]
    /\ db.local \in [Locals -> Nat] /\ db.pair \subseteq Pairs
    /\ db.bind \in [BindPorts -> Nat]
    /\ pool.iloop \subseteq ILoops /\ pool.nh \subseteq NhIds
    /\ pool.flow \subseteq NhIds
    /\ chip.on \subseteq ILoops /\ chip.userid \subseteq ILoops
    /\ chip.l3 \subseteq BindPorts
    /\ chip.dflt \in [ILoops -> Ports \cup {Null}]
    /\ chip.nh \in [NhIds -> ILoops \cup {Null}]
    /\ chip.route \in [Pairs -> [Kinds -> NhIds \cup {Null}]]
    /\ op.pc \in Takes \cup {"idle", "undo"}
    /\ op.port \in Ports \cup {Null} /\ op.info \in Infos \cup {Null}

(* The tunnel port as which the chip classifies a packet that enters with  *)
(* the addresses q, Null if the packet is lost on the way.                 *)
DecapAs(q, k) ==
    LET n == chip.route[q][k]
        i == IF n = Null THEN Null ELSE chip.nh[n]
    IN  IF i \in chip.on \cap chip.userid THEN chip.dflt[i] ELSE Null

(* Undisturbed: packets of a tunnel are decapsulated and classified as its *)
(* own at every instant, whatever is created, deleted or fails beside it,  *)
(* and routing stays enabled on the physical port they enter.              *)
Undisturbed ==
    \A p \in Settled : LET t == tunnel[p] IN
        /\ t.bind \in chip.l3
        /\ \A k \in Kinds : DecapAs(<<t.local, t.remote>>, k) = p

(* NoDeadEnd: while a decap route is in the chip, also in the middle of a  *)
(* create, an unwinding or a delete, the way of its packets ends at the    *)
(* tunnel port with these addresses, never at a removed next hop, a        *)
(* disabled internal port or another tunnel.                               *)
NoDeadEnd ==
    \A q \in Pairs, k \in Kinds :
        chip.route[q][k] # Null =>
            \E p \in Ports :
                /\ DecapAs(q, k) = p
                /\ LET t == IF p = op.port THEN op.info ELSE tunnel[p]
                   IN  t # Null /\ q = <<t.local, t.remote>>

(* RefsExact: between calls the reference counts of local addresses and    *)
(* bind ports are the numbers of tunnels that use them, the address pairs  *)
(* those of the tunnels, and routing is enabled on the bind ports only.    *)
RefsExact ==
    op = Idle =>
        /\ \A l \in Locals : db.local[l] = Cardinality({p \in Live : tunnel[p].local = l})
        /\ \A b \in BindPorts : db.bind[b] = Cardinality({p \in Live : tunnel[p].bind = b})
        /\ db.pair = {<<tunnel[p].local, tunnel[p].remote>> : p \in Live}
        /\ chip.l3 = {tunnel[p].bind : p \in Live}

(* NothingLeft: between calls, after failures at any step too, every       *)
(* internal port and next-hop id that is taken belongs to one tunnel port  *)
(* or to a flow, never to two, and every entry of the chip to a tunnel.    *)
NothingLeft ==
    op = Idle =>
        /\ pool.iloop = {tunnel[p].iloop : p \in Live}
        /\ pool.nh = TunnelNhs \cup pool.flow
        /\ Cardinality(pool.iloop) = Cardinality(Live)
        /\ Cardinality(pool.nh) = 2 * Cardinality(Live) + Cardinality(pool.flow)
        /\ {n \in NhIds : chip.nh[n] # Null} = TunnelNhs
        /\ chip.userid = pool.iloop
        /\ {i \in ILoops : chip.dflt[i] # Null} = pool.iloop
        /\ {q \in Pairs : \E k \in Kinds : chip.route[q][k] # Null} = db.pair

(* BooksExact: both.  Creating a port, failing half-way and deleting one   *)
(* come out exact in every table, pool and count.                          *)
BooksExact == RefsExact /\ NothingLeft
=============================================================================
