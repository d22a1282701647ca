----------------------------- MODULE MCNextHop -----------------------------
(* TLC instances of NextHop.                                               *)
EXTENDS NextHop, TLC

Do(type)   == [type |-> type, to |-> Null, n |-> 0]
Out(to, n) == [type |-> "OUTPUT", to |-> to, n |-> n]
P(n)       == Out("PORT", n)

CONSTANTS r1, r2, r3

(* A flow of a physical port, one of a tunnel and one of any port; the     *)
(* latter two have two entries.                                            *)
MCInPort == (r1 :> "PORT") @@ (r2 :> "TUNNEL") @@ (r3 :> "ANY")

(* Two flows compete: double offsets and the input port, and for the first *)
(* one every port and the CPU, and a pushed tag without a VLAN id.         *)
Compete == {<<Do("SET_NW_DST"), P(1)>>, <<P(1), Out("IN_PORT", 0)>>}
More == {<<Out("ALL", 0), Out("CONTROLLER", 0)>>, <<Do("PUSH_VLAN"), P(1)>>}

(* One flow with lists of every kind of action and target.                 *)
Tagged == <<Do("PUSH_VLAN"), Do("SET_VLAN_VID"), Do("PUSH_VLAN")>>
Kinds ==
    {<<>>, Tagged \o <<Do("SET_DL_SRC"), P(1), P(2)>>,
     <<Do("SET_VLAN_VID"), P(1), Do("STRIP_VLAN"), Out("TUNNEL", 1), Do("STRIP_VLAN"), P(2)>>,
     <<Do("SET_DL_DST"), Do("DEC_NW_TTL"), P(1), Out("IN_PORT", 0)>>,
     <<Do("DEC_NW_TTL"), P(1)>>,
     <<P(1), Do("SET_TP_DST"), Do("SET_TUNNEL"), Out("TUNNEL", 1), P(2)>>,
     <<P(1), Do("STRIP_VLAN"), Do("PUSH_VLAN")>>, <<P(1), Out("NONE", 0)>>,
     <<P(1), Do("UNSUPPORTED")>>,
     <<Out("IN_PORT", 0), Out("CONTROLLER", 0)>>}

MCLists == (r1 :> Compete \cup More) @@ (r2 :> Compete) @@ (r3 :> Kinds)

(* Either the first two flows compete, or the third one is alone.          *)
Apart == op.r = r3 \/ rule[r3] # Null => op.r \notin {r1, r2} /\ rule[r1] = Null /\ rule[r2] = Null

(* Either ids and offsets leak, or the driver leaves entries alone.        *)
Once == Leaked = {} \/ (stale = {} /\ \A r \in Rules : rule[r] # Null => stats[r] = "has")
=============================================================================
