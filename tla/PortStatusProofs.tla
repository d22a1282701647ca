-------------------------- MODULE PortStatusProofs --------------------------
(***************************************************************************)
(* What TLAPS proves about PortStatus, for any number of ports, tunnels    *)
(* and notifications.                                                      *)
(***************************************************************************)
EXTENDS PortStatus, TLAPS

(* The LCM thread has yet to flag port p for the change it brings.         *)
LcmComing(p) ==
    lcm.p = BindOf(p) /\ IF p \in Tunnels THEN p \in lcm.left
                         ELSE lcm.pc \in {"carrier", "features", "flag"}

LcmPcs == {"idle", "carrier", "features", "flag", "tunnels"}
OpPcs  == {"idle", "scan", "query", "carrier", "features", "report"}

(* The two threads: what they have at hand when they are where they are.   *)
LcmInv ==
    /\ lcm \in [pc : LcmPcs, p : PhysSet \cup {Null}, link : Links, left : SUBSET Tunnels]
    /\ lcm.pc = "idle" => lcm.p = Null
    /\ lcm.pc # "idle" => lcm.p \in PhysSet
    /\ lcm.pc \in {"carrier", "features", "flag"} => lcm.left = {t \in Tunnels : Bind[t] = lcm.p}

OpInv ==
    /\ op \in [pc : OpPcs, p : Ports \cup {Null}, i : Nat, install : BOOLEAN,
               carrier : Links, features : Features, raced : BOOLEAN]
    /\ op.pc \in {"idle", "scan"} => op.p = Null /\ ~op.install
    /\ op.pc \notin {"idle", "scan"} => op.p \in Ports
    /\ op.pc \in {"carrier", "features", "report"} => op.p \in attached
    /\ (op.pc = "query" /\ op.install) => op.p \in attached
    /\ (op.pc \notin {"idle", "scan"} /\ ~op.install) => op.p \in modified
    /\ op.raced => op.pc \in Reading /\ op.p \in modified

(* The cached flags of a port are the ones of the kernel unless the port   *)
(* is flagged; once the port has been opened they are so even then.        *)
CacheInv ==
    \A p \in attached \cap PhysSet :
        \/ p \in refused /\ (op.p = p => op.install \/ op.pc = "query")
        \/ p \in modified /\ ~(op.p = p /\ op.pc \in {"carrier", "features", "report"})
        \/ (p \in cache <=> p \in kernel)

(* What the OpenFlow thread has read of the port it will report is what is *)
(* true of the port, unless the LCM thread is about to flag the port or    *)
(* has flagged it since.                                                   *)
ReadInv ==
    op.pc \in Reading =>
        \/ op.raced
        \/ LcmComing(op.p)
        \/ /\ op.carrier = CarrierOf(op.p, kernel) \/ (op.install /\ op.p \in refused)
           /\ op.pc = "report" => op.features = fea[BindOf(op.p)].features

(* Whether a port is enabled has been reported, unless it is flagged.      *)
AdminInv ==
    \A p \in attached \cap PhysSet :
        p \notin modified \cup refused => (op.p = p /\ op.install) \/ pp[p].down = (p \notin kernel)

BudgetInv == budget \in [notify : 0 .. MaxNotify, admin : 0 .. MaxAdmin]

IInv ==
    /\ TypeOK /\ BudgetInv /\ LcmInv /\ OpInv
    /\ CacheInv /\ ReadInv /\ AdminInv /\ NothingElseLost
----------------------------------------------------------------------------
(* Which ports there are, and what they are bound to.                      *)
LEMMA PortFacts ==
    /\ Null \notin Ports /\ Null \notin PhysSet /\ Null \notin Links /\ Down \in Links
    /\ PhysSet \subseteq Ports /\ Tunnels \subseteq Ports
    /\ \A p \in Ports : p \in PhysSet \/ p \in Tunnels
    /\ \A p \in PhysSet : p \notin Tunnels /\ BindOf(p) = p
    /\ \A p \in Tunnels : BindOf(p) = Bind[p] /\ Bind[p] \in PhysSet
    /\ \A p \in Ports : BindOf(p) \in PhysSet
    /\ MaxNotify \in Nat /\ MaxAdmin \in Nat
<1>1. Bind \in [Tunnels -> PhysSet] /\ PhysSet \cap Tunnels = {}
      /\ Null \notin Links \cup Ports /\ Down \in Links /\ MaxNotify \in Nat /\ MaxAdmin \in Nat
  BY PortAssumption
<1> QED BY <1>1 DEF Ports, BindOf

(* The initial state: no bridge yet.                                       *)
LEMMA InitInv == Init => IInv
<1> SUFFICES ASSUME Init PROVE IInv
  OBVIOUS
<1> USE PortFacts DEF Init
<1>1. TypeOK
  <2>1. Range(gre) = {} /\ gre \in Seq(Tunnels) /\ IsInjective(gre)
    BY DEF Range, IsInjective
  <2>2. fea \in [PhysSet -> [carrier : Links, features : Features]]
    BY DEF Features, FeaturesOf
  <2>3. pp \in [Ports -> Descs \cup {Null}] /\ modified \subseteq PhysSet \cup Range(gre)
    OBVIOUS
  <2>4. budget.notify \in 0 .. MaxNotify /\ budget.admin \in 0 .. MaxAdmin
    OBVIOUS
  <2> QED BY <2>1, <2>2, <2>3, <2>4 DEF TypeOK
<1>2. BudgetInv
  BY DEF BudgetInv
<1>3. LcmInv
  BY DEF LcmInv, LcmPcs, LcmIdle
<1>4. OpInv
  BY DEF OpInv, OpPcs, Idle, Features, FeaturesOf
<1>5. CacheInv /\ AdminInv /\ NothingElseLost
  BY DEF CacheInv, AdminInv, NothingElseLost
<1>6. ReadInv
  BY DEF ReadInv, Idle, Reading
<1> QED BY <1>1, <1>2, <1>3, <1>4, <1>5, <1>6 DEF IInv

----------------------------------------------------------------------------
(* The LCM thread takes up a link notification.                            *)
LEMMA RxLinkNotifyInv ==
    ASSUME IInv, NEW q \in PhysSet, NEW link \in Links, RxLinkNotify(q, link)
    PROVE  IInv'
<1> USE PortFacts DEF IInv
<1>1. /\ lcm.pc = "idle" /\ lcm.p = Null /\ budget.notify > 0
      /\ lcm' = [pc |-> "carrier", p |-> q, link |-> link,
                 left |-> {t \in Tunnels : Bind[t] = q}]
      /\ budget' = [budget EXCEPT !.notify = @ - 1]
      /\ UNCHANGED <<fea, modified, gre, kernel, cache, attached, pp, op, lost, refused, advertised>>
  BY DEF RxLinkNotify, LcmOnly, unseen, LcmInv
<1>2. BudgetInv'
  BY <1>1 DEF BudgetInv
<1>3. TypeOK'
  BY <1>1, <1>2 DEF TypeOK, BudgetInv
<1>4. LcmInv'
  BY <1>1 DEF LcmInv, LcmPcs
<1>5. OpInv' /\ CacheInv' /\ AdminInv'
  BY <1>1 DEF OpInv, CacheInv, AdminInv
<1>6. \A p \in Ports : ~LcmComing(p)
  BY <1>1 DEF LcmComing
<1>7. ReadInv'
  BY <1>1, <1>6 DEF ReadInv, OpInv, Reading, CarrierOf, Up
<1>8. NothingElseLost'
  BY <1>1, <1>6 DEF NothingElseLost, TypeOK, Coming, LcmComing, Views, Actual, CarrierOf, Up
<1> QED BY <1>2, <1>3, <1>4, <1>5, <1>7, <1>8

(* A change of the link concerns the ports that are still to be flagged.   *)
LEMMA MapInv ==
    ASSUME IInv, MapCarrier \/ MapFeatures PROVE IInv'
<1> USE PortFacts DEF IInv
<1> DEFINE q == lcm.p
<1>1. /\ lcm.pc \in {"carrier", "features"} /\ q \in PhysSet
      /\ lcm.left = {t \in Tunnels : Bind[t] = q} /\ lcm.link \in Links
      /\ UNCHANGED <<modified, gre, kernel, cache, attached, pp, op, lost, refused, advertised, budget>>
  BY DEF MapCarrier, MapFeatures, LcmOnly, unseen, LcmInv
<1>2. /\ lcm' \in [pc : LcmPcs, p : PhysSet \cup {Null}, link : Links, left : SUBSET Tunnels]
      /\ lcm'.p = q /\ lcm'.left = lcm.left /\ lcm'.pc \in {"features", "flag"}
  BY DEF MapCarrier, MapFeatures, LcmInv, LcmPcs
<1>3. /\ fea' \in [PhysSet -> [carrier : Links, features : Features]]
      /\ \A p \in PhysSet : p # q => fea'[p] = fea[p]
  <2>1. fea \in [PhysSet -> [carrier : Links, features : Features]]
    BY DEF TypeOK
  <2>2. \/ fea' = [fea EXCEPT ![q].carrier = lcm.link]
        \/ fea' = [fea EXCEPT ![q].features = FeaturesOf(lcm.link)]
    BY DEF MapCarrier, MapFeatures
  <2>3. FeaturesOf(lcm.link) \in Features
    BY <1>1 DEF Features, FeaturesOf
  <2> QED BY <1>1, <2>1, <2>2, <2>3
<1>4. \A p \in Ports : IF BindOf(p) = q THEN LcmComing(p)' ELSE fea'[BindOf(p)] = fea[BindOf(p)]
  BY <1>1, <1>2, <1>3 DEF LcmComing, BindOf
<1>5. TypeOK' /\ BudgetInv'
  BY <1>1, <1>3 DEF TypeOK, BudgetInv
<1>6. LcmInv'
  BY <1>1, <1>2 DEF LcmInv
<1>7. OpInv' /\ CacheInv' /\ AdminInv'
  BY <1>1 DEF OpInv, CacheInv, AdminInv
<1>8. \A p \in Ports : LcmComing(p) => LcmComing(p)'
  BY <1>1, <1>2, <1>4 DEF LcmComing
<1>9. ReadInv'
  <2>1. op.pc \in Reading => op.p \in Ports
    BY DEF OpInv, Reading
  <2> QED BY <1>1, <1>4, <1>8, <2>1 DEF ReadInv, CarrierOf, Up
<1>10. NothingElseLost'
  <2> SUFFICES ASSUME NEW p \in attached
               PROVE  (pp[p] \in Views(p) \/ p \in modified \cup lost \/ Coming(p))'
    BY <1>1 DEF NothingElseLost
  <2>1. p \in Ports /\ (pp[p] \in Views(p) \/ p \in modified \cup lost \/ Coming(p))
    BY DEF NothingElseLost, TypeOK
  <2>2. (Coming(p) => Coming(p)') /\ (LcmComing(p)' => Coming(p)')
    BY <1>1, <1>8, <2>1 DEF Coming, LcmComing
  <2>3. BindOf(p) # q => Views(p)' = Views(p)
    BY <1>1, <1>4, <2>1 DEF Views, Actual, CarrierOf, Up
  <2> QED BY <1>1, <1>4, <2>1, <2>2, <2>3
<1> QED BY <1>5, <1>6, <1>7, <1>9, <1>10

(* Flagging a port: what was about to be reported still will be, and the   *)
(* OpenFlow thread, if it has read the port, is known to have raced.       *)
LEMMA FlagInv ==
    ASSUME IInv, LcmInv', NEW q \in PhysSet \cup Range(gre), Flag(q),
           \A p \in Ports \ {q} : LcmComing(p) => LcmComing(p)',
           UNCHANGED <<fea, gre, kernel, cache, attached, pp, lost, refused, advertised, budget>>
    PROVE  IInv'
<1> USE PortFacts DEF IInv
<1>1. modified' = modified \cup {q} /\ q \in Ports
  BY DEF Flag, TypeOK
<1>2. /\ op' \in [pc : OpPcs, p : Ports \cup {Null}, i : Nat, install : BOOLEAN,
                  carrier : Links, features : Features, raced : BOOLEAN]
      /\ op'.pc = op.pc /\ op'.p = op.p /\ op'.install = op.install
      /\ op'.carrier = op.carrier /\ op'.features = op.features
      /\ op'.raced = (op.raced \/ (op.p = q /\ op.pc \in Reading))
  BY DEF Flag, OpInv
<1>3. TypeOK' /\ BudgetInv'
  BY <1>1 DEF TypeOK, BudgetInv
<1>4. OpInv'
  BY <1>1, <1>2 DEF OpInv
<1>5. CacheInv'
  BY <1>1, <1>2 DEF CacheInv
<1>6. AdminInv'
  BY <1>1, <1>2 DEF AdminInv
<1>7. ReadInv'
  <2>1. op.pc \in Reading => op.p \in Ports
    BY DEF OpInv, Reading
  <2> QED BY <1>2, <2>1 DEF ReadInv, CarrierOf, Up
<1>8. NothingElseLost'
  <2> SUFFICES ASSUME NEW p \in attached, p # q
               PROVE  (pp[p] \in Views(p) \/ p \in modified \cup lost \/ Coming(p))'
    BY <1>1 DEF NothingElseLost
  <2>1. p \in Ports /\ (pp[p] \in Views(p) \/ p \in modified \cup lost \/ Coming(p))
    BY DEF NothingElseLost, TypeOK
  <2>2. Coming(p) => Coming(p)'
    BY <1>2, <2>1 DEF Coming, LcmComing
  <2>3. Views(p)' = Views(p)
    BY DEF Views, Actual, CarrierOf, Up
  <2> QED BY <1>1, <2>1, <2>2, <2>3
<1> QED BY <1>3, <1>4, <1>5, <1>6, <1>7, <1>8

(* The LCM thread flags the port itself.                                   *)
LEMMA SetPortModifiedInv == ASSUME IInv, SetPortModified PROVE IInv'
<1> USE PortFacts DEF IInv
<1>1. /\ lcm.pc = "flag" /\ lcm.p \in PhysSet /\ Flag(lcm.p)
      /\ lcm.left = {t \in Tunnels : Bind[t] = lcm.p}
      /\ UNCHANGED <<fea, gre, kernel, cache, attached, pp, lost, refused, advertised, budget>>
  BY DEF SetPortModified, LcmOnly, unseen, LcmInv
<1>2. /\ lcm' \in [pc : LcmPcs, p : PhysSet \cup {Null}, link : Links, left : SUBSET Tunnels]
      /\ lcm'.p = lcm.p /\ lcm'.left = lcm.left /\ lcm'.pc = "tunnels"
  BY DEF SetPortModified, LcmInv, LcmPcs
<1>3. LcmInv'
  BY <1>1, <1>2 DEF LcmInv
<1>4. \A p \in Ports \ {lcm.p} : LcmComing(p) => LcmComing(p)'
  BY <1>1, <1>2 DEF LcmComing
<1> QED BY <1>1, <1>3, <1>4, FlagInv

(* And then the tunnels bound to it, those that are there.                 *)
LEMMA SetTunnelModifiedInv == ASSUME IInv, SetTunnelModified PROVE IInv'
<1> USE PortFacts DEF IInv
<1>1. /\ lcm.pc = "tunnels" /\ lcm.p \in PhysSet /\ lcm.left \subseteq Tunnels
      /\ UNCHANGED <<fea, gre, kernel, cache, attached, pp, lost, refused, advertised, budget>>
  BY DEF SetTunnelModified, LcmOnly, unseen, LcmInv
<1>2. ASSUME LcmInv', UNCHANGED <<modified, op>>,
             \A p \in attached : LcmComing(p) => LcmComing(p)'
      PROVE  IInv'
  <2>1. TypeOK' /\ BudgetInv' /\ OpInv' /\ CacheInv' /\ AdminInv'
    BY <1>1, <1>2 DEF TypeOK, BudgetInv, OpInv, CacheInv, AdminInv
  <2>2. ReadInv'
    <3>1. op.pc \in Reading => op.p \in attached
      BY DEF OpInv, Reading
    <3> QED BY <1>1, <1>2, <3>1 DEF ReadInv, CarrierOf, Up
  <2>3. NothingElseLost'
    <3> SUFFICES ASSUME NEW p \in attached
                 PROVE  (pp[p] \in Views(p) \/ p \in modified \cup lost \/ Coming(p))'
      BY <1>1 DEF NothingElseLost
    <3>1. pp[p] \in Views(p) \/ p \in modified \cup lost \/ Coming(p)
      BY DEF NothingElseLost
    <3>2. Coming(p) => Coming(p)'
      BY <1>2 DEF Coming, LcmComing
    <3>3. Views(p)' = Views(p)
      BY <1>1 DEF Views, Actual, CarrierOf, Up
    <3> QED BY <1>1, <1>2, <3>1, <3>2, <3>3
  <2> QED BY <1>2, <2>1, <2>2, <2>3
<1>3. CASE lcm.left = {}
  <2>1. lcm' = LcmIdle /\ UNCHANGED <<modified, op>>
    BY <1>3 DEF SetTunnelModified
  <2>2. LcmInv'
    BY <2>1 DEF LcmInv, LcmIdle, LcmPcs
  <2>3. \A p \in attached : ~LcmComing(p)
    BY <1>1, <1>3 DEF LcmComing, TypeOK
  <2> QED BY <1>2, <2>1, <2>2, <2>3
<1>4. CASE lcm.left # {}
  <2>1. PICK t \in lcm.left :
           /\ lcm' = [lcm EXCEPT !.left = @ \ {t}]
           /\ IF t \in Range(gre) THEN Flag(t) ELSE UNCHANGED <<modified, op>>
    BY <1>4 DEF SetTunnelModified
  <2>2. /\ lcm' \in [pc : LcmPcs, p : PhysSet \cup {Null}, link : Links, left : SUBSET Tunnels]
        /\ lcm'.p = lcm.p /\ lcm'.left = lcm.left \ {t} /\ lcm'.pc = lcm.pc
    BY <2>1 DEF LcmInv
  <2>3. LcmInv'
    BY <1>1, <2>2 DEF LcmInv
  <2>4. \A p \in Ports \ {t} : LcmComing(p) => LcmComing(p)'
    BY <2>2 DEF LcmComing
  <2>5. CASE t \in Range(gre)
    BY <1>1, <2>1, <2>3, <2>4, <2>5, FlagInv
  <2>6. CASE t \notin Range(gre)
    <3>1. t \notin attached /\ attached \subseteq Ports
      BY <1>1, <2>6 DEF TypeOK
    <3> QED BY <1>2, <2>1, <2>3, <2>4, <2>6, <3>1
  <2> QED BY <2>5, <2>6
<1> QED BY <1>3, <1>4

----------------------------------------------------------------------------
(* The steps of the OpenFlow thread that read and change no port.          *)
LEMMA OpStepInv ==
    ASSUME IInv, OpInv', CacheInv', ReadInv', cache' \subseteq attached,
           \A p \in attached : op.p = p /\ op.install => op'.p = p /\ op'.install,
           UNCHANGED <<fea, modified, gre, kernel, attached, pp, lcm, lost, refused, advertised, budget>>
    PROVE  IInv'
<1> USE PortFacts DEF IInv
<1>1. TypeOK' /\ BudgetInv' /\ LcmInv'
  BY DEF TypeOK, BudgetInv, LcmInv
<1>2. AdminInv'
  BY DEF AdminInv
<1>3. NothingElseLost'
  <2> SUFFICES ASSUME NEW p \in attached
               PROVE  (pp[p] \in Views(p) \/ p \in modified \cup lost \/ Coming(p))'
    BY DEF NothingElseLost
  <2>1. pp[p] \in Views(p) \/ p \in modified \cup lost \/ Coming(p)
    BY DEF NothingElseLost
  <2>2. Coming(p) => Coming(p)'
    BY DEF Coming
  <2>3. Views(p)' = Views(p)
    BY DEF Views, Actual, CarrierOf, Up
  <2> QED BY <2>1, <2>2, <2>3
<1> QED BY <1>1, <1>2, <1>3

(* Looking for a flagged port.                                             *)
LEMMA ScanInv == ASSUME IInv, PortPoll \/ GetAnyPortModified PROVE IInv'
<1> USE PortFacts DEF IInv
<1>1. /\ op.pc \in {"idle", "scan"} /\ op.p = Null /\ ~op.install /\ ~op.raced
      /\ UNCHANGED <<fea, modified, gre, kernel, cache, attached, pp, lcm, lost, refused, advertised, budget>>
  BY DEF PortPoll, GetAnyPortModified, OvsOnly, unseen, OpInv, Reading
<1>2. /\ op' \in [pc : OpPcs, p : Ports \cup {Null}, i : Nat, install : BOOLEAN,
                  carrier : Links, features : Features, raced : BOOLEAN]
      /\ ~op'.install /\ ~op'.raced
      /\ \/ op'.pc \in {"idle", "scan"} /\ op'.p = Null
         \/ op'.pc = "query" /\ op'.p \in Ports /\ op'.p \in modified
  <2>1. CASE PortPoll
    BY <2>1 DEF PortPoll, Idle, OpPcs, Features, FeaturesOf
  <2>2. CASE GetAnyPortModified
    <3>1. CASE op.i > Len(Scanned)
      BY <2>2, <3>1 DEF GetAnyPortModified, Idle, OpPcs, Features, FeaturesOf
    <3>2. CASE ~(op.i > Len(Scanned)) /\ Scanned[op.i] \in modified
      <4>1. modified \subseteq Ports
        <5>1. modified \subseteq PhysSet \cup Range(gre) /\ Range(gre) = attached \cap Tunnels
          BY DEF TypeOK
        <5> QED BY <5>1
      <4>2. op' = [op EXCEPT !.pc = "query", !.p = Scanned[op.i]]
        BY <2>2, <3>2 DEF GetAnyPortModified
      <4> QED BY <1>1, <3>2, <4>1, <4>2 DEF OpInv, OpPcs
    <3>3. CASE ~(op.i > Len(Scanned)) /\ Scanned[op.i] \notin modified
      <4>1. op' = [op EXCEPT !.i = @ + 1]
        BY <2>2, <3>3 DEF GetAnyPortModified
      <4> QED BY <1>1, <4>1 DEF OpInv
    <3> QED BY <3>1, <3>2, <3>3
  <2> QED BY <2>1, <2>2
<1>3. OpInv'
  BY <1>1, <1>2 DEF OpInv
<1>4. CacheInv'
  BY <1>1, <1>2 DEF CacheInv
<1>5. ReadInv'
  BY <1>2 DEF ReadInv, Reading
<1>6. cache \subseteq attached
  BY DEF TypeOK
<1> QED BY <1>1, <1>3, <1>4, <1>5, <1>6, OpStepInv

(* Opening the port: a flagged one has its flags read again.               *)
LEMMA QueryByNameInv == ASSUME IInv, QueryByName PROVE IInv'
<1> USE PortFacts DEF IInv
<1>1. /\ op.pc = "query" /\ op.p \in Ports /\ ~op.raced
      /\ op.install => op.p \in attached
      /\ ~op.install => op.p \in modified
      /\ UNCHANGED <<fea, modified, gre, kernel, attached, pp, lcm, lost, refused, advertised, budget>>
  BY DEF QueryByName, OvsOnly, unseen, OpInv, Reading
<1>2. CASE op.p \in attached
  <2>1. op' = [op EXCEPT !.pc = "carrier"] /\ cache' = Refreshed(op.p)
    BY <1>2 DEF QueryByName
  <2>2. /\ op' \in [pc : OpPcs, p : Ports \cup {Null}, i : Nat, install : BOOLEAN,
                    carrier : Links, features : Features, raced : BOOLEAN]
        /\ op'.pc = "carrier" /\ op'.p = op.p /\ op'.install = op.install /\ ~op'.raced
    BY <1>1, <2>1 DEF OpInv, OpPcs
  <2>3. OpInv'
    BY <1>1, <1>2, <2>2 DEF OpInv
  <2>4. CacheInv'
    BY <1>1, <2>1, <2>2 DEF CacheInv, Refreshed
  <2>5. ReadInv'
    BY <2>2 DEF ReadInv, Reading
  <2>6. cache' \subseteq attached
    BY <1>2, <2>1 DEF Refreshed, TypeOK
  <2> QED BY <1>1, <2>2, <2>3, <2>4, <2>5, <2>6, OpStepInv
<1>3. CASE op.p \notin attached
  <2>1. op' = Idle /\ cache' = cache
    BY <1>3 DEF QueryByName
  <2>2. OpInv'
    BY <2>1 DEF OpInv, OpPcs, Idle, Features, FeaturesOf
  <2>3. CacheInv'
    BY <1>1, <2>1 DEF CacheInv, Idle
  <2>4. ReadInv'
    BY <2>1 DEF ReadInv, Reading, Idle
  <2>5. cache' \subseteq attached
    BY <2>1 DEF TypeOK
  <2>6. \A p \in attached : ~(op.p = p /\ op.install)
    BY <1>1, <1>3
  <2> QED BY <1>1, <2>2, <2>3, <2>4, <2>5, <2>6, OpStepInv
<1> QED BY <1>2, <1>3

(* Reading the carrier: the cached flags are those of the kernel, but for  *)
(* a port that is being installed and whose PHY has failed.                *)
LEMMA ReadCarrierInv == ASSUME IInv, ReadCarrier PROVE IInv'
<1> USE PortFacts DEF IInv
<1>1. /\ op.pc = "carrier" /\ op.p \in Ports /\ op.p \in attached /\ ~op.raced
      /\ op' = [op EXCEPT !.pc = "features", !.carrier = CarrierOf(op.p, cache)]
      /\ UNCHANGED <<fea, modified, gre, kernel, cache, attached, pp, lcm, lost, refused, advertised, budget>>
  BY DEF ReadCarrier, OvsOnly, unseen, OpInv, Reading
<1>2. CarrierOf(op.p, cache) \in Links
  BY <1>1 DEF CarrierOf, TypeOK
<1>3. CarrierOf(op.p, cache) = CarrierOf(op.p, kernel) \/ (op.install /\ op.p \in refused)
  <2> SUFFICES ASSUME ~(op.install /\ op.p \in refused)
               PROVE  CarrierOf(op.p, cache) = CarrierOf(op.p, kernel)
    OBVIOUS
  <2>1. op.p \in PhysSet => (op.p \in cache <=> op.p \in kernel)
    BY <1>1 DEF CacheInv
  <2> QED BY <1>1, <2>1 DEF CarrierOf, Up
<1>4. /\ op' \in [pc : OpPcs, p : Ports \cup {Null}, i : Nat, install : BOOLEAN,
                  carrier : Links, features : Features, raced : BOOLEAN]
      /\ op'.pc = "features" /\ op'.p = op.p /\ op'.install = op.install /\ ~op'.raced
      /\ op'.carrier = CarrierOf(op.p, cache)
  BY <1>1, <1>2 DEF OpInv, OpPcs
<1>5. OpInv'
  BY <1>1, <1>4 DEF OpInv
<1>6. CacheInv'
  BY <1>1, <1>4 DEF CacheInv
<1>7. ReadInv'
  BY <1>1, <1>3, <1>4 DEF ReadInv, CarrierOf, Up
<1>8. cache \subseteq attached
  BY DEF TypeOK
<1> QED BY <1>1, <1>4, <1>5, <1>6, <1>7, <1>8, OpStepInv

(* Reading the features.                                                   *)
LEMMA ReadFeaturesInv == ASSUME IInv, ReadFeatures PROVE IInv'
<1> USE PortFacts DEF IInv
<1>1. /\ op.pc = "features" /\ op.p \in Ports /\ op.p \in attached
      /\ op' = [op EXCEPT !.pc = "report", !.features = fea[BindOf(op.p)].features]
      /\ UNCHANGED <<fea, modified, gre, kernel, cache, attached, pp, lcm, lost, refused, advertised, budget>>
  BY DEF ReadFeatures, OvsOnly, unseen, OpInv
<1>2. fea[BindOf(op.p)].features \in Features
  BY <1>1 DEF TypeOK
<1>4. /\ op' \in [pc : OpPcs, p : Ports \cup {Null}, i : Nat, install : BOOLEAN,
                  carrier : Links, features : Features, raced : BOOLEAN]
      /\ op'.pc = "report" /\ op'.p = op.p /\ op'.install = op.install
      /\ op'.raced = op.raced /\ op'.carrier = op.carrier
      /\ op'.features = fea[BindOf(op.p)].features
  BY <1>1, <1>2 DEF OpInv, OpPcs
<1>5. OpInv'
  BY <1>1, <1>4 DEF OpInv, Reading
<1>6. CacheInv'
  BY <1>1, <1>4 DEF CacheInv
<1>7. ReadInv'
  BY <1>1, <1>4 DEF ReadInv, CarrierOf, Up, LcmComing, Reading
<1>8. cache \subseteq attached
  BY DEF TypeOK
<1> QED BY <1>1, <1>4, <1>5, <1>6, <1>7, <1>8, OpStepInv

(* What is about to be sent is right, or the port will be looked at again. *)
LEMMA ReadDescProps ==
    ASSUME IInv, op.pc = "report"
    PROVE  /\ op.p \in Ports /\ op.p \in attached /\ ReadDesc \in Descs
           /\ \/ op.install /\ op.p \in refused
              \/ ReadDesc.down = (~Up(op.p, kernel))
           /\ \/ op.raced
              \/ LcmComing(op.p)
              \/ ReadDesc = Actual(op.p)
              \/ /\ op.install /\ op.p \in refused
                 /\ ReadDesc.features = Actual(op.p).features
<1> USE PortFacts DEF IInv
<1>1. op.p \in Ports /\ op.p \in attached /\ op.carrier \in Links /\ op.features \in Features
  BY DEF OpInv
<1>2. Up(op.p, cache) \in BOOLEAN /\ Up(op.p, kernel) \in BOOLEAN
  BY DEF Up
<1>3. ReadDesc \in Descs
  BY <1>1, <1>2 DEF Descs, ReadDesc
<1>4. CASE ~(op.install /\ op.p \in refused)
  <2>1. Up(op.p, cache) <=> Up(op.p, kernel)
    BY <1>1, <1>4 DEF CacheInv, Up
  <2>2. (~Up(op.p, cache)) = (~Up(op.p, kernel))
    BY <1>2, <2>1
  <2>3. ReadDesc = [down |-> ~Up(op.p, kernel), carrier |-> op.carrier, features |-> op.features]
    BY <2>2 DEF ReadDesc
  <2>4. op.raced \/ LcmComing(op.p) \/ ReadDesc = Actual(op.p)
    BY <1>4, <2>3 DEF ReadInv, Reading, Actual
  <2> QED BY <1>1, <1>3, <2>3, <2>4
<1>5. CASE op.install /\ op.p \in refused
  <2>1. op.raced \/ LcmComing(op.p) \/ op.features = fea[BindOf(op.p)].features
    BY DEF ReadInv, Reading
  <2>2. ReadDesc.features = op.features /\ Actual(op.p).features = fea[BindOf(op.p)].features
    BY DEF ReadDesc, Actual
  <2> QED BY <1>1, <1>3, <1>5, <2>1, <2>2
<1> QED BY <1>4, <1>5

(* A description that is true belongs to the views, and so does one that   *)
(* errs only in what was changed without a flag.                           *)
LEMMA TrueIsView ==
    ASSUME NEW p, NEW d \in Descs,
           \/ d = Actual(p)
           \/ p \in refused /\ d.features = Actual(p).features
    PROVE  d \in Views(p)
BY DEF Views

(* A new port is installed.                                                *)
LEMMA OfportInstallInv == ASSUME IInv, OfportInstall PROVE IInv'
<1> USE PortFacts DEF IInv
<1> DEFINE q == op.p
<1>1. /\ op.pc = "report" /\ op.install /\ op' = Idle
      /\ pp' = [pp EXCEPT ![q] = ReadDesc]
      /\ UNCHANGED <<fea, modified, gre, kernel, cache, attached, lcm, lost, refused, advertised, budget>>
  BY DEF OfportInstall, OvsOnly, unseen
<1>2. /\ q \in Ports /\ q \in attached /\ ReadDesc \in Descs
      /\ q \in refused \/ ReadDesc.down = (~Up(q, kernel))
      /\ op.raced \/ LcmComing(q) \/ ReadDesc \in Views(q)
  BY <1>1, ReadDescProps, TrueIsView
<1>3. pp' \in [Ports -> Descs \cup {Null}] /\ pp'[q] = ReadDesc
      /\ \A p \in Ports : p # q => pp'[p] = pp[p]
  BY <1>1, <1>2 DEF TypeOK
<1>4. TypeOK' /\ BudgetInv' /\ LcmInv'
  BY <1>1, <1>3 DEF TypeOK, BudgetInv, LcmInv
<1>5. OpInv' /\ ReadInv'
  BY <1>1 DEF OpInv, OpPcs, Idle, Features, FeaturesOf, ReadInv, Reading
<1>6. CacheInv'
  BY <1>1 DEF CacheInv, Idle
<1>7. AdminInv'
  <2> SUFFICES ASSUME NEW p \in attached, p \in PhysSet, p \notin modified \cup refused
               PROVE  pp'[p].down = (p \notin kernel)
    BY <1>1 DEF AdminInv
  <2>1. CASE p = q
    BY <1>2, <1>3, <2>1 DEF Up
  <2>2. CASE p # q
    BY <1>3, <2>2 DEF AdminInv
  <2> QED BY <2>1, <2>2
<1>8. NothingElseLost'
  <2> SUFFICES ASSUME NEW p \in attached
               PROVE  (pp[p] \in Views(p) \/ p \in modified \cup lost \/ Coming(p))'
    BY <1>1 DEF NothingElseLost
  <2>1. Views(p)' = Views(p) /\ (LcmComing(p) => Coming(p)')
    BY <1>1 DEF Views, Actual, CarrierOf, Up, Coming, LcmComing
  <2>2. CASE p = q
    <3>1. op.raced => q \in modified
      BY DEF OpInv
    <3> QED BY <1>1, <1>2, <1>3, <2>1, <2>2, <3>1
  <2>3. CASE p # q
    <3>1. pp[p] \in Views(p) \/ p \in modified \cup lost \/ LcmComing(p)
      BY <2>3 DEF NothingElseLost, Coming, LcmComing
    <3>2. p \in Ports
      BY DEF TypeOK
    <3> QED BY <1>1, <1>3, <2>1, <2>3, <3>1, <3>2
  <2> QED BY <2>2, <2>3
<1> QED BY <1>4, <1>5, <1>6, <1>7, <1>8

(* A known port is reported and its flag taken away.                       *)
LEMMA PortModifiedInv == ASSUME IInv, PortModified PROVE IInv'
<1> USE PortFacts DEF IInv
<1> DEFINE q == op.p
<1>1. /\ op.pc = "report" /\ ~op.install /\ op' = [Idle EXCEPT !.pc = "scan", !.i = 1]
      /\ pp' = [pp EXCEPT ![q] = ReadDesc]
      /\ modified' = modified \ {q}
      /\ lost' = IF op.raced THEN lost \cup {q} ELSE lost \ {q}
      /\ refused' = refused \ {q} /\ advertised' = advertised \ {q}
      /\ UNCHANGED <<fea, gre, kernel, cache, attached, lcm, budget>>
  BY DEF PortModified, OvsOnly, unseen
<1>2. /\ q \in Ports /\ q \in attached /\ ReadDesc \in Descs
      /\ ReadDesc.down = (~Up(q, kernel))
      /\ op.raced \/ LcmComing(q) \/ ReadDesc = Actual(q)
  BY <1>1, ReadDescProps
<1>3. pp' \in [Ports -> Descs \cup {Null}] /\ pp'[q] = ReadDesc
      /\ \A p \in Ports : p # q => pp'[p] = pp[p]
  BY <1>1, <1>2 DEF TypeOK
<1>4. TypeOK' /\ BudgetInv' /\ LcmInv'
  BY <1>1, <1>2, <1>3 DEF TypeOK, BudgetInv, LcmInv
<1>5. OpInv' /\ ReadInv' /\ op'.p = Null
  BY <1>1 DEF OpInv, OpPcs, Idle, Features, FeaturesOf, ReadInv, Reading
<1>6. CacheInv'
  BY <1>1, <1>5 DEF CacheInv
<1>7. AdminInv'
  <2> SUFFICES ASSUME NEW p \in attached, p \in PhysSet, p \notin modified' \cup refused'
               PROVE  pp'[p].down = (p \notin kernel)
    BY <1>1 DEF AdminInv
  <2>1. CASE p = q
    BY <1>2, <1>3, <2>1 DEF Up
  <2>2. CASE p # q
    BY <1>1, <1>3, <2>2 DEF AdminInv
  <2> QED BY <2>1, <2>2
<1>8. NothingElseLost'
  <2> SUFFICES ASSUME NEW p \in attached
               PROVE  (pp[p] \in Views(p) \/ p \in modified \cup lost \/ Coming(p))'
    BY <1>1 DEF NothingElseLost
  <2>1. LcmComing(p) => Coming(p)'
    BY <1>1 DEF Coming, LcmComing
  <2>4. Actual(p)' = Actual(p)
    BY <1>1 DEF Actual, CarrierOf, Up
  <2>2. CASE p = q
    <3>1. ReadDesc = Actual(p) => ReadDesc \in Views(p)'
      BY <1>2, <2>4 DEF Views
    <3> QED BY <1>1, <1>2, <1>3, <2>1, <2>2, <3>1
  <2>3. CASE p # q
    <3>1. pp[p] \in Views(p) \/ p \in modified \cup lost \/ LcmComing(p)
      BY <2>3 DEF NothingElseLost, Coming, LcmComing
    <3>2. p \in Ports
      BY DEF TypeOK
    <3>3. Views(p)' = Views(p)
      BY <1>1, <2>3, <2>4 DEF Views
    <3> QED BY <1>1, <1>3, <2>1, <2>3, <3>1, <3>2, <3>3
  <2> QED BY <2>2, <2>3
<1> QED BY <1>4, <1>5, <1>6, <1>7, <1>8

----------------------------------------------------------------------------
(* The list of the tunnels when one is added and when one is deleted.      *)
LEMMA AppendProps ==
    ASSUME NEW s \in Seq(Tunnels), IsInjective(s), NEW t \in Tunnels, t \notin Range(s)
    PROVE  /\ Append(s, t) \in Seq(Tunnels) /\ IsInjective(Append(s, t))
           /\ Range(Append(s, t)) = Range(s) \cup {t}
<1> DEFINE r == Append(s, t)
<1>1. /\ r \in Seq(Tunnels) /\ Len(s) \in Nat /\ DOMAIN s = 1 .. Len(s)
      /\ DOMAIN r = 1 .. Len(s) + 1 /\ r[Len(s) + 1] = t
      /\ \A i \in 1 .. Len(s) : r[i] = s[i]
  OBVIOUS
<1> HIDE DEF r
<1>2. \A i \in 1 .. Len(s) : s[i] # t
  BY <1>1 DEF Range
<1>3. \A i, k \in 1 .. Len(s) : s[i] = s[k] => i = k
  BY <1>1 DEF IsInjective
<1>4. IsInjective(r)
  BY <1>1, <1>2, <1>3 DEF IsInjective
<1>5. Range(r) = Range(s) \cup {t}
  <2>1. \A x : x \in Range(r) <=> \E i \in 1 .. Len(s) + 1 : r[i] = x
    BY <1>1 DEF Range
  <2>2. \A x : x \in Range(s) <=> \E i \in 1 .. Len(s) : s[i] = x
    BY <1>1 DEF Range
  <2>3. \A i \in 1 .. Len(s) + 1 : i \in 1 .. Len(s) \/ i = Len(s) + 1
    BY <1>1
  <2>4. \A i \in 1 .. Len(s) : i \in 1 .. Len(s) + 1
    BY <1>1
  <2>5. Len(s) + 1 \in 1 .. Len(s) + 1
    BY <1>1
  <2> QED BY <1>1, <2>1, <2>2, <2>3, <2>4, <2>5
<1> QED BY <1>1, <1>4, <1>5 DEF r

LEMMA WithoutProps ==
    ASSUME NEW s \in Seq(Tunnels), IsInjective(s), NEW t \in Range(s)
    PROVE  /\ Without(s, t) \in Seq(Tunnels) /\ IsInjective(Without(s, t))
           /\ Range(Without(s, t)) = Range(s) \ {t}
<1> DEFINE r == Without(s, t)
           n == CHOOSE m \in 1 .. Len(s) : s[m] = t
           L == Len(s) - 1
<1>1. Len(s) \in Nat /\ DOMAIN s = 1 .. Len(s) /\ \A i \in 1 .. Len(s) : s[i] \in Tunnels
  OBVIOUS
<1>2. \E m \in 1 .. Len(s) : s[m] = t
  BY <1>1 DEF Range
<1>3. n \in 1 .. Len(s) /\ s[n] = t
  BY <1>2
<1>4. r = [i \in 1 .. L |-> IF i < n THEN s[i] ELSE s[i + 1]]
  BY DEF Without
<1> HIDE DEF n, r
<1>5. L \in Nat /\ \A i \in 1 .. L : i \in 1 .. Len(s) /\ i + 1 \in 1 .. Len(s)
  BY <1>1, <1>3
<1>6. DOMAIN r = 1 .. L /\ \A i \in 1 .. L : r[i] = IF i < n THEN s[i] ELSE s[i + 1]
  BY <1>4
<1>7. r \in Seq(Tunnels)
  <2>1. r \in [1 .. L -> Tunnels]
    BY <1>1, <1>4, <1>5
  <2> QED BY <1>5, <2>1
<1> HIDE DEF L
<1>8. \A i, k \in 1 .. Len(s) : s[i] = s[k] => i = k
  BY <1>1 DEF IsInjective
<1>9. IsInjective(r)
  <2> SUFFICES ASSUME NEW i \in 1 .. L, NEW k \in 1 .. L, r[i] = r[k] PROVE i = k
    BY <1>6 DEF IsInjective
  <2>1. i \in 1 .. Len(s) /\ i + 1 \in 1 .. Len(s) /\ k \in 1 .. Len(s) /\ k + 1 \in 1 .. Len(s)
        /\ i \in Nat /\ k \in Nat /\ n \in Nat
    BY <1>1, <1>3, <1>5
  <2>2. r[i] = (IF i < n THEN s[i] ELSE s[i + 1]) /\ r[k] = (IF k < n THEN s[k] ELSE s[k + 1])
    BY <1>6
  <2>3. /\ s[i] = s[k] => i = k
        /\ s[i] = s[k + 1] => i = k + 1
        /\ s[i + 1] = s[k] => i + 1 = k
        /\ s[i + 1] = s[k + 1] => i + 1 = k + 1
    BY <1>8, <2>1
  <2>4. CASE i < n /\ k < n
    BY <2>2, <2>3, <2>4
  <2>5. CASE i < n /\ ~(k < n)
    <3>1. s[i] = s[k + 1]
      BY <2>2, <2>5
    <3>2. i = k + 1
      BY <2>3, <3>1
    <3>3. i \in Nat /\ k \in Nat /\ n \in Nat
      BY <2>1
    <3> QED BY <2>5, <3>2, <3>3
  <2>6. CASE ~(i < n) /\ k < n
    <3>1. s[i + 1] = s[k]
      BY <2>2, <2>6
    <3>2. i + 1 = k
      BY <2>3, <3>1
    <3>3. i \in Nat /\ k \in Nat /\ n \in Nat
      BY <2>1
    <3> QED BY <2>6, <3>2, <3>3
  <2>7. CASE ~(i < n) /\ ~(k < n)
    <3>1. s[i + 1] = s[k + 1]
      BY <2>2, <2>7
    <3>2. i + 1 = k + 1
      BY <2>3, <3>1
    <3>3. i \in Nat /\ k \in Nat /\ n \in Nat
      BY <2>1
    <3> QED BY <2>7, <3>2, <3>3
  <2> QED BY <2>4, <2>5, <2>6, <2>7
<1>10. Range(r) = Range(s) \ {t}
  <2>1. \A x : x \in Range(r) <=> \E i \in 1 .. L : r[i] = x
    BY <1>6 DEF Range
  <2>2. \A x : x \in Range(s) <=> \E i \in 1 .. Len(s) : s[i] = x
    BY <1>1 DEF Range
  <2>3. ASSUME NEW i \in 1 .. L PROVE \E k \in 1 .. Len(s) : k # n /\ s[k] = r[i]
    <3>0. i \in 1 .. Len(s) /\ i + 1 \in 1 .. Len(s) /\ i \in Nat /\ n \in Nat
      BY <1>1, <1>3, <1>5
    <3>1. CASE i < n
      <4>1. r[i] = s[i] /\ i # n
        BY <1>6, <3>0, <3>1
      <4> QED BY <3>0, <4>1
    <3>2. CASE ~(i < n)
      <4>1. r[i] = s[i + 1] /\ i + 1 # n
        BY <1>6, <3>0, <3>2
      <4> QED BY <3>0, <4>1
    <3> QED BY <3>1, <3>2
  <2>4. ASSUME NEW k \in 1 .. Len(s), k # n PROVE \E i \in 1 .. L : r[i] = s[k]
    <3>1. CASE k < n
      <4>1. k \in 1 .. L
        BY <1>1, <1>3, <3>1 DEF L
      <4> QED BY <1>6, <3>1, <4>1
    <3>2. CASE k > n
      <4>1. k - 1 \in 1 .. L /\ ~(k - 1 < n) /\ (k - 1) + 1 = k
        BY <1>1, <1>3, <3>2 DEF L
      <4> QED BY <1>6, <4>1
    <3> QED BY <1>1, <1>3, <2>4, <3>1, <3>2
  <2>5. \A i \in 1 .. L : r[i] \in Range(s) /\ r[i] # t
    BY <1>3, <1>8, <2>2, <2>3
  <2>6. \A k \in 1 .. Len(s) : s[k] # t => s[k] \in Range(r)
    BY <1>3, <2>1, <2>4
  <2> QED BY <2>1, <2>2, <2>5, <2>6
<1> QED BY <1>7, <1>9, <1>10 DEF r

(* A port is added to the bridge: it will be installed.                    *)
LEMMA PortAddInv ==
    ASSUME IInv, NEW q \in Ports, NEW phyok \in BOOLEAN, PortAdd(q, phyok) PROVE IInv'
<1> USE PortFacts DEF IInv
<1>1. /\ op.pc = "idle" /\ op.p = Null /\ budget.admin > 0 /\ q \notin attached
      /\ budget' = [budget EXCEPT !.admin = @ - 1]
      /\ attached' = attached \cup {q}
      /\ op' = [Idle EXCEPT !.pc = "query", !.p = q, !.install = TRUE]
      /\ UNCHANGED <<fea, lcm, pp, lost, advertised>>
  BY DEF PortAdd, Admin, OpInv
<1>2. /\ op' \in [pc : OpPcs, p : Ports \cup {Null}, i : Nat, install : BOOLEAN,
                  carrier : Links, features : Features, raced : BOOLEAN]
      /\ op'.pc = "query" /\ op'.p = q /\ op'.install /\ ~op'.raced
  BY <1>1 DEF Idle, OpPcs, Features, FeaturesOf
<1>3. /\ kernel' \subseteq PhysSet /\ cache' \subseteq attached'
      /\ \A p \in Ports : p # q => /\ p \in kernel' <=> p \in kernel
                                   /\ p \in cache' <=> p \in cache
                                   /\ p \in modified' <=> p \in modified
                                   /\ p \in refused' <=> p \in refused
      /\ (q \in PhysSet /\ q \notin modified' \cup refused') => (q \in cache' <=> q \in kernel')
      /\ refused \subseteq refused' /\ refused' \subseteq refused \cup (PhysSet \cap {q})
      /\ modified \subseteq modified' /\ modified' \subseteq modified \cup (PhysSet \cap {q})
  BY <1>1 DEF PortAdd, SetInterface, TypeOK
<1>4. gre' \in Seq(Tunnels) /\ IsInjective(gre') /\ Range(gre') = attached' \cap Tunnels
      /\ Range(gre) \subseteq Range(gre')
  <2>1. gre \in Seq(Tunnels) /\ IsInjective(gre) /\ Range(gre) = attached \cap Tunnels
    BY DEF TypeOK
  <2>2. CASE q \in PhysSet
    BY <1>1, <2>1, <2>2 DEF PortAdd
  <2>3. CASE q \in Tunnels
    <3>1. gre' = Append(gre, q) /\ q \notin Range(gre)
      BY <1>1, <2>1, <2>3 DEF PortAdd
    <3> QED BY <1>1, <2>1, <2>3, <3>1, AppendProps
  <2> QED BY <2>2, <2>3
<1>5. BudgetInv'
  BY <1>1 DEF BudgetInv
<1>6. TypeOK' /\ LcmInv'
  BY <1>1, <1>3, <1>4, <1>5 DEF TypeOK, LcmInv, BudgetInv
<1>7. OpInv' /\ ReadInv'
  BY <1>1, <1>2 DEF OpInv, ReadInv, Reading
<1>8. CacheInv'
  BY <1>1, <1>2, <1>3 DEF CacheInv
<1>9. AdminInv'
  <2> SUFFICES ASSUME NEW p \in attached, p \in PhysSet, p \notin modified' \cup refused'
               PROVE  pp[p].down = (p \notin kernel')
    BY <1>1, <1>2 DEF AdminInv
  <2>1. p # q /\ p \in Ports /\ op.p # p /\ p \notin modified \cup refused
    BY <1>1, <1>3
  <2>2. pp[p].down = (p \notin kernel)
    BY <2>1 DEF AdminInv
  <2>3. (p \notin kernel) = (p \notin kernel')
    BY <1>3, <2>1
  <2> QED BY <2>2, <2>3
<1>10. NothingElseLost'
  <2> SUFFICES ASSUME NEW p \in attached, p # q
               PROVE  (pp[p] \in Views(p) \/ p \in modified \cup lost \/ Coming(p))'
    BY <1>1, <1>2 DEF NothingElseLost, Coming
  <2>0. p \in Ports
    BY DEF TypeOK
  <2>1. pp[p] \in Views(p) \/ p \in modified \cup lost \/ LcmComing(p)
    BY <1>1, <2>0 DEF NothingElseLost, Coming, LcmComing
  <2>2. LcmComing(p) => Coming(p)'
    BY <1>1 DEF Coming, LcmComing
  <2>3. Views(p)' = Views(p)
    <3>1. (~Up(p, kernel')) = (~Up(p, kernel))
      BY <1>3, <2>0 DEF Up
    <3>2. Actual(p)' = Actual(p)
      BY <1>1, <3>1 DEF Actual, CarrierOf, Up
    <3>3. p \in refused' <=> p \in refused
      BY <1>3, <2>0
    <3> QED BY <1>1, <3>2, <3>3 DEF Views
  <2> QED BY <1>1, <1>3, <2>1, <2>2, <2>3
<1> QED BY <1>5, <1>6, <1>7, <1>8, <1>9, <1>10

(* A port leaves the bridge.                                               *)
LEMMA PortDelInv ==
    ASSUME IInv, NEW q \in Ports, NEW phyok \in BOOLEAN, PortDel(q, phyok) PROVE IInv'
<1> USE PortFacts DEF IInv
<1>1. /\ op.pc = "idle" /\ op.p = Null /\ budget.admin > 0 /\ q \in attached
      /\ budget' = [budget EXCEPT !.admin = @ - 1]
      /\ attached' = attached \ {q} /\ lost' = lost \ {q} /\ cache' = cache \ {q}
      /\ refused' = refused \ {q} /\ advertised' = advertised \ {q}
      /\ pp' = [pp EXCEPT ![q] = Null]
      /\ UNCHANGED <<fea, lcm, op>>
  BY DEF PortDel, Leaves, Admin, OpInv
<1>2. /\ kernel' \subseteq PhysSet
      /\ \A p \in Ports : p # q => /\ p \in kernel' <=> p \in kernel
                                   /\ p \in modified' <=> p \in modified
  BY <1>1 DEF PortDel, TypeOK
<1>3. pp' \in [Ports -> Descs \cup {Null}] /\ \A p \in Ports : p # q => pp'[p] = pp[p]
  BY <1>1 DEF TypeOK
<1>4. /\ gre' \in Seq(Tunnels) /\ IsInjective(gre') /\ Range(gre') = attached' \cap Tunnels
      /\ modified' \subseteq PhysSet \cup Range(gre')
  <2>1. gre \in Seq(Tunnels) /\ IsInjective(gre) /\ Range(gre) = attached \cap Tunnels
        /\ modified \subseteq PhysSet \cup Range(gre)
    BY DEF TypeOK
  <2>2. CASE q \in PhysSet
    BY <1>1, <2>1, <2>2 DEF PortDel
  <2>3. CASE q \in Tunnels
    <3>1. gre' = Without(gre, q) /\ q \in Range(gre) /\ modified' = modified \ {q}
      BY <1>1, <2>1, <2>3 DEF PortDel
    <3>2. gre' \in Seq(Tunnels) /\ IsInjective(gre') /\ Range(gre') = Range(gre) \ {q}
      BY <2>1, <3>1, WithoutProps
    <3> QED BY <1>1, <2>1, <3>1, <3>2
  <2> QED BY <2>2, <2>3
<1>5. BudgetInv'
  BY <1>1 DEF BudgetInv
<1>6. TypeOK' /\ LcmInv'
  BY <1>1, <1>2, <1>3, <1>4, <1>5 DEF TypeOK, LcmInv, BudgetInv
<1>7. OpInv' /\ ReadInv'
  BY <1>1 DEF OpInv, ReadInv, Reading
<1>8. CacheInv'
  BY <1>1, <1>2 DEF CacheInv
<1>9. AdminInv'
  <2> SUFFICES ASSUME NEW p \in attached, p # q, p \in PhysSet, p \notin modified' \cup refused'
               PROVE  pp'[p].down = (p \notin kernel')
    BY <1>1 DEF AdminInv
  <2>1. p \in Ports /\ op.p # p /\ p \notin modified \cup refused
    BY <1>1, <1>2
  <2>2. pp[p].down = (p \notin kernel) /\ pp'[p] = pp[p]
    BY <1>3, <2>1 DEF AdminInv
  <2>3. (p \notin kernel) = (p \notin kernel')
    BY <1>2, <2>1
  <2> QED BY <2>2, <2>3
<1>10. NothingElseLost'
  <2> SUFFICES ASSUME NEW p \in attached, p # q
               PROVE  (pp[p] \in Views(p) \/ p \in modified \cup lost \/ Coming(p))'
    BY <1>1 DEF NothingElseLost
  <2>0. p \in Ports
    BY DEF TypeOK
  <2>1. pp[p] \in Views(p) \/ p \in modified \cup lost \/ Coming(p)
    BY DEF NothingElseLost
  <2>2. Coming(p) => Coming(p)'
    BY <1>1 DEF Coming
  <2>3. Views(p)' = Views(p)
    <3>1. (~Up(p, kernel')) = (~Up(p, kernel))
      BY <1>2, <2>0 DEF Up
    <3> QED BY <1>1, <3>1 DEF Views, Actual, CarrierOf, Up
  <2> QED BY <1>1, <1>2, <1>3, <2>0, <2>1, <2>2, <2>3
<1> QED BY <1>5, <1>6, <1>7, <1>8, <1>9, <1>10

(* A port of the bridge is enabled or disabled, and what it advertises is  *)
(* set.  Whoever may miss the one is in refused, whoever misses the other  *)
(* in advertised.                                                          *)
LEMMA PortModInv ==
    ASSUME IInv, NEW q \in PhysSet, NEW up \in BOOLEAN, NEW phyok \in BOOLEAN,
           NEW adv \in Links, PortMod(q, up, phyok, adv)
    PROVE  IInv'
<1> USE PortFacts DEF IInv
<1>1. /\ op.pc = "idle" /\ op.p = Null /\ budget.admin > 0 /\ q \in attached
      /\ budget' = [budget EXCEPT !.admin = @ - 1]
      /\ Configured(q, up, phyok)
      /\ UNCHANGED <<lcm, op, gre, attached, pp, lost>>
  BY DEF PortMod, Admin, OpInv
<1>2. /\ kernel' \subseteq PhysSet /\ cache' \subseteq attached
      /\ modified' \subseteq modified \cup {q} /\ modified \subseteq modified'
      /\ refused' \subseteq refused \cup {q} /\ refused \subseteq refused'
      /\ \A p \in Ports : p # q => /\ p \in kernel' <=> p \in kernel
                                   /\ p \in cache' <=> p \in cache
      /\ q \in modified' \cup refused' \/ (kernel' = kernel /\ cache' = cache)
  <2>1. kernel \subseteq PhysSet /\ cache \subseteq attached
    BY DEF TypeOK
  <2>2. CASE pp[q].down = up /\ up # (q \in cache)
    BY <1>1, <2>1, <2>2 DEF Configured, SetInterface
  <2>3. CASE ~(pp[q].down = up /\ up # (q \in cache))
    <3>1. cache' \in {Refreshed(q), cache} /\ UNCHANGED <<kernel, modified, refused>>
      BY <1>1, <2>3 DEF Configured
    <3> QED BY <1>1, <2>1, <3>1 DEF Refreshed
  <2> QED BY <2>2, <2>3
<1>3. /\ fea' \in [PhysSet -> [carrier : Links, features : Features]]
      /\ advertised' \subseteq attached /\ advertised \subseteq advertised'
      /\ \A p \in PhysSet : /\ fea'[p].carrier = fea[p].carrier
                            /\ fea'[p].features.link = fea[p].features.link
      /\ \A p \in attached : p \in advertised' \/ fea'[BindOf(p)] = fea[BindOf(p)]
  <2>1. /\ fea \in [PhysSet -> [carrier : Links, features : [link : Links, adv : Links]]]
        /\ advertised \subseteq attached /\ attached \subseteq Ports
    BY DEF TypeOK, Features
  <2>2. CASE UNCHANGED <<fea, advertised>>
    BY <2>1, <2>2 DEF Features
  <2>3. CASE /\ fea' = [fea EXCEPT ![q].features.adv = adv]
             /\ advertised' = advertised \cup {p \in attached : BindOf(p) = q}
    BY <2>1, <2>3 DEF Features
  <2> QED BY <2>2, <2>3 DEF PortMod
<1>5. BudgetInv'
  BY <1>1 DEF BudgetInv
<1>6. TypeOK' /\ LcmInv'
  BY <1>1, <1>2, <1>3, <1>5 DEF TypeOK, LcmInv, BudgetInv
<1>7. OpInv' /\ ReadInv'
  BY <1>1, <1>2 DEF OpInv, ReadInv, Reading
<1>8. CacheInv'
  BY <1>1, <1>2 DEF CacheInv
<1>9. AdminInv'
  <2> SUFFICES ASSUME NEW p \in attached, p \in PhysSet, p \notin modified' \cup refused'
               PROVE  pp[p].down = (p \notin kernel')
    BY <1>1 DEF AdminInv
  <2>1. p \in Ports /\ op.p # p /\ p \notin modified \cup refused
    BY <1>1, <1>2
  <2>2. pp[p].down = (p \notin kernel)
    BY <2>1 DEF AdminInv
  <2>3. (p \notin kernel) = (p \notin kernel')
    BY <1>2, <2>1
  <2> QED BY <2>2, <2>3
<1>10. NothingElseLost'
  <2> SUFFICES ASSUME NEW p \in attached, p \notin modified'
               PROVE  (pp[p] \in Views(p) \/ p \in modified \cup lost \/ Coming(p))'
    BY <1>1 DEF NothingElseLost
  <2>0. p \in Ports /\ BindOf(p) \in PhysSet
    BY DEF TypeOK
  <2>1. pp[p] \in Views(p) \/ p \in modified \cup lost \/ Coming(p)
    BY DEF NothingElseLost
  <2>2. Coming(p) => Coming(p)'
    BY <1>1 DEF Coming
  <2>3. ASSUME NEW d \in Views(p) PROVE d \in Views(p)'
    <3>1. d \in Descs
      BY <2>3 DEF Views
    <3>2. d.features.link = Actual(p)'.features.link
      BY <1>3, <2>0, <2>3 DEF Views, Actual
    <3>3. p \in advertised' \/ d.features.adv = Actual(p)'.features.adv
      BY <1>3, <2>0, <2>3 DEF Views, Actual
    <3>4. p \in refused' \/ (d.down = Actual(p)'.down /\ d.carrier = Actual(p)'.carrier)
      <4> SUFFICES ASSUME p \notin refused'
                   PROVE  d.down = Actual(p)'.down /\ d.carrier = Actual(p)'.carrier
        OBVIOUS
      <4>1. (~Up(p, kernel')) = (~Up(p, kernel))
        BY <1>2, <2>0 DEF Up
      <4>2. d.down = Actual(p).down /\ d.carrier = Actual(p).carrier
        BY <1>2, <2>3 DEF Views
      <4> QED BY <1>2, <1>3, <2>0, <4>1, <4>2 DEF Actual, CarrierOf, Up
    <3> QED BY <3>1, <3>2, <3>3, <3>4 DEF Views
  <2> QED BY <1>1, <1>2, <2>0, <2>1, <2>2, <2>3
<1> QED BY <1>5, <1>6, <1>7, <1>8, <1>9, <1>10

----------------------------------------------------------------------------
(* Every step of either thread keeps the invariant.                        *)
LEMMA NextInv == IInv /\ [Next]_vars => IInv'
<1> SUFFICES ASSUME IInv, [Next]_vars PROVE IInv'
  OBVIOUS
<1>1. ASSUME NEW p \in PhysSet, NEW link \in Links, RxLinkNotify(p, link) PROVE IInv'
  BY <1>1, RxLinkNotifyInv
<1>2. CASE Lcm
  BY <1>2, MapInv, SetPortModifiedInv, SetTunnelModifiedInv DEF Lcm
<1>3. CASE Poll
  BY <1>3, ScanInv, QueryByNameInv, ReadCarrierInv, ReadFeaturesInv, OfportInstallInv,
     PortModifiedInv DEF Poll
<1>4. ASSUME NEW p \in Ports, NEW phyok \in BOOLEAN,
             PortAdd(p, phyok) \/ PortDel(p, phyok)
      PROVE  IInv'
  BY <1>4, PortAddInv, PortDelInv
<1>5. ASSUME NEW p \in PhysSet, NEW up \in BOOLEAN, NEW phyok \in BOOLEAN,
             NEW adv \in Links, PortMod(p, up, phyok, adv)
      PROVE  IInv'
  BY <1>5, PortModInv
<1>6. CASE UNCHANGED vars
  <2> USE <1>6 DEF vars, unseen, IInv
  <2>1. TypeOK' /\ BudgetInv' /\ LcmInv' /\ OpInv'
    BY DEF TypeOK, BudgetInv, LcmInv, OpInv
  <2>2. CacheInv' /\ ReadInv' /\ AdminInv'
    BY DEF CacheInv, ReadInv, AdminInv, LcmComing, CarrierOf, Up
  <2>3. NothingElseLost'
    BY DEF NothingElseLost, Views, Actual, CarrierOf, Up, Coming
  <2> QED BY <2>1, <2>2, <2>3
<1> QED BY <1>1, <1>2, <1>3, <1>4, <1>5, <1>6 DEF Next

(* The ports that are flagged are there, the list of the tunnels holds the *)
(* tunnels of the bridge once each, and every value has its type.          *)
THEOREM TypeCorrect == Spec => []TypeOK
<1>1. IInv => TypeOK
  BY DEF IInv
<1> QED BY <1>1, InitInv, NextInv, PTL DEF Spec

(* No interleaving of the LCM thread with the polling of the OpenFlow      *)
(* thread, of notifications and of ports added, deleted and configured     *)
(* loses a change of a port, but for the flag set while update_port takes  *)
(* it away, the PHY that fails, and what the controller has had the port   *)
(* advertise.                                                              *)
THEOREM NothingElseIsLost == Spec => []NothingElseLost
<1>1. IInv => NothingElseLost
  BY DEF IInv
<1> QED BY <1>1, InitInv, NextInv, PTL DEF Spec

(* Whether a port is enabled is lost only where the PHY fails: otherwise   *)
(* the cached flags agree with the kernel and the controller knows, unless *)
(* the port is flagged.                                                    *)
THEOREM AdminIsLostOnlyByPhy == Spec => []AdminLostOnlyByPhy
<1>1. IInv => AdminLostOnlyByPhy
  <2> SUFFICES ASSUME IInv, NEW p \in attached \cap PhysSet, p \notin modified \cup refused
               PROVE  /\ (p \in cache) = (p \in kernel)
                      /\ Coming(p) \/ pp[p].down = (p \notin kernel)
    BY DEF AdminLostOnlyByPhy
  <2>1. p \in cache <=> p \in kernel
    BY DEF IInv, CacheInv
  <2>2. (op.p = p /\ op.install) \/ pp[p].down = (p \notin kernel)
    BY DEF IInv, AdminInv
  <2> QED BY <2>1, <2>2 DEF Coming
<1> QED BY <1>1, InitInv, NextInv, PTL DEF Spec

=============================================================================
