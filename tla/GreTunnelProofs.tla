--------------------------- MODULE GreTunnelProofs ---------------------------
(***************************************************************************)
(* What TLAPS proves about GreTunnel, for any number of ports, addresses,  *)
(* internal ports and next-hop ids.                                        *)
(***************************************************************************)
EXTENDS GreTunnel, FiniteSetTheorems, FunctionTheorems, SequenceTheorems, TLAPS

(* Every step of a create and the step that takes back the addresses, in   *)
(* the order in which a create takes.                                      *)
Steps == Takes \cup {"unbind"}
Ord == [unbind |-> 0, iloop |-> 1, enable |-> 2, default |-> 3, userid |-> 4,
        nhid_wok |-> 5, nhid_wk |-> 6, nh_wok |-> 7, nh_wk |-> 8, route_wok |-> 9,
        route_wk |-> 10, bind |-> 11, port |-> 12]

(* What must outlive a step: the chip must not be left pointing to it.     *)
NhNeeds    == {"iloop"}
RouteNeeds == {"iloop", "enable", "default", "userid"}
Needs == [unbind |-> {}, iloop |-> {}, enable |-> {"iloop"}, default |-> {"iloop"},
          userid |-> {"iloop"}, nhid_wok |-> {}, nhid_wk |-> {},
          nh_wok |-> NhNeeds \cup {"nhid_wok"}, nh_wk |-> NhNeeds \cup {"nhid_wk"},
          route_wok |-> RouteNeeds \cup {"nhid_wok", "nh_wok"},
          route_wk |-> RouteNeeds \cup {"nhid_wk", "nh_wk"},
          bind |-> {}, port |-> {}]

NhidStep(k)  == IF k = "wok" THEN "nhid_wok" ELSE "nhid_wk"
NhStep(k)    == IF k = "wok" THEN "nh_wok" ELSE "nh_wk"
RouteStep(k) == IF k = "wok" THEN "route_wok" ELSE "route_wk"

(* What the handler that is running has at this moment, what each port     *)
(* has, and what is known of it.                                           *)
Elems(s) == {s[i] : i \in 1 .. Len(s)}
Have ==
    IF op.pc = "undo" THEN Elems(op.todo)
    ELSE IF op.pc = "idle" THEN {} ELSE {x \in Steps : Ord[x] < Ord[op.pc]}
HaveOf(p) == IF p = op.port THEN Have ELSE IF tunnel[p] # Null THEN Steps ELSE {}
InfoOf(p) == IF p = op.port THEN op.info ELSE tunnel[p]
PairOf(p) == <<InfoOf(p).local, InfoOf(p).remote>>
Active    == {p \in Ports : p = op.port \/ tunnel[p] # Null}

(* A list of steps to undo: none twice, and none before one that needs it. *)
GoodTodo(s) ==
    /\ s \in Seq(Steps)
    /\ \A i, j \in 1 .. Len(s) : s[i] = s[j] => i = j
    /\ \A i \in 1 .. Len(s) : \A x \in Needs[s[i]] : \E j \in i + 1 .. Len(s) : s[j] = x

OpInv ==
    /\ op \in [pc : Takes \cup {"idle", "undo"}, port : Ports \cup {Null},
               info : Infos \cup {Null}, todo : Seq(Steps)]
    /\ op.pc = "idle" => op = Idle
    /\ op.pc # "idle" => op.port \in Ports /\ op.info \in Infos
    /\ op.pc = "undo" => op.todo # <<>> /\ GoodTodo(op.todo)
    /\ op.pc # "idle" => tunnel[op.port] = IF "port" \in Have THEN op.info ELSE Null

(* A port that has an internal port or a next-hop id knows which; no two   *)
(* ports have one in common, nor the same addresses.                       *)
InfoInv ==
    \A p \in Active :
        /\ "iloop" \in HaveOf(p) => InfoOf(p).iloop # Null
        /\ \A k \in Kinds : NhidStep(k) \in HaveOf(p) => InfoOf(p).nh[k] # Null
        /\ \A k, j \in Kinds : k # j /\ InfoOf(p).nh[k] # Null =>
              InfoOf(p).nh[k] # InfoOf(p).nh[j]

DistinctInv ==
    \A p, r \in Active : p # r =>
        /\ PairOf(p) # PairOf(r)
        /\ InfoOf(p).iloop # Null => InfoOf(p).iloop # InfoOf(r).iloop
        /\ \A k, j \in Kinds : InfoOf(p).nh[k] # Null => InfoOf(p).nh[k] # InfoOf(r).nh[j]

(* The books: who has what.                                                *)
PairInv ==
    \A q \in Pairs : q \in db.pair <=> \E p \in Ports : "unbind" \in HaveOf(p) /\ PairOf(p) = q
LocalUsers(l) == {p \in Ports : "unbind" \in HaveOf(p) /\ InfoOf(p).local = l}
LocalInv == \A l \in Locals : db.local[l] = Cardinality(LocalUsers(l))
LoopInv ==
    \A i \in ILoops : i \in pool.iloop <=> \E p \in Ports : "iloop" \in HaveOf(p) /\ InfoOf(p).iloop = i
HasNhid(p, k, n) == NhidStep(k) \in HaveOf(p) /\ InfoOf(p).nh[k] = n
NhidInv ==
    /\ \A n \in NhIds : n \in pool.nh <=> n \in pool.flow \/ \E p \in Ports, k \in Kinds : HasNhid(p, k, n)
    /\ \A n \in pool.flow, p \in Ports, k \in Kinds : ~HasNhid(p, k, n)
BindUsers(b) == {p \in Ports : "bind" \in HaveOf(p) /\ InfoOf(p).bind = b}
BindInv ==
    \A b \in BindPorts :
        /\ db.bind[b] = Cardinality(BindUsers(b))
        /\ b \in chip.l3 <=> BindUsers(b) # {}

(* The chip: what each port has written, and nothing else.                 *)
OnInv == \A p \in Ports : "enable" \in HaveOf(p) => InfoOf(p).iloop \in chip.on
DefaultInv ==
    \A i \in ILoops, p \in Ports :
        chip.dflt[i] = p <=> "default" \in HaveOf(p) /\ InfoOf(p).iloop = i
UserIdInv ==
    \A i \in ILoops : i \in chip.userid <=> \E p \in Ports : "userid" \in HaveOf(p) /\ InfoOf(p).iloop = i
HasNh(p, k, n) == NhStep(k) \in HaveOf(p) /\ InfoOf(p).nh[k] = n
NhInv ==
    /\ \A n \in NhIds : chip.nh[n] # Null => \E p \in Ports, k \in Kinds : HasNh(p, k, n)
    /\ \A n \in NhIds, p \in Ports, k \in Kinds : HasNh(p, k, n) => chip.nh[n] = InfoOf(p).iloop
HasRoute(p, k, q) == RouteStep(k) \in HaveOf(p) /\ PairOf(p) = q
RouteInv ==
    \A q \in Pairs, k \in Kinds :
        /\ chip.route[q][k] # Null => \E p \in Ports : HasRoute(p, k, q)
        /\ \A p \in Ports : HasRoute(p, k, q) => chip.route[q][k] = InfoOf(p).nh[k]

(* The tables are records, which TypeOK does not say.                      *)
RecInv ==
    /\ db \in [local : [Locals -> Nat], pair : SUBSET Pairs, bind : [BindPorts -> Nat]]
    /\ pool \in [iloop : SUBSET ILoops, nh : SUBSET NhIds, flow : SUBSET NhIds]
    /\ chip \in [on : SUBSET ILoops, dflt : [ILoops -> Ports \cup {Null}],
                 userid : SUBSET ILoops, nh : [NhIds -> ILoops \cup {Null}],
                 route : [Pairs -> [Kinds -> NhIds \cup {Null}]], l3 : SUBSET BindPorts]

IInv ==
    /\ tunnel \in [Ports -> Infos \cup {Null}]
    /\ RecInv /\ OpInv /\ InfoInv /\ DistinctInv
    /\ PairInv /\ LocalInv /\ LoopInv /\ NhidInv /\ BindInv
    /\ OnInv /\ DefaultInv /\ UserIdInv /\ NhInv /\ RouteInv
----------------------------------------------------------------------------
(* Constants.                                                              *)
LEMMA NullFacts ==
    /\ Null \notin Ports /\ Null \notin ILoops /\ Null \notin NhIds
    /\ ILoops \subseteq Nat /\ NhIds \subseteq Nat
    /\ IsFiniteSet(Ports) /\ IsFiniteSet(NhIds)
  BY NullAssumption, PoolAssumption, FiniteAssumption

(* A set of numbers has a lowest one.                                      *)
LEMMA LowestProps == ASSUME NEW S \in SUBSET Nat, S # {} PROVE Lowest(S) \in S
<1>1. IsWellFoundedOn(OpToRel(<, Nat), Nat)
  BY NatLessThanWellFounded
<1>2. PICK n \in S : \A m \in S : <<m, n>> \notin OpToRel(<, Nat)
  BY <1>1, WFMin
<1>3. \A m \in S : n <= m
  <2> SUFFICES ASSUME NEW m \in S PROVE n <= m
    OBVIOUS
  <2>1. m \in Nat /\ n \in Nat /\ ~(m < n)
    BY <1>2 DEF OpToRel
  <2> QED BY <2>1
<1> QED BY <1>3 DEF Lowest

(* The lists of what is to be undone.                                      *)
LEMMA ErrStepsGood == GoodTodo(ErrSteps) /\ Len(ErrSteps) = 13
<1>1. ErrSteps \in Seq(Steps) /\ Len(ErrSteps) = 13
  BY DEF ErrSteps, Steps, Takes
<1>2. \A i, j \in 1 .. 13 : ErrSteps[i] = ErrSteps[j] => i = j
  BY DEF ErrSteps
<1>3. \A i \in 1 .. 13 : \A x \in Needs[ErrSteps[i]] : \E j \in i + 1 .. 13 : ErrSteps[j] = x
  BY DEF ErrSteps, Needs, NhNeeds, RouteNeeds
<1> QED BY <1>1, <1>2, <1>3 DEF GoodTodo

LEMMA DeleteStepsGood == GoodTodo(DeleteSteps) /\ Elems(DeleteSteps) = Steps
<1>1. DeleteSteps \in Seq(Steps) /\ Len(DeleteSteps) = 13
  BY DEF DeleteSteps, Steps, Takes
<1>2. \A i, j \in 1 .. 13 : DeleteSteps[i] = DeleteSteps[j] => i = j
  BY DEF DeleteSteps
<1>3. \A i \in 1 .. 13 : \A x \in Needs[DeleteSteps[i]] : \E j \in i + 1 .. 13 : DeleteSteps[j] = x
  BY DEF DeleteSteps, Needs, NhNeeds, RouteNeeds
<1>4. \A x \in Steps : \E i \in 1 .. 13 : DeleteSteps[i] = x
  BY DEF DeleteSteps, Steps, Takes
<1>5. Elems(DeleteSteps) = Steps
  <2>1. \A i \in 1 .. 13 : DeleteSteps[i] \in Steps
    BY DEF DeleteSteps, Steps, Takes
  <2> QED BY <1>1, <1>4, <2>1 DEF Elems
<1> QED BY <1>1, <1>2, <1>3, <1>5 DEF GoodTodo

(* What is left of a list is a list of the kind, and nothing it held is    *)
(* needed by what it has lost.                                             *)
LEMMA SuffixGood ==
    ASSUME NEW s, GoodTodo(s), NEW m \in 1 .. Len(s) + 1
    PROVE  /\ GoodTodo(SubSeq(s, m, Len(s)))
           /\ \A x : x \in Elems(SubSeq(s, m, Len(s))) <=> \E i \in m .. Len(s) : s[i] = x
<1> DEFINE r == SubSeq(s, m, Len(s))
<1>1. s \in Seq(Steps) /\ Len(s) \in Nat
  BY DEF GoodTodo
<1>2. /\ r \in Seq(Steps) /\ Len(r) = Len(s) - m + 1
      /\ \A i \in 1 .. Len(r) : r[i] = s[i + m - 1] /\ i + m - 1 \in 1 .. Len(s) /\ i + m - 1 >= m
  BY <1>1
<1>3. \A i \in m .. Len(s) : i - m + 1 \in 1 .. Len(r) /\ r[i - m + 1] = s[i]
  BY <1>1, <1>2
<1> HIDE DEF r
<1>4. \A i, j \in 1 .. Len(r) : r[i] = r[j] => i = j
  <2> SUFFICES ASSUME NEW i \in 1 .. Len(r), NEW j \in 1 .. Len(r), r[i] = r[j] PROVE i = j
    OBVIOUS
  <2>1. i + m - 1 = j + m - 1
    BY <1>2 DEF GoodTodo
  <2> QED BY <1>1, <1>2, <2>1
<1>5. ASSUME NEW i \in 1 .. Len(r), NEW x \in Needs[r[i]]
      PROVE  \E j \in i + 1 .. Len(r) : r[j] = x
  <2>1. PICK j \in (i + m - 1) + 1 .. Len(s) : s[j] = x
    BY <1>2 DEF GoodTodo
  <2>2. j \in m .. Len(s) /\ j - m + 1 \in i + 1 .. Len(r)
    BY <1>1, <1>2
  <2> QED BY <1>3, <2>1, <2>2
<1>6. GoodTodo(r)
  BY <1>2, <1>4, <1>5 DEF GoodTodo
<1>7. \A x : x \in Elems(r) <=> \E i \in m .. Len(s) : s[i] = x
  <2>1. ASSUME NEW i \in 1 .. Len(r) PROVE \E j \in m .. Len(s) : s[j] = r[i]
    <3>1. i + m - 1 \in m .. Len(s)
      BY <1>1, <1>2
    <3> QED BY <1>2, <3>1
  <2> QED BY <1>3, <2>1 DEF Elems
<1> QED BY <1>6, <1>7 DEF r

(* The order of the steps.                                                 *)
LEMMA OrdFacts ==
    /\ \A x \in Steps : Ord[x] \in Nat /\ Needs[x] \subseteq Steps
    /\ \A x \in Steps : \A y \in Needs[x] : Ord[y] < Ord[x]
    /\ \A x, y \in Steps : Ord[x] = Ord[y] => x = y
    /\ Takes \subseteq Steps /\ "unbind" \in Steps /\ "unbind" \notin Takes
    /\ \A x \in Steps : x = "port" \/ Ord[x] < Ord["port"]
    /\ \A x \in Takes : Ord["unbind"] < Ord[x]
<1>1. Takes \subseteq Steps /\ "unbind" \in Steps /\ "unbind" \notin Takes
  BY DEF Steps, Takes
<1>2. \A x \in Steps : Ord[x] \in Nat /\ (x = "port" \/ Ord[x] < Ord["port"])
  BY DEF Steps, Takes, Ord
<1>3. \A x \in Takes : Ord["unbind"] < Ord[x]
  BY DEF Takes, Ord
<1>4. \A x, y \in Steps : Ord[x] = Ord[y] => x = y
  BY DEF Steps, Takes, Ord
<1>5. \A x \in Steps : Needs[x] \subseteq Steps
  BY DEF Steps, Takes, Needs, NhNeeds, RouteNeeds
<1>6. \A x \in Steps : \A y \in Needs[x] : Ord[y] < Ord[x]
  BY DEF Steps, Takes, Needs, NhNeeds, RouteNeeds, Ord
<1> QED BY <1>1, <1>2, <1>3, <1>4, <1>5, <1>6

(* A port that has something has all that this needs.                      *)
LEMMA HaveClosed ==
    ASSUME OpInv, NEW p \in Ports
    PROVE  /\ HaveOf(p) \subseteq Steps
           /\ \A x \in HaveOf(p) : Needs[x] \subseteq HaveOf(p)
           /\ HaveOf(p) # {} => p \in Active
<1>1. CASE p # op.port
  BY <1>1, OrdFacts DEF HaveOf, Active
<1>2. CASE p = op.port
  <2>1. HaveOf(p) = Have /\ p \in Active
    BY <1>2 DEF HaveOf, Active
  <2>2. CASE op.pc = "undo"
    <3>1. Have = Elems(op.todo) /\ GoodTodo(op.todo)
      BY <2>2 DEF Have, OpInv
    <3>2. op.todo \in Seq(Steps) /\ Len(op.todo) \in Nat
      BY <3>1 DEF GoodTodo
    <3>3. Have \subseteq Steps
      BY <3>1, <3>2 DEF Elems
    <3>4. ASSUME NEW x \in Have, NEW y \in Needs[x] PROVE y \in Have
      <4>1. PICK i \in 1 .. Len(op.todo) : op.todo[i] = x
        BY <3>1 DEF Elems
      <4>2. PICK k \in i + 1 .. Len(op.todo) : op.todo[k] = y
        BY <3>1, <4>1 DEF GoodTodo
      <4>3. k \in 1 .. Len(op.todo)
        BY <3>2
      <4> QED BY <3>1, <4>2, <4>3 DEF Elems
    <3> QED BY <2>1, <3>3, <3>4
  <2>3. CASE op.pc = "idle"
    BY <2>1, <2>3 DEF Have
  <2>4. CASE op.pc \in Takes
    <3>1. Have = {x \in Steps : Ord[x] < Ord[op.pc]} /\ op.pc \in Steps
      BY <2>4, OrdFacts DEF Have, Takes
    <3>2. ASSUME NEW x \in Have, NEW y \in Needs[x] PROVE y \in Have
      <4>1. x \in Steps /\ y \in Steps /\ Ord[y] < Ord[x] /\ Ord[x] < Ord[op.pc]
            /\ Ord[x] \in Nat /\ Ord[y] \in Nat /\ Ord[op.pc] \in Nat
        BY <3>1, OrdFacts
      <4> QED BY <3>1, <4>1
    <3> QED BY <2>1, <3>1, <3>2
  <2> QED BY <2>2, <2>3, <2>4 DEF OpInv
<1> QED BY <1>1, <1>2

(* What closure says about the next hops and the routes.                   *)
LEMMA HaveNeeds ==
    ASSUME OpInv, NEW p \in Ports, NEW k \in Kinds
    PROVE  /\ "enable" \in HaveOf(p) => "iloop" \in HaveOf(p)
           /\ "default" \in HaveOf(p) => "iloop" \in HaveOf(p)
           /\ "userid" \in HaveOf(p) => "iloop" \in HaveOf(p)
           /\ NhStep(k) \in HaveOf(p) => "iloop" \in HaveOf(p) /\ NhidStep(k) \in HaveOf(p)
           /\ RouteStep(k) \in HaveOf(p) =>
                 /\ "iloop" \in HaveOf(p) /\ NhidStep(k) \in HaveOf(p)
                 /\ NhStep(k) \in HaveOf(p) /\ "enable" \in HaveOf(p)
                 /\ "default" \in HaveOf(p) /\ "userid" \in HaveOf(p)
<1>1. \A x \in HaveOf(p) : Needs[x] \subseteq HaveOf(p)
  BY HaveClosed
<1> HIDE DEF HaveOf
<1>2. /\ "iloop" \in Needs["enable"] /\ "iloop" \in Needs["default"] /\ "iloop" \in Needs["userid"]
      /\ "iloop" \in Needs[NhStep(k)] /\ NhidStep(k) \in Needs[NhStep(k)]
  BY DEF Needs, NhNeeds, NhStep, NhidStep
<1>3. /\ "iloop" \in Needs[RouteStep(k)] /\ NhidStep(k) \in Needs[RouteStep(k)]
      /\ NhStep(k) \in Needs[RouteStep(k)] /\ "enable" \in Needs[RouteStep(k)]
      /\ "default" \in Needs[RouteStep(k)] /\ "userid" \in Needs[RouteStep(k)]
  BY DEF Needs, RouteNeeds, NhStep, NhidStep, RouteStep
<1> QED BY <1>1, <1>2, <1>3

(* The same behind a step.                                                 *)
NeedsMet ==
    \A p \in Ports, k \in Kinds :
        /\ "enable" \in HaveOf(p) => "iloop" \in HaveOf(p)
        /\ "default" \in HaveOf(p) => "iloop" \in HaveOf(p)
        /\ "userid" \in HaveOf(p) => "iloop" \in HaveOf(p)
        /\ NhStep(k) \in HaveOf(p) => "iloop" \in HaveOf(p) /\ NhidStep(k) \in HaveOf(p)
        /\ RouteStep(k) \in HaveOf(p) => NhidStep(k) \in HaveOf(p)

LEMMA HaveNeedsNext == OpInv' => NeedsMet'
<1>1. OpInv => NeedsMet
  BY HaveNeeds DEF NeedsMet
<1> QED BY <1>1, PTL

----------------------------------------------------------------------------
(* One step of an unwinding or of a delete gives back one thing, which     *)
(* nothing the port still has needs.                                       *)
LEMMA UndoProps ==
    ASSUME tunnel \in [Ports -> Infos \cup {Null}], OpInv, NEW x, Undoing(x), Done,
           NEW q, q = op.port,
           tunnel' = IF x = "port" THEN [tunnel EXCEPT ![op.port] = Null] ELSE tunnel
    PROVE  /\ OpInv' /\ tunnel' \in [Ports -> Infos \cup {Null}]
           /\ q \in Ports /\ op.info \in Infos /\ x \in Steps
           /\ x \in HaveOf(q) /\ InfoOf(q) = op.info
           /\ \A p \in Ports : HaveOf(p)' = IF p = q THEN HaveOf(p) \ {x} ELSE HaveOf(p)
           /\ \A p \in Active' : p \in Active /\ InfoOf(p)' = InfoOf(p)
           /\ \A y \in HaveOf(q)' : x \notin Needs[y]
<1> DEFINE s == op.todo
<1>1. /\ op.pc = "undo" /\ s # <<>> /\ GoodTodo(s) /\ s \in Seq(Steps) /\ Len(s) \in Nat
      /\ q \in Ports /\ op.info \in Infos /\ x = s[1] /\ Len(s) >= 1
      /\ tunnel[q] = IF "port" \in Have THEN op.info ELSE Null
      /\ Have = Elems(s)
  <2>1. op.pc = "undo" /\ s # <<>> /\ GoodTodo(s) /\ x = Head(s)
    BY DEF Undoing, OpInv
  <2>2. s \in Seq(Steps)
    BY <2>1 DEF GoodTodo
  <2> QED BY <2>1, <2>2 DEF OpInv, Have
<1>2. x \in Steps /\ x \in Have
  BY <1>1 DEF Elems
<1>3. /\ GoodTodo(SubSeq(s, 2, Len(s)))
      /\ \A y : y \in Elems(SubSeq(s, 2, Len(s))) <=> \E i \in 2 .. Len(s) : s[i] = y
  <2>1. 2 \in 1 .. Len(s) + 1
    BY <1>1
  <2> HIDE DEF s
  <2> QED BY <1>1, <2>1, SuffixGood
<1>4. Tail(s) = SubSeq(s, 2, Len(s)) /\ Tail(s) \in Seq(Steps) /\ (Tail(s) = <<>> <=> Len(s) = 1)
  <2>1. Tail(s) = SubSeq(s, 2, Len(s))
    BY <1>1, TailIsSubSeq
  <2>2. Tail(s) \in Seq(Steps) /\ Len(Tail(s)) = Len(s) - 1
    BY <1>1
  <2>3. Tail(s) = <<>> <=> Len(Tail(s)) = 0
    BY <2>2, EmptySeq
  <2> QED BY <1>1, <2>1, <2>2, <2>3
<1>5. Elems(Tail(s)) = Elems(s) \ {x}
  <2>1. \A y : y \in Elems(s) <=> \E i \in 1 .. Len(s) : s[i] = y
    BY DEF Elems
  <2>2. \A i \in 2 .. Len(s) : i \in 1 .. Len(s) /\ s[i] # x
    <3>1. \A i, j \in 1 .. Len(s) : s[i] = s[j] => i = j
      BY <1>1 DEF GoodTodo
    <3> QED BY <1>1, <3>1
  <2>3. \A i \in 1 .. Len(s) : i \in 2 .. Len(s) \/ s[i] = x
    BY <1>1
  <2> HIDE DEF s
  <2>4. \A y : y \in Elems(Tail(s)) <=> \E i \in 2 .. Len(s) : s[i] = y
    BY <1>3, <1>4
  <2>5. \A y : y \in Elems(Tail(s)) <=> y \in Elems(s) /\ y # x
    BY <2>1, <2>2, <2>3, <2>4
  <2> QED BY <2>5
<1>6. \A y \in Elems(Tail(s)) : x \notin Needs[y]
  <2> SUFFICES ASSUME NEW y \in Elems(Tail(s)), x \in Needs[y] PROVE FALSE
    OBVIOUS
  <2>1. PICK i \in 2 .. Len(s) : s[i] = y
    BY <1>3, <1>4
  <2>2. PICK j \in i + 1 .. Len(s) : s[j] = x
    <3>1. i \in 1 .. Len(s)
      BY <1>1
    <3>2. \A z \in Needs[s[i]] : \E j \in i + 1 .. Len(s) : s[j] = z
      BY <1>1, <3>1 DEF GoodTodo
    <3> QED BY <2>1, <3>2
  <2>3. j \in 1 .. Len(s) /\ 1 \in 1 .. Len(s) /\ j # 1
    BY <1>1, <2>1
  <2> QED BY <1>1, <2>2, <2>3 DEF GoodTodo
<1>7. /\ tunnel' \in [Ports -> Infos \cup {Null}]
      /\ \A p \in Ports : p # q => tunnel'[p] = tunnel[p]
      /\ tunnel'[q] = IF "port" \in Elems(Tail(s)) THEN op.info ELSE Null
  <2>1. CASE x = "port"
    BY <1>1, <1>5, <2>1
  <2>2. CASE x # "port"
    BY <1>1, <1>5, <2>2
  <2> QED BY <2>1, <2>2
<1>8. CASE Len(s) = 1
  <2>1. op' = Idle
    BY <1>8 DEF Done
  <2>2. Elems(Tail(s)) = {}
    BY <1>4, <1>8 DEF Elems
  <2>3. OpInv'
    BY <2>1 DEF OpInv, Idle
  <2>4. op'.port = Null /\ op'.pc = "idle" /\ tunnel'[q] = Null
    BY <1>7, <2>1, <2>2 DEF Idle
  <2>5. \A p \in Ports : HaveOf(p)' = IF p = q THEN HaveOf(p) \ {x} ELSE HaveOf(p)
    <3> SUFFICES ASSUME NEW p \in Ports
                 PROVE  HaveOf(p)' = IF p = q THEN HaveOf(p) \ {x} ELSE HaveOf(p)
      OBVIOUS
    <3>1. CASE p = q
      <4>1. HaveOf(p)' = {}
        BY <2>4, <3>1, NullFacts DEF HaveOf
      <4> QED BY <1>1, <1>5, <2>2, <3>1, <4>1 DEF HaveOf
    <3>2. CASE p # q
      BY <1>7, <2>4, <3>2, NullFacts DEF HaveOf
    <3> QED BY <3>1, <3>2
  <2>6. \A p \in Active' : p \in Active /\ InfoOf(p)' = InfoOf(p)
    BY <1>7, <2>4, NullFacts DEF Active, InfoOf
  <2>7. HaveOf(q)' = {}
    BY <1>1, <2>4, NullFacts DEF HaveOf
  <2> QED BY <1>1, <1>2, <1>7, <2>3, <2>5, <2>6, <2>7 DEF HaveOf, InfoOf
<1>9. CASE Len(s) # 1
  <2>1. op' = [op EXCEPT !.todo = Tail(s)]
    BY <1>9 DEF Done
  <2>2. /\ op' \in [pc : Takes \cup {"idle", "undo"}, port : Ports \cup {Null},
                    info : Infos \cup {Null}, todo : Seq(Steps)]
        /\ op'.pc = "undo" /\ op'.port = q /\ op'.info = op.info /\ op'.todo = Tail(s)
    BY <1>1, <1>4, <2>1 DEF OpInv
  <2>3. Have' = Elems(Tail(s))
    BY <2>2 DEF Have, Elems
  <2>4. OpInv'
    <3>1. op'.todo # <<>> /\ GoodTodo(op'.todo) /\ op'.port \in Ports /\ op'.info \in Infos
      BY <1>1, <1>3, <1>4, <1>9, <2>2
    <3>2. tunnel'[op'.port] = IF "port" \in Have' THEN op'.info ELSE Null
      BY <1>7, <2>2, <2>3
    <3> QED BY <2>2, <3>1, <3>2 DEF OpInv
  <2>5. \A p \in Ports : HaveOf(p)' = IF p = q THEN HaveOf(p) \ {x} ELSE HaveOf(p)
    BY <1>1, <1>5, <1>7, <2>2, <2>3 DEF HaveOf
  <2>6. \A p \in Active' : p \in Active /\ InfoOf(p)' = InfoOf(p)
    BY <1>7, <2>2 DEF Active, InfoOf
  <2>7. HaveOf(q)' = Elems(Tail(s))
    BY <2>2, <2>3 DEF HaveOf
  <2> QED BY <1>1, <1>2, <1>6, <1>7, <2>4, <2>5, <2>6, <2>7 DEF HaveOf, InfoOf
<1> QED BY <1>8, <1>9

(* One step of a create takes one thing, what it needs being there.        *)
LEMMA TakeProps ==
    ASSUME tunnel \in [Ports -> Infos \cup {Null}], OpInv, NEW x \in Takes, op.pc = x,
           NEW q, q = op.port, tunnel' = tunnel,
           op' \in [pc : Takes \cup {"idle", "undo"}, port : Ports \cup {Null},
                    info : Infos \cup {Null}, todo : Seq(Steps)],
           op'.pc \in Takes, Ord[op'.pc] = Ord[x] + 1, op'.port = q, op'.info \in Infos
    PROVE  /\ OpInv' /\ q \in Ports /\ op.info \in Infos /\ InfoOf(q) = op.info
           /\ x \in Steps /\ x \notin HaveOf(q) /\ Needs[x] \subseteq HaveOf(q) /\ tunnel[q] = Null
           /\ \A y \in Steps : y \in HaveOf(q) <=> Ord[y] < Ord[x]
           /\ \A p \in Ports : HaveOf(p)' = IF p = q THEN HaveOf(p) \cup {x} ELSE HaveOf(p)
           /\ \A p \in Ports : InfoOf(p)' = IF p = q THEN op'.info ELSE InfoOf(p)
           /\ Active' = Active
<1>0. x # "idle" /\ x # "undo" /\ op'.pc # "idle" /\ op'.pc # "undo"
  BY DEF Takes
<1>1. /\ q \in Ports /\ op.info \in Infos /\ x \in Steps /\ Ord[x] \in Nat
      /\ tunnel[q] = IF "port" \in Have THEN op.info ELSE Null
      /\ Have = {y \in Steps : Ord[y] < Ord[x]}
  BY <1>0, OrdFacts DEF OpInv, Have
<1>2. Have' = {y \in Steps : Ord[y] < Ord[x] + 1}
  BY <1>0 DEF Have
<1>3. Have' = Have \cup {x}
  <2>1. \A y \in Steps : Ord[y] < Ord[x] + 1 <=> Ord[y] < Ord[x] \/ y = x
    <3> SUFFICES ASSUME NEW y \in Steps PROVE Ord[y] < Ord[x] + 1 <=> Ord[y] < Ord[x] \/ y = x
      OBVIOUS
    <3>1. Ord[y] \in Nat /\ (Ord[y] = Ord[x] => x = y)
      BY <1>1, OrdFacts
    <3> QED BY <1>1, <3>1
  <2> QED BY <1>1, <1>2, <2>1
<1>4. x \notin Have /\ "port" \notin Have /\ "port" \notin Have'
  <2>1. "port" \in Steps /\ op'.pc \in Steps
    BY OrdFacts DEF Steps, Takes
  <2>2. Ord["port"] \in Nat /\ Ord["port"] >= Ord[op'.pc] /\ Ord[op'.pc] \in Nat
    BY <2>1, OrdFacts
  <2> QED BY <1>1, <1>2, <2>2
<1>5. tunnel[q] = Null
  BY <1>1, <1>4
<1>6. OpInv'
  <2>1. tunnel'[op'.port] = IF "port" \in Have' THEN op'.info ELSE Null
    BY <1>4, <1>5
  <2> QED BY <1>0, <1>1, <2>1 DEF OpInv
<1>7. \A p \in Ports : HaveOf(p)' = IF p = q THEN HaveOf(p) \cup {x} ELSE HaveOf(p)
  BY <1>3 DEF HaveOf
<1>8. \A p \in Ports : InfoOf(p)' = IF p = q THEN op'.info ELSE InfoOf(p)
  BY DEF InfoOf
<1>9. Active' = Active
  BY DEF Active
<1>10. HaveOf(q) = Have
  BY DEF HaveOf
<1>11. Needs[x] \subseteq Have
  BY <1>1, OrdFacts
<1> QED BY <1>1, <1>4, <1>5, <1>6, <1>7, <1>8, <1>9, <1>10, <1>11 DEF InfoOf

(* Saving the port is the last thing that is taken.                        *)
LEMMA SaveProps ==
    ASSUME tunnel \in [Ports -> Infos \cup {Null}], OpInv, SavePort, NEW q, q = op.port
    PROVE  /\ OpInv' /\ tunnel' \in [Ports -> Infos \cup {Null}] /\ q \in Ports
           /\ \A p \in Ports : HaveOf(p)' = IF p = q THEN HaveOf(p) \cup {"port"} ELSE HaveOf(p)
           /\ \A p \in Ports : InfoOf(p)' = InfoOf(p)
           /\ Active' = Active
<1>1. /\ op.pc = "port" /\ q \in Ports /\ op.info \in Infos /\ op' = Idle
      /\ tunnel' = [tunnel EXCEPT ![q] = op.info] /\ op.info # Null
  <2>1. op.pc = "port" /\ q \in Ports /\ op.info \in Infos /\ op' = Idle
        /\ tunnel' = [tunnel EXCEPT ![q] = op.info]
    BY DEF SavePort, At, OpInv
  <2> QED BY <2>1, InfoAssumption
<1>2. Have = {y \in Steps : Ord[y] < Ord["port"]}
  BY <1>1 DEF Have
<1>3. Have \cup {"port"} = Steps
  <2>1. "port" \in Steps
    BY DEF Steps, Takes
  <2> QED BY <1>2, <2>1, OrdFacts
<1>4. OpInv'
  BY <1>1 DEF OpInv, Idle
<1>5. op'.port = Null /\ Null \notin Ports
  BY <1>1, NullFacts DEF Idle
<1>6. \A p \in Ports : HaveOf(p)' = IF p = q THEN HaveOf(p) \cup {"port"} ELSE HaveOf(p)
  BY <1>1, <1>3, <1>5 DEF HaveOf
<1>7. \A p \in Ports : InfoOf(p)' = InfoOf(p)
  BY <1>1, <1>5 DEF InfoOf
<1>8. Active' = Active
  BY <1>1, <1>5 DEF Active
<1> QED BY <1>1, <1>4, <1>6, <1>7, <1>8

(* A create begins with the addresses.                                     *)
LEMMA CreateProps ==
    ASSUME tunnel \in [Ports -> Infos \cup {Null}], OpInv, NEW q \in Ports, NEW l \in Locals,
           NEW r \in Remotes, NEW b \in BindPorts, CreatePort(q, l, r, b)
    PROVE  /\ OpInv' /\ HaveOf(q) = {} /\ HaveOf(q)' = {"unbind"} /\ q \notin Active
           /\ \A p \in Ports : p # q => HaveOf(p)' = HaveOf(p) /\ InfoOf(p)' = InfoOf(p)
           /\ Active' = Active \cup {q}
           /\ InfoOf(q)' = [local |-> l, remote |-> r, bind |-> b, iloop |-> Null,
                            nh |-> [k \in Kinds |-> Null]]
           /\ InfoOf(q)' \in Infos
<1> DEFINE i == [local |-> l, remote |-> r, bind |-> b, iloop |-> Null,
                 nh |-> [k \in Kinds |-> Null]]
<1>1. /\ op = Idle /\ tunnel[q] = Null /\ tunnel' = tunnel
      /\ op' = [pc |-> "iloop", port |-> q, todo |-> <<>>, info |-> i]
  BY DEF CreatePort
<1>2. i \in Infos
  BY DEF Infos
<1> HIDE DEF i
<1>3. /\ op' \in [pc : Takes \cup {"idle", "undo"}, port : Ports \cup {Null},
                  info : Infos \cup {Null}, todo : Seq(Steps)]
      /\ op'.pc = "iloop" /\ op'.port = q /\ op'.info = i
  BY <1>1, <1>2 DEF Takes
<1>4. Have' = {"unbind"}
  <2>1. Have' = {x \in Steps : Ord[x] < Ord["iloop"]}
    BY <1>3 DEF Have
  <2>2. \A x \in Steps : Ord[x] < Ord["iloop"] <=> x = "unbind"
    BY DEF Steps, Takes, Ord
  <2> QED BY <2>1, <2>2, OrdFacts
<1>5. OpInv'
  <2>1. tunnel'[op'.port] = IF "port" \in Have' THEN op'.info ELSE Null
    BY <1>1, <1>3, <1>4
  <2> QED BY <1>2, <1>3, <2>1 DEF OpInv
<1>6. op.port = Null /\ Null \notin Ports
  BY <1>1, NullFacts DEF Idle
<1>7. HaveOf(q) = {} /\ HaveOf(q)' = {"unbind"} /\ q \notin Active
  BY <1>1, <1>3, <1>4, <1>6 DEF HaveOf, Active
<1>8. \A p \in Ports : p # q => HaveOf(p)' = HaveOf(p) /\ InfoOf(p)' = InfoOf(p)
  BY <1>1, <1>3, <1>6 DEF HaveOf, InfoOf
<1>9. Active' = Active \cup {q}
  BY <1>1, <1>3, <1>6 DEF Active
<1>10. InfoOf(q)' = i
  BY <1>3 DEF InfoOf
<1> QED BY <1>2, <1>5, <1>7, <1>8, <1>9, <1>10 DEF i

(* A delete begins with everything, a failed create with what it has.      *)
LEMMA DeleteProps ==
    ASSUME tunnel \in [Ports -> Infos \cup {Null}], OpInv, NEW q \in Ports, DeletePort(q)
    PROVE  /\ OpInv' /\ Active' = Active
           /\ \A p \in Ports : HaveOf(p)' = HaveOf(p) /\ InfoOf(p)' = InfoOf(p)
<1>1. /\ op = Idle /\ tunnel[q] # Null /\ tunnel' = tunnel /\ tunnel[q] \in Infos
      /\ op' = [pc |-> "undo", port |-> q, info |-> tunnel[q], todo |-> DeleteSteps]
  BY DEF DeletePort
<1>2. GoodTodo(DeleteSteps) /\ Elems(DeleteSteps) = Steps /\ DeleteSteps \in Seq(Steps)
  BY DeleteStepsGood DEF GoodTodo
<1>3. /\ op' \in [pc : Takes \cup {"idle", "undo"}, port : Ports \cup {Null},
                  info : Infos \cup {Null}, todo : Seq(Steps)]
      /\ op'.pc = "undo" /\ op'.port = q /\ op'.info = tunnel[q] /\ op'.todo = DeleteSteps
  BY <1>1, <1>2
<1>4. Have' = Steps
  BY <1>2, <1>3 DEF Have, Elems
<1>5. OpInv'
  <2>1. "port" \in Steps /\ DeleteSteps # <<>>
    BY DEF Steps, Takes, DeleteSteps
  <2>2. tunnel'[op'.port] = IF "port" \in Have' THEN op'.info ELSE Null
    BY <1>1, <1>3, <1>4, <2>1
  <2> QED BY <1>1, <1>2, <1>3, <2>1, <2>2 DEF OpInv
<1>6. op.port = Null /\ Null \notin Ports
  BY <1>1, NullFacts DEF Idle
<1>7. \A p \in Ports : HaveOf(p)' = HaveOf(p) /\ InfoOf(p)' = InfoOf(p)
  BY <1>1, <1>3, <1>4, <1>6 DEF HaveOf, InfoOf
<1>8. Active' = Active
  BY <1>1, <1>3, <1>6 DEF Active
<1> QED BY <1>5, <1>7, <1>8

(* A list with one step more in front.                                     *)
LEMMA PrependGood ==
    ASSUME NEW s, GoodTodo(s), NEW x \in Steps, x \notin Elems(s), Needs[x] \subseteq Elems(s)
    PROVE  GoodTodo(<<x>> \o s) /\ Elems(<<x>> \o s) = Elems(s) \cup {x} /\ <<x>> \o s # <<>>
<1> DEFINE r == <<x>> \o s
<1>1. s \in Seq(Steps) /\ Len(s) \in Nat
  BY DEF GoodTodo
<1>2. /\ r \in Seq(Steps) /\ Len(r) = Len(s) + 1 /\ r[1] = x
      /\ \A i \in 2 .. Len(s) + 1 : r[i] = s[i - 1]
  BY <1>1
<1> HIDE DEF r
<1>3. \A i \in 1 .. Len(r) : i = 1 \/ (i \in 2 .. Len(s) + 1 /\ i - 1 \in 1 .. Len(s))
  BY <1>1, <1>2
<1>4. \A i \in 1 .. Len(s) : i + 1 \in 2 .. Len(s) + 1 /\ i + 1 \in 1 .. Len(r) /\ r[i + 1] = s[i]
  BY <1>1, <1>2
<1>5. \A i \in 1 .. Len(s) : s[i] # x
  BY DEF Elems
<1>6. \A i, j \in 1 .. Len(r) : r[i] = r[j] => i = j
  <2> SUFFICES ASSUME NEW i \in 1 .. Len(r), NEW j \in 1 .. Len(r), r[i] = r[j] PROVE i = j
    OBVIOUS
  <2>1. CASE i = 1 \/ j = 1
    BY <1>2, <1>3, <1>5, <2>1
  <2>2. CASE i # 1 /\ j # 1
    <3>1. i - 1 \in 1 .. Len(s) /\ j - 1 \in 1 .. Len(s) /\ s[i - 1] = s[j - 1]
      BY <1>2, <1>3, <2>2
    <3>2. i - 1 = j - 1
      BY <3>1 DEF GoodTodo
    <3> QED BY <1>1, <1>2, <3>2
  <2> QED BY <2>1, <2>2
<1>7. ASSUME NEW i \in 1 .. Len(r), NEW y \in Needs[r[i]]
      PROVE  \E j \in i + 1 .. Len(r) : r[j] = y
  <2>1. CASE i = 1
    <3>1. PICK j \in 1 .. Len(s) : s[j] = y
      BY <1>2, <2>1 DEF Elems
    <3>2. j + 1 \in i + 1 .. Len(r)
      BY <1>1, <1>2, <2>1
    <3> QED BY <1>4, <3>1, <3>2
  <2>2. CASE i # 1
    <3>1. i - 1 \in 1 .. Len(s) /\ r[i] = s[i - 1]
      BY <1>2, <1>3, <2>2
    <3>2. PICK j \in (i - 1) + 1 .. Len(s) : s[j] = y
      BY <3>1 DEF GoodTodo
    <3>3. j \in 1 .. Len(s) /\ j + 1 \in i + 1 .. Len(r)
      BY <1>1, <1>2, <2>2
    <3> QED BY <1>4, <3>2, <3>3
  <2> QED BY <2>1, <2>2
<1>8. Elems(r) = Elems(s) \cup {x}
  <2>1. \A y : y \in Elems(r) <=> \E i \in 1 .. Len(r) : r[i] = y
    BY DEF Elems
  <2>2. \A y : y \in Elems(s) <=> \E i \in 1 .. Len(s) : s[i] = y
    BY DEF Elems
  <2>3. 1 \in 1 .. Len(r)
    BY <1>1, <1>2
  <2>4. \A i \in 1 .. Len(r) : r[i] = x \/ r[i] \in Elems(s)
    BY <1>2, <1>3, <2>2
  <2>5. \A y : y \in Elems(r) <=> y \in Elems(s) \/ y = x
    <3>1. ASSUME NEW y, y \in Elems(r) PROVE y \in Elems(s) \/ y = x
      BY <2>1, <2>4, <3>1
    <3>2. ASSUME NEW y, y \in Elems(s) PROVE y \in Elems(r)
      BY <1>4, <2>1, <2>2, <3>2
    <3>3. x \in Elems(r)
      BY <1>2, <2>1, <2>3
    <3> QED BY <3>1, <3>2, <3>3
  <2> QED BY <2>5
<1>9. r # <<>>
  BY <1>1, <1>2
<1> QED BY <1>2, <1>6, <1>7, <1>8, <1>9 DEF r, GoodTodo

(* The list of each failure is good and holds what has been taken.         *)
Taken(s, n) ==
    /\ GoodTodo(s) /\ s # <<>>
    /\ \A y \in Steps : y \in Elems(s) <=> Ord[y] < n

ErrOrd == <<12, 11, 9, 10, 7, 8, 6, 5, 4, 3, 2, 1, 0>>

LEMMA ErrTaken ==
    ASSUME NEW m \in 1 .. 13, NEW n \in Nat, \A i \in 1 .. 13 : i >= m <=> ErrOrd[i] < n
    PROVE  Taken(SubSeq(ErrSteps, m, 13), n)
<1> DEFINE s == SubSeq(ErrSteps, m, 13)
<1>1. GoodTodo(s) /\ \A y : y \in Elems(s) <=> \E i \in m .. 13 : ErrSteps[i] = y
  <2>1. m \in 1 .. Len(ErrSteps) + 1 /\ Len(ErrSteps) = 13
    BY ErrStepsGood
  <2>2. /\ GoodTodo(SubSeq(ErrSteps, m, Len(ErrSteps)))
        /\ \A y : y \in Elems(SubSeq(ErrSteps, m, Len(ErrSteps))) <=>
                     \E i \in m .. Len(ErrSteps) : ErrSteps[i] = y
    BY <2>1, ErrStepsGood, SuffixGood
  <2> QED BY <2>1, <2>2
<1>2. s # <<>>
  <2>1. ErrSteps \in Seq(Steps) /\ Len(ErrSteps) = 13
    BY ErrStepsGood DEF GoodTodo
  <2>2. Len(s) = 13 - m + 1
    BY <2>1
  <2> HIDE DEF s
  <2>3. Len(s) # 0 /\ s \in Seq(Steps)
    BY <1>1, <2>2 DEF GoodTodo
  <2> QED BY <2>3, EmptySeq
<1> HIDE DEF s
<1>3. \A i \in 1 .. 13 : Ord[ErrSteps[i]] = ErrOrd[i]
  BY DEF Ord, ErrSteps, ErrOrd
<1>4. \A y \in Steps : \E i \in 1 .. 13 : ErrSteps[i] = y
  BY DEF Steps, Takes, ErrSteps
<1>5. \A y \in Steps : y \in Elems(s) <=> Ord[y] < n
  <2> SUFFICES ASSUME NEW y \in Steps PROVE y \in Elems(s) <=> Ord[y] < n
    OBVIOUS
  <2>1. ASSUME y \in Elems(s) PROVE Ord[y] < n
    <3>1. PICK i \in m .. 13 : ErrSteps[i] = y
      BY <1>1, <2>1
    <3>2. i \in 1 .. 13 /\ i >= m
      OBVIOUS
    <3> QED BY <1>3, <3>1, <3>2
  <2>2. ASSUME Ord[y] < n PROVE y \in Elems(s)
    <3>1. PICK i \in 1 .. 13 : ErrSteps[i] = y
      BY <1>4
    <3>2. i >= m
      BY <1>3, <2>2, <3>1
    <3>3. i \in m .. 13
      BY <3>2
    <3> QED BY <1>1, <3>1, <3>3
  <2> QED BY <2>1, <2>2
<1> QED BY <1>1, <1>2, <1>5 DEF Taken, s

LEMMA UndoneProps ==
    ASSUME NEW x \in Takes PROVE Taken(Undone[x], Ord[x])
<1>1. /\ Taken(Err(1), 1) /\ Taken(Err(2), 2) /\ Taken(Err(3), 3) /\ Taken(Err(4), 4)
      /\ Taken(Err(5), 5) /\ Taken(Err(6), 6)
  <2>1. /\ \A i \in 1 .. 13 : i >= 13 <=> ErrOrd[i] < 1
        /\ \A i \in 1 .. 13 : i >= 12 <=> ErrOrd[i] < 2
        /\ \A i \in 1 .. 13 : i >= 11 <=> ErrOrd[i] < 3
        /\ \A i \in 1 .. 13 : i >= 10 <=> ErrOrd[i] < 4
        /\ \A i \in 1 .. 13 : i >= 9 <=> ErrOrd[i] < 5
        /\ \A i \in 1 .. 13 : i >= 8 <=> ErrOrd[i] < 6
    BY DEF ErrOrd
  <2>2. /\ ErrBegin[1] = 13 /\ ErrBegin[2] = 12 /\ ErrBegin[3] = 11 /\ ErrBegin[4] = 10
        /\ ErrBegin[5] = 9 /\ ErrBegin[6] = 8
    BY DEF ErrBegin
  <2> QED BY <2>1, <2>2, ErrTaken DEF Err
<1>2. /\ Taken(Err(7), 7) /\ Taken(Err(8), 9) /\ Taken(Err(9), 11) /\ Taken(Err(10), 12)
  <2>1. /\ \A i \in 1 .. 13 : i >= 7 <=> ErrOrd[i] < 7
        /\ \A i \in 1 .. 13 : i >= 5 <=> ErrOrd[i] < 9
        /\ \A i \in 1 .. 13 : i >= 3 <=> ErrOrd[i] < 11
        /\ \A i \in 1 .. 13 : i >= 2 <=> ErrOrd[i] < 12
    BY DEF ErrOrd
  <2>2. ErrBegin[7] = 7 /\ ErrBegin[8] = 5 /\ ErrBegin[9] = 3 /\ ErrBegin[10] = 2
    BY DEF ErrBegin
  <2> QED BY <2>1, <2>2, ErrTaken DEF Err
<1>3. ASSUME NEW y \in Steps, NEW s, Taken(s, Ord[y]) PROVE Taken(<<y>> \o s, Ord[y] + 1)
  <2>1. Ord[y] \in Nat /\ y \notin Elems(s) /\ Needs[y] \subseteq Elems(s)
    BY <1>3, OrdFacts DEF Taken
  <2>2. GoodTodo(<<y>> \o s) /\ Elems(<<y>> \o s) = Elems(s) \cup {y} /\ <<y>> \o s # <<>>
    BY <1>3, <2>1, PrependGood DEF Taken
  <2>3. ASSUME NEW z \in Steps PROVE z \in Elems(<<y>> \o s) <=> Ord[z] < Ord[y] + 1
    <3>1. Ord[z] \in Nat /\ (Ord[z] = Ord[y] => z = y) /\ (z \in Elems(s) <=> Ord[z] < Ord[y])
      BY <1>3, OrdFacts DEF Taken
    <3> QED BY <2>1, <2>2, <3>1
  <2> QED BY <2>2, <2>3 DEF Taken
<1>4. Taken(<<"nh_wok">> \o Err(7), 8) /\ Taken(<<"route_wok">> \o Err(8), 10)
  <2>1. Ord["nh_wok"] = 7 /\ Ord["route_wok"] = 9 /\ "nh_wok" \in Steps /\ "route_wok" \in Steps
    BY DEF Ord, Steps, Takes
  <2> QED BY <1>2, <1>3, <2>1
<1>5. /\ Undone["iloop"] = Err(1) /\ Undone["enable"] = Err(2) /\ Undone["default"] = Err(3)
      /\ Undone["userid"] = Err(4) /\ Undone["nhid_wok"] = Err(5) /\ Undone["nhid_wk"] = Err(6)
      /\ Undone["nh_wok"] = Err(7) /\ Undone["nh_wk"] = <<"nh_wok">> \o Err(7)
      /\ Undone["route_wok"] = Err(8) /\ Undone["route_wk"] = <<"route_wok">> \o Err(8)
      /\ Undone["bind"] = Err(9) /\ Undone["port"] = Err(10)
  BY DEF Undone
<1>6. /\ Ord["iloop"] = 1 /\ Ord["enable"] = 2 /\ Ord["default"] = 3 /\ Ord["userid"] = 4
      /\ Ord["nhid_wok"] = 5 /\ Ord["nhid_wk"] = 6 /\ Ord["nh_wok"] = 7 /\ Ord["nh_wk"] = 8
      /\ Ord["route_wok"] = 9 /\ Ord["route_wk"] = 10 /\ Ord["bind"] = 11 /\ Ord["port"] = 12
  BY DEF Ord
<1> QED BY <1>1, <1>2, <1>4, <1>5, <1>6 DEF Takes

LEMMA FailProps ==
    ASSUME tunnel \in [Ports -> Infos \cup {Null}], OpInv, CreateFails
    PROVE  /\ OpInv' /\ Active' = Active
           /\ \A p \in Ports : HaveOf(p)' = HaveOf(p) /\ InfoOf(p)' = InfoOf(p)
<1> DEFINE x == op.pc
           s == Undone[x]
<1>1. /\ x \in Takes /\ op' = [op EXCEPT !.pc = "undo", !.todo = s] /\ tunnel' = tunnel
      /\ x # "idle" /\ x # "undo"
  BY DEF CreateFails, Fail, Takes
<1>2. /\ op.port \in Ports /\ op.info \in Infos
      /\ tunnel[op.port] = IF "port" \in Have THEN op.info ELSE Null
      /\ Have = {y \in Steps : Ord[y] < Ord[x]}
  BY <1>1 DEF OpInv, Have
<1>3. Taken(s, Ord[x])
  <2> HIDE DEF x
  <2> QED BY <1>1, UndoneProps
<1> HIDE DEF s
<1>4. s \in Seq(Steps) /\ s # <<>> /\ GoodTodo(s) /\ Elems(s) = Have
  <2>1. s \in Seq(Steps) /\ s # <<>> /\ GoodTodo(s)
    BY <1>3 DEF Taken, GoodTodo
  <2>2. Elems(s) \subseteq Steps
    BY <2>1 DEF Elems
  <2>3. \A y \in Steps : y \in Elems(s) <=> y \in Have
    BY <1>2, <1>3 DEF Taken
  <2>4. Have \subseteq Steps
    BY <1>2
  <2> QED BY <2>1, <2>2, <2>3, <2>4
<1>5. /\ op' \in [pc : Takes \cup {"idle", "undo"}, port : Ports \cup {Null},
                  info : Infos \cup {Null}, todo : Seq(Steps)]
      /\ op'.pc = "undo" /\ op'.port = op.port /\ op'.info = op.info /\ op'.todo = s
  BY <1>1, <1>4 DEF OpInv
<1>6. Have' = Have
  BY ZenonT(40), <1>4, <1>5 DEF Have, Elems
<1>7. OpInv'
  <2>1. tunnel'[op'.port] = IF "port" \in Have' THEN op'.info ELSE Null
    BY <1>1, <1>2, <1>5, <1>6
  <2>2. op'.todo # <<>> /\ GoodTodo(op'.todo) /\ op'.port \in Ports /\ op'.info \in Infos
    BY <1>2, <1>4, <1>5
  <2> QED BY <1>5, <2>1, <2>2 DEF OpInv
<1>8. \A p \in Ports : HaveOf(p)' = HaveOf(p) /\ InfoOf(p)' = InfoOf(p)
  BY <1>1, <1>5, <1>6 DEF HaveOf, InfoOf
<1>9. Active' = Active
  BY <1>1, <1>5 DEF Active
<1> QED BY <1>7, <1>8, <1>9

----------------------------------------------------------------------------
(* A step that takes or gives back x leaves alone what x is not about.     *)
OthersKept(x) ==
    /\ \A p \in Ports : \A y \in Steps \ {x} : y \in HaveOf(p)' <=> y \in HaveOf(p)
    /\ \A p \in Ports : \A y \in Steps \ {x} : y \in HaveOf(p)' =>
          /\ InfoOf(p)'.local = InfoOf(p).local /\ InfoOf(p)'.remote = InfoOf(p).remote
          /\ InfoOf(p)'.bind = InfoOf(p).bind
    /\ \A p \in Ports : "iloop" \in HaveOf(p) /\ "iloop" \in HaveOf(p)' =>
          InfoOf(p)'.iloop = InfoOf(p).iloop
    /\ \A p \in Ports, k \in Kinds : NhidStep(k) \in HaveOf(p) /\ NhidStep(k) \in HaveOf(p)' =>
          InfoOf(p)'.nh[k] = InfoOf(p).nh[k]

LEMMA StepNames ==
    /\ {"unbind", "iloop", "enable", "default", "userid", "bind"} \subseteq Steps
    /\ \A k \in Kinds : NhidStep(k) \in Steps /\ NhStep(k) \in Steps /\ RouteStep(k) \in Steps
  BY DEF Steps, Takes, NhidStep, NhStep, RouteStep

LEMMA FrameDb ==
    ASSUME OpInv, OpInv', NEW x \in Steps, OthersKept(x)
    PROVE  /\ x # "unbind" /\ PairInv /\ db'.pair = db.pair => PairInv'
           /\ x # "unbind" /\ LocalInv /\ db'.local = db.local => LocalInv'
           /\ x # "bind" /\ BindInv /\ db'.bind = db.bind /\ chip'.l3 = chip.l3 => BindInv'
<1> USE StepNames
<1>1. ASSUME x # "unbind", PairInv, db'.pair = db.pair PROVE PairInv'
  <2>1. \A p \in Ports : /\ "unbind" \in HaveOf(p)' <=> "unbind" \in HaveOf(p)
                         /\ "unbind" \in HaveOf(p)' => PairOf(p)' = PairOf(p)
    BY <1>1 DEF OthersKept, PairOf
  <2> QED BY <1>1, <2>1 DEF PairInv
<1>2. ASSUME x # "unbind", LocalInv, db'.local = db.local PROVE LocalInv'
  <2>1. \A l \in Locals : LocalUsers(l)' = LocalUsers(l)
    BY <1>2 DEF OthersKept, LocalUsers
  <2> QED BY <1>2, <2>1 DEF LocalInv
<1>3. ASSUME x # "bind", BindInv, db'.bind = db.bind, chip'.l3 = chip.l3 PROVE BindInv'
  <2>1. \A b \in BindPorts : BindUsers(b)' = BindUsers(b)
    BY <1>3 DEF OthersKept, BindUsers
  <2> QED BY <1>3, <2>1 DEF BindInv
<1> QED BY <1>1, <1>2, <1>3

LEMMA FramePool ==
    ASSUME OpInv, OpInv', NEW x \in Steps, OthersKept(x)
    PROVE  /\ x # "iloop" /\ LoopInv /\ pool'.iloop = pool.iloop => LoopInv'
           /\ (/\ \A k \in Kinds : x # NhidStep(k)
               /\ NhidInv /\ pool'.nh = pool.nh /\ pool'.flow = pool.flow) => NhidInv'
<1> USE StepNames
<1>1. ASSUME x # "iloop", LoopInv, pool'.iloop = pool.iloop PROVE LoopInv'
  <2>1. \A p \in Ports : /\ "iloop" \in HaveOf(p)' <=> "iloop" \in HaveOf(p)
                         /\ "iloop" \in HaveOf(p)' => InfoOf(p)'.iloop = InfoOf(p).iloop
    BY <1>1 DEF OthersKept
  <2> QED BY <1>1, <2>1 DEF LoopInv
<1>2. ASSUME \A k \in Kinds : x # NhidStep(k), NhidInv, pool'.nh = pool.nh, pool'.flow = pool.flow
      PROVE  NhidInv'
  <2>1. \A p \in Ports, k \in Kinds, n \in NhIds : HasNhid(p, k, n)' <=> HasNhid(p, k, n)
    BY <1>2 DEF OthersKept, HasNhid
  <2>2. \A p \in Ports, k \in Kinds : \A n : HasNhid(p, k, n)' <=> HasNhid(p, k, n)
    BY <1>2 DEF OthersKept, HasNhid
  <2> QED BY <1>2, <2>2 DEF NhidInv
<1> QED BY <1>1, <1>2

LEMMA FrameChip ==
    ASSUME OpInv, OpInv', NEW x \in Steps, OthersKept(x)
    PROVE  /\ x # "enable" /\ OnInv /\ chip.on \subseteq chip'.on => OnInv'
           /\ x # "default" /\ DefaultInv /\ chip'.dflt = chip.dflt => DefaultInv'
           /\ x # "userid" /\ UserIdInv /\ chip'.userid = chip.userid => UserIdInv'
           /\ (\A k \in Kinds : x # NhStep(k)) /\ NhInv /\ chip'.nh = chip.nh => NhInv'
           /\ (\A k \in Kinds : x # RouteStep(k)) /\ RouteInv /\ chip'.route = chip.route => RouteInv'
<1> USE StepNames
<1>0. \A p \in Ports, k \in Kinds :
         /\ "enable" \in HaveOf(p) => "iloop" \in HaveOf(p)
         /\ "default" \in HaveOf(p) => "iloop" \in HaveOf(p)
         /\ "userid" \in HaveOf(p) => "iloop" \in HaveOf(p)
         /\ NhStep(k) \in HaveOf(p) => "iloop" \in HaveOf(p) /\ NhidStep(k) \in HaveOf(p)
         /\ RouteStep(k) \in HaveOf(p) => NhidStep(k) \in HaveOf(p)
  BY HaveNeeds
<1>1. \A p \in Ports, k \in Kinds :
         /\ "enable" \in HaveOf(p)' => "iloop" \in HaveOf(p)'
         /\ "default" \in HaveOf(p)' => "iloop" \in HaveOf(p)'
         /\ "userid" \in HaveOf(p)' => "iloop" \in HaveOf(p)'
         /\ NhStep(k) \in HaveOf(p)' => "iloop" \in HaveOf(p)' /\ NhidStep(k) \in HaveOf(p)'
         /\ RouteStep(k) \in HaveOf(p)' => NhidStep(k) \in HaveOf(p)'
  BY HaveNeedsNext DEF NeedsMet
<1>2. "iloop" \in Steps /\ "wok" \in Kinds
  BY DEF Kinds
<1>3. ASSUME x # "enable", OnInv, chip.on \subseteq chip'.on PROVE OnInv'
  BY <1>0, <1>1, <1>2, <1>3 DEF OthersKept, OnInv
<1>4. ASSUME x # "default", DefaultInv, chip'.dflt = chip.dflt PROVE DefaultInv'
  BY <1>0, <1>1, <1>2, <1>4 DEF OthersKept, DefaultInv
<1>5. ASSUME x # "userid", UserIdInv, chip'.userid = chip.userid PROVE UserIdInv'
  <2>1. \A p \in Ports : /\ "userid" \in HaveOf(p)' <=> "userid" \in HaveOf(p)
                         /\ "userid" \in HaveOf(p)' => InfoOf(p)'.iloop = InfoOf(p).iloop
    BY <1>0, <1>1, <1>2, <1>5 DEF OthersKept
  <2> QED BY <1>5, <2>1 DEF UserIdInv
<1>6. ASSUME \A k \in Kinds : x # NhStep(k), NhInv, chip'.nh = chip.nh PROVE NhInv'
  <2>1. \A p \in Ports, k \in Kinds : NhStep(k) \in HaveOf(p)' <=> NhStep(k) \in HaveOf(p)
    BY <1>6 DEF OthersKept
  <2>2. \A p \in Ports, k \in Kinds : NhStep(k) \in HaveOf(p)' =>
           InfoOf(p)'.nh[k] = InfoOf(p).nh[k] /\ InfoOf(p)'.iloop = InfoOf(p).iloop
    BY <1>0, <1>1, <2>1 DEF OthersKept
  <2>3. \A p \in Ports, k \in Kinds, n \in NhIds : HasNh(p, k, n)' <=> HasNh(p, k, n)
    BY <2>1, <2>2 DEF HasNh
  <2>4. \A p \in Ports, k \in Kinds, n \in NhIds :
           HasNh(p, k, n)' => InfoOf(p)'.iloop = InfoOf(p).iloop
    BY <2>2 DEF HasNh
  <2> QED BY <1>6, <2>3, <2>4 DEF NhInv
<1>7. ASSUME \A k \in Kinds : x # RouteStep(k), RouteInv, chip'.route = chip.route PROVE RouteInv'
  <2>1. \A p \in Ports, k \in Kinds : RouteStep(k) \in HaveOf(p)' <=> RouteStep(k) \in HaveOf(p)
    BY <1>7 DEF OthersKept
  <2>2. \A p \in Ports, k \in Kinds : RouteStep(k) \in HaveOf(p)' =>
           InfoOf(p)'.nh[k] = InfoOf(p).nh[k] /\ PairOf(p)' = PairOf(p)
    BY <1>0, <1>1, <1>7, <2>1 DEF OthersKept, PairOf
  <2>3. \A p \in Ports, k \in Kinds, q \in Pairs : HasRoute(p, k, q)' <=> HasRoute(p, k, q)
    BY <2>1, <2>2 DEF HasRoute
  <2>4. \A p \in Ports, k \in Kinds, q \in Pairs :
           HasRoute(p, k, q)' => InfoOf(p)'.nh[k] = InfoOf(p).nh[k]
    BY <2>2 DEF HasRoute
  <2> QED BY <1>7, <2>3, <2>4 DEF RouteInv
<1> QED BY <1>3, <1>4, <1>5, <1>6, <1>7

----------------------------------------------------------------------------
(* At the start nothing is taken and nobody has anything.                  *)
LEMMA InitInv == Init => IInv
<1> SUFFICES ASSUME Init PROVE IInv
  OBVIOUS
<1>1. /\ tunnel = [p \in Ports |-> Null] /\ op = Idle
      /\ op.pc = "idle" /\ op.port = Null /\ op.info = Null /\ op.todo = <<>>
  BY DEF Init, Idle
<1>2. Have = {} /\ \A p \in Ports : HaveOf(p) = {}
  BY <1>1, NullFacts DEF Have, HaveOf
<1>3. Active = {}
  BY <1>1, NullFacts DEF Active
<1>4. RecInv
  BY DEF RecInv, Init, Pairs
<1>5. OpInv
  <2>1. <<>> \in Seq(Steps)
    OBVIOUS
  <2> QED BY <1>1, <2>1 DEF OpInv, Idle
<1>6. InfoInv /\ DistinctInv
  BY <1>3 DEF InfoInv, DistinctInv
<1>7. PairInv /\ LoopInv /\ NhidInv /\ OnInv /\ UserIdInv
  BY <1>2 DEF PairInv, LoopInv, NhidInv, OnInv, UserIdInv, HasNhid, Init
<1>8. LocalInv /\ BindInv
  <2>1. \A l : LocalUsers(l) = {} /\ BindUsers(l) = {}
    BY <1>2 DEF LocalUsers, BindUsers
  <2> QED BY <2>1, FS_EmptySet DEF LocalInv, BindInv, Init
<1>9. DefaultInv
  BY <1>2, NullFacts DEF DefaultInv, Init
<1>10. NhInv /\ RouteInv
  BY <1>2 DEF NhInv, RouteInv, HasNh, HasRoute, Init
<1> QED BY <1>1, <1>4, <1>5, <1>6, <1>7, <1>8, <1>9, <1>10 DEF IInv

----------------------------------------------------------------------------
(* What a step does that gives back x for port q, and one that takes it.   *)
Gives(x, q) ==
    /\ q \in Ports /\ x \in Steps /\ x \in HaveOf(q) /\ q \in Active
    /\ \A p \in Ports : HaveOf(p)' = IF p = q THEN HaveOf(p) \ {x} ELSE HaveOf(p)
    /\ \A p \in Active' : p \in Active /\ InfoOf(p)' = InfoOf(p)
    /\ \A y \in HaveOf(q)' : x \notin Needs[y]

Obtains(x, q) ==
    /\ q \in Ports /\ x \in Steps /\ x \notin HaveOf(q) /\ q \in Active
    /\ Needs[x] \subseteq HaveOf(q)
    /\ \A p \in Ports : HaveOf(p)' = IF p = q THEN HaveOf(p) \cup {x} ELSE HaveOf(p)
    /\ \A p \in Ports : p # q => InfoOf(p)' = InfoOf(p)
    /\ Active' = Active
    /\ InfoOf(q) \in Infos /\ InfoOf(q)' \in Infos

(* The step writes down nothing, or only the internal port, or one id.     *)
SameInfo(q) == InfoOf(q)' = InfoOf(q)

(* A port that has something is active, behind a step as well.             *)
LEMMA ActiveNext == OpInv' => \A p \in Ports : HaveOf(p)' # {} => p \in Active'
<1> DEFINE A == \A p \in Ports : HaveOf(p) # {} => p \in Active
<1>1. OpInv => A
  BY HaveClosed
<1>2. OpInv' => A'
  BY <1>1, PTL
<1> QED BY <1>2

LEMMA GivesKept ==
    ASSUME OpInv', NEW x, NEW q, Gives(x, q)
    PROVE  OthersKept(x)
<1>1. \A p \in Ports : HaveOf(p)' # {} => InfoOf(p)' = InfoOf(p)
  BY ActiveNext DEF Gives
<1>2. \A p \in Ports : \A y \in Steps \ {x} : y \in HaveOf(p)' <=> y \in HaveOf(p)
  BY DEF Gives
<1>3. \A p \in Ports : \A y : y \in HaveOf(p)' => InfoOf(p)' = InfoOf(p)
  BY <1>1
<1> QED BY <1>2, <1>3 DEF OthersKept

LEMMA ObtainsKept ==
    ASSUME NEW x, NEW q, Obtains(x, q), SameInfo(q)
    PROVE  OthersKept(x)
<1>1. \A p \in Ports : \A y \in Steps \ {x} : y \in HaveOf(p)' <=> y \in HaveOf(p)
  BY DEF Obtains
<1>2. \A p \in Ports : InfoOf(p)' = InfoOf(p)
  BY DEF Obtains, SameInfo
<1> QED BY <1>1, <1>2 DEF OthersKept

LEMMA GivesInfo ==
    ASSUME OpInv, NEW x, NEW q, Gives(x, q), InfoInv, DistinctInv
    PROVE  InfoInv' /\ DistinctInv'
<1>0. Active' \subseteq Ports
  BY DEF Active
<1>1. \A p \in Active' : p \in Active /\ InfoOf(p)' = InfoOf(p) /\ HaveOf(p)' \subseteq HaveOf(p)
  BY <1>0 DEF Gives
<1>2. InfoInv'
  BY <1>1 DEF InfoInv
<1>3. DistinctInv'
  <2>1. \A p \in Active' : PairOf(p)' = PairOf(p)
    BY <1>1 DEF PairOf
  <2> QED BY <1>1, <2>1 DEF DistinctInv
<1> QED BY <1>2, <1>3

LEMMA ObtainsInfo ==
    ASSUME OpInv, NEW x, NEW q, Obtains(x, q), SameInfo(q), InfoInv, DistinctInv,
           x # "iloop", \A k \in Kinds : x # NhidStep(k)
    PROVE  InfoInv' /\ DistinctInv'
<1>0. Active \subseteq Ports
  BY DEF Active
<1>1. \A p \in Active : p \in Ports /\ InfoOf(p)' = InfoOf(p) /\ PairOf(p)' = PairOf(p)
  BY <1>0 DEF Obtains, SameInfo, PairOf
<1>2. \A p \in Active : /\ "iloop" \in HaveOf(p)' => "iloop" \in HaveOf(p)
                        /\ \A k \in Kinds : NhidStep(k) \in HaveOf(p)' => NhidStep(k) \in HaveOf(p)
  BY <1>0 DEF Obtains
<1>3. Active' = Active
  BY DEF Obtains
<1>4. InfoInv'
  BY <1>1, <1>2, <1>3 DEF InfoInv
<1>5. DistinctInv'
  BY <1>1, <1>3 DEF DistinctInv
<1> QED BY <1>4, <1>5

(* A step of an unwinding or of a delete gives back what it is called for. *)
LEMMA UndoGives ==
    ASSUME tunnel \in [Ports -> Infos \cup {Null}], OpInv, NEW x, Undoing(x), Done,
           NEW q, q = op.port,
           tunnel' = IF x = "port" THEN [tunnel EXCEPT ![op.port] = Null] ELSE tunnel
    PROVE  /\ OpInv' /\ tunnel' \in [Ports -> Infos \cup {Null}]
           /\ Gives(x, q) /\ InfoOf(q) = op.info /\ op.info \in Infos /\ OthersKept(x)
<1>1. /\ OpInv' /\ tunnel' \in [Ports -> Infos \cup {Null}]
      /\ q \in Ports /\ op.info \in Infos /\ x \in Steps
      /\ x \in HaveOf(q) /\ InfoOf(q) = op.info
      /\ \A p \in Ports : HaveOf(p)' = IF p = q THEN HaveOf(p) \ {x} ELSE HaveOf(p)
      /\ \A p \in Active' : p \in Active /\ InfoOf(p)' = InfoOf(p)
      /\ \A y \in HaveOf(q)' : x \notin Needs[y]
  BY UndoProps
<1>2. q \in Active
  BY <1>1 DEF Active
<1>3. Gives(x, q)
  BY <1>1, <1>2 DEF Gives
<1> QED BY <1>1, <1>3, GivesKept

(* A step of a create that goes well obtains what it is called for.        *)
LEMMA TakeObtains ==
    ASSUME tunnel \in [Ports -> Infos \cup {Null}], OpInv, NEW x \in Takes, op.pc = x,
           NEW q, q = op.port, tunnel' = tunnel,
           op' \in [pc : Takes \cup {"idle", "undo"}, port : Ports \cup {Null},
                    info : Infos \cup {Null}, todo : Seq(Steps)],
           op'.pc \in Takes, Ord[op'.pc] = Ord[x] + 1, op'.port = q, op'.info \in Infos
    PROVE  /\ OpInv' /\ Obtains(x, q) /\ InfoOf(q) = op.info /\ InfoOf(q)' = op'.info
           /\ \A y \in Steps : y \in HaveOf(q) <=> Ord[y] < Ord[x]
<1>1. /\ OpInv' /\ q \in Ports /\ op.info \in Infos /\ InfoOf(q) = op.info
      /\ x \in Steps /\ x \notin HaveOf(q) /\ Needs[x] \subseteq HaveOf(q) /\ tunnel[q] = Null
      /\ \A y \in Steps : y \in HaveOf(q) <=> Ord[y] < Ord[x]
      /\ \A p \in Ports : HaveOf(p)' = IF p = q THEN HaveOf(p) \cup {x} ELSE HaveOf(p)
      /\ \A p \in Ports : InfoOf(p)' = IF p = q THEN op'.info ELSE InfoOf(p)
      /\ Active' = Active
  BY TakeProps
<1>2. q \in Active
  BY <1>1 DEF Active
<1>3. InfoOf(q)' = op'.info
  BY <1>1
<1>4. Obtains(x, q)
  BY <1>1, <1>2, <1>3 DEF Obtains
<1> QED BY <1>1, <1>3, <1>4

(* The usual case: only the program counter moves on.                      *)
LEMMA GotoObtains ==
    ASSUME tunnel \in [Ports -> Infos \cup {Null}], OpInv, NEW x \in Takes, NEW y \in Takes,
           At(x), Goto(y), Ord[y] = Ord[x] + 1, NEW q, q = op.port, tunnel' = tunnel
    PROVE  /\ OpInv' /\ Obtains(x, q) /\ SameInfo(q) /\ InfoOf(q) = op.info /\ op.info \in Infos
           /\ OthersKept(x)
<1>1. /\ op.pc = x /\ x # "idle" /\ op' = [op EXCEPT !.pc = y]
      /\ op \in [pc : Takes \cup {"idle", "undo"}, port : Ports \cup {Null},
                 info : Infos \cup {Null}, todo : Seq(Steps)]
      /\ op.info \in Infos
  BY DEF At, Goto, OpInv, Takes
<1>2. /\ op'.pc = y /\ op'.port = q /\ op'.info = op.info
      /\ op' \in [pc : Takes \cup {"idle", "undo"}, port : Ports \cup {Null},
                  info : Infos \cup {Null}, todo : Seq(Steps)]
  BY <1>1
<1>3. OpInv' /\ Obtains(x, q) /\ InfoOf(q) = op.info /\ InfoOf(q)' = op'.info
  <2>1. op'.pc \in Takes /\ Ord[op'.pc] = Ord[x] + 1 /\ op'.info \in Infos
    BY <1>1, <1>2
  <2> QED BY <1>1, <1>2, <2>1, TakeObtains
<1>4. SameInfo(q)
  BY <1>2, <1>3 DEF SameInfo
<1> QED BY <1>1, <1>3, <1>4, ObtainsKept

----------------------------------------------------------------------------
(* The addresses and their references.                                     *)
LEMMA UsersFinite ==
    ASSUME NEW l
    PROVE  /\ IsFiniteSet(LocalUsers(l)) /\ Cardinality(LocalUsers(l)) \in Nat
           /\ IsFiniteSet(BindUsers(l)) /\ Cardinality(BindUsers(l)) \in Nat
<1>1. LocalUsers(l) \subseteq Ports /\ BindUsers(l) \subseteq Ports
  BY DEF LocalUsers, BindUsers
<1> QED BY <1>1, NullFacts, FS_Subset, FS_CardinalityType

(* The reference count of x follows a user set that gains or loses q.      *)
LEMMA RefUp ==
    ASSUME NEW D, NEW ref \in [D -> Nat], NEW x \in D, NEW q, NEW S, NEW T, IsFiniteSet(S),
           q \notin S, T = S \cup {q}, ref[x] = Cardinality(S)
    PROVE  /\ AddRef(ref, x) \in [D -> Nat] /\ AddRef(ref, x)[x] = Cardinality(T)
           /\ \A y \in D : y # x => AddRef(ref, x)[y] = ref[y]
<1>1. Cardinality(T) = Cardinality(S) + 1 /\ Cardinality(S) \in Nat
  BY FS_AddElement, FS_CardinalityType
<1> QED BY <1>1 DEF AddRef

LEMMA RefDown ==
    ASSUME NEW D, NEW ref \in [D -> Nat], NEW x \in D, NEW q, NEW S, NEW T, IsFiniteSet(S),
           q \in S, T = S \ {q}, ref[x] = Cardinality(S)
    PROVE  /\ DelRef(ref, x) \in [D -> Nat] /\ DelRef(ref, x)[x] = Cardinality(T)
           /\ \A y \in D : y # x => DelRef(ref, x)[y] = ref[y]
<1>1. Cardinality(T) = Cardinality(S) - 1 /\ Cardinality(S) \in Nat
  BY FS_RemoveElement, FS_CardinalityType
<1>2. IsFiniteSet(T) /\ Cardinality(T) \in Nat
  BY FS_Subset, FS_CardinalityType
<1>3. ref[x] # 0
  BY <1>1, <1>2
<1> QED BY <1>1, <1>2, <1>3 DEF DelRef

LEMMA GivesPair ==
    ASSUME OpInv', NEW q, Gives("unbind", q), DistinctInv, PairInv, OpInv,
           db'.pair = db.pair \ {PairOf(q)}
    PROVE  PairInv'
<1>1. \A p \in Ports : "unbind" \in HaveOf(p)' =>
         p # q /\ "unbind" \in HaveOf(p) /\ PairOf(p)' = PairOf(p) /\ PairOf(p) # PairOf(q)
  <2> SUFFICES ASSUME NEW p \in Ports, "unbind" \in HaveOf(p)'
               PROVE  p # q /\ "unbind" \in HaveOf(p) /\ PairOf(p)' = PairOf(p) /\ PairOf(p) # PairOf(q)
    OBVIOUS
  <2>1. p # q /\ "unbind" \in HaveOf(p)
    BY DEF Gives
  <2>2. p \in Active' /\ p \in Active /\ q \in Active /\ InfoOf(p)' = InfoOf(p)
    BY ActiveNext DEF Gives
  <2> QED BY <2>1, <2>2 DEF DistinctInv, PairOf
<1>2. \A p \in Ports : "unbind" \in HaveOf(p) /\ p # q => "unbind" \in HaveOf(p)'
  BY DEF Gives
<1> QED BY <1>1, <1>2 DEF PairInv

LEMMA GivesLocal ==
    ASSUME OpInv', NEW q, Gives("unbind", q), LocalInv, InfoOf(q) \in Infos,
           db.local \in [Locals -> Nat], db'.local = DelRef(db.local, InfoOf(q).local)
    PROVE  LocalInv'
<1> DEFINE l == InfoOf(q).local
           S == LocalUsers(l)
<1>1. \A p \in Ports : "unbind" \in HaveOf(p)' <=> p # q /\ "unbind" \in HaveOf(p)
  BY DEF Gives
<1>2. \A p \in Ports : "unbind" \in HaveOf(p)' => InfoOf(p)' = InfoOf(p)
  BY ActiveNext DEF Gives
<1>3. \A m \in Locals : LocalUsers(m)' = IF m = l THEN LocalUsers(m) \ {q} ELSE LocalUsers(m)
  BY <1>1, <1>2 DEF LocalUsers
<1>4. l \in Locals /\ q \in S /\ IsFiniteSet(S) /\ db.local[l] = Cardinality(S)
  <2>1. l \in Locals
    BY DEF Infos
  <2>2. q \in S
    BY DEF Gives, LocalUsers
  <2> QED BY <2>1, <2>2, UsersFinite DEF LocalInv
<1> HIDE DEF S, l
<1>5. /\ DelRef(db.local, l)[l] = Cardinality(S \ {q})
      /\ \A y \in Locals : y # l => DelRef(db.local, l)[y] = db.local[y]
  BY <1>4, RefDown
<1>6. ASSUME NEW m \in Locals PROVE db'.local[m] = Cardinality(LocalUsers(m)')
  <2>1. CASE m = l
    <3>1. LocalUsers(m)' = S \ {q}
      BY <1>3, <2>1 DEF S
    <3> QED BY <1>5, <2>1, <3>1 DEF l
  <2>2. CASE m # l
    <3>1. LocalUsers(m)' = LocalUsers(m)
      BY <1>3, <2>2
    <3> QED BY <1>5, <2>2, <3>1 DEF l, LocalInv
  <2> QED BY <2>1, <2>2
<1> QED BY <1>6 DEF LocalInv

(* A create begins: a new port with new addresses.                         *)
LEMMA CreatePortStep ==
    ASSUME IInv, NEW q \in Ports, NEW l \in Locals, NEW r \in Remotes, NEW b \in BindPorts,
           CreatePort(q, l, r, b)
    PROVE  IInv'
<1>1. /\ OpInv' /\ HaveOf(q) = {} /\ HaveOf(q)' = {"unbind"} /\ q \notin Active
      /\ \A p \in Ports : p # q => HaveOf(p)' = HaveOf(p) /\ InfoOf(p)' = InfoOf(p)
      /\ Active' = Active \cup {q}
      /\ InfoOf(q)' = [local |-> l, remote |-> r, bind |-> b, iloop |-> Null,
                       nh |-> [k \in Kinds |-> Null]]
      /\ InfoOf(q)' \in Infos
  BY CreateProps DEF IInv
<1>2. /\ op = Idle /\ tunnel' = tunnel /\ pool' = pool /\ chip' = chip
      /\ <<l, r>> \notin db.pair
      /\ db' = [db EXCEPT !.local = AddRef(db.local, l), !.pair = db.pair \cup {<<l, r>>}]
  BY DEF CreatePort, CanBindIp, BindIp
<1>3. db \in [local : [Locals -> Nat], pair : SUBSET Pairs, bind : [BindPorts -> Nat]]
  BY DEF IInv, RecInv
<1>4. db'.local = AddRef(db.local, l) /\ db'.pair = db.pair \cup {<<l, r>>} /\ db'.bind = db.bind
  BY <1>2, <1>3
<1>5. \A p \in Active : p \in Ports /\ p # q /\ HaveOf(p) = Steps
  <2>1. op.port = Null /\ Null \notin Ports
    BY <1>2, NullFacts DEF Idle
  <2> QED BY <1>1, <2>1 DEF Active, HaveOf
<1>6. \A p \in Active : PairOf(p) \in Pairs /\ PairOf(p) # <<l, r>>
  <2> SUFFICES ASSUME NEW p \in Active PROVE PairOf(p) \in Pairs /\ PairOf(p) # <<l, r>>
    OBVIOUS
  <2>1. InfoOf(p) \in Infos
    <3>1. tunnel[p] \in Infos /\ p # op.port
      BY <1>2, NullFacts DEF Idle, Active, IInv
    <3> QED BY <3>1 DEF InfoOf
  <2>2. PairOf(p) \in Pairs
    BY <2>1 DEF PairOf, Pairs, Infos
  <2>3. "unbind" \in HaveOf(p) /\ p \in Ports
    BY <1>5, OrdFacts
  <2>4. PairOf(p) \in db.pair
    BY <2>2, <2>3 DEF IInv, PairInv
  <2> QED BY <1>2, <2>2, <2>4
<1>7. OthersKept("unbind")
  <2>1. \A p \in Ports : \A y \in Steps \ {"unbind"} : y \in HaveOf(p)' <=> y \in HaveOf(p)
    BY <1>1
  <2>2. \A p \in Ports : \A y : y # "unbind" /\ y \in HaveOf(p)' => InfoOf(p)' = InfoOf(p)
    BY <1>1
  <2>3. "iloop" # "unbind" /\ \A k \in Kinds : NhidStep(k) # "unbind"
    BY DEF NhidStep
  <2> QED BY <2>1, <2>2, <2>3 DEF OthersKept
<1>8. RecInv'
  <2>1. AddRef(db.local, l) \in [Locals -> Nat]
    BY <1>3 DEF AddRef
  <2>2. db' \in [local : [Locals -> Nat], pair : SUBSET Pairs, bind : [BindPorts -> Nat]]
    <3>1. <<l, r>> \in Pairs
      BY DEF Pairs
    <3>2. db.pair \cup {<<l, r>>} \in SUBSET Pairs
      BY <1>3, <3>1
    <3> QED BY <1>2, <1>3, <2>1, <3>2
  <2> QED BY <1>2, <2>2 DEF IInv, RecInv
<1>9. PairOf(q)' = <<l, r>> /\ InfoOf(q)'.local = l /\ InfoOf(q)'.iloop = Null
      /\ \A k \in Kinds : InfoOf(q)'.nh[k] = Null
  BY <1>1 DEF PairOf
<1>10. InfoInv'
  <2>1. "iloop" \notin HaveOf(q)' /\ \A k \in Kinds : NhidStep(k) \notin HaveOf(q)'
    BY <1>1 DEF NhidStep
  <2> QED BY <1>1, <1>5, <1>9, <2>1 DEF InfoInv, IInv
<1>11. DistinctInv'
  <2>1. \A p \in Active : PairOf(p)' = PairOf(p) /\ InfoOf(p)' = InfoOf(p)
    BY <1>1, <1>5 DEF PairOf
  <2> QED BY <1>1, <1>5, <1>6, <1>9, <2>1 DEF DistinctInv, IInv
<1>12. PairInv'
  <2>1. \A p \in Ports : p # q => PairOf(p)' = PairOf(p) /\ HaveOf(p)' = HaveOf(p)
    BY <1>1 DEF PairOf
  <2> QED BY <1>1, <1>4, <1>9, <2>1 DEF PairInv, IInv
<1>13. LocalInv'
  <2>1. /\ q \notin LocalUsers(l)
        /\ \A m : LocalUsers(m)' = IF m = l THEN LocalUsers(m) \cup {q} ELSE LocalUsers(m)
    BY <1>1, <1>9 DEF LocalUsers
  <2>2. /\ AddRef(db.local, l)[l] = Cardinality(LocalUsers(l)')
        /\ \A y \in Locals : y # l => AddRef(db.local, l)[y] = db.local[y]
    <3> DEFINE S == LocalUsers(l)
    <3>1. IsFiniteSet(S) /\ db.local[l] = Cardinality(S) /\ db.local \in [Locals -> Nat] /\ q \notin S
      BY <1>3, <2>1, UsersFinite DEF LocalInv, IInv
    <3>2. LocalUsers(l)' = S \cup {q}
      BY <2>1
    <3> HIDE DEF S
    <3> QED BY <3>1, <3>2, RefUp
  <2> QED BY <1>4, <2>1, <2>2 DEF LocalInv, IInv
<1>14. "unbind" \in Steps /\ "unbind" # "bind" /\ "unbind" # "iloop" /\ "unbind" # "enable"
       /\ "unbind" # "default" /\ "unbind" # "userid"
       /\ \A k \in Kinds : "unbind" # NhidStep(k) /\ "unbind" # NhStep(k) /\ "unbind" # RouteStep(k)
  BY DEF Steps, NhidStep, NhStep, RouteStep
<1>15. BindInv' /\ LoopInv' /\ NhidInv'
  BY <1>1, <1>2, <1>4, <1>7, <1>14, FrameDb, FramePool DEF IInv
<1>16. OnInv' /\ DefaultInv' /\ UserIdInv' /\ NhInv' /\ RouteInv'
  BY <1>1, <1>2, <1>7, <1>14, FrameChip DEF IInv
<1> QED BY <1>1, <1>2, <1>8, <1>10, <1>11, <1>12, <1>13, <1>15, <1>16 DEF IInv

(* The addresses are given back.                                           *)
LEMMA UnbindStep == ASSUME IInv, UnbindAddresses PROVE IInv'
<1>1. /\ Undoing("unbind") /\ Done /\ tunnel' = tunnel /\ pool' = pool /\ chip' = chip
      /\ db' = [db EXCEPT !.local = DelRef(db.local, op.info.local),
                          !.pair = db.pair \ {<<op.info.local, op.info.remote>>}]
  BY DEF UnbindAddresses, UnbindIp
<1>2. PICK p : p = op.port
  OBVIOUS
<1>3. /\ OpInv' /\ tunnel' \in [Ports -> Infos \cup {Null}] /\ Gives("unbind", p)
      /\ InfoOf(p) = op.info /\ op.info \in Infos /\ OthersKept("unbind")
  <2>1. tunnel' = IF "unbind" = "port" THEN [tunnel EXCEPT ![op.port] = Null] ELSE tunnel
    BY <1>1
  <2> QED BY <1>1, <1>2, <2>1, UndoGives DEF IInv
<1>4. db \in [local : [Locals -> Nat], pair : SUBSET Pairs, bind : [BindPorts -> Nat]]
  BY DEF IInv, RecInv
<1>5. db'.local = DelRef(db.local, InfoOf(p).local) /\ db'.pair = db.pair \ {PairOf(p)} /\ db'.bind = db.bind
  BY <1>1, <1>3, <1>4 DEF PairOf
<1>6. RecInv'
  <2>1. DelRef(db.local, op.info.local) \in [Locals -> Nat]
    BY <1>3, <1>4 DEF DelRef, Infos
  <2>2. db' \in [local : [Locals -> Nat], pair : SUBSET Pairs, bind : [BindPorts -> Nat]]
    BY <1>1, <1>4, <2>1
  <2> QED BY <1>1, <2>2 DEF IInv, RecInv
<1>7. InfoInv' /\ DistinctInv'
  BY <1>3, GivesInfo DEF IInv
<1>8. PairInv' /\ LocalInv'
  BY <1>3, <1>4, <1>5, GivesPair, GivesLocal DEF IInv
<1>9. "unbind" \in Steps /\ "unbind" # "bind" /\ "unbind" # "iloop" /\ "unbind" # "enable"
       /\ "unbind" # "default" /\ "unbind" # "userid"
       /\ \A k \in Kinds : "unbind" # NhidStep(k) /\ "unbind" # NhStep(k) /\ "unbind" # RouteStep(k)
  BY DEF Steps, NhidStep, NhStep, RouteStep
<1>10. BindInv' /\ LoopInv' /\ NhidInv'
  BY <1>1, <1>3, <1>5, <1>9, FrameDb, FramePool DEF IInv
<1>11. OnInv' /\ DefaultInv' /\ UserIdInv' /\ NhInv' /\ RouteInv'
  BY <1>1, <1>3, <1>9, FrameChip DEF IInv
<1> QED BY <1>3, <1>6, <1>7, <1>8, <1>10, <1>11 DEF IInv

----------------------------------------------------------------------------
(* A step that writes only the chip, or only the pools, leaves the rest of *)
(* the books alone.                                                        *)
LEMMA BooksKept ==
    ASSUME IInv, OpInv', NEW x \in Steps, OthersKept(x), db' = db,
           x \notin {"unbind", "bind"}, chip'.l3 = chip.l3
    PROVE  PairInv' /\ LocalInv' /\ BindInv'
  BY FrameDb DEF IInv

LEMMA PoolKept ==
    ASSUME IInv, OpInv', NEW x \in Steps, OthersKept(x), pool' = pool
    PROVE  /\ x # "iloop" => LoopInv'
           /\ x \notin {"nhid_wok", "nhid_wk"} => NhidInv'
<1>1. x \notin {"nhid_wok", "nhid_wk"} => \A k \in Kinds : x # NhidStep(k)
  BY DEF NhidStep
<1> QED BY <1>1, FramePool DEF IInv

LEMMA ChipKept ==
    ASSUME IInv, OpInv', NEW x \in Steps, OthersKept(x)
    PROVE  /\ x # "enable" /\ chip.on \subseteq chip'.on => OnInv'
           /\ x # "default" /\ chip'.dflt = chip.dflt => DefaultInv'
           /\ x # "userid" /\ chip'.userid = chip.userid => UserIdInv'
           /\ x \notin {"nh_wok", "nh_wk"} /\ chip'.nh = chip.nh => NhInv'
           /\ x \notin {"route_wok", "route_wk"} /\ chip'.route = chip.route => RouteInv'
<1>1. /\ x \notin {"nh_wok", "nh_wk"} => \A k \in Kinds : x # NhStep(k)
      /\ x \notin {"route_wok", "route_wk"} => \A k \in Kinds : x # RouteStep(k)
  BY DEF NhStep, RouteStep
<1> QED BY <1>1, FrameChip DEF IInv

(* What is known of a port that is active.                                 *)
LEMMA InfoTyped == ASSUME IInv, NEW p \in Active PROVE InfoOf(p) \in Infos /\ p \in Ports
<1>1. CASE p = op.port
  <2>1. op.pc # "idle" /\ p \in Ports
    BY <1>1, NullFacts DEF IInv, OpInv, Idle, Active
  <2> QED BY <1>1, <2>1 DEF IInv, OpInv, InfoOf
<1>2. CASE p # op.port
  BY <1>2 DEF Active, InfoOf, IInv
<1> QED BY <1>1, <1>2

(* The internal port of a port that has one.                               *)
LEMMA LoopOf ==
    ASSUME IInv, NEW p \in Ports, "iloop" \in HaveOf(p)
    PROVE  InfoOf(p).iloop \in ILoops /\ p \in Active
<1>1. p \in Active /\ InfoOf(p).iloop # Null
  BY HaveClosed DEF IInv, InfoInv
<1>2. InfoOf(p) \in Infos
  BY <1>1, InfoTyped
<1> QED BY <1>1, <1>2 DEF Infos

(* No two ports have the same internal port.                               *)
LEMMA OneLoop ==
    ASSUME IInv, NEW p \in Ports, NEW r \in Ports, "iloop" \in HaveOf(p), "iloop" \in HaveOf(r),
           InfoOf(p).iloop = InfoOf(r).iloop
    PROVE  p = r
<1>1. p \in Active /\ r \in Active /\ InfoOf(p).iloop \in ILoops
  BY LoopOf
<1>2. InfoOf(p).iloop # Null
  BY <1>1, NullFacts
<1> QED BY <1>1, <1>2 DEF IInv, DistinctInv

(* The next-hop id of a port that has one.                                 *)
LEMMA NhidOf ==
    ASSUME IInv, NEW p \in Ports, NEW k \in Kinds, NhidStep(k) \in HaveOf(p)
    PROVE  InfoOf(p).nh[k] \in NhIds /\ p \in Active
<1>1. p \in Active /\ InfoOf(p).nh[k] # Null
  BY HaveClosed DEF IInv, InfoInv
<1>2. InfoOf(p) \in Infos
  BY <1>1, InfoTyped
<1> QED BY <1>1, <1>2 DEF Infos

LEMMA OneNhid ==
    ASSUME IInv, NEW p \in Ports, NEW r \in Ports, NEW k \in Kinds, NEW j \in Kinds,
           NhidStep(k) \in HaveOf(p), NhidStep(j) \in HaveOf(r),
           InfoOf(p).nh[k] = InfoOf(r).nh[j]
    PROVE  p = r /\ k = j
<1>1. p \in Active /\ r \in Active /\ InfoOf(p).nh[k] \in NhIds
  BY NhidOf
<1>2. InfoOf(p).nh[k] # Null
  BY <1>1, NullFacts
<1>3. p = r
  BY <1>1, <1>2 DEF IInv, DistinctInv
<1> QED BY <1>1, <1>2, <1>3 DEF IInv, InfoInv

----------------------------------------------------------------------------
(* The internal port.                                                      *)
LEMMA AllocInternalPortStep == ASSUME IInv, AllocInternalPort PROVE IInv'
<1> DEFINE n == Lowest(FreeLoops)
<1>1. /\ op.pc = "iloop" /\ FreeLoops # {} /\ tunnel' = tunnel /\ db' = db /\ chip' = chip
      /\ pool' = [pool EXCEPT !.iloop = @ \cup {n}]
      /\ op' = [op EXCEPT !.pc = "enable", !.info.iloop = n]
  BY DEF AllocInternalPort, At
<1>2. pool \in [iloop : SUBSET ILoops, nh : SUBSET NhIds, flow : SUBSET NhIds]
  BY DEF IInv, RecInv
<1>3. n \in ILoops /\ n \notin pool.iloop /\ n # Null
  <2>1. FreeLoops \in SUBSET Nat
    BY NullFacts DEF FreeLoops
  <2>2. n \in FreeLoops
    BY <1>1, <2>1, LowestProps
  <2> QED BY <2>2, NullFacts DEF FreeLoops
<1> HIDE DEF n
<1>4. PICK q : q = op.port
  OBVIOUS
<1>5. op \in [pc : Takes \cup {"idle", "undo"}, port : Ports \cup {Null},
              info : Infos \cup {Null}, todo : Seq(Steps)] /\ op.info \in Infos
  BY <1>1 DEF IInv, OpInv
<1>6. /\ op'.pc = "enable" /\ op'.port = q /\ op'.info = [op.info EXCEPT !.iloop = n]
      /\ op'.todo = op.todo
      /\ op' = [pc |-> "enable", port |-> q, info |-> [op.info EXCEPT !.iloop = n], todo |-> op.todo]
  BY <1>1, <1>4, <1>5
<1>7. /\ op'.info \in Infos /\ op'.info.local = op.info.local /\ op'.info.remote = op.info.remote
      /\ op'.info.bind = op.info.bind /\ op'.info.nh = op.info.nh /\ op'.info.iloop = n
  BY <1>3, <1>5, <1>6 DEF Infos
<1>8. OpInv' /\ Obtains("iloop", q) /\ InfoOf(q) = op.info /\ InfoOf(q)' = op'.info
  <2>1. "iloop" \in Takes /\ "enable" \in Takes /\ Ord["enable"] = Ord["iloop"] + 1
    BY DEF Takes, Ord
  <2>2. op' \in [pc : Takes \cup {"idle", "undo"}, port : Ports \cup {Null},
                 info : Infos \cup {Null}, todo : Seq(Steps)]
    BY <1>4, <1>5, <1>6, <1>7, <2>1
  <2> QED BY <1>1, <1>4, <1>6, <1>7, <2>1, <2>2, TakeObtains DEF IInv
<1>9. \A p \in Ports : p # q => HaveOf(p)' = HaveOf(p) /\ InfoOf(p)' = InfoOf(p)
  BY <1>8 DEF Obtains
<1>10. q \in Ports /\ "iloop" \notin HaveOf(q) /\ HaveOf(q)' = HaveOf(q) \cup {"iloop"} /\ Active' = Active
  BY <1>8 DEF Obtains
<1>11. OthersKept("iloop")
  <2>1. \A p \in Ports : \A y \in Steps \ {"iloop"} : y \in HaveOf(p)' <=> y \in HaveOf(p)
    BY <1>9, <1>10
  <2>2. \A p \in Ports :
           /\ InfoOf(p)'.local = InfoOf(p).local /\ InfoOf(p)'.remote = InfoOf(p).remote
           /\ InfoOf(p)'.bind = InfoOf(p).bind /\ InfoOf(p)'.nh = InfoOf(p).nh
    BY <1>7, <1>8, <1>9
  <2>3. \A p \in Ports : "iloop" \in HaveOf(p) => InfoOf(p)' = InfoOf(p)
    BY <1>9, <1>10
  <2> QED BY <2>1, <2>2, <2>3 DEF OthersKept
<1>12. RecInv'
  <2>1. pool' \in [iloop : SUBSET ILoops, nh : SUBSET NhIds, flow : SUBSET NhIds]
    BY <1>1, <1>2, <1>3
  <2> QED BY <1>1, <2>1 DEF IInv, RecInv
<1>13. \A p \in Active : p # q => InfoOf(p).iloop \in pool.iloop
  <2> SUFFICES ASSUME NEW p \in Active, p # q PROVE InfoOf(p).iloop \in pool.iloop
    OBVIOUS
  <2>1. p \in Ports /\ "iloop" \in HaveOf(p)
    BY <1>4, StepNames DEF Active, HaveOf
  <2>2. InfoOf(p).iloop \in ILoops
    BY <2>1, LoopOf
  <2> QED BY <2>1, <2>2 DEF IInv, LoopInv
<1>14. \A p \in Active : p \in Ports
  BY DEF Active
<1>15. InfoInv'
  <2>1. \A k \in Kinds : NhidStep(k) # "iloop"
    BY DEF NhidStep
  <2>2. ASSUME NEW p \in Active
        PROVE  /\ "iloop" \in HaveOf(p)' => InfoOf(p)'.iloop # Null
               /\ \A k \in Kinds : NhidStep(k) \in HaveOf(p)' => InfoOf(p)'.nh[k] # Null
               /\ \A k, j \in Kinds : k # j /\ InfoOf(p)'.nh[k] # Null =>
                     InfoOf(p)'.nh[k] # InfoOf(p)'.nh[j]
    <3>1. CASE p = q
      BY <1>3, <1>7, <1>8, <1>10, <2>1, <3>1 DEF IInv, InfoInv
    <3>2. CASE p # q
      BY <1>9, <1>14, <3>2 DEF IInv, InfoInv
    <3> QED BY <3>1, <3>2
  <2> QED BY <1>10, <2>2 DEF InfoInv
<1>16. DistinctInv'
  <2>1. \A p \in Active : PairOf(p)' = PairOf(p) /\ InfoOf(p)'.nh = InfoOf(p).nh
    BY <1>7, <1>8, <1>9, <1>14 DEF PairOf
  <2>2. \A p \in Active : InfoOf(p)'.iloop = IF p = q THEN n ELSE InfoOf(p).iloop
    BY <1>7, <1>8, <1>9, <1>14
  <2>3. ASSUME NEW p \in Active, NEW r \in Active, p # r, InfoOf(p)'.iloop # Null
        PROVE  InfoOf(p)'.iloop # InfoOf(r)'.iloop
    BY <1>3, <1>13, <2>2, <2>3 DEF IInv, DistinctInv
  <2> QED BY <1>10, <2>1, <2>3 DEF IInv, DistinctInv
<1>17. LoopInv'
  <2>1. pool'.iloop = pool.iloop \cup {n}
    BY <1>1, <1>2
  <2>2. InfoOf(q)'.iloop = n /\ "iloop" \in HaveOf(q)'
    BY <1>7, <1>8, <1>10
  <2> QED BY <1>9, <1>10, <2>1, <2>2 DEF IInv, LoopInv
<1>18. pool'.nh = pool.nh /\ pool'.flow = pool.flow /\ "iloop" \in Steps
       /\ \A k \in Kinds : "iloop" # NhidStep(k)
  BY <1>1, <1>2 DEF Steps, Takes, NhidStep
<1>19. NhidInv'
  BY <1>8, <1>11, <1>18, FramePool DEF IInv
<1>20. /\ PairInv' /\ LocalInv' /\ BindInv'
       /\ OnInv' /\ DefaultInv' /\ UserIdInv' /\ NhInv' /\ RouteInv'
  BY <1>1, <1>8, <1>11, <1>18, BooksKept, ChipKept
<1> QED BY <1>1, <1>8, <1>12, <1>15, <1>16, <1>17, <1>19, <1>20 DEF IInv

LEMMA ReleaseInternalPortStep == ASSUME IInv, ReleaseInternalPort PROVE IInv'
<1>1. /\ Undoing("iloop") /\ Done /\ tunnel' = tunnel /\ db' = db /\ chip' = chip
      /\ pool' = [pool EXCEPT !.iloop = @ \ {op.info.iloop}]
  BY DEF ReleaseInternalPort, TheLoop
<1>2. PICK q : q = op.port
  OBVIOUS
<1>3. /\ OpInv' /\ tunnel' \in [Ports -> Infos \cup {Null}] /\ Gives("iloop", q)
      /\ InfoOf(q) = op.info /\ op.info \in Infos /\ OthersKept("iloop")
  <2>1. tunnel' = IF "iloop" = "port" THEN [tunnel EXCEPT ![op.port] = Null] ELSE tunnel
    BY <1>1
  <2> QED BY <1>1, <1>2, <2>1, UndoGives DEF IInv
<1>4. pool \in [iloop : SUBSET ILoops, nh : SUBSET NhIds, flow : SUBSET NhIds]
  BY DEF IInv, RecInv
<1>5. pool'.iloop = pool.iloop \ {InfoOf(q).iloop} /\ pool'.nh = pool.nh /\ pool'.flow = pool.flow
  BY <1>1, <1>3, <1>4
<1>6. RecInv'
  <2>1. pool' \in [iloop : SUBSET ILoops, nh : SUBSET NhIds, flow : SUBSET NhIds]
    BY <1>1, <1>4
  <2> QED BY <1>1, <2>1 DEF IInv, RecInv
<1>7. InfoInv' /\ DistinctInv'
  BY <1>3, GivesInfo DEF IInv
<1>8. LoopInv'
  <2>1. q \in Ports /\ "iloop" \in HaveOf(q)
    BY <1>3 DEF Gives
  <2>2. \A p \in Ports : "iloop" \in HaveOf(p)' <=> p # q /\ "iloop" \in HaveOf(p)
    BY <1>3 DEF Gives
  <2>3. \A p \in Ports : "iloop" \in HaveOf(p)' => InfoOf(p)' = InfoOf(p)
    BY <1>3, ActiveNext DEF Gives
  <2>4. \A p \in Ports : "iloop" \in HaveOf(p)' => InfoOf(p).iloop # InfoOf(q).iloop
    BY <2>1, <2>2, OneLoop
  <2> QED BY <1>5, <2>2, <2>3, <2>4 DEF IInv, LoopInv
<1>9. "iloop" \in Steps /\ \A k \in Kinds : "iloop" # NhidStep(k)
  BY DEF Steps, Takes, NhidStep
<1>10. NhidInv'
  BY <1>3, <1>5, <1>9, FramePool DEF IInv
<1>11. /\ PairInv' /\ LocalInv' /\ BindInv'
       /\ OnInv' /\ DefaultInv' /\ UserIdInv' /\ NhInv' /\ RouteInv'
  BY <1>1, <1>3, <1>9, BooksKept, ChipKept
<1> QED BY <1>3, <1>6, <1>7, <1>8, <1>10, <1>11 DEF IInv

(* The next-hop ids.                                                       *)
LEMMA NhidSteps ==
    ASSUME NEW k \in Kinds
    PROVE  /\ NhidStep(k) \in Takes /\ NhidStep(k) \in Steps
           /\ NhidStep(k) \notin {"unbind", "bind", "iloop", "enable", "default", "userid",
                                  "nh_wok", "nh_wk", "route_wok", "route_wk", "port"}
           /\ \A j \in Kinds : NhidStep(j) = NhidStep(k) => j = k
  BY DEF NhidStep, Takes, Steps, Kinds

(* Before the second id is taken it is not written down.                   *)
FreshInv ==
    op.pc \in {"iloop", "enable", "default", "userid", "nhid_wok", "nhid_wk"} =>
        op.info.nh["wk"] = Null

LEMMA FreshNext == ASSUME OpInv, FreshInv, [Next]_vars PROVE FreshInv'
<1>0. op \in [pc : Takes \cup {"idle", "undo"}, port : Ports \cup {Null},
              info : Infos \cup {Null}, todo : Seq(Steps)]
  BY DEF OpInv
<1>1. CASE op' = op
  BY <1>1 DEF FreshInv
<1>2. CASE op'.pc \notin {"iloop", "enable", "default", "userid", "nhid_wok", "nhid_wk"}
  BY <1>2 DEF FreshInv
<1>3. CASE \E p \in Ports, l \in Locals, r \in Remotes, b \in BindPorts : CreatePort(p, l, r, b)
  BY <1>3 DEF CreatePort, FreshInv, Kinds
<1>4. CASE AllocInternalPort
  <2>1. op.pc = "iloop" /\ op.info \in Infos
        /\ op' = [op EXCEPT !.pc = "enable", !.info.iloop = Lowest(FreeLoops)]
    BY <1>4 DEF AllocInternalPort, At, OpInv
  <2>2. op'.info.nh = op.info.nh
    BY <1>0, <2>1 DEF Infos
  <2> QED BY <2>1, <2>2 DEF FreshInv
<1>5. CASE EnableIloopPort \/ AddDefaultEntry \/ SetUserIdEnable
  <2>1. op.pc \in {"enable", "default", "userid"} /\ \E y : op' = [op EXCEPT !.pc = y]
    BY <1>5 DEF EnableIloopPort, AddDefaultEntry, SetUserIdEnable, At, Goto
  <2>2. op'.info = op.info
    BY <1>0, <2>1
  <2> QED BY <2>1, <2>2 DEF FreshInv
<1>6. ASSUME NEW k \in Kinds, AllocNhid(k) PROVE FreshInv'
  <2>1. CASE k = "wok"
    <3>1. op.pc = "nhid_wok" /\ op' = [op EXCEPT !.pc = "nhid_wk", !.info.nh["wok"] = Lowest(FreeNhs)]
          /\ op.info \in Infos
      BY <1>6, <2>1 DEF AllocNhid, TakeNhid, At, OpInv
    <3>2. op'.info.nh["wk"] = op.info.nh["wk"]
      BY <1>0, <3>1 DEF Infos, Kinds
    <3> QED BY <3>1, <3>2 DEF FreshInv
  <2>2. CASE k # "wok"
    <3>1. op' = [op EXCEPT !.pc = "nh_wok", !.info.nh[k] = Lowest(FreeNhs)]
      BY <1>6, <2>2 DEF AllocNhid, TakeNhid
    <3> QED BY <1>0, <3>1 DEF FreshInv
  <2> QED BY <2>1, <2>2
<1>7. ASSUME NEW k \in Kinds, CreateDecapNh(k) \/ AddDecapRoute(k) PROVE FreshInv'
  BY <1>0, <1>7 DEF CreateDecapNh, AddDecapRoute, Goto, FreshInv
<1>8. CASE EnableBindPort \/ SavePort \/ CreateFails \/ \E p \in Ports : DeletePort(p)
  <2>1. CASE EnableBindPort
    BY <1>0, <2>1 DEF EnableBindPort, Goto, FreshInv
  <2>2. CASE SavePort
    BY <2>2 DEF SavePort, Idle, FreshInv
  <2>3. CASE CreateFails
    BY <1>0, <2>3 DEF CreateFails, Fail, FreshInv
  <2>4. CASE \E p \in Ports : DeletePort(p)
    BY <2>4 DEF DeletePort, FreshInv
  <2> QED BY <1>8, <2>1, <2>2, <2>3, <2>4
<1>9. ASSUME op.pc = "undo", Done PROVE FreshInv'
  BY <1>0, <1>9 DEF Done, Idle, FreshInv
<1>10. CASE UnbindAddresses \/ DisableBindPort \/ ResetUserIdEnable \/ DelDefaultEntry
            \/ DisableIloopPort \/ ReleaseInternalPort \/ DestroyPort
  BY <1>9, <1>10 DEF UnbindAddresses, DisableBindPort, ResetUserIdEnable, DelDefaultEntry,
     DisableIloopPort, ReleaseInternalPort, DestroyPort, Undoing
<1>11. ASSUME NEW k \in Kinds, DelDecapRoute(k) \/ RemoveDecapNh(k) \/ ReleaseNhid(k) PROVE FreshInv'
  BY <1>9, <1>11 DEF DelDecapRoute, RemoveDecapNh, ReleaseNhid, Undoing
<1>12. CASE FlowAllocsNhid \/ FlowReleasesNhid \/ UNCHANGED vars
  BY <1>1, <1>12 DEF FlowAllocsNhid, FlowReleasesNhid, vars
<1> QED BY <1>3, <1>4, <1>5, <1>6, <1>7, <1>8, <1>10, <1>11, <1>12 DEF Next

(* A create takes the lowest free id.                                      *)
LEMMA AllocNhidStep == ASSUME IInv, FreshInv, NEW k \in Kinds, AllocNhid(k) PROVE IInv'
<1>a. PICK n : n = Lowest(FreeNhs)
  OBVIOUS
<1> DEFINE x == NhidStep(k)
           y == IF k = "wok" THEN "nhid_wk" ELSE "nh_wok"
<1>1. /\ op.pc = x /\ FreeNhs # {} /\ tunnel' = tunnel /\ db' = db /\ chip' = chip
      /\ pool' = [pool EXCEPT !.nh = @ \cup {n}]
      /\ op' = [op EXCEPT !.pc = y, !.info.nh[k] = n]
  BY <1>a DEF AllocNhid, TakeNhid, At, NhidStep
<1>2. pool \in [iloop : SUBSET ILoops, nh : SUBSET NhIds, flow : SUBSET NhIds]
  BY DEF IInv, RecInv
<1>3. n \in NhIds /\ n \notin pool.nh /\ n # Null
  <2>1. FreeNhs \in SUBSET Nat
    BY NullFacts DEF FreeNhs
  <2>2. n \in FreeNhs
    BY <1>1, <1>a, <2>1, LowestProps
  <2> QED BY <2>2, NullFacts DEF FreeNhs
<1>0. x \in Takes /\ y \in Takes /\ Ord[y] = Ord[x] + 1 /\ x # "idle" /\ x # "undo"
  BY DEF Takes, Ord, Kinds, NhidStep
<1>4. PICK q : q = op.port
  OBVIOUS
<1> HIDE DEF x, y
<1>5. op \in [pc : Takes \cup {"idle", "undo"}, port : Ports \cup {Null},
              info : Infos \cup {Null}, todo : Seq(Steps)] /\ op.info \in Infos
  BY <1>0, <1>1 DEF IInv, OpInv
<1>6. /\ op'.pc = y /\ op'.port = q /\ op'.info = [op.info EXCEPT !.nh[k] = n]
      /\ op'.todo = op.todo
      /\ op' = [pc |-> y, port |-> q, info |-> [op.info EXCEPT !.nh[k] = n], todo |-> op.todo]
  BY <1>1, <1>4, <1>5
<1>7. /\ op'.info \in Infos /\ op'.info.local = op.info.local /\ op'.info.remote = op.info.remote
      /\ op'.info.bind = op.info.bind /\ op'.info.iloop = op.info.iloop
      /\ \A j \in Kinds : op'.info.nh[j] = IF j = k THEN n ELSE op.info.nh[j]
  BY <1>3, <1>5, <1>6 DEF Infos
<1>8. /\ OpInv' /\ Obtains(x, q) /\ InfoOf(q) = op.info /\ InfoOf(q)' = op'.info
      /\ \A z \in Steps : z \in HaveOf(q) <=> Ord[z] < Ord[x]
  <2>2. op' \in [pc : Takes \cup {"idle", "undo"}, port : Ports \cup {Null},
                 info : Infos \cup {Null}, todo : Seq(Steps)]
    BY <1>0, <1>4, <1>5, <1>6, <1>7
  <2> QED BY <1>0, <1>1, <1>4, <1>6, <1>7, <2>2, TakeObtains DEF IInv
<1>9. \A p \in Ports : p # q => HaveOf(p)' = HaveOf(p) /\ InfoOf(p)' = InfoOf(p)
  BY <1>8 DEF Obtains
<1>10. q \in Ports /\ x \notin HaveOf(q) /\ HaveOf(q)' = HaveOf(q) \cup {x} /\ Active' = Active
  BY <1>8 DEF Obtains
<1>11. OthersKept(x)
  <2>1. \A p \in Ports : \A z \in Steps \ {x} : z \in HaveOf(p)' <=> z \in HaveOf(p)
    BY <1>9, <1>10
  <2>2. \A p \in Ports :
           /\ InfoOf(p)'.local = InfoOf(p).local /\ InfoOf(p)'.remote = InfoOf(p).remote
           /\ InfoOf(p)'.bind = InfoOf(p).bind /\ InfoOf(p)'.iloop = InfoOf(p).iloop
    BY <1>7, <1>8, <1>9
  <2>3. \A p \in Ports, j \in Kinds : NhidStep(j) \in HaveOf(p) => InfoOf(p)'.nh[j] = InfoOf(p).nh[j]
    BY <1>7, <1>8, <1>9, <1>10 DEF x
  <2> QED BY <2>1, <2>2, <2>3 DEF OthersKept
<1>12. RecInv'
  <2>1. pool' \in [iloop : SUBSET ILoops, nh : SUBSET NhIds, flow : SUBSET NhIds]
    BY <1>1, <1>2, <1>3
  <2> QED BY <1>1, <2>1 DEF IInv, RecInv
<1>13. \A p \in Active, j \in Kinds : NhidStep(j) \in HaveOf(p) => InfoOf(p).nh[j] # n
  <2> SUFFICES ASSUME NEW p \in Active, NEW j \in Kinds, NhidStep(j) \in HaveOf(p)
               PROVE  InfoOf(p).nh[j] # n
    OBVIOUS
  <2>1. p \in Ports
    BY DEF Active
  <2>2. InfoOf(p).nh[j] \in NhIds
    BY <2>1, NhidOf
  <2>3. InfoOf(p).nh[j] \in pool.nh
    BY <2>1, <2>2 DEF IInv, NhidInv, HasNhid
  <2> QED BY <1>3, <2>3
<1>14. \A p \in Active : p \in Ports /\ (p # q => \A j \in Kinds : NhidStep(j) \in HaveOf(p))
  BY <1>4, StepNames DEF Active, HaveOf

<1>15. \A j \in Kinds : j # k => InfoOf(q).nh[j] # n
  <2> SUFFICES ASSUME NEW j \in Kinds, j # k PROVE InfoOf(q).nh[j] # n
    OBVIOUS
  <2>1. CASE k = "wok"
    <3>1. j = "wk" /\ x = "nhid_wok"
      BY <2>1 DEF Kinds, x, NhidStep
    <3> QED BY <1>1, <1>3, <1>8, <3>1 DEF FreshInv
  <2>2. CASE k # "wok"
    <3>1. NhidStep(j) \in Steps /\ Ord[NhidStep(j)] < Ord[x]
      BY <2>2 DEF Kinds, x, NhidStep, Steps, Takes, Ord
    <3>2. NhidStep(j) \in HaveOf(q) /\ q \in Active
      BY <1>8, <3>1 DEF Obtains
    <3> QED BY <1>13, <3>2
  <2> QED BY <2>1, <2>2
<1>16. InfoInv'
  <2>1. \A j \in Kinds : NhidStep(j) = x => j = k
    BY NhidSteps DEF x
  <2>2. ASSUME NEW p \in Active
        PROVE  /\ "iloop" \in HaveOf(p)' => InfoOf(p)'.iloop # Null
               /\ \A j \in Kinds : NhidStep(j) \in HaveOf(p)' => InfoOf(p)'.nh[j] # Null
               /\ \A i, j \in Kinds : i # j /\ InfoOf(p)'.nh[i] # Null =>
                     InfoOf(p)'.nh[i] # InfoOf(p)'.nh[j]
    <3>1. CASE p = q
      <4>1. x # "iloop"
        BY NhidSteps DEF x
      <4>2. "iloop" \in HaveOf(p)' => InfoOf(p)'.iloop # Null
        BY <1>7, <1>8, <1>10, <3>1, <4>1 DEF IInv, InfoInv
      <4>3. \A j \in Kinds : NhidStep(j) \in HaveOf(p)' => InfoOf(p)'.nh[j] # Null
        BY <1>3, <1>7, <1>8, <1>10, <2>1, <3>1 DEF IInv, InfoInv
      <4>4. \A i, j \in Kinds : i # j /\ InfoOf(p)'.nh[i] # Null =>
                     InfoOf(p)'.nh[i] # InfoOf(p)'.nh[j]
        <5>1. \A i, j \in Kinds : i # j /\ op.info.nh[i] # Null => op.info.nh[i] # op.info.nh[j]
          BY <1>8, <3>1 DEF IInv, InfoInv
        <5> QED BY <1>7, <1>8, <1>15, <3>1, <5>1
      <4> QED BY <4>2, <4>3, <4>4
    <3>2. CASE p # q
      BY <1>9, <1>14, <3>2 DEF IInv, InfoInv
    <3> QED BY <3>1, <3>2
  <2> QED BY <1>10, <2>2 DEF InfoInv
<1>17. DistinctInv'
  <2>1. \A p \in Active : PairOf(p)' = PairOf(p) /\ InfoOf(p)'.iloop = InfoOf(p).iloop
    BY <1>7, <1>8, <1>9, <1>14 DEF PairOf
  <2>2. \A p \in Active, j \in Kinds :
           InfoOf(p)'.nh[j] = IF p = q /\ j = k THEN n ELSE InfoOf(p).nh[j]
    BY <1>7, <1>8, <1>9, <1>14
  <2>3. ASSUME NEW p \in Active, NEW r \in Active, p # r, NEW i \in Kinds, NEW j \in Kinds,
               InfoOf(p)'.nh[i] # Null
        PROVE  InfoOf(p)'.nh[i] # InfoOf(r)'.nh[j]
    <3>1. \A t \in Active, m \in Kinds : t # q => InfoOf(t).nh[m] # n
      BY <1>13, <1>14
    <3> QED BY <1>3, <2>2, <2>3, <3>1 DEF IInv, DistinctInv
  <2> QED BY <1>10, <2>1, <2>3 DEF IInv, DistinctInv
<1>18. NhidInv'
  <2>1. pool'.nh = pool.nh \cup {n} /\ pool'.flow = pool.flow /\ pool.flow \subseteq NhIds
    BY <1>1, <1>2
  <2>2. HasNhid(q, k, n)' /\ \A m : HasNhid(q, k, m)' => m = n
    <3>1. InfoOf(q)'.nh[k] = n /\ NhidStep(k) \in HaveOf(q)'
      BY <1>7, <1>8, <1>10 DEF x
    <3> QED BY <3>1 DEF HasNhid
  <2>3. \A p \in Ports, j \in Kinds : \A m : p # q \/ j # k => (HasNhid(p, j, m)' <=> HasNhid(p, j, m))
    <3>1. \A j \in Kinds : j # k => NhidStep(j) # x
      BY NhidSteps DEF x
    <3> QED BY <1>7, <1>8, <1>9, <1>10, <3>1 DEF HasNhid
  <2>4. \A m : ~HasNhid(q, k, m)
    BY <1>10 DEF HasNhid, x
  <2>5. \A m \in NhIds : m \in pool.nh <=> m \in pool.flow \/ \E p \in Ports, j \in Kinds : HasNhid(p, j, m)
    BY DEF IInv, NhidInv
  <2>6. n \notin pool.flow
    BY <1>3, <2>5
  <2>7. ASSUME NEW m \in NhIds
        PROVE  m \in pool'.nh <=> m \in pool'.flow \/ \E p \in Ports, j \in Kinds : HasNhid(p, j, m)'
    BY <1>10, <2>1, <2>2, <2>3, <2>4, <2>5
  <2>8. \A m \in pool'.flow, p \in Ports, j \in Kinds : ~HasNhid(p, j, m)'
    BY <2>1, <2>2, <2>3, <2>6 DEF IInv, NhidInv
  <2> QED BY <2>7, <2>8 DEF NhidInv
<1>19. pool'.iloop = pool.iloop
  BY <1>1, <1>2
<1>20. LoopInv'
  BY <1>8, <1>11, <1>19, NhidSteps, FramePool DEF IInv, x
<1>21. /\ PairInv' /\ LocalInv' /\ BindInv'
       /\ OnInv' /\ DefaultInv' /\ UserIdInv' /\ NhInv' /\ RouteInv'
  BY <1>1, <1>8, <1>11, NhidSteps, BooksKept, ChipKept DEF x
<1> QED BY <1>1, <1>8, <1>12, <1>16, <1>17, <1>18, <1>20, <1>21 DEF IInv

(* The release of an id.                                                   *)
LEMMA ReleaseNhidStep == ASSUME IInv, NEW k \in Kinds, ReleaseNhid(k) PROVE IInv'
<1> DEFINE x == NhidStep(k)
<1>1. /\ Undoing(x) /\ Done /\ tunnel' = tunnel /\ db' = db /\ chip' = chip
      /\ pool' = [pool EXCEPT !.nh = @ \ {op.info.nh[k]}]
  BY DEF ReleaseNhid, NhidStep
<1>0. /\ x \in Steps /\ \A j \in Kinds : NhidStep(j) = x => j = k
      /\ x \notin {"unbind", "bind", "iloop", "enable", "default", "userid",
                   "nh_wok", "nh_wk", "route_wok", "route_wk", "port"}
  BY NhidSteps
<1> HIDE DEF x
<1>2. PICK q : q = op.port
  OBVIOUS
<1>3. /\ OpInv' /\ tunnel' \in [Ports -> Infos \cup {Null}] /\ Gives(x, q)
      /\ InfoOf(q) = op.info /\ op.info \in Infos /\ OthersKept(x)
  <2>1. tunnel' = IF x = "port" THEN [tunnel EXCEPT ![op.port] = Null] ELSE tunnel
    BY <1>0, <1>1
  <2> QED BY <1>1, <1>2, <2>1, UndoGives DEF IInv
<1>4. pool \in [iloop : SUBSET ILoops, nh : SUBSET NhIds, flow : SUBSET NhIds]
  BY DEF IInv, RecInv
<1>5. pool'.nh = pool.nh \ {InfoOf(q).nh[k]} /\ pool'.iloop = pool.iloop /\ pool'.flow = pool.flow
  BY <1>1, <1>3, <1>4
<1>6. RecInv'
  <2>1. pool' \in [iloop : SUBSET ILoops, nh : SUBSET NhIds, flow : SUBSET NhIds]
    BY <1>1, <1>4
  <2> QED BY <1>1, <2>1 DEF IInv, RecInv
<1>7. InfoInv' /\ DistinctInv'
  BY <1>3, GivesInfo DEF IInv
<1>8. NhidInv'
  <2> DEFINE n == InfoOf(q).nh[k]
  <2>1. q \in Ports /\ NhidStep(k) \in HaveOf(q) /\ HasNhid(q, k, n)
    BY <1>3 DEF Gives, HasNhid, x
  <2>2. \A p \in Ports, j \in Kinds : \A m :
           HasNhid(p, j, m)' <=> HasNhid(p, j, m) /\ ~(p = q /\ j = k)
    <3>1. \A p \in Ports, j \in Kinds :
             NhidStep(j) \in HaveOf(p)' <=> NhidStep(j) \in HaveOf(p) /\ ~(p = q /\ j = k)
      BY <1>0, <1>3 DEF Gives, x
    <3>2. \A p \in Ports, j \in Kinds : NhidStep(j) \in HaveOf(p)' => InfoOf(p)' = InfoOf(p)
      BY <1>3, ActiveNext DEF Gives
    <3> QED BY <3>1, <3>2 DEF HasNhid
  <2> HIDE DEF n
  <2>3. \A p \in Ports, j \in Kinds : HasNhid(p, j, n) => p = q /\ j = k
    BY <2>1, OneNhid DEF HasNhid
  <2>4. n \notin pool.flow
    BY <2>1 DEF IInv, NhidInv
  <2>5. \A m \in NhIds : m \in pool.nh <=> m \in pool.flow \/ \E p \in Ports, j \in Kinds : HasNhid(p, j, m)
    BY DEF IInv, NhidInv
  <2>6. \A m : HasNhid(q, k, m) => m = n
    BY DEF HasNhid, n
  <2>7. pool'.nh = pool.nh \ {n}
    BY <1>5 DEF n
  <2>8. ASSUME NEW m \in NhIds
        PROVE  m \in pool'.nh <=> m \in pool'.flow \/ \E p \in Ports, j \in Kinds : HasNhid(p, j, m)'
    <3>1. CASE m = n
      <4>1. m \notin pool'.nh /\ m \notin pool'.flow
        BY <1>5, <2>4, <2>7, <3>1
      <4>2. \A p \in Ports, j \in Kinds : ~HasNhid(p, j, m)'
        BY <2>2, <2>3, <3>1
      <4> QED BY <4>1, <4>2
    <3>2. CASE m # n
      <4>1. m \in pool'.nh <=> m \in pool.nh
        BY <2>7, <3>2
      <4>2. \A p \in Ports, j \in Kinds : HasNhid(p, j, m)' <=> HasNhid(p, j, m)
        BY <2>2, <2>6, <3>2
      <4> QED BY <1>5, <2>5, <4>1, <4>2
    <3> QED BY <3>1, <3>2
  <2>9. \A m \in pool'.flow, p \in Ports, j \in Kinds : ~HasNhid(p, j, m)'
    BY <1>5, <2>2 DEF IInv, NhidInv
  <2> QED BY <2>8, <2>9 DEF NhidInv
<1>9. LoopInv'
  BY <1>0, <1>3, <1>5, FramePool DEF IInv
<1>10. /\ PairInv' /\ LocalInv' /\ BindInv'
       /\ OnInv' /\ DefaultInv' /\ UserIdInv' /\ NhInv' /\ RouteInv'
  BY <1>0, <1>1, <1>3, BooksKept, ChipKept
<1> QED BY <1>3, <1>6, <1>7, <1>8, <1>9, <1>10 DEF IInv

(* The flows take and give back ids between two calls.                     *)
LEMMA FlowStep == ASSUME IInv, FlowAllocsNhid \/ FlowReleasesNhid PROVE IInv'
<1>1. tunnel' = tunnel /\ db' = db /\ chip' = chip /\ op' = op
  BY DEF FlowAllocsNhid, FlowReleasesNhid
<1>2. pool \in [iloop : SUBSET ILoops, nh : SUBSET NhIds, flow : SUBSET NhIds]
  BY DEF IInv, RecInv
<1>3. /\ Active' = Active /\ OpInv'
      /\ \A p \in Ports : HaveOf(p)' = HaveOf(p) /\ InfoOf(p)' = InfoOf(p) /\ PairOf(p)' = PairOf(p)
  BY <1>1 DEF Active, OpInv, HaveOf, Have, InfoOf, PairOf, IInv
<1>4. OthersKept("port")
  BY <1>3 DEF OthersKept
<1>5. \A p \in Ports, j \in Kinds : \A m : HasNhid(p, j, m)' <=> HasNhid(p, j, m)
  BY <1>3 DEF HasNhid
<1>6. pool' \in [iloop : SUBSET ILoops, nh : SUBSET NhIds, flow : SUBSET NhIds]
      /\ pool'.iloop = pool.iloop /\ NhidInv'
  <2>1. CASE FlowAllocsNhid
    <3> DEFINE n == Lowest(FreeNhs)
    <3>1. n \in NhIds /\ n \notin pool.nh
      <4>1. FreeNhs \in SUBSET Nat /\ FreeNhs # {}
        BY <2>1, NullFacts DEF FreeNhs, FlowAllocsNhid
      <4>2. n \in FreeNhs
        BY <4>1, LowestProps
      <4> QED BY <4>2 DEF FreeNhs
    <3>2. pool' = [pool EXCEPT !.nh = @ \cup {n}, !.flow = @ \cup {n}]
      BY <2>1 DEF FlowAllocsNhid
    <3> HIDE DEF n
    <3>3. pool'.nh = pool.nh \cup {n} /\ pool'.flow = pool.flow \cup {n} /\ pool'.iloop = pool.iloop
      BY <1>2, <3>2
    <3>4. \A p \in Ports, j \in Kinds : ~HasNhid(p, j, n)
      BY <3>1 DEF IInv, NhidInv
    <3>5. NhidInv'
      BY <1>5, <3>3, <3>4 DEF IInv, NhidInv
    <3> QED BY <1>2, <3>1, <3>2, <3>3, <3>5
  <2>2. CASE FlowReleasesNhid
    <3>1. PICK n \in pool.flow : pool' = [pool EXCEPT !.nh = @ \ {n}, !.flow = @ \ {n}]
      BY <2>2 DEF FlowReleasesNhid
    <3>2. pool'.nh = pool.nh \ {n} /\ pool'.flow = pool.flow \ {n} /\ pool'.iloop = pool.iloop
      BY <1>2, <3>1
    <3>3. \A p \in Ports, j \in Kinds : ~HasNhid(p, j, n)
      BY DEF IInv, NhidInv
    <3>4. NhidInv'
      BY <1>5, <3>2, <3>3 DEF IInv, NhidInv
    <3> QED BY <1>2, <3>1, <3>2, <3>4
  <2> QED BY <2>1, <2>2
<1>7. RecInv'
  BY <1>1, <1>6 DEF IInv, RecInv
<1>8. InfoInv' /\ DistinctInv'
  <2>1. \A p \in Active : p \in Ports
    BY DEF Active
  <2>2. InfoInv'
    BY <1>3, <2>1 DEF IInv, InfoInv
  <2>3. DistinctInv'
    BY <1>3, <2>1 DEF IInv, DistinctInv
  <2> QED BY <2>2, <2>3
<1>9. "port" \in Steps
  BY DEF Steps, Takes
<1>10. LoopInv'
  BY <1>3, <1>4, <1>6, <1>9, FramePool DEF IInv
<1>11. /\ PairInv' /\ LocalInv' /\ BindInv'
       /\ OnInv' /\ DefaultInv' /\ UserIdInv' /\ NhInv' /\ RouteInv'
  BY <1>1, <1>3, <1>4, <1>9, BooksKept, ChipKept
<1> QED BY <1>1, <1>3, <1>6, <1>7, <1>8, <1>10, <1>11 DEF IInv

----------------------------------------------------------------------------
(* The bind port: enabled while someone uses it.                           *)
LEMMA UsedBind ==
    ASSUME IInv, NEW b \in BindPorts
    PROVE  /\ b \in Used(db.bind) <=> BindUsers(b) # {}
           /\ b \in Used(db.bind) <=> b \in chip.l3
<1>1. /\ db.bind \in [BindPorts -> Nat] /\ db.bind[b] = Cardinality(BindUsers(b))
      /\ b \in chip.l3 <=> BindUsers(b) # {}
  BY DEF IInv, RecInv, BindInv
<1>2. IsFiniteSet(BindUsers(b)) /\ Cardinality(BindUsers(b)) \in Nat
  BY UsersFinite
<1>3. Cardinality(BindUsers(b)) = 0 <=> BindUsers(b) = {}
  BY <1>2, FS_EmptySet
<1> QED BY <1>1, <1>2, <1>3 DEF Used

LEMMA EnableBindPortStep == ASSUME IInv, EnableBindPort PROVE IInv'
<1>a. PICK b : b = op.info.bind
  OBVIOUS
<1>1. /\ At("bind") /\ Goto("port") /\ tunnel' = tunnel /\ pool' = pool
      /\ chip' = [chip EXCEPT !.l3 = IF b \in Used(db.bind) THEN @ ELSE @ \cup {b}]
      /\ db' = [db EXCEPT !.bind = AddRef(@, b)]
  BY <1>a DEF EnableBindPort
<1>2. PICK q : q = op.port
  OBVIOUS
<1>3. /\ OpInv' /\ Obtains("bind", q) /\ SameInfo(q) /\ InfoOf(q) = op.info /\ op.info \in Infos
      /\ OthersKept("bind")
  <2>1. "bind" \in Takes /\ "port" \in Takes /\ Ord["port"] = Ord["bind"] + 1
    BY DEF Takes, Ord
  <2> QED BY <1>1, <1>2, <2>1, GotoObtains DEF IInv
<1>4. /\ db \in [local : [Locals -> Nat], pair : SUBSET Pairs, bind : [BindPorts -> Nat]]
      /\ chip \in [on : SUBSET ILoops, dflt : [ILoops -> Ports \cup {Null}],
                 userid : SUBSET ILoops, nh : [NhIds -> ILoops \cup {Null}],
                 route : [Pairs -> [Kinds -> NhIds \cup {Null}]], l3 : SUBSET BindPorts]
  BY DEF IInv, RecInv
<1>5. b \in BindPorts
  BY <1>3, <1>a DEF Infos
<1>6. /\ db'.local = db.local /\ db'.pair = db.pair /\ db'.bind = AddRef(db.bind, b)
      /\ db'.bind \in [BindPorts -> Nat]
      /\ db' \in [local : [Locals -> Nat], pair : SUBSET Pairs, bind : [BindPorts -> Nat]]
  <2>1. AddRef(db.bind, b) \in [BindPorts -> Nat]
    BY <1>4, <1>5 DEF AddRef
  <2> QED BY <1>1, <1>4, <2>1
<1>7. chip'.l3 = chip.l3 \cup {b}
  <2>1. b \in Used(db.bind) <=> b \in chip.l3
    BY <1>5, UsedBind
  <2> QED BY <1>1, <1>4, <2>1
<1>8. /\ chip' \in [on : SUBSET ILoops, dflt : [ILoops -> Ports \cup {Null}],
                 userid : SUBSET ILoops, nh : [NhIds -> ILoops \cup {Null}],
                 route : [Pairs -> [Kinds -> NhIds \cup {Null}]], l3 : SUBSET BindPorts]
      /\ chip'.on = chip.on /\ chip'.dflt = chip.dflt /\ chip'.userid = chip.userid
      /\ chip'.nh = chip.nh /\ chip'.route = chip.route
  BY <1>1, <1>4, <1>5
<1>9. RecInv'
  BY <1>1, <1>6, <1>8 DEF IInv, RecInv
<1>10. InfoInv' /\ DistinctInv'
  <2>1. \A k \in Kinds : "bind" # NhidStep(k)
    BY DEF NhidStep
  <2> QED BY <1>3, <2>1, ObtainsInfo DEF IInv
<1>11. BindInv'
  <2>1. /\ q \notin BindUsers(b)
        /\ \A c : BindUsers(c)' = IF c = b THEN BindUsers(c) \cup {q} ELSE BindUsers(c)
    <3>1. q \in Ports /\ "bind" \notin HaveOf(q) /\ "bind" \in HaveOf(q)' /\ InfoOf(q)'.bind = b
      BY <1>3, <1>a DEF Obtains, SameInfo
    <3>2. \A p \in Ports : p # q => HaveOf(p)' = HaveOf(p) /\ InfoOf(p)' = InfoOf(p)
      BY <1>3 DEF Obtains
    <3> QED BY <3>1, <3>2 DEF BindUsers
  <2>2. /\ AddRef(db.bind, b)[b] = Cardinality(BindUsers(b)')
        /\ \A y \in BindPorts : y # b => AddRef(db.bind, b)[y] = db.bind[y]
    <3> DEFINE S == BindUsers(b)
    <3>1. IsFiniteSet(S) /\ db.bind[b] = Cardinality(S) /\ db.bind \in [BindPorts -> Nat] /\ q \notin S
      BY <1>4, <1>5, <2>1, UsersFinite DEF BindInv, IInv
    <3>2. BindUsers(b)' = S \cup {q}
      BY <2>1
    <3> HIDE DEF S
    <3> QED BY <1>5, <3>1, <3>2, RefUp
  <2> QED BY <1>6, <1>7, <2>1, <2>2 DEF BindInv, IInv
<1>12. "bind" \in Steps
  BY DEF Steps, Takes
<1>13. PairInv' /\ LocalInv'
  BY <1>3, <1>6, <1>12, FrameDb DEF IInv
<1>14. LoopInv' /\ NhidInv' /\ OnInv' /\ DefaultInv' /\ UserIdInv' /\ NhInv' /\ RouteInv'
  BY <1>1, <1>3, <1>8, <1>12, PoolKept, ChipKept
<1> QED BY <1>1, <1>3, <1>9, <1>10, <1>11, <1>13, <1>14 DEF IInv

LEMMA DisableBindPortStep == ASSUME IInv, DisableBindPort PROVE IInv'
<1>a. PICK b : b = op.info.bind
  OBVIOUS
<1>1. /\ Undoing("bind") /\ Done /\ tunnel' = tunnel /\ pool' = pool
      /\ db' = [db EXCEPT !.bind = DelRef(@, b)]
      /\ chip' = [chip EXCEPT !.l3 = IF b \in Used(db'.bind) THEN @ ELSE @ \ {b}]
  BY <1>a DEF DisableBindPort
<1>2. PICK q : q = op.port
  OBVIOUS
<1>3. /\ OpInv' /\ tunnel' \in [Ports -> Infos \cup {Null}] /\ Gives("bind", q)
      /\ InfoOf(q) = op.info /\ op.info \in Infos /\ OthersKept("bind")
  <2>1. tunnel' = IF "bind" = "port" THEN [tunnel EXCEPT ![op.port] = Null] ELSE tunnel
    BY <1>1
  <2> QED BY <1>1, <1>2, <2>1, UndoGives DEF IInv
<1>4. /\ db \in [local : [Locals -> Nat], pair : SUBSET Pairs, bind : [BindPorts -> Nat]]
      /\ chip \in [on : SUBSET ILoops, dflt : [ILoops -> Ports \cup {Null}],
                 userid : SUBSET ILoops, nh : [NhIds -> ILoops \cup {Null}],
                 route : [Pairs -> [Kinds -> NhIds \cup {Null}]], l3 : SUBSET BindPorts]
  BY DEF IInv, RecInv
<1>5. b \in BindPorts
  BY <1>3, <1>a DEF Infos
<1>6. /\ db'.local = db.local /\ db'.pair = db.pair /\ db'.bind = DelRef(db.bind, b)
      /\ db'.bind \in [BindPorts -> Nat]
      /\ db' \in [local : [Locals -> Nat], pair : SUBSET Pairs, bind : [BindPorts -> Nat]]
  <2>1. DelRef(db.bind, b) \in [BindPorts -> Nat]
    BY <1>4, <1>5 DEF DelRef
  <2> QED BY <1>1, <1>4, <2>1
<1>7. chip'.l3 = IF b \in Used(db'.bind) THEN chip.l3 ELSE chip.l3 \ {b}
  BY <1>1, <1>4
<1>8. /\ chip' \in [on : SUBSET ILoops, dflt : [ILoops -> Ports \cup {Null}],
                 userid : SUBSET ILoops, nh : [NhIds -> ILoops \cup {Null}],
                 route : [Pairs -> [Kinds -> NhIds \cup {Null}]], l3 : SUBSET BindPorts]
      /\ chip'.on = chip.on /\ chip'.dflt = chip.dflt /\ chip'.userid = chip.userid
      /\ chip'.nh = chip.nh /\ chip'.route = chip.route
  BY <1>1, <1>4, <1>5
<1>9. RecInv'
  BY <1>1, <1>6, <1>8 DEF IInv, RecInv
<1>10. InfoInv' /\ DistinctInv'
  BY <1>3, GivesInfo DEF IInv
<1>11. BindInv'
  <2>1. /\ q \in BindUsers(b)
        /\ \A c : BindUsers(c)' = IF c = b THEN BindUsers(c) \ {q} ELSE BindUsers(c)
    <3>1. q \in Ports /\ "bind" \in HaveOf(q) /\ InfoOf(q).bind = b
      BY <1>3, <1>a DEF Gives
    <3>2. \A p \in Ports : "bind" \in HaveOf(p)' <=> p # q /\ "bind" \in HaveOf(p)
      BY <1>3 DEF Gives
    <3>3. \A p \in Ports : "bind" \in HaveOf(p)' => InfoOf(p)' = InfoOf(p)
      BY <1>3, ActiveNext DEF Gives
    <3> QED BY <3>1, <3>2, <3>3 DEF BindUsers
  <2>2. /\ DelRef(db.bind, b)[b] = Cardinality(BindUsers(b)')
        /\ \A y \in BindPorts : y # b => DelRef(db.bind, b)[y] = db.bind[y]
        /\ Cardinality(BindUsers(b)') \in Nat
        /\ Cardinality(BindUsers(b)') = 0 <=> BindUsers(b)' = {}
    <3> DEFINE S == BindUsers(b)
    <3>1. IsFiniteSet(S) /\ db.bind[b] = Cardinality(S) /\ db.bind \in [BindPorts -> Nat] /\ q \in S
      BY <1>4, <1>5, <2>1, UsersFinite DEF BindInv, IInv
    <3>2. BindUsers(b)' = S \ {q}
      BY <2>1
    <3> HIDE DEF S
    <3>3. IsFiniteSet(S \ {q})
      BY <3>1, FS_Subset
    <3>4. Cardinality(S \ {q}) \in Nat /\ (Cardinality(S \ {q}) = 0 <=> S \ {q} = {})
      BY <3>3, FS_CardinalityType, FS_EmptySet
    <3> QED BY <1>5, <3>1, <3>2, <3>4, RefDown
  <2>3. b \in Used(db'.bind) <=> BindUsers(b)' # {}
    BY <1>5, <1>6, <2>2 DEF Used
  <2>4. b \in chip.l3
    BY <1>5, <2>1 DEF BindInv, IInv
  <2>5. ASSUME NEW c \in BindPorts
        PROVE  db'.bind[c] = Cardinality(BindUsers(c)') /\ (c \in chip'.l3 <=> BindUsers(c)' # {})
    <3>1. CASE c = b
      BY <1>6, <1>7, <2>2, <2>3, <2>4, <3>1
    <3>2. CASE c # b
      <4>1. BindUsers(c)' = BindUsers(c) /\ db'.bind[c] = db.bind[c] /\ (c \in chip'.l3 <=> c \in chip.l3)
        BY <1>6, <1>7, <2>1, <2>2, <3>2
      <4> QED BY <4>1 DEF BindInv, IInv
    <3> QED BY <3>1, <3>2
  <2> QED BY <2>5 DEF BindInv
<1>12. "bind" \in Steps
  BY DEF Steps, Takes
<1>13. PairInv' /\ LocalInv'
  BY <1>3, <1>6, <1>12, FrameDb DEF IInv
<1>14. LoopInv' /\ NhidInv' /\ OnInv' /\ DefaultInv' /\ UserIdInv' /\ NhInv' /\ RouteInv'
  BY <1>1, <1>3, <1>8, <1>12, PoolKept, ChipKept
<1> QED BY <1>3, <1>9, <1>10, <1>11, <1>13, <1>14 DEF IInv

----------------------------------------------------------------------------
(* The steps that only write the chip leave the books as they are.         *)
ChipTables ==
    [on : SUBSET ILoops, dflt : [ILoops -> Ports \cup {Null}], userid : SUBSET ILoops,
     nh : [NhIds -> ILoops \cup {Null}], route : [Pairs -> [Kinds -> NhIds \cup {Null}]],
     l3 : SUBSET BindPorts]
ChipSteps == {"enable", "default", "userid", "nh_wok", "nh_wk", "route_wok", "route_wk"}
BooksInv ==
    /\ tunnel \in [Ports -> Infos \cup {Null}]
    /\ RecInv /\ OpInv /\ InfoInv /\ DistinctInv
    /\ PairInv /\ LocalInv /\ LoopInv /\ NhidInv /\ BindInv

LEMMA ChipTyped == IInv => chip \in ChipTables
  BY DEF IInv, RecInv, ChipTables

LEMMA ChipObtains ==
    ASSUME IInv, NEW x \in ChipSteps, NEW y \in Takes, At(x), Goto(y), Ord[y] = Ord[x] + 1,
           NEW q, q = op.port, tunnel' = tunnel, db' = db, pool' = pool,
           chip' \in ChipTables, chip'.l3 = chip.l3
    PROVE  /\ BooksInv' /\ OthersKept(x) /\ InfoOf(q) = op.info /\ op.info \in Infos
           /\ q \in Ports /\ Needs[x] \subseteq HaveOf(q) /\ x \notin HaveOf(q)
           /\ \A p \in Ports : HaveOf(p)' = IF p = q THEN HaveOf(p) \cup {x} ELSE HaveOf(p)
           /\ \A p \in Ports : InfoOf(p)' = InfoOf(p)
<1>1. /\ x \in Takes /\ x \in Steps /\ x \notin {"unbind", "bind", "iloop", "nhid_wok", "nhid_wk"}
      /\ \A k \in Kinds : x # NhidStep(k)
  BY DEF ChipSteps, Takes, Steps, NhidStep
<1>2. /\ OpInv' /\ Obtains(x, q) /\ SameInfo(q) /\ InfoOf(q) = op.info /\ op.info \in Infos
      /\ OthersKept(x)
  BY <1>1, GotoObtains DEF IInv
<1>3. InfoInv' /\ DistinctInv'
  BY <1>1, <1>2, ObtainsInfo DEF IInv
<1>4. RecInv'
  BY DEF IInv, RecInv, ChipTables
<1>5. PairInv' /\ LocalInv' /\ BindInv' /\ LoopInv' /\ NhidInv'
  BY <1>1, <1>2, BooksKept, PoolKept
<1>6. BooksInv'
  BY <1>2, <1>3, <1>4, <1>5 DEF BooksInv, IInv
<1>7. \A p \in Ports : InfoOf(p)' = InfoOf(p)
  BY <1>2 DEF Obtains, SameInfo
<1> QED BY <1>2, <1>6, <1>7 DEF Obtains

LEMMA ChipGives ==
    ASSUME IInv, NEW x \in ChipSteps, Undoing(x), Done,
           NEW q, q = op.port, tunnel' = tunnel, db' = db, pool' = pool,
           chip' \in ChipTables, chip'.l3 = chip.l3
    PROVE  /\ BooksInv' /\ OthersKept(x) /\ InfoOf(q) = op.info /\ op.info \in Infos
           /\ q \in Ports /\ x \in HaveOf(q)
           /\ \A p \in Ports : HaveOf(p)' = IF p = q THEN HaveOf(p) \ {x} ELSE HaveOf(p)
           /\ \A p \in Ports : HaveOf(p)' # {} => InfoOf(p)' = InfoOf(p)
           /\ \A y \in HaveOf(q)' : x \notin Needs[y]
<1>1. /\ x \in Steps /\ x \notin {"unbind", "bind", "iloop", "nhid_wok", "nhid_wk", "port"}
      /\ \A k \in Kinds : x # NhidStep(k)
  BY DEF ChipSteps, Takes, Steps, NhidStep
<1>2. /\ OpInv' /\ tunnel' \in [Ports -> Infos \cup {Null}] /\ Gives(x, q)
      /\ InfoOf(q) = op.info /\ op.info \in Infos /\ OthersKept(x)
  <2>1. tunnel' = IF x = "port" THEN [tunnel EXCEPT ![op.port] = Null] ELSE tunnel
    BY <1>1
  <2> QED BY <2>1, UndoGives DEF IInv
<1>3. InfoInv' /\ DistinctInv'
  BY <1>1, <1>2, GivesInfo DEF IInv
<1>4. RecInv'
  BY DEF IInv, RecInv, ChipTables
<1>5. PairInv' /\ LocalInv' /\ BindInv' /\ LoopInv' /\ NhidInv'
  BY <1>1, <1>2, BooksKept, PoolKept
<1>6. BooksInv'
  BY <1>2, <1>3, <1>4, <1>5 DEF BooksInv, IInv
<1>7. \A p \in Ports : HaveOf(p)' # {} => InfoOf(p)' = InfoOf(p)
  BY <1>2, ActiveNext DEF Gives
<1> QED BY <1>2, <1>6, <1>7 DEF Gives

(* What remains is the part of the chip that is about the step.            *)
LEMMA ChipRest ==
    ASSUME IInv, BooksInv', NEW x \in ChipSteps, OthersKept(x)
    PROVE  /\ x # "enable" /\ chip.on \subseteq chip'.on => OnInv'
           /\ x # "default" /\ chip'.dflt = chip.dflt => DefaultInv'
           /\ x # "userid" /\ chip'.userid = chip.userid => UserIdInv'
           /\ x \notin {"nh_wok", "nh_wk"} /\ chip'.nh = chip.nh => NhInv'
           /\ x \notin {"route_wok", "route_wk"} /\ chip'.route = chip.route => RouteInv'
<1>1. x \in Steps /\ OpInv'
  BY DEF ChipSteps, Steps, Takes, BooksInv
<1> QED BY <1>1, ChipKept

LEMMA EnableIloopPortStep == ASSUME IInv, EnableIloopPort PROVE IInv'
<1>1. PICK i : i = op.info.iloop
  OBVIOUS
<1>2. PICK q : q = op.port
  OBVIOUS
<1>3. /\ At("enable") /\ Goto("default") /\ tunnel' = tunnel /\ db' = db /\ pool' = pool
      /\ chip' = [chip EXCEPT !.on = @ \cup {i}]
  BY <1>1 DEF EnableIloopPort, TheLoop
<1>4. "enable" \in ChipSteps /\ "default" \in Takes /\ Ord["default"] = Ord["enable"] + 1
  BY DEF ChipSteps, Takes, Ord
<1>5. i \in ILoops
  <2>1. op.pc = "enable" /\ q \in Ports
    BY <1>2, <1>3 DEF IInv, OpInv, At
  <2>2. "iloop" \in HaveOf(q) /\ InfoOf(q).iloop = i
    BY <1>1, <1>2, <2>1, StepNames DEF HaveOf, Have, InfoOf, Ord
  <2> QED BY <2>1, <2>2, LoopOf
<1>6. /\ chip' \in ChipTables /\ chip'.on = chip.on \cup {i} /\ chip'.dflt = chip.dflt
      /\ chip'.userid = chip.userid /\ chip'.nh = chip.nh /\ chip'.route = chip.route
      /\ chip'.l3 = chip.l3
  BY <1>3, <1>5, ChipTyped DEF ChipTables
<1>7. /\ BooksInv' /\ OthersKept("enable") /\ InfoOf(q) = op.info /\ q \in Ports
      /\ \A p \in Ports : HaveOf(p)' = IF p = q THEN HaveOf(p) \cup {"enable"} ELSE HaveOf(p)
      /\ \A p \in Ports : InfoOf(p)' = InfoOf(p)
  BY <1>2, <1>3, <1>4, <1>6, ChipObtains
<1>8. OnInv'
  BY <1>1, <1>6, <1>7 DEF OnInv, IInv
<1>9. DefaultInv' /\ UserIdInv' /\ NhInv' /\ RouteInv'
  BY <1>4, <1>6, <1>7, ChipRest
<1> QED BY <1>7, <1>8, <1>9 DEF IInv, BooksInv

LEMMA DisableIloopPortStep == ASSUME IInv, DisableIloopPort PROVE IInv'
<1>1. PICK i : i = op.info.iloop
  OBVIOUS
<1>2. PICK q : q = op.port
  OBVIOUS
<1>3. /\ Undoing("enable") /\ Done /\ tunnel' = tunnel /\ db' = db /\ pool' = pool
      /\ chip' = [chip EXCEPT !.on = @ \ {i}]
  BY <1>1 DEF DisableIloopPort, TheLoop
<1>4. "enable" \in ChipSteps
  BY DEF ChipSteps
<1>6. /\ chip' \in ChipTables /\ chip'.on = chip.on \ {i} /\ chip'.dflt = chip.dflt
      /\ chip'.userid = chip.userid /\ chip'.nh = chip.nh /\ chip'.route = chip.route
      /\ chip'.l3 = chip.l3
  BY <1>3, ChipTyped DEF ChipTables
<1>7. /\ BooksInv' /\ OthersKept("enable") /\ InfoOf(q) = op.info /\ q \in Ports
      /\ "enable" \in HaveOf(q)
      /\ \A p \in Ports : HaveOf(p)' = IF p = q THEN HaveOf(p) \ {"enable"} ELSE HaveOf(p)
      /\ \A p \in Ports : HaveOf(p)' # {} => InfoOf(p)' = InfoOf(p)
  BY <1>2, <1>3, <1>4, <1>6, ChipGives
<1>8. OnInv'
  <2> SUFFICES ASSUME NEW p \in Ports, "enable" \in HaveOf(p)' PROVE InfoOf(p)'.iloop \in chip'.on
    BY DEF OnInv
  <2>1. p # q /\ "enable" \in HaveOf(p) /\ InfoOf(p)' = InfoOf(p)
    BY <1>7
  <2>2. "iloop" \in HaveOf(p) /\ "iloop" \in HaveOf(q)
    BY <1>7, <2>1, HaveNeeds DEF Kinds, IInv
  <2>3. InfoOf(p).iloop # i
    BY <1>1, <1>7, <2>1, <2>2, OneLoop
  <2> QED BY <1>6, <2>1, <2>3 DEF OnInv, IInv
<1>9. DefaultInv' /\ UserIdInv' /\ NhInv' /\ RouteInv'
  BY <1>4, <1>6, <1>7, ChipRest
<1> QED BY <1>7, <1>8, <1>9 DEF IInv, BooksInv

(* The internal port of the handler that is past taking it.                *)
LEMMA TheLoopIs ==
    ASSUME IInv, NEW x \in Takes, At(x), Ord[x] > 1, NEW q, q = op.port
    PROVE  q \in Ports /\ "iloop" \in HaveOf(q) /\ op.info.iloop \in ILoops /\ InfoOf(q) = op.info
<1>1. op.pc = x /\ x # "idle" /\ x # "undo" /\ q \in Ports
  BY DEF At, IInv, OpInv, Takes
<1>2. "iloop" \in HaveOf(q) /\ InfoOf(q) = op.info
  <2>1. Ord["iloop"] = 1 /\ "iloop" \in Steps
    BY DEF Ord, Steps, Takes
  <2> QED BY <1>1, <2>1 DEF HaveOf, Have, InfoOf
<1> QED BY <1>1, <1>2, LoopOf

LEMMA AddDefaultStep == ASSUME IInv, AddDefaultEntry PROVE IInv'
<1>1. PICK i : i = op.info.iloop
  OBVIOUS
<1>2. PICK q : q = op.port
  OBVIOUS
<1>3. /\ At("default") /\ Goto("userid") /\ tunnel' = tunnel /\ db' = db /\ pool' = pool
      /\ chip' = [chip EXCEPT !.dflt[i] = q]
  BY <1>1, <1>2 DEF AddDefaultEntry, TheLoop
<1>4. "default" \in ChipSteps /\ "default" \in Takes /\ "userid" \in Takes
      /\ Ord["userid"] = Ord["default"] + 1 /\ Ord["default"] > 1
  BY DEF ChipSteps, Takes, Ord
<1>5. q \in Ports /\ i \in ILoops /\ "iloop" \in HaveOf(q) /\ InfoOf(q).iloop = i
  BY <1>1, <1>2, <1>3, <1>4, TheLoopIs
<1>6. /\ chip' \in ChipTables /\ chip'.dflt = [chip.dflt EXCEPT ![i] = q] /\ chip'.on = chip.on
      /\ chip'.userid = chip.userid /\ chip'.nh = chip.nh /\ chip'.route = chip.route
      /\ chip'.l3 = chip.l3
  BY <1>3, <1>5, ChipTyped DEF ChipTables
<1>7. /\ BooksInv' /\ OthersKept("default")
      /\ \A p \in Ports : HaveOf(p)' = IF p = q THEN HaveOf(p) \cup {"default"} ELSE HaveOf(p)
      /\ \A p \in Ports : InfoOf(p)' = InfoOf(p)
  BY <1>2, <1>3, <1>4, <1>6, ChipObtains
<1>8. DefaultInv'
  <2>1. \A p \in Ports : "default" \in HaveOf(p) => "iloop" \in HaveOf(p)
    BY HaveNeeds DEF Kinds, IInv
  <2>2. \A p \in Ports : "default" \in HaveOf(p) /\ InfoOf(p).iloop = i => p = q
    BY <1>5, <2>1, OneLoop
  <2>3. \A j \in ILoops : chip'.dflt[j] = IF j = i THEN q ELSE chip.dflt[j]
    BY <1>6, ChipTyped DEF ChipTables
  <2> QED BY <1>5, <1>7, <2>2, <2>3 DEF DefaultInv, IInv
<1>9. OnInv' /\ UserIdInv' /\ NhInv' /\ RouteInv'
  BY <1>4, <1>6, <1>7, ChipRest
<1> QED BY <1>7, <1>8, <1>9 DEF IInv, BooksInv

LEMMA DelDefaultStep == ASSUME IInv, DelDefaultEntry PROVE IInv'
<1>1. PICK i : i = op.info.iloop
  OBVIOUS
<1>2. PICK q : q = op.port
  OBVIOUS
<1>3. /\ Undoing("default") /\ Done /\ tunnel' = tunnel /\ db' = db /\ pool' = pool
      /\ chip' = [chip EXCEPT !.dflt[i] = Null]
  BY <1>1 DEF DelDefaultEntry, TheLoop
<1>4. "default" \in ChipSteps
  BY DEF ChipSteps
<1>6. /\ chip' \in ChipTables /\ chip'.dflt = [chip.dflt EXCEPT ![i] = Null] /\ chip'.on = chip.on
      /\ chip'.userid = chip.userid /\ chip'.nh = chip.nh /\ chip'.route = chip.route
      /\ chip'.l3 = chip.l3
  BY <1>3, ChipTyped DEF ChipTables
<1>7. /\ BooksInv' /\ OthersKept("default") /\ InfoOf(q) = op.info /\ q \in Ports
      /\ "default" \in HaveOf(q)
      /\ \A p \in Ports : HaveOf(p)' = IF p = q THEN HaveOf(p) \ {"default"} ELSE HaveOf(p)
      /\ \A p \in Ports : HaveOf(p)' # {} => InfoOf(p)' = InfoOf(p)
  BY <1>2, <1>3, <1>4, <1>6, ChipGives
<1>8. DefaultInv'
  <2>1. \A p \in Ports : "default" \in HaveOf(p) => "iloop" \in HaveOf(p)
    BY HaveNeeds DEF Kinds, IInv
  <2>2. \A p \in Ports : "default" \in HaveOf(p) /\ InfoOf(p).iloop = i => p = q
    BY <1>1, <1>7, <2>1, OneLoop
  <2>3. \A j \in ILoops : chip'.dflt[j] = IF j = i THEN Null ELSE chip.dflt[j]
    BY <1>6, ChipTyped DEF ChipTables
  <2>4. \A p \in Ports : p # Null
    BY NullFacts
  <2>5. \A p \in Ports : "default" \in HaveOf(p)' =>
           p # q /\ "default" \in HaveOf(p) /\ InfoOf(p)' = InfoOf(p) /\ InfoOf(p).iloop # i
    BY <1>7, <2>2
  <2>6. \A p \in Ports : "default" \in HaveOf(p) /\ InfoOf(p).iloop # i =>
           "default" \in HaveOf(p)' /\ InfoOf(p)' = InfoOf(p)
    BY <1>1, <1>7
  <2> QED BY <1>7, <2>2, <2>3, <2>4, <2>5, <2>6 DEF DefaultInv, IInv
<1>9. OnInv' /\ UserIdInv' /\ NhInv' /\ RouteInv'
  BY <1>4, <1>6, <1>7, ChipRest
<1> QED BY <1>7, <1>8, <1>9 DEF IInv, BooksInv

LEMMA SetUserIdStep == ASSUME IInv, SetUserIdEnable PROVE IInv'
<1>1. PICK i : i = op.info.iloop
  OBVIOUS
<1>2. PICK q : q = op.port
  OBVIOUS
<1>3. /\ At("userid") /\ Goto("nhid_wok") /\ tunnel' = tunnel /\ db' = db /\ pool' = pool
      /\ chip' = [chip EXCEPT !.userid = @ \cup {i}]
  BY <1>1 DEF SetUserIdEnable, TheLoop
<1>4. "userid" \in ChipSteps /\ "userid" \in Takes /\ "nhid_wok" \in Takes
      /\ Ord["nhid_wok"] = Ord["userid"] + 1 /\ Ord["userid"] > 1
  BY DEF ChipSteps, Takes, Ord
<1>5. q \in Ports /\ i \in ILoops /\ "iloop" \in HaveOf(q) /\ InfoOf(q).iloop = i
  BY <1>1, <1>2, <1>3, <1>4, TheLoopIs
<1>6. /\ chip' \in ChipTables /\ chip'.userid = chip.userid \cup {i} /\ chip'.on = chip.on
      /\ chip'.dflt = chip.dflt /\ chip'.nh = chip.nh /\ chip'.route = chip.route
      /\ chip'.l3 = chip.l3
  BY <1>3, <1>5, ChipTyped DEF ChipTables
<1>7. /\ BooksInv' /\ OthersKept("userid")
      /\ \A p \in Ports : HaveOf(p)' = IF p = q THEN HaveOf(p) \cup {"userid"} ELSE HaveOf(p)
      /\ \A p \in Ports : InfoOf(p)' = InfoOf(p)
  BY <1>2, <1>3, <1>4, <1>6, ChipObtains
<1>8. UserIdInv'
  <2>1. \A p \in Ports : "userid" \in HaveOf(p)' <=> p = q \/ "userid" \in HaveOf(p)
    BY <1>7
  <2> QED BY <1>5, <1>6, <1>7, <2>1 DEF UserIdInv, IInv
<1>9. OnInv' /\ DefaultInv' /\ NhInv' /\ RouteInv'
  BY <1>4, <1>6, <1>7, ChipRest
<1> QED BY <1>7, <1>8, <1>9 DEF IInv, BooksInv

LEMMA ResetUserIdStep == ASSUME IInv, ResetUserIdEnable PROVE IInv'
<1>1. PICK i : i = op.info.iloop
  OBVIOUS
<1>2. PICK q : q = op.port
  OBVIOUS
<1>3. /\ Undoing("userid") /\ Done /\ tunnel' = tunnel /\ db' = db /\ pool' = pool
      /\ chip' = [chip EXCEPT !.userid = @ \ {i}]
  BY <1>1 DEF ResetUserIdEnable, TheLoop
<1>4. "userid" \in ChipSteps
  BY DEF ChipSteps
<1>6. /\ chip' \in ChipTables /\ chip'.userid = chip.userid \ {i} /\ chip'.on = chip.on
      /\ chip'.dflt = chip.dflt /\ chip'.nh = chip.nh /\ chip'.route = chip.route
      /\ chip'.l3 = chip.l3
  BY <1>3, ChipTyped DEF ChipTables
<1>7. /\ BooksInv' /\ OthersKept("userid") /\ InfoOf(q) = op.info /\ q \in Ports
      /\ "userid" \in HaveOf(q)
      /\ \A p \in Ports : HaveOf(p)' = IF p = q THEN HaveOf(p) \ {"userid"} ELSE HaveOf(p)
      /\ \A p \in Ports : HaveOf(p)' # {} => InfoOf(p)' = InfoOf(p)
  BY <1>2, <1>3, <1>4, <1>6, ChipGives
<1>8. UserIdInv'
  <2>1. \A p \in Ports : "userid" \in HaveOf(p) => "iloop" \in HaveOf(p)
    BY HaveNeeds DEF Kinds, IInv
  <2>2. \A p \in Ports : "userid" \in HaveOf(p) /\ InfoOf(p).iloop = i => p = q
    BY <1>1, <1>7, <2>1, OneLoop
  <2>3. \A p \in Ports : "userid" \in HaveOf(p)' =>
           "userid" \in HaveOf(p) /\ InfoOf(p)' = InfoOf(p) /\ InfoOf(p).iloop # i
    BY <1>7, <2>2
  <2>4. \A p \in Ports : "userid" \in HaveOf(p) /\ InfoOf(p).iloop # i =>
           "userid" \in HaveOf(p)' /\ InfoOf(p)' = InfoOf(p)
    BY <1>1, <1>7
  <2> QED BY <1>6, <2>3, <2>4 DEF UserIdInv, IInv
<1>9. OnInv' /\ DefaultInv' /\ NhInv' /\ RouteInv'
  BY <1>4, <1>6, <1>7, ChipRest
<1> QED BY <1>7, <1>8, <1>9 DEF IInv, BooksInv

(* The decap next hops: what the steps are called, and whose a next hop is.*)
LEMMA NhSteps ==
    ASSUME NEW k \in Kinds
    PROVE  /\ NhStep(k) \in ChipSteps /\ NhStep(k) \in Takes /\ NhStep(k) \in Steps
           /\ NhStep(k) \notin {"enable", "default", "userid", "route_wok", "route_wk"}
           /\ {"iloop", NhidStep(k)} \subseteq Needs[NhStep(k)]
           /\ \A j \in Kinds : NhStep(j) = NhStep(k) => j = k
  BY DEF NhStep, NhidStep, ChipSteps, Takes, Steps, Kinds, Needs, NhNeeds

LEMMA OneNh ==
    ASSUME IInv, NEW p \in Ports, NEW q \in Ports, NEW j \in Kinds, NEW k \in Kinds, NEW n,
           HasNh(p, j, n), HasNhid(q, k, n)
    PROVE  p = q /\ j = k
<1>1. NhidStep(j) \in HaveOf(p)
  BY HaveNeeds DEF HasNh, IInv
<1> QED BY <1>1, OneNhid DEF HasNh, HasNhid

LEMMA CreateDecapNhStep == ASSUME IInv, NEW k \in Kinds, CreateDecapNh(k) PROVE IInv'
<1>1. PICK i : i = op.info.iloop
  OBVIOUS
<1>2. PICK n : n = op.info.nh[k]
  OBVIOUS
<1>3. PICK q : q = op.port
  OBVIOUS
<1>4. PICK y : y = IF k = "wok" THEN "nh_wk" ELSE "route_wok"
  OBVIOUS
<1>5. /\ At(NhStep(k)) /\ Goto(y) /\ tunnel' = tunnel /\ db' = db /\ pool' = pool
      /\ chip' = [chip EXCEPT !.nh[n] = i]
  BY <1>1, <1>2, <1>4 DEF CreateDecapNh, NhStep, TheLoop
<1>6. y \in Takes /\ Ord[y] = Ord[NhStep(k)] + 1 /\ Ord[NhStep(k)] > 1
  BY <1>4 DEF Takes, Ord, NhStep, Kinds
<1>7. q \in Ports /\ i \in ILoops /\ "iloop" \in HaveOf(q) /\ InfoOf(q) = op.info
  BY <1>1, <1>3, <1>5, <1>6, NhSteps, TheLoopIs
<1>8. NhidStep(k) \in HaveOf(q)
  <2>1. NhidStep(k) \in Steps /\ Ord[NhidStep(k)] < Ord[NhStep(k)] /\ NhStep(k) # "idle" /\ NhStep(k) # "undo"
    BY DEF NhidStep, NhStep, Steps, Takes, Ord, Kinds
  <2> QED BY <1>3, <1>5, <2>1 DEF HaveOf, Have, At
<1>9. n \in NhIds
  BY <1>2, <1>7, <1>8, NhidOf
<1>10. /\ chip' \in ChipTables /\ chip'.nh = [chip.nh EXCEPT ![n] = i] /\ chip'.on = chip.on
       /\ chip'.userid = chip.userid /\ chip'.dflt = chip.dflt /\ chip'.route = chip.route
       /\ chip'.l3 = chip.l3
  BY <1>5, <1>7, <1>9, ChipTyped DEF ChipTables
<1>11. /\ BooksInv' /\ OthersKept(NhStep(k))
       /\ \A p \in Ports : HaveOf(p)' = IF p = q THEN HaveOf(p) \cup {NhStep(k)} ELSE HaveOf(p)
       /\ \A p \in Ports : InfoOf(p)' = InfoOf(p)
  BY <1>3, <1>5, <1>6, <1>10, NhSteps, ChipObtains
<1>12. NhInv'
  <2>1. \A m \in NhIds : chip'.nh[m] = IF m = n THEN i ELSE chip.nh[m]
    BY <1>10, ChipTyped DEF ChipTables
  <2>2. \A p \in Ports, j \in Kinds : \A m : HasNh(p, j, m)' <=> HasNh(p, j, m) \/ (p = q /\ j = k /\ m = n)
    <3>1. \A p \in Ports, j \in Kinds :
             NhStep(j) \in HaveOf(p)' <=> NhStep(j) \in HaveOf(p) \/ (p = q /\ j = k)
      BY <1>11, NhSteps
    <3>2. InfoOf(q).nh[k] = n /\ NhStep(k) \notin HaveOf(q)
      <4>1. NhStep(k) \notin HaveOf(q)
        BY <1>3, <1>5, <1>6, <1>10, NhSteps, ChipObtains
      <4> QED BY <1>2, <1>7, <4>1
    <3> QED BY <1>11, <3>1, <3>2 DEF HasNh
  <2>3. HasNhid(q, k, n)
    BY <1>2, <1>7, <1>8 DEF HasNhid
  <2>4. \A p \in Ports, j \in Kinds : HasNh(p, j, n) => p = q /\ j = k
    BY <1>7, <2>3, OneNh
  <2>5. ASSUME NEW m \in NhIds, chip'.nh[m] # Null PROVE \E p \in Ports, j \in Kinds : HasNh(p, j, m)'
    <3>1. CASE m = n
      BY <1>7, <2>2, <3>1
    <3>2. CASE m # n
      BY <2>1, <2>2, <2>5, <3>2 DEF NhInv, IInv
    <3> QED BY <3>1, <3>2
  <2>6. ASSUME NEW m \in NhIds, NEW p \in Ports, NEW j \in Kinds, HasNh(p, j, m)'
        PROVE  chip'.nh[m] = InfoOf(p)'.iloop
    <3>1. CASE m = n
      <4>1. p = q
        BY <2>2, <2>4, <2>6, <3>1
      <4> QED BY <1>1, <1>7, <1>11, <2>1, <3>1, <4>1
    <3>2. CASE m # n
      <4>1. HasNh(p, j, m)
        BY <2>2, <2>6, <3>2
      <4> QED BY <1>11, <2>1, <3>2, <4>1 DEF NhInv, IInv
    <3> QED BY <3>1, <3>2
  <2> QED BY <2>5, <2>6 DEF NhInv
<1>13. OnInv' /\ UserIdInv' /\ DefaultInv' /\ RouteInv'
  BY <1>10, <1>11, NhSteps, ChipRest
<1> QED BY <1>11, <1>12, <1>13 DEF IInv, BooksInv

LEMMA RemoveDecapNhStep == ASSUME IInv, NEW k \in Kinds, RemoveDecapNh(k) PROVE IInv'
<1>2. PICK n : n = op.info.nh[k]
  OBVIOUS
<1>3. PICK q : q = op.port
  OBVIOUS
<1>5. /\ Undoing(NhStep(k)) /\ Done /\ tunnel' = tunnel /\ db' = db /\ pool' = pool
      /\ chip' = [chip EXCEPT !.nh[n] = Null]
  BY <1>2 DEF RemoveDecapNh, NhStep
<1>10. /\ chip' \in ChipTables /\ chip'.nh = [chip.nh EXCEPT ![n] = Null] /\ chip'.on = chip.on
       /\ chip'.userid = chip.userid /\ chip'.dflt = chip.dflt /\ chip'.route = chip.route
       /\ chip'.l3 = chip.l3
  BY <1>5, ChipTyped DEF ChipTables
<1>11. /\ BooksInv' /\ OthersKept(NhStep(k)) /\ InfoOf(q) = op.info /\ q \in Ports
       /\ NhStep(k) \in HaveOf(q)
       /\ \A p \in Ports : HaveOf(p)' = IF p = q THEN HaveOf(p) \ {NhStep(k)} ELSE HaveOf(p)
       /\ \A p \in Ports : HaveOf(p)' # {} => InfoOf(p)' = InfoOf(p)
  BY <1>3, <1>5, <1>10, NhSteps, ChipGives
<1>12. NhInv'
  <2>1. \A m \in NhIds : chip'.nh[m] = IF m = n THEN Null ELSE chip.nh[m]
    BY <1>10, ChipTyped DEF ChipTables
  <2>2. \A p \in Ports, j \in Kinds : \A m : HasNh(p, j, m)' <=> HasNh(p, j, m) /\ ~(p = q /\ j = k)
    <3>1. \A p \in Ports, j \in Kinds :
             NhStep(j) \in HaveOf(p)' <=> NhStep(j) \in HaveOf(p) /\ ~(p = q /\ j = k)
      BY <1>11, NhSteps
    <3>2. \A p \in Ports, j \in Kinds : NhStep(j) \in HaveOf(p)' => InfoOf(p)' = InfoOf(p)
      BY <1>11
    <3> QED BY <3>1, <3>2 DEF HasNh
  <2>3. HasNhid(q, k, n)
    <3>1. NhidStep(k) \in HaveOf(q)
      BY <1>11, HaveNeeds DEF IInv
    <3> QED BY <1>2, <1>11, <3>1 DEF HasNhid
  <2>4. \A p \in Ports, j \in Kinds : HasNh(p, j, n) => p = q /\ j = k
    BY <1>11, <2>3, OneNh
  <2>5. \A m : HasNh(q, k, m) => m = n
    BY <1>2, <1>11 DEF HasNh
  <2>6. ASSUME NEW m \in NhIds, chip'.nh[m] # Null PROVE \E p \in Ports, j \in Kinds : HasNh(p, j, m)'
    <3>1. m # n /\ chip.nh[m] # Null
      BY <2>1, <2>6
    <3>2. PICK p \in Ports, j \in Kinds : HasNh(p, j, m)
      BY <3>1 DEF NhInv, IInv
    <3> QED BY <2>2, <2>5, <3>1, <3>2
  <2>7. ASSUME NEW m \in NhIds, NEW p \in Ports, NEW j \in Kinds, HasNh(p, j, m)'
        PROVE  chip'.nh[m] = InfoOf(p)'.iloop
    <3>1. HasNh(p, j, m) /\ m # n
      BY <2>2, <2>4, <2>7
    <3>2. InfoOf(p)' = InfoOf(p)
      BY <1>11, <2>7 DEF HasNh
    <3> QED BY <2>1, <3>1, <3>2 DEF NhInv, IInv
  <2> QED BY <2>6, <2>7 DEF NhInv
<1>13. OnInv' /\ UserIdInv' /\ DefaultInv' /\ RouteInv'
  BY <1>10, <1>11, NhSteps, ChipRest
<1> QED BY <1>11, <1>12, <1>13 DEF IInv, BooksInv

(* The decap routes: what the steps are called, and whose a route is.      *)
LEMMA RouteSteps ==
    ASSUME NEW k \in Kinds
    PROVE  /\ RouteStep(k) \in ChipSteps /\ RouteStep(k) \in Takes /\ RouteStep(k) \in Steps
           /\ RouteStep(k) \notin {"enable", "default", "userid", "nh_wok", "nh_wk"}
           /\ \A j \in Kinds : RouteStep(j) = RouteStep(k) => j = k
  BY DEF RouteStep, ChipSteps, Takes, Steps, Kinds

LEMMA OneRoute ==
    ASSUME IInv, NEW p \in Ports, NEW q \in Active, NEW k \in Kinds, HasRoute(p, k, PairOf(q))
    PROVE  p = q
<1>1. p \in Active
  BY HaveClosed DEF HasRoute, IInv
<1> QED BY <1>1 DEF HasRoute, DistinctInv, IInv

LEMMA AddDecapRouteStep == ASSUME IInv, NEW k \in Kinds, AddDecapRoute(k) PROVE IInv'
<1>1. PICK t : t = ThePair
  OBVIOUS
<1>2. PICK n : n = op.info.nh[k]
  OBVIOUS
<1>3. PICK q : q = op.port
  OBVIOUS
<1>4. PICK y : y = IF k = "wok" THEN "route_wk" ELSE "bind"
  OBVIOUS
<1>5. /\ At(RouteStep(k)) /\ Goto(y) /\ tunnel' = tunnel /\ db' = db /\ pool' = pool
      /\ chip' = [chip EXCEPT !.route[t][k] = n]
  BY <1>1, <1>2, <1>4 DEF AddDecapRoute, RouteStep
<1>6. y \in Takes /\ Ord[y] = Ord[RouteStep(k)] + 1 /\ Ord[RouteStep(k)] > 1
  BY <1>4 DEF Takes, Ord, RouteStep, Kinds
<1>7. q \in Ports /\ InfoOf(q) = op.info /\ q \in Active
  <2>1. q \in Ports /\ InfoOf(q) = op.info
    BY <1>3, <1>5, <1>6, RouteSteps, TheLoopIs
  <2> QED BY <1>3, <2>1 DEF Active
<1>8. NhidStep(k) \in HaveOf(q)
  <2>1. /\ NhidStep(k) \in Steps /\ Ord[NhidStep(k)] < Ord[RouteStep(k)]
        /\ RouteStep(k) # "idle" /\ RouteStep(k) # "undo"
    BY DEF NhidStep, RouteStep, Steps, Takes, Ord, Kinds
  <2> QED BY <1>3, <1>5, <2>1 DEF HaveOf, Have, At
<1>9. n \in NhIds /\ t \in Pairs /\ PairOf(q) = t
  <2>1. n \in NhIds
    BY <1>2, <1>7, <1>8, NhidOf
  <2>2. InfoOf(q) \in Infos
    BY <1>7, InfoTyped
  <2>3. PairOf(q) = t
    BY <1>1, <1>7 DEF PairOf, ThePair
  <2>4. PairOf(q) \in Pairs
    BY <2>2 DEF PairOf, Pairs, Infos
  <2> QED BY <2>1, <2>3, <2>4
<1>10. /\ chip' \in ChipTables /\ chip'.nh = chip.nh /\ chip'.on = chip.on
       /\ chip'.userid = chip.userid /\ chip'.dflt = chip.dflt /\ chip'.l3 = chip.l3
       /\ \A u \in Pairs, j \in Kinds : chip'.route[u][j] = IF u = t /\ j = k THEN n ELSE chip.route[u][j]
  BY <1>5, <1>9, ChipTyped DEF ChipTables
<1>11. /\ BooksInv' /\ OthersKept(RouteStep(k))
       /\ \A p \in Ports : HaveOf(p)' = IF p = q THEN HaveOf(p) \cup {RouteStep(k)} ELSE HaveOf(p)
       /\ \A p \in Ports : InfoOf(p)' = InfoOf(p)
  BY <1>3, <1>5, <1>6, <1>10, RouteSteps, ChipObtains
<1>12. RouteInv'
  <2>1. \A p \in Ports : PairOf(p)' = PairOf(p)
    BY <1>11 DEF PairOf
  <2>2. \A p \in Ports, j \in Kinds : \A u : HasRoute(p, j, u)' <=> HasRoute(p, j, u) \/ (p = q /\ j = k /\ u = t)
    <3>1. \A p \in Ports, j \in Kinds :
             RouteStep(j) \in HaveOf(p)' <=> RouteStep(j) \in HaveOf(p) \/ (p = q /\ j = k)
      BY <1>11, RouteSteps
    <3>2. RouteStep(k) \notin HaveOf(q)
      BY <1>3, <1>5, <1>6, <1>10, RouteSteps, ChipObtains
    <3> QED BY <1>9, <2>1, <3>1, <3>2 DEF HasRoute
  <2>4. \A p \in Ports, j \in Kinds : HasRoute(p, j, t) => p = q
    BY <1>7, <1>9, OneRoute
  <2>5. ASSUME NEW u \in Pairs, NEW j \in Kinds, chip'.route[u][j] # Null
        PROVE  \E p \in Ports : HasRoute(p, j, u)'
    <3>1. CASE u = t /\ j = k
      BY <1>7, <2>2, <3>1
    <3>2. CASE ~(u = t /\ j = k)
      BY <1>10, <2>2, <2>5, <3>2 DEF RouteInv, IInv
    <3> QED BY <3>1, <3>2
  <2>6. ASSUME NEW u \in Pairs, NEW p \in Ports, NEW j \in Kinds, HasRoute(p, j, u)'
        PROVE  chip'.route[u][j] = InfoOf(p)'.nh[j]
    <3>1. CASE u = t /\ j = k
      <4>1. p = q
        BY <2>2, <2>4, <2>6, <3>1
      <4> QED BY <1>2, <1>7, <1>10, <1>11, <3>1, <4>1
    <3>2. CASE ~(u = t /\ j = k)
      <4>1. HasRoute(p, j, u)
        BY <2>2, <2>6, <3>2
      <4> QED BY <1>10, <1>11, <3>2, <4>1 DEF RouteInv, IInv
    <3> QED BY <3>1, <3>2
  <2> QED BY <2>5, <2>6 DEF RouteInv
<1>13. OnInv' /\ UserIdInv' /\ DefaultInv' /\ NhInv'
  BY <1>10, <1>11, RouteSteps, ChipRest
<1> QED BY <1>11, <1>12, <1>13 DEF IInv, BooksInv

LEMMA DelDecapRouteStep == ASSUME IInv, NEW k \in Kinds, DelDecapRoute(k) PROVE IInv'
<1>1. PICK t : t = ThePair
  OBVIOUS
<1>3. PICK q : q = op.port
  OBVIOUS
<1>5. /\ Undoing(RouteStep(k)) /\ Done /\ tunnel' = tunnel /\ db' = db /\ pool' = pool
      /\ chip' = [chip EXCEPT !.route[t][k] = Null]
  BY <1>1 DEF DelDecapRoute, RouteStep
<1>10. /\ chip' \in ChipTables /\ chip'.nh = chip.nh /\ chip'.on = chip.on
       /\ chip'.userid = chip.userid /\ chip'.dflt = chip.dflt /\ chip'.l3 = chip.l3
       /\ \A u \in Pairs, j \in Kinds :
             chip'.route[u][j] = IF u = t /\ j = k THEN Null ELSE chip.route[u][j]
  BY <1>5, ChipTyped DEF ChipTables
<1>11. /\ BooksInv' /\ OthersKept(RouteStep(k)) /\ InfoOf(q) = op.info /\ q \in Ports
       /\ RouteStep(k) \in HaveOf(q)
       /\ \A p \in Ports : HaveOf(p)' = IF p = q THEN HaveOf(p) \ {RouteStep(k)} ELSE HaveOf(p)
       /\ \A p \in Ports : HaveOf(p)' # {} => InfoOf(p)' = InfoOf(p)
  BY <1>3, <1>5, <1>10, RouteSteps, ChipGives
<1>12. RouteInv'
  <2>1. PairOf(q) = t /\ q \in Active
    BY <1>1, <1>3, <1>11 DEF PairOf, ThePair, Active
  <2>2. \A p \in Ports, j \in Kinds : \A u : HasRoute(p, j, u)' <=> HasRoute(p, j, u) /\ ~(p = q /\ j = k)
    <3>1. \A p \in Ports, j \in Kinds :
             RouteStep(j) \in HaveOf(p)' <=> RouteStep(j) \in HaveOf(p) /\ ~(p = q /\ j = k)
      BY <1>11, RouteSteps
    <3>2. \A p \in Ports, j \in Kinds : RouteStep(j) \in HaveOf(p)' => PairOf(p)' = PairOf(p)
      BY <1>11 DEF PairOf
    <3> QED BY <3>1, <3>2 DEF HasRoute
  <2>4. \A p \in Ports, j \in Kinds : HasRoute(p, j, t) => p = q
    BY <2>1, OneRoute
  <2>5. \A u : HasRoute(q, k, u) => u = t
    BY <2>1 DEF HasRoute
  <2>6. ASSUME NEW u \in Pairs, NEW j \in Kinds, chip'.route[u][j] # Null
        PROVE  \E p \in Ports : HasRoute(p, j, u)'
    <3>1. ~(u = t /\ j = k) /\ chip.route[u][j] # Null
      BY <1>10, <2>6
    <3>2. PICK p \in Ports : HasRoute(p, j, u)
      BY <3>1 DEF RouteInv, IInv
    <3> QED BY <2>2, <2>5, <3>1, <3>2
  <2>7. ASSUME NEW u \in Pairs, NEW p \in Ports, NEW j \in Kinds, HasRoute(p, j, u)'
        PROVE  chip'.route[u][j] = InfoOf(p)'.nh[j]
    <3>1. HasRoute(p, j, u) /\ ~(u = t /\ j = k)
      BY <2>2, <2>4, <2>7
    <3>2. InfoOf(p)' = InfoOf(p)
      BY <1>11, <2>7 DEF HasRoute
    <3> QED BY <1>10, <3>1, <3>2 DEF RouteInv, IInv
  <2> QED BY <2>6, <2>7 DEF RouteInv
<1>13. OnInv' /\ UserIdInv' /\ DefaultInv' /\ NhInv'
  BY <1>10, <1>11, RouteSteps, ChipRest
<1> QED BY <1>11, <1>12, <1>13 DEF IInv, BooksInv

----------------------------------------------------------------------------
(* The steps that change only who is at work or where the port is entered. *)
LEMMA KeepsAll ==
    ASSUME IInv, OpInv', tunnel' \in [Ports -> Infos \cup {Null}], InfoInv', DistinctInv',
           OthersKept("port"), db' = db, pool' = pool, chip' \in ChipTables,
           chip'.l3 = chip.l3, chip.on \subseteq chip'.on, chip'.dflt = chip.dflt,
           chip'.userid = chip.userid, chip'.nh = chip.nh, chip'.route = chip.route
    PROVE  IInv'
<1>1. "port" \in Steps
  BY DEF Steps, Takes
<1>2. PairInv' /\ LocalInv' /\ BindInv' /\ LoopInv' /\ NhidInv'
  BY <1>1, BooksKept, PoolKept
<1>3. OnInv' /\ DefaultInv' /\ UserIdInv' /\ NhInv' /\ RouteInv'
  BY <1>1, ChipKept
<1>4. RecInv'
  BY DEF IInv, RecInv, ChipTables
<1> QED BY <1>2, <1>3, <1>4 DEF IInv

LEMMA SameHaves ==
    ASSUME IInv, Active' = Active, \A p \in Ports : InfoOf(p)' = InfoOf(p),
           \A p \in Ports : \A y : y # "port" => (y \in HaveOf(p)' <=> y \in HaveOf(p))
    PROVE  InfoInv' /\ DistinctInv' /\ OthersKept("port")
<1>1. \A p \in Active : p \in Ports /\ InfoOf(p)' = InfoOf(p) /\ PairOf(p)' = PairOf(p)
  BY DEF Active, PairOf
<1>2. \A p \in Active : /\ "iloop" \in HaveOf(p)' => "iloop" \in HaveOf(p)
                        /\ \A k \in Kinds : NhidStep(k) \in HaveOf(p)' => NhidStep(k) \in HaveOf(p)
  BY <1>1, NhidSteps
<1>3. InfoInv'
  BY <1>1, <1>2 DEF InfoInv, IInv
<1>4. DistinctInv'
  BY <1>1 DEF DistinctInv, IInv
<1>5. OthersKept("port")
  BY DEF OthersKept
<1> QED BY <1>3, <1>4, <1>5

LEMMA SavePortStep == ASSUME IInv, SavePort PROVE IInv'
<1>1. PICK q : q = op.port
  OBVIOUS
<1>2. /\ OpInv' /\ tunnel' \in [Ports -> Infos \cup {Null}] /\ q \in Ports
      /\ \A p \in Ports : HaveOf(p)' = IF p = q THEN HaveOf(p) \cup {"port"} ELSE HaveOf(p)
      /\ \A p \in Ports : InfoOf(p)' = InfoOf(p)
      /\ Active' = Active
  BY <1>1, SaveProps DEF IInv
<1>3. db' = db /\ pool' = pool /\ chip' = chip
  BY DEF SavePort
<1>4. \A p \in Ports : \A y : y # "port" => (y \in HaveOf(p)' <=> y \in HaveOf(p))
  BY <1>2
<1>5. InfoInv' /\ DistinctInv' /\ OthersKept("port")
  BY <1>2, <1>4, SameHaves
<1> QED BY <1>2, <1>3, <1>5, KeepsAll, ChipTyped

LEMMA CreateFailsStep == ASSUME IInv, CreateFails PROVE IInv'
<1>1. /\ OpInv' /\ Active' = Active
      /\ \A p \in Ports : HaveOf(p)' = HaveOf(p) /\ InfoOf(p)' = InfoOf(p)
  BY FailProps DEF IInv
<1>2. tunnel' = tunnel /\ db' = db /\ pool' = pool
  BY DEF CreateFails
<1>3. InfoInv' /\ DistinctInv' /\ OthersKept("port")
  BY <1>1, SameHaves
<1>4. /\ chip' \in ChipTables /\ chip'.l3 = chip.l3 /\ chip.on \subseteq chip'.on
      /\ chip'.dflt = chip.dflt /\ chip'.userid = chip.userid /\ chip'.nh = chip.nh
      /\ chip'.route = chip.route
  <2>1. CASE chip' = chip
    BY <2>1, ChipTyped
  <2>2. CASE At("enable") /\ chip' = [chip EXCEPT !.on = @ \cup {TheLoop}]
    <3>1. "enable" \in Takes /\ Ord["enable"] > 1
      BY DEF Takes, Ord
    <3>2. op.info.iloop \in ILoops
      BY <2>2, <3>1, TheLoopIs
    <3> QED BY <2>2, <3>2, ChipTyped DEF ChipTables, TheLoop
  <2> QED BY <2>1, <2>2 DEF CreateFails
<1> QED BY <1>1, <1>2, <1>3, <1>4, KeepsAll DEF IInv

LEMMA DeletePortStep == ASSUME IInv, NEW q \in Ports, DeletePort(q) PROVE IInv'
<1>1. /\ OpInv' /\ Active' = Active
      /\ \A p \in Ports : HaveOf(p)' = HaveOf(p) /\ InfoOf(p)' = InfoOf(p)
  BY DeleteProps DEF IInv
<1>2. tunnel' = tunnel /\ db' = db /\ pool' = pool /\ chip' = chip
  BY DEF DeletePort
<1>3. InfoInv' /\ DistinctInv' /\ OthersKept("port")
  BY <1>1, SameHaves
<1> QED BY <1>1, <1>2, <1>3, KeepsAll, ChipTyped DEF IInv

LEMMA DestroyPortStep == ASSUME IInv, DestroyPort PROVE IInv'
<1>1. PICK q : q = op.port
  OBVIOUS
<1>2. /\ Undoing("port") /\ Done /\ db' = db /\ pool' = pool /\ chip' = chip
      /\ tunnel' = [tunnel EXCEPT ![op.port] = Null]
  BY DEF DestroyPort
<1>3. /\ OpInv' /\ tunnel' \in [Ports -> Infos \cup {Null}] /\ Gives("port", q)
      /\ OthersKept("port")
  <2>1. tunnel' = IF "port" = "port" THEN [tunnel EXCEPT ![op.port] = Null] ELSE tunnel
    BY <1>2
  <2> QED BY <1>1, <1>2, <2>1, UndoGives DEF IInv
<1>4. InfoInv' /\ DistinctInv'
  BY <1>3, GivesInfo DEF IInv
<1> QED BY <1>2, <1>3, <1>4, KeepsAll, ChipTyped

LEMMA StutterStep == ASSUME IInv, UNCHANGED vars PROVE IInv'
<1>1. tunnel' = tunnel /\ db' = db /\ pool' = pool /\ chip' = chip /\ op' = op
  BY DEF vars
<1>2. /\ Active' = Active /\ OpInv'
      /\ \A p \in Ports : HaveOf(p)' = HaveOf(p) /\ InfoOf(p)' = InfoOf(p)
  BY <1>1 DEF Active, OpInv, HaveOf, Have, InfoOf, IInv
<1>3. InfoInv' /\ DistinctInv' /\ OthersKept("port")
  BY <1>2, SameHaves
<1> QED BY <1>1, <1>2, <1>3, KeepsAll, ChipTyped DEF IInv

(* Every step keeps the invariant.                                         *)
LEMMA NextInv == ASSUME IInv, FreshInv, [Next]_vars PROVE IInv' /\ FreshInv'
<1>1. FreshInv'
  BY FreshNext DEF IInv
<1>2. IInv'
  <2>1. CASE \E p \in Ports, l \in Locals, r \in Remotes, b \in BindPorts : CreatePort(p, l, r, b)
    BY <2>1, CreatePortStep
  <2>2. CASE AllocInternalPort \/ EnableIloopPort \/ AddDefaultEntry \/ SetUserIdEnable
    BY <2>2, AllocInternalPortStep, EnableIloopPortStep, AddDefaultStep, SetUserIdStep
  <2>3. CASE \E k \in Kinds : AllocNhid(k) \/ CreateDecapNh(k) \/ AddDecapRoute(k)
    BY <2>3, AllocNhidStep, CreateDecapNhStep, AddDecapRouteStep
  <2>4. CASE EnableBindPort \/ SavePort \/ CreateFails
    BY <2>4, EnableBindPortStep, SavePortStep, CreateFailsStep
  <2>5. CASE \E p \in Ports : DeletePort(p)
    BY <2>5, DeletePortStep
  <2>6. CASE UnbindAddresses \/ DisableBindPort
    BY <2>6, UnbindStep, DisableBindPortStep
  <2>7. CASE \E k \in Kinds : DelDecapRoute(k) \/ RemoveDecapNh(k) \/ ReleaseNhid(k)
    BY <2>7, DelDecapRouteStep, RemoveDecapNhStep, ReleaseNhidStep
  <2>8. CASE ResetUserIdEnable \/ DelDefaultEntry \/ DisableIloopPort \/ ReleaseInternalPort
    BY <2>8, ResetUserIdStep, DelDefaultStep, DisableIloopPortStep, ReleaseInternalPortStep
  <2>9. CASE DestroyPort
    BY <2>9, DestroyPortStep
  <2>10. CASE FlowAllocsNhid \/ FlowReleasesNhid
    BY <2>10, FlowStep
  <2>11. CASE UNCHANGED vars
    BY <2>11, StutterStep
  <2> QED BY <2>1, <2>2, <2>3, <2>4, <2>5, <2>6, <2>7, <2>8, <2>9, <2>10, <2>11 DEF Next
<1> QED BY <1>1, <1>2

(* The invariant holds at every instant.                                   *)
THEOREM Invariant == Spec => [](IInv /\ FreshInv)
<1>1. Init => IInv /\ FreshInv
  <2>1. Init => FreshInv
    BY DEF Init, FreshInv, Idle
  <2> QED BY <2>1, InitInv
<1>2. IInv /\ FreshInv /\ [Next]_vars => (IInv /\ FreshInv)'
  BY NextInv
<1> QED BY <1>1, <1>2, PTL DEF Spec

----------------------------------------------------------------------------
(* TypeCorrect: every variable has its type at every instant.              *)
THEOREM TypeCorrect == Spec => []TypeOK
<1>1. IInv => TypeOK
  <2> SUFFICES ASSUME IInv PROVE TypeOK
    OBVIOUS
  <2>1. /\ db.local \in [Locals -> Nat] /\ db.pair \subseteq Pairs /\ db.bind \in [BindPorts -> Nat]
        /\ pool.iloop \subseteq ILoops /\ pool.nh \subseteq NhIds /\ pool.flow \subseteq NhIds
    BY DEF IInv, RecInv
  <2>2. /\ chip.on \subseteq ILoops /\ chip.userid \subseteq ILoops /\ chip.l3 \subseteq BindPorts
        /\ chip.dflt \in [ILoops -> Ports \cup {Null}] /\ chip.nh \in [NhIds -> ILoops \cup {Null}]
        /\ chip.route \in [Pairs -> [Kinds -> NhIds \cup {Null}]]
    BY DEF IInv, RecInv
  <2>3. /\ op.pc \in Takes \cup {"idle", "undo"} /\ op.port \in Ports \cup {Null}
        /\ op.info \in Infos \cup {Null}
    BY DEF IInv, OpInv
  <2> QED BY <2>1, <2>2, <2>3 DEF TypeOK, IInv
<1> QED BY <1>1, Invariant, PTL

(* A packet for which there is a decap route reaches the port that has it. *)
LEMMA RouteEnds ==
    ASSUME IInv, NEW p \in Ports, NEW k \in Kinds, NEW q \in Pairs, HasRoute(p, k, q)
    PROVE  DecapAs(q, k) = p
<1>1. /\ RouteStep(k) \in HaveOf(p) /\ PairOf(p) = q
      /\ "iloop" \in HaveOf(p) /\ NhidStep(k) \in HaveOf(p) /\ NhStep(k) \in HaveOf(p)
      /\ "enable" \in HaveOf(p) /\ "default" \in HaveOf(p) /\ "userid" \in HaveOf(p)
  BY HaveNeeds DEF HasRoute, IInv
<1> DEFINE n == InfoOf(p).nh[k]
           i == InfoOf(p).iloop
<1>2. n \in NhIds /\ i \in ILoops /\ n # Null
  BY <1>1, NhidOf, LoopOf, NullFacts
<1>3. chip.route[q][k] = n
  BY DEF IInv, RouteInv
<1>4. chip.nh[n] = i
  BY <1>1, <1>2 DEF IInv, NhInv, HasNh
<1>5. i \in chip.on /\ i \in chip.userid /\ chip.dflt[i] = p
  BY <1>1, <1>2 DEF IInv, OnInv, UserIdInv, DefaultInv
<1> HIDE DEF n, i
<1> QED BY <1>2, <1>3, <1>4, <1>5 DEF DecapAs

(* A tunnel no handler is working on has everything.                       *)
LEMMA SettledHas ==
    ASSUME IInv, NEW p \in Settled
    PROVE  p \in Ports /\ p \in Active /\ HaveOf(p) = Steps /\ InfoOf(p) = tunnel[p] /\ tunnel[p] \in Infos
<1>1. p \in Ports /\ tunnel[p] # Null /\ p # op.port
  BY DEF Settled, Live
<1> QED BY <1>1 DEF Active, HaveOf, InfoOf, IInv

(* TunnelsUndisturbed: at every instant, in the middle of any create,      *)
(* unwinding or delete, the packets of every other tunnel are decapsulated *)
(* and classified as its own, and its bind port is routed.                 *)
THEOREM TunnelsUndisturbed == Spec => []Undisturbed
<1>1. IInv => Undisturbed
  <2> SUFFICES ASSUME IInv, NEW p \in Settled
               PROVE  /\ tunnel[p].bind \in chip.l3
                      /\ \A k \in Kinds : DecapAs(<<tunnel[p].local, tunnel[p].remote>>, k) = p
    BY DEF Undisturbed
  <2>1. p \in Ports /\ HaveOf(p) = Steps /\ InfoOf(p) = tunnel[p] /\ tunnel[p] \in Infos
    BY SettledHas
  <2>2. tunnel[p].bind \in chip.l3
    <3>1. p \in BindUsers(tunnel[p].bind) /\ tunnel[p].bind \in BindPorts
      BY <2>1, StepNames DEF BindUsers, Infos
    <3> QED BY <3>1 DEF IInv, BindInv
  <2>3. <<tunnel[p].local, tunnel[p].remote>> \in Pairs
        /\ PairOf(p) = <<tunnel[p].local, tunnel[p].remote>>
    BY <2>1 DEF Pairs, Infos, PairOf
  <2>4. ASSUME NEW k \in Kinds PROVE DecapAs(<<tunnel[p].local, tunnel[p].remote>>, k) = p
    <3>1. HasRoute(p, k, PairOf(p))
      BY <2>1, StepNames DEF HasRoute
    <3>2. DecapAs(PairOf(p), k) = p
      BY <2>1, <2>3, <3>1, RouteEnds
    <3> QED BY <2>3, <3>2
  <2> QED BY <2>2, <2>4
<1> QED BY <1>1, Invariant, PTL

(* RoutesLeadHome: a decap route that is in the chip ends at the port with *)
(* its addresses, whichever step of a handler was the last.                *)
THEOREM RoutesLeadHome == Spec => []NoDeadEnd
<1>1. IInv => NoDeadEnd
  <2> SUFFICES ASSUME IInv, NEW q \in Pairs, NEW k \in Kinds, chip.route[q][k] # Null
               PROVE  \E p \in Ports :
                          /\ DecapAs(q, k) = p
                          /\ LET t == IF p = op.port THEN op.info ELSE tunnel[p]
                             IN  t # Null /\ q = <<t.local, t.remote>>
    BY DEF NoDeadEnd
  <2>1. PICK p \in Ports : HasRoute(p, k, q)
    BY DEF IInv, RouteInv
  <2>2. DecapAs(q, k) = p
    BY <2>1, RouteEnds
  <2>3. q = PairOf(p) /\ p \in Active
    BY <2>1, HaveClosed DEF HasRoute, IInv
  <2>4. InfoOf(p) # Null
    BY <2>3, InfoTyped, InfoAssumption
  <2> QED BY <2>2, <2>3, <2>4 DEF PairOf, InfoOf
<1> QED BY <1>1, Invariant, PTL

(* Between two calls every port either has everything or nothing.          *)
LEMMA IdleHas ==
    ASSUME IInv, op = Idle
    PROVE  /\ Live = Active /\ Live \subseteq Ports /\ IsFiniteSet(Live)
           /\ \A p \in Ports : InfoOf(p) = tunnel[p] /\ \A x \in Steps : x \in HaveOf(p) <=> p \in Live
           /\ \A p \in Live : tunnel[p] \in Infos /\ tunnel[p].iloop \in ILoops
           /\ \A p \in Live, k \in Kinds : tunnel[p].nh[k] \in NhIds
<1>1. op.port = Null /\ Null \notin Ports
  BY NullFacts DEF Idle
<1>2. Live = Active /\ Live \subseteq Ports
  BY <1>1 DEF Live, Active
<1>3. \A p \in Ports : InfoOf(p) = tunnel[p] /\ \A x \in Steps : x \in HaveOf(p) <=> p \in Live
  BY <1>1 DEF InfoOf, HaveOf, Live
<1>4. IsFiniteSet(Live)
  BY <1>2, NullFacts, FS_Subset
<1>5. \A p \in Live : tunnel[p] \in Infos /\ tunnel[p].iloop \in ILoops
  BY <1>2, <1>3, InfoTyped, LoopOf, StepNames
<1>6. \A p \in Live, k \in Kinds : tunnel[p].nh[k] \in NhIds
  BY <1>2, <1>3, NhidOf, StepNames
<1> QED BY <1>2, <1>3, <1>4, <1>5, <1>6

(* As many things as ports, if each port has its own.                      *)
LEMMA SameNumber ==
    ASSUME NEW S, IsFiniteSet(S), NEW f, \A a, b \in S : f[a] = f[b] => a = b
    PROVE  /\ IsFiniteSet({f[a] : a \in S}) /\ Cardinality({f[a] : a \in S}) = Cardinality(S)
<1> DEFINE T == {f[a] : a \in S}
           g == [a \in S |-> f[a]]
<1>1. g \in [S -> T]
  OBVIOUS
<1>2. \A a, b \in S : g[a] = g[b] => a = b
  OBVIOUS
<1>3. \A t \in T : \E a \in S : g[a] = t
  OBVIOUS
<1> HIDE DEF g, T
<1>4. g \in Bijection(S, T)
  BY <1>1, <1>2, <1>3, Fun_IsBij
<1>5. ExistsBijection(S, T)
  BY <1>4, Fun_ExistsBij
<1>6. IsFiniteSet(T) /\ Cardinality(T) = Cardinality(S)
  BY <1>5, FS_Bijection
<1> QED BY <1>6 DEF T

LEMMA RefsExactFromInv == ASSUME IInv PROVE RefsExact
<1> SUFFICES ASSUME op = Idle
             PROVE  /\ \A l \in Locals : db.local[l] = Cardinality({p \in Live : tunnel[p].local = l})
                    /\ \A b \in BindPorts : db.bind[b] = Cardinality({p \in Live : tunnel[p].bind = b})
                    /\ db.pair = {<<tunnel[p].local, tunnel[p].remote>> : p \in Live}
                    /\ chip.l3 = {tunnel[p].bind : p \in Live}
  BY DEF RefsExact
<1>1. /\ Live = Active /\ Live \subseteq Ports
      /\ \A p \in Ports : InfoOf(p) = tunnel[p] /\ \A x \in Steps : x \in HaveOf(p) <=> p \in Live
      /\ \A p \in Live : tunnel[p] \in Infos
  BY IdleHas
<1>2. \A l : LocalUsers(l) = {p \in Live : tunnel[p].local = l}
  BY <1>1, StepNames DEF LocalUsers
<1>3. \A b : BindUsers(b) = {p \in Live : tunnel[p].bind = b}
  BY <1>1, StepNames DEF BindUsers
<1>4. db.pair = {<<tunnel[p].local, tunnel[p].remote>> : p \in Live}
  <2>1. db.pair \subseteq Pairs /\ \A p \in Live : <<tunnel[p].local, tunnel[p].remote>> \in Pairs
    BY <1>1 DEF IInv, RecInv, Pairs, Infos
  <2>2. \A q \in Pairs : q \in db.pair <=> \E p \in Live : <<tunnel[p].local, tunnel[p].remote>> = q
    BY <1>1, StepNames DEF IInv, PairInv, PairOf
  <2> QED BY <2>1, <2>2
<1>5. chip.l3 = {tunnel[p].bind : p \in Live}
  <2>1. chip.l3 \subseteq BindPorts /\ \A p \in Live : tunnel[p].bind \in BindPorts
    BY <1>1 DEF IInv, RecInv, Infos
  <2>2. \A b \in BindPorts : b \in chip.l3 <=> \E p \in Live : tunnel[p].bind = b
    BY <1>3 DEF IInv, BindInv
  <2> QED BY <2>1, <2>2
<1> QED BY <1>2, <1>3, <1>4, <1>5 DEF IInv, LocalInv, BindInv

LEMMA NothingLeftFromInv == ASSUME IInv PROVE NothingLeft
<1> SUFFICES ASSUME op = Idle
             PROVE  /\ pool.iloop = {tunnel[p].iloop : p \in Live}
                    /\ pool.nh = TunnelNhs \cup pool.flow
                    /\ Cardinality(pool.iloop) = Cardinality(Live)
                    /\ Cardinality(pool.nh) = 2 * Cardinality(Live) + Cardinality(pool.flow)
                    /\ {n \in NhIds : chip.nh[n] # Null} = TunnelNhs
                    /\ chip.userid = pool.iloop
                    /\ {i \in ILoops : chip.dflt[i] # Null} = pool.iloop
                    /\ {q \in Pairs : \E k \in Kinds : chip.route[q][k] # Null} = db.pair
  BY DEF NothingLeft
<1>1. /\ Live = Active /\ Live \subseteq Ports /\ IsFiniteSet(Live)
      /\ \A p \in Ports : InfoOf(p) = tunnel[p] /\ \A x \in Steps : x \in HaveOf(p) <=> p \in Live
      /\ \A p \in Live : tunnel[p] \in Infos /\ tunnel[p].iloop \in ILoops
      /\ \A p \in Live, k \in Kinds : tunnel[p].nh[k] \in NhIds
  BY IdleHas
<1>2. /\ pool.iloop \subseteq ILoops /\ pool.nh \subseteq NhIds /\ pool.flow \subseteq NhIds
      /\ chip.userid \subseteq ILoops /\ chip.dflt \in [ILoops -> Ports \cup {Null}]
      /\ db.pair \subseteq Pairs
  BY DEF IInv, RecInv
<1>3. pool.iloop = {tunnel[p].iloop : p \in Live}
  <2>1. \A i \in ILoops : i \in pool.iloop <=> \E p \in Live : tunnel[p].iloop = i
    BY <1>1, StepNames DEF IInv, LoopInv
  <2> QED BY <1>1, <1>2, <2>1
<1>4. chip.userid = pool.iloop
  <2>1. \A i \in ILoops : i \in chip.userid <=> \E p \in Live : tunnel[p].iloop = i
    BY <1>1, StepNames DEF IInv, UserIdInv
  <2> QED BY <1>1, <1>2, <1>3, <2>1
<1>5. {i \in ILoops : chip.dflt[i] # Null} = pool.iloop
  <2>1. \A i \in ILoops, p \in Ports : chip.dflt[i] = p <=> p \in Live /\ tunnel[p].iloop = i
    BY <1>1, StepNames DEF IInv, DefaultInv
  <2>2. \A i \in ILoops : chip.dflt[i] # Null <=> \E p \in Ports : chip.dflt[i] = p
    BY <1>2, NullFacts
  <2> QED BY <1>1, <1>3, <2>1, <2>2
<1>6. \A p \in Ports, k \in Kinds : \A n : /\ HasNhid(p, k, n) <=> p \in Live /\ tunnel[p].nh[k] = n
                                           /\ HasNh(p, k, n) <=> p \in Live /\ tunnel[p].nh[k] = n
  BY <1>1, StepNames DEF HasNhid, HasNh
<1>7. \A n : n \in TunnelNhs <=> \E p \in Ports, k \in Kinds : HasNhid(p, k, n)
  BY <1>1, <1>6 DEF TunnelNhs
<1>8. TunnelNhs \subseteq NhIds
  BY <1>1 DEF TunnelNhs
<1>9. pool.nh = TunnelNhs \cup pool.flow /\ TunnelNhs \cap pool.flow = {}
  BY <1>2, <1>7, <1>8 DEF IInv, NhidInv
<1>10. {n \in NhIds : chip.nh[n] # Null} = TunnelNhs
  <2>1. ASSUME NEW n \in NhIds PROVE chip.nh[n] # Null <=> n \in TunnelNhs
    <3>1. ASSUME chip.nh[n] # Null PROVE n \in TunnelNhs
      BY <1>6, <1>7, <3>1 DEF IInv, NhInv
    <3>2. ASSUME n \in TunnelNhs PROVE chip.nh[n] # Null
      <4>1. PICK p \in Ports, k \in Kinds : HasNhid(p, k, n)
        BY <1>7, <3>2
      <4>2. HasNh(p, k, n) /\ p \in Live
        BY <1>6, <4>1
      <4>3. chip.nh[n] = tunnel[p].iloop
        BY <1>1, <4>2 DEF IInv, NhInv
      <4> QED BY <1>1, <4>2, <4>3, NullFacts
    <3> QED BY <3>1, <3>2
  <2> QED BY <1>8, <2>1
<1>11. {q \in Pairs : \E k \in Kinds : chip.route[q][k] # Null} = db.pair
  <2>1. \A p \in Ports, k \in Kinds : \A q : HasRoute(p, k, q) <=> p \in Live /\ PairOf(p) = q
    BY <1>1, StepNames DEF HasRoute
  <2>2. \A q \in Pairs : q \in db.pair <=> \E p \in Live : PairOf(p) = q
    BY <1>1, StepNames DEF IInv, PairInv
  <2>3. ASSUME NEW q \in Pairs
        PROVE  (\E k \in Kinds : chip.route[q][k] # Null) <=> \E p \in Live : PairOf(p) = q
    <3>1. ASSUME NEW k \in Kinds, chip.route[q][k] # Null PROVE \E p \in Live : PairOf(p) = q
      BY <1>1, <2>1, <3>1 DEF IInv, RouteInv
    <3>2. ASSUME NEW p \in Live, PairOf(p) = q PROVE chip.route[q]["wok"] # Null
      <4>1. "wok" \in Kinds /\ p \in Ports
        BY <1>1 DEF Kinds
      <4>2. HasRoute(p, "wok", q)
        BY <2>1, <3>2, <4>1
      <4>3. chip.route[q]["wok"] = tunnel[p].nh["wok"]
        BY <1>1, <4>1, <4>2 DEF IInv, RouteInv
      <4> QED BY <1>1, <4>1, <4>3, NullFacts
    <3>3. "wok" \in Kinds
      BY DEF Kinds
    <3> QED BY <3>1, <3>2, <3>3
  <2> QED BY <1>2, <2>2, <2>3
<1>12. Cardinality(pool.iloop) = Cardinality(Live)
  <2> DEFINE f == [p \in Live |-> tunnel[p].iloop]
  <2>1. \A p, r \in Live : f[p] = f[r] => p = r
    BY <1>1, OneLoop, StepNames
  <2>2. {f[p] : p \in Live} = pool.iloop
    BY <1>3
  <2> HIDE DEF f
  <2>3. Cardinality({f[p] : p \in Live}) = Cardinality(Live)
    BY <1>1, <2>1, SameNumber
  <2> QED BY <2>2, <2>3
<1>13. Cardinality(pool.nh) = 2 * Cardinality(Live) + Cardinality(pool.flow)
  <2> DEFINE f == [p \in Live |-> tunnel[p].nh["wok"]]
             g == [p \in Live |-> tunnel[p].nh["wk"]]
             F == {f[p] : p \in Live}
             G == {g[p] : p \in Live}
  <2>1. "wok" \in Kinds /\ "wk" \in Kinds /\ \A k \in Kinds : k = "wok" \/ k = "wk"
    BY DEF Kinds
  <2>2. \A p, r \in Live, j, k \in Kinds : tunnel[p].nh[j] = tunnel[r].nh[k] => p = r /\ j = k
    BY <1>1, OneNhid, StepNames
  <2>3. \A p, r \in Live : f[p] = f[r] => p = r
    BY <2>1, <2>2
  <2>4. \A p, r \in Live : g[p] = g[r] => p = r
    BY <2>1, <2>2
  <2>5. F \cap G = {}
    BY <2>1, <2>2
  <2>6. TunnelNhs = F \cup G
    BY <2>1 DEF TunnelNhs
  <2>7. IsFiniteSet(F) /\ Cardinality(F) = Cardinality(Live)
    <3> HIDE DEF f
    <3> QED BY <1>1, <2>3, SameNumber
  <2>8. IsFiniteSet(G) /\ Cardinality(G) = Cardinality(Live)
    <3> HIDE DEF g
    <3> QED BY <1>1, <2>4, SameNumber
  <2> HIDE DEF F, G
  <2>9. /\ IsFiniteSet(F \cup G)
        /\ Cardinality(F \cup G) = Cardinality(F) + Cardinality(G) - Cardinality(F \cap G)
    BY <2>7, <2>8, FS_Union
  <2>10. Cardinality({}) = 0 /\ Cardinality(Live) \in Nat
    BY <1>1, FS_EmptySet, FS_CardinalityType
  <2>11. IsFiniteSet(TunnelNhs) /\ Cardinality(TunnelNhs) = 2 * Cardinality(Live)
    <3>1. Cardinality(F \cap G) = 0
      BY <2>5, <2>10
    <3>2. Cardinality(F \cup G) = Cardinality(Live) + Cardinality(Live) - 0
      BY <2>7, <2>8, <2>9, <3>1
    <3>3. Cardinality(F \cup G) = 2 * Cardinality(Live)
      BY <2>10, <3>2
    <3> QED BY <2>6, <2>9, <3>3
  <2>12. IsFiniteSet(pool.flow) /\ Cardinality(pool.flow) \in Nat
    BY <1>2, NullFacts, FS_Subset, FS_CardinalityType
  <2>13. Cardinality(TunnelNhs \cup pool.flow)
            = Cardinality(TunnelNhs) + Cardinality(pool.flow) - Cardinality(TunnelNhs \cap pool.flow)
    BY <2>11, <2>12, FS_Union
  <2>14. Cardinality(TunnelNhs \cap pool.flow) = 0
    BY <1>9, <2>10
  <2>15. Cardinality(TunnelNhs \cup pool.flow) = 2 * Cardinality(Live) + Cardinality(pool.flow) - 0
    BY <2>11, <2>13, <2>14
  <2>16. Cardinality(TunnelNhs \cup pool.flow) = 2 * Cardinality(Live) + Cardinality(pool.flow)
    BY <2>10, <2>12, <2>15
  <2> QED BY <1>9, <2>16
<1> QED BY <1>3, <1>4, <1>5, <1>9, <1>10, <1>11, <1>12, <1>13

(* BooksAreExact: between two calls, after any failures, every reference   *)
(* count, pool, table and chip entry is exactly what the tunnels and flows *)
(* that exist account for, and no resource belongs to two of them.         *)
THEOREM BooksAreExact == Spec => []BooksExact
<1>1. IInv => BooksExact
  BY RefsExactFromInv, NothingLeftFromInv DEF BooksExact
<1> QED BY <1>1, Invariant, PTL

=============================================================================
