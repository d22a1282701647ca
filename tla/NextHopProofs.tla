---------------------------- MODULE NextHopProofs ----------------------------
(***************************************************************************)
(* What TLAPS proves about NextHop, for any rules and lists of actions and *)
(* any size of the pools.                                                  *)
(***************************************************************************)
EXTENDS NextHop, FiniteSetTheorems, WellFoundedInduction, TLAPS

Building == {"group", "map", "member", "install", "extra", "installed"}

(* The ids and offsets behind a group and behind a member.                 *)
GroupRes(info) == {<<"nh", info.main.nhid>>, <<"met", info.main.offset>>}
NhRes(nh)      == {<<"nh", nh.nhid>>} \cup ({"word"} \X Freed(nh))

(* What is held of info when members k .. are left, and the group or not;  *)
(* j is the number of a member, 0 the group.                               *)
HeldIn(info, k, gone, j, x) ==
    \/ j = 0 /\ info.use_mcast /\ ~gone /\ x \in GroupRes(info)
    \/ j \in DOMAIN info.members /\ k <= j /\ x \in NhRes(info.members[j])

From(o) == IF Releasing(o) THEN op.k ELSE 1
Gone(o) == Releasing(o) /\ op.pc = "end"
Has(o, j, x) == o \in Owners /\ Holds(o) /\ HeldIn(Info(o), From(o), Gone(o), j, x)

Taken == ({"nh"} \X pool.nh) \cup ({"word"} \X pool.word) \cup ({"met"} \X pool.met)

(* What is held is taken, and by one only.                                 *)
ResInv ==
    /\ \A o, j, x : Has(o, j, x) => x \in Taken
    /\ \A o, j, p, i, x : Has(o, j, x) /\ Has(p, i, x) => o = p /\ i = j

(* What is held is in the chip.                                            *)
ChipInv ==
    \A o \in Owners : Holds(o) =>
        /\ \A j \in DOMAIN Info(o).members : From(o) <= j =>
              LET nh == Info(o).members[j]
              IN /\ nh.nhid \in NhIds /\ hwnh[nh.nhid] # Null
                 /\ hwnh[nh.nhid].words = Freed(nh)
        /\ (Info(o).use_mcast /\ ~Gone(o)) =>
              /\ Info(o).main.nhid \in NhIds /\ Info(o).main.offset \in Mets
              /\ group[Info(o).main.nhid] # Null

(* There are no members without a group.                                   *)
GroupInv == \A o \in Owners : Holds(o) => Info(o).use_mcast \/ Info(o).members = <<>>

(* What a handler has in hand where it is.                                 *)
Loser == IF op.mode = "undo" THEN "op" ELSE op.r
OpInv ==
    /\ op.pc = "idle" => op = Idle
    /\ op.pc # "idle" => op.r \in Rules /\ op.mode \in {"add", "modify", "del", "undo"}
    /\ op.pc \in Building => op.mode \in {"add", "modify"} /\ op.list \in Lists[op.r]
    /\ (op.pc # "idle" /\ op.mode = "add") => rule[op.r] = Null
    /\ (op.pc # "idle" /\ op.mode \in {"modify", "del"}) => rule[op.r] # Null
    /\ (op.pc # "idle" /\ op.mode = "del") => op.new = NoInfo
    /\ op.pc = "delete" => op.mode = "del" /\ op.rel = rule[op.r] /\ op.k = 1
    /\ op.pc \in {"release", "end"} =>
          op.mode \in {"modify", "del", "undo"} /\ op.rel = Info(Loser) /\ op.k >= 1
    /\ op.pc = "group" => ~op.new.use_mcast
    /\ op.pc \in {"map", "member"} => op.new.use_mcast
    /\ op.pc \in {"install", "extra", "installed"} => op.new.use_mcast \/ op.new.main = Drop

(* Every output of the list up to here has a member, or is for the CPU.    *)
MapInv ==
    /\ op.pc \in {"group", "map"} => Outputs(op.list) # {} /\ op.i >= 1
    /\ op.pc = "group" => op.i = 1
    /\ (op.pc = "map" /\ \E i \in Outputs(op.list) : i < op.i) => op.cpu \/ op.new.members # <<>>
    /\ op.pc = "member" => op.k \in 1 .. Len(op.new.members)

IInv == TablesOK /\ ResInv /\ ChipInv /\ GroupInv /\ OpInv /\ MapInv

(* A rule has all its entries from when it is added until it is deleted,   *)
(* and a handler the ones it has come to.                                  *)
Whole(r) == chip[<<r, "main">>] # Null /\ (r \in AnyType => chip[<<r, "extra">>] # Null)
Removing(r) == op.pc # "idle" /\ op.mode = "del" /\ op.r = r
PresentInv ==
    /\ \A r \in Rules : (rule[r] # Null /\ ~Removing(r)) => Whole(r)
    /\ op.pc = "extra" => op.r \in AnyType /\ chip[<<op.r, "main">>] # Null
    /\ op.pc = "installed" => Whole(op.r)
----------------------------------------------------------------------------

(* Every nonempty set of naturals has a least element, so the pools give   *)
(* out what they have.                                                     *)
LEMMA LowestIn ==
    ASSUME NEW S, S \subseteq Nat, S # {}
    PROVE  Lowest(S) \in S
<1>1. PICK b \in S : \A c \in S : ~(<<c, b>> \in OpToRel(<, Nat))
  BY WFMin, NatLessThanWellFounded
<1>2. \A c \in S : ~(c < b)
  BY <1>1 DEF OpToRel
<1>3. \A c \in S : b <= c
  BY <1>2
<1> QED BY <1>3 DEF Lowest

(* What the pools give out is free.                                        *)
LEMMA FreeIds ==
    ASSUME TablesOK
    PROVE  /\ FreeNhs # {} => Lowest(FreeNhs) \in NhIds \ pool.nh
           /\ FreeMets # {} => Lowest(FreeMets) \in Mets \ pool.met
<1>1. NhIds \subseteq Nat /\ Mets \subseteq Nat
  BY PoolAssumption
<1>2. FreeNhs \subseteq Nat /\ FreeMets \subseteq Nat
  BY <1>1 DEF FreeNhs, FreeMets
<1>3. /\ FreeNhs # {} => Lowest(FreeNhs) \in FreeNhs
      /\ FreeMets # {} => Lowest(FreeMets) \in FreeMets
  BY <1>2, LowestIn
<1> QED BY <1>3 DEF FreeNhs, FreeMets

(* The words of a block are free, and in the pool.                         *)
LEMMA FreeBlock ==
    ASSUME TablesOK, NEW n \in {1, 2}, FreeWords(n) # {}
    PROVE  /\ Lowest(FreeWords(n)) \in Words \ pool.word /\ Lowest(FreeWords(n)) # 0
           /\ Span(Lowest(FreeWords(n)), n) \subseteq Words \ pool.word
           /\ n = 1 => Span(Lowest(FreeWords(n)), n) = {Lowest(FreeWords(n))}
<1>1. Words \subseteq Nat /\ 0 \notin Words
  BY PoolAssumption
<1>2. FreeWords(n) \subseteq Words \ pool.word
  BY DEF FreeWords, Bases
<1>3. PICK b : b = Lowest(FreeWords(n))
  OBVIOUS
<1>4. b \in FreeWords(n)
  BY <1>1, <1>2, <1>3, LowestIn
<1>5. b \in Words \ pool.word /\ b \in Nat /\ b # 0 /\ \A j \in 0 .. n - 1 : b + j \in Words \ pool.word
  BY <1>1, <1>4 DEF FreeWords, Bases
<1>6. \A w \in b .. (b + n - 1) : w - b \in 0 .. n - 1 /\ b + (w - b) = w
  BY <1>5
<1>7. b .. (b + n - 1) \subseteq Words \ pool.word
  <2> SUFFICES ASSUME NEW w \in b .. (b + n - 1) PROVE w \in Words \ pool.word
    OBVIOUS
  <2>1. PICK j : j = w - b
    OBVIOUS
  <2>2. j \in 0 .. n - 1 /\ b + j = w
    BY <1>6, <2>1
  <2> QED BY <1>5, <2>2
<1>8. n = 1 => b .. (b + n - 1) = {b}
  BY <1>5
<1> QED BY <1>3, <1>5, <1>7, <1>8 DEF Span

(* The actions of a list combine to edits the chip knows.                  *)
LEMMA CombineProps ==
    ASSUME NEW c \in SUBSET Flags, NEW a \in Acts
    PROVE  /\ Combine(c, a) # Null => Combine(c, a) \in SUBSET Flags
           /\ a.type = "OUTPUT" => Combine(c, a) = c
<1>1. a.type = "OUTPUT" \/ a.type \in Fields
  BY DEF Acts
<1>2. CASE a.type = "OUTPUT"
  BY <1>2 DEF Combine
<1>3. CASE a.type \in Fields
  BY <1>3 DEF Combine, Fields, Flags, Strips
<1> QED BY <1>1, <1>2, <1>3

----------------------------------------------------------------------------
(* The records a handler starts from.                                      *)
LEMMA Constants ==
    /\ NoNh \in Nh /\ Drop \in Nh /\ NoInfo \in Infos /\ Idle \in Ops
    /\ Drop.nhid = DROP /\ NoInfo.members = <<>> /\ ~NoInfo.use_mcast
    /\ Idle.new = NoInfo /\ Idle.pc = "idle"
<1>1. NoNh \in Nh /\ Drop \in Nh /\ Drop.nhid = DROP
  BY DEF NoNh, Nh, Drop, Types
<1>2. NoInfo \in Infos /\ NoInfo.members = <<>> /\ ~NoInfo.use_mcast
  BY <1>1 DEF NoInfo, Infos
<1>3. Idle \in Ops /\ Idle.new = NoInfo /\ Idle.pc = "idle"
  BY <1>2 DEF Idle, Ops, Pcs
<1> QED BY <1>1, <1>2, <1>3

(* The variables when a handler has not come to an end.                    *)
LEMMA Typed ==
    ASSUME TablesOK
    PROVE  /\ op \in Ops /\ op.new \in Infos /\ op.rel \in Infos /\ op.pc \in Pcs
           /\ op.i \in Nat /\ op.k \in Nat /\ op.list \in Seq(Acts) /\ op.combo \in SUBSET Flags
           /\ op.cpu \in BOOLEAN /\ op.r \in Rules \cup {Null}
           /\ op.new.members \in Seq(Nh) /\ op.rel.members \in Seq(Nh)
           /\ op.new.main \in Nh /\ op.rel.main \in Nh
           /\ op.new.outs \in Nat /\ op.rel.outs \in Nat /\ op.new.tuns \in Nat /\ op.rel.tuns \in Nat
<1>1. op \in Ops
  BY DEF TablesOK
<1>2. /\ op.new \in Infos /\ op.rel \in Infos /\ op.pc \in Pcs
      /\ op.i \in Nat /\ op.k \in Nat /\ op.list \in Seq(Acts) /\ op.combo \in SUBSET Flags
      /\ op.cpu \in BOOLEAN /\ op.r \in Rules \cup {Null}
  BY <1>1 DEF Ops
<1> QED BY <1>1, <1>2 DEF Infos

(* Every owner has a record of next hops.                                  *)
LEMMA InfoTyped ==
    ASSUME TablesOK, NEW o \in Owners, Holds(o)
    PROVE  /\ Info(o) \in Infos /\ Info(o).members \in Seq(Nh) /\ Info(o).main \in Nh
           /\ DOMAIN Info(o).members = 1 .. Len(Info(o).members) /\ Len(Info(o).members) \in Nat
           /\ \A j \in DOMAIN Info(o).members : Info(o).members[j] \in Nh
           /\ Info(o).outs \in Nat /\ Info(o).tuns \in Nat
<1>1. Info(o) \in Infos
  BY Typed DEF Owners, Holds, Info, TablesOK
<1> QED BY <1>1 DEF Infos

----------------------------------------------------------------------------
(* Who holds what depends on what the handler holds, and on what it        *)
(* releases.                                                               *)
Bare(info)  == ~info.use_mcast /\ info.members = <<>>
SameHold(o) ==
    /\ Holds(o)' <=> Holds(o)
    /\ Holds(o) => \/ /\ Info(o)' = Info(o) /\ From(o)' = From(o)
                      /\ Gone(o)' <=> Gone(o)
                   \/ Bare(Info(o)) /\ Bare(Info(o))'

LEMMA HasSame ==
    ASSUME NEW o \in Owners, SameHold(o), NEW j, NEW x
    PROVE  Has(o, j, x)' <=> Has(o, j, x)
<1>1. CASE Holds(o) /\ Info(o)' = Info(o) /\ From(o)' = From(o) /\ (Gone(o)' <=> Gone(o))
  BY <1>1 DEF SameHold, Has, HeldIn, GroupRes, NhRes, Freed, Span, Size, Owners
<1>2. CASE Holds(o) /\ Bare(Info(o)) /\ Bare(Info(o))'
  <2>1. ~Has(o, j, x)
    BY <1>2 DEF Has, HeldIn, Bare
  <2>2. ~Has(o, j, x)'
    BY <1>2 DEF Has, HeldIn, Bare
  <2> QED BY <2>1, <2>2
<1>3. CASE ~Holds(o)
  BY <1>3 DEF SameHold, Has
<1> QED BY <1>1, <1>2, <1>3 DEF SameHold

LEMMA Untouched ==
    ASSUME ResInv, ChipInv, GroupInv, \A o \in Owners : SameHold(o),
           Taken \subseteq Taken', hwnh' = hwnh,
           \A n \in NhIds : group[n] # Null => group'[n] # Null
    PROVE  ResInv' /\ ChipInv' /\ GroupInv'
<1>1. \A o, j, x : Has(o, j, x)' <=> Has(o, j, x)
  <2>1. \A o, j, x : Has(o, j, x) => o \in Owners
    BY DEF Has
  <2>2. \A o, j, x : Has(o, j, x)' => o \in Owners
    BY DEF Has, Owners
  <2> QED BY <2>1, <2>2, HasSame
<1>2. ResInv'
  BY <1>1 DEF ResInv
<1>3. ChipInv'
  <2> SUFFICES ASSUME NEW o \in Owners, Holds(o)'
               PROVE  /\ \A j \in DOMAIN Info(o)'.members : From(o)' <= j =>
                            LET nh == Info(o)'.members[j]
                            IN /\ nh.nhid \in NhIds /\ hwnh'[nh.nhid] # Null
                               /\ hwnh'[nh.nhid].words = Freed(nh)
                      /\ (Info(o)'.use_mcast /\ ~Gone(o)') =>
                            /\ Info(o)'.main.nhid \in NhIds /\ Info(o)'.main.offset \in Mets
                            /\ group'[Info(o)'.main.nhid] # Null
    BY DEF ChipInv, Owners, Freed, Span, Size
  <2>1. CASE Bare(Info(o))'
    <3>1. Info(o)'.members = <<>> /\ ~Info(o)'.use_mcast
      BY <2>1 DEF Bare
    <3> QED BY <3>1
  <2>2. CASE /\ Holds(o) /\ Info(o)' = Info(o) /\ From(o)' = From(o)
             /\ Gone(o)' <=> Gone(o)
    BY <2>2 DEF ChipInv
  <2> QED BY <2>1, <2>2 DEF SameHold
<1>4. GroupInv'
  BY DEF GroupInv, SameHold, Owners, Bare
<1> QED BY <1>2, <1>3, <1>4

(* A step in which the handler neither gets nor gives back anything.       *)
Quiet ==
    /\ rule' = rule /\ (op'.new = op.new \/ (Bare(op.new) /\ Bare(op'.new)))
    /\ op.pc \notin {"release", "end"}
    /\ op'.pc \in {"release", "end"} => op'.pc = "release" /\ op'.k = 1

LEMMA QuietHolds ==
    ASSUME Quiet
    PROVE  \A o \in Owners : SameHold(o)
<1> SUFFICES ASSUME NEW o \in Owners PROVE SameHold(o)
  OBVIOUS
<1>1. (Holds(o)' <=> Holds(o)) /\ (Info(o)' = Info(o) \/ (Bare(Info(o)) /\ Bare(Info(o))'))
  BY DEF Quiet, Holds, Info, Bare
<1>2. ~Releasing(o) /\ From(o) = 1 /\ ~Gone(o)
  BY DEF Quiet, Releasing, From, Gone
<1>3. From(o)' = 1 /\ ~Gone(o)'
  BY DEF Quiet, Releasing, From, Gone
<1> QED BY <1>1, <1>2, <1>3 DEF SameHold


(* The pools only grow.                                                    *)
Grown == pool' \in [nh : SUBSET NhIds, word : SUBSET Words, met : SUBSET Mets] /\ Taken \subseteq Taken'

LEMMA GrownSame == ASSUME TablesOK, pool' = pool PROVE Grown
  BY DEF Grown, TablesOK, Taken

LEMMA GrownBy ==
    ASSUME TablesOK, NEW N \in SUBSET NhIds, NEW W \in SUBSET Words, NEW M \in SUBSET Mets,
           pool' = [nh |-> pool.nh \cup N, word |-> pool.word \cup W, met |-> pool.met \cup M]
    PROVE  Grown
  BY DEF Grown, TablesOK, Taken

(* A handler that gives up leaves everything as it is, and starts to       *)
(* release.                                                                *)
LEMMA UndoStep ==
    ASSUME IInv, op.pc \in Building, op' = Undone(op), Grown,
           UNCHANGED <<rule, hwnh, group>>,
           chip' \in [Entries -> Redirects \cup {Null}],
           \A e \in Entries : chip'[e] # Null => chip'[e].list \in Lists[e[1]],
           cnt' \in [outs : Nat, gre : Nat, qinq : Nat]
    PROVE  IInv'
<1>0. TablesOK /\ OpInv
  BY DEF IInv
<1>1. /\ op' \in Ops /\ op'.pc = "release" /\ op'.mode = "undo" /\ op'.rel = op.new /\ op'.k = 1
      /\ op'.new = op.new /\ op'.r = op.r
  BY <1>0, Typed DEF Undone, Ops, Pcs
<1>2. TablesOK'
  BY <1>0, <1>1 DEF TablesOK, Grown
<1>3. op.pc \notin {"release", "end", "idle"} /\ op.r \in Rules
  BY <1>0 DEF Building, OpInv
<1>4. Quiet
  BY <1>1, <1>3 DEF Quiet
<1>5. ResInv' /\ ChipInv' /\ GroupInv'
  BY <1>4, QuietHolds, Untouched DEF IInv, Grown
<1>6. OpInv'
  BY <1>1, <1>3 DEF OpInv, Building, Loser, Info
<1>7. MapInv'
  BY <1>1 DEF MapInv
<1> QED BY <1>2, <1>5, <1>6, <1>7 DEF IInv


----------------------------------------------------------------------------
(* The outputs of a list are finitely many.                                *)
LEMMA OutputsFinite ==
    ASSUME NEW l \in Seq(Acts), NEW S, S \subseteq Outputs(l)
    PROVE  IsFiniteSet(S) /\ Cardinality(S) \in Nat
<1>1. Len(l) \in Nat /\ DOMAIN l = 1 .. Len(l)
  OBVIOUS
<1>2. IsFiniteSet(1 .. Len(l))
  BY <1>1, FS_Interval
<1>3. S \subseteq 1 .. Len(l)
  BY <1>1 DEF Outputs
<1>4. IsFiniteSet(S)
  BY <1>2, <1>3, FS_Subset
<1> QED BY <1>4, FS_CardinalityType

LEMMA Products ==
    ASSUME NEW a \in Nat, NEW n \in Nat \ {0}, NEW b \in Nat
    PROVE  a + (n - 1) * b \in Nat /\ a <= a + (n - 1) * b
<1>1. PICK m : m = n - 1
  OBVIOUS
<1>2. m \in Nat
  BY <1>1
<1>3. m * b \in Nat
  BY <1>2
<1> QED BY <1>1, <1>3

LEMMA Counts ==
    ASSUME NEW l \in Seq(Acts)
    PROVE  /\ OutputCount(l) \in Nat /\ TunnelCount(l) \in Nat
           /\ OutputCount(l) # 0 => Outputs(l) # {}
           /\ OutputCount(l) = 0 => TunnelCount(l) = 0
<1>1. PICK a, b : a = Cardinality(Outputs(l)) /\ b = Cardinality({i \in Outputs(l) : l[i].to = "ALL"})
  OBVIOUS
<1>2. a \in Nat /\ b \in Nat /\ TunnelCount(l) \in Nat
  BY <1>1, OutputsFinite DEF TunnelCount
<1>3. NPorts \in Nat \ {0}
  BY PoolAssumption
<1>4. OutputCount(l) = a + (NPorts - 1) * b
  BY <1>1 DEF OutputCount
<1>5. OutputCount(l) \in Nat
  BY <1>2, <1>3, <1>4, Products
<1>6. ASSUME Outputs(l) = {} PROVE OutputCount(l) = 0
  <2>1. a = 0 /\ b = 0
    BY <1>1, <1>6, FS_EmptySet
  <2> QED BY <1>3, <1>4, <2>1
<1>7. ASSUME OutputCount(l) = 0 PROVE TunnelCount(l) = 0
  <2>1. a <= OutputCount(l)
    BY <1>2, <1>3, <1>4, Products
  <2>2. a = 0
    BY <1>2, <1>7, <2>1
  <2>3. IsFiniteSet(Outputs(l))
    BY OutputsFinite
  <2>4. Outputs(l) = {}
    BY <1>1, <2>2, <2>3, FS_EmptySet
  <2>5. {i \in Outputs(l) : l[i].to = "TUNNEL"} = {}
    BY <2>4
  <2> QED BY <2>5, FS_EmptySet DEF TunnelCount
<1> QED BY <1>2, <1>5, <1>6, <1>7

(* The start of a handler: there is nothing in its hands.                  *)
LEMMA BeginStep ==
    ASSUME IInv, NEW r \in Rules, NEW l \in Lists[r], AddFlow(r, l) \/ ModifyFlow(r, l)
    PROVE  IInv'
<1>1. PICK mode \in {"add", "modify"} :
        Begin(mode, r, l) /\ UNCHANGED chip /\ (rule[r] = Null <=> mode = "add")
  BY DEF AddFlow, ModifyFlow
<1> DEFINE n == [NoInfo EXCEPT !.outs = OutputCount(l), !.tuns = TunnelCount(l)]
           m == [n EXCEPT !.main = Drop]
           o == [Idle EXCEPT !.mode = mode, !.r = r, !.list = l, !.i = 1, !.new = n]
<1>0. TablesOK /\ OpInv /\ op.pc = "idle" /\ op = Idle
  BY <1>1 DEF IInv, OpInv, Begin
<1>2. l \in Seq(Acts)
  BY ListAssumption
<1>3. /\ n \in Infos /\ m \in Infos /\ n.members = <<>> /\ m.members = <<>> /\ ~n.use_mcast /\ ~m.use_mcast
      /\ m.main = Drop /\ n.outs = OutputCount(l)
  BY <1>2, Counts, Constants DEF Infos, NoInfo
<1>4. UNCHANGED <<rule, chip, hwnh, group, pool, cnt>>
  BY <1>1 DEF Begin
<1>5. \/ op' = [o EXCEPT !.pc = "install", !.new.main = Drop]
      \/ op' = [o EXCEPT !.pc = "group"] /\ Outputs(l) # {}
      \/ op' = Undone(o)
  <2>1. (n.outs = 0 /\ Room(0, 0)) \/ ~Room(n.outs, n.tuns) \/ n.outs # 0
    <3>1. n.outs = 0 => cnt.outs + n.outs = cnt.outs + 0
      OBVIOUS
    <3>2. n.tuns \in Nat /\ cnt.gre \in Nat /\ GreMax \in Nat
      BY <1>0, <1>2, Counts, PoolAssumption DEF TablesOK, NoInfo
    <3>3. cnt.gre + n.tuns <= GreMax => cnt.gre + 0 <= GreMax
      BY <3>2
    <3> QED BY <3>1, <3>3 DEF Room
  <2>2. n.outs # 0 => Outputs(l) # {}
    BY <1>2, <1>3, Counts
  <2> QED BY <1>1, <2>1, <2>2 DEF Begin
<1> HIDE DEF n, m
<1>6. /\ op' \in Ops /\ op'.r = r /\ op'.mode \in {mode, "undo"} /\ op'.list = l /\ op'.i = 1
      /\ op'.new \in {n, m} /\ op'.pc \in {"install", "group", "release"}
      /\ op'.pc = "install" => op'.new = m /\ op'.mode = mode
      /\ op'.pc = "group" => op'.mode = mode /\ Outputs(l) # {}
      /\ op'.pc = "release" => op'.mode = "undo" /\ op'.rel = op'.new /\ op'.k = 1
  <2>1. o \in Ops /\ o.new = n
    BY <1>2, <1>3, Constants DEF Ops, Idle
  <2>2. [o EXCEPT !.pc = "install", !.new.main = Drop] = [o EXCEPT !.pc = "install", !.new = m]
    BY <2>1 DEF m, n, Ops
  <2>3. CASE op' = [o EXCEPT !.pc = "install", !.new = m]
    BY <1>3, <2>1, <2>3 DEF Ops, Pcs, Idle
  <2>4. CASE op' = [o EXCEPT !.pc = "group"] /\ Outputs(l) # {}
    BY <1>3, <2>1, <2>4 DEF Ops, Pcs, Idle
  <2>5. CASE op' = Undone(o)
    BY <1>3, <2>1, <2>5 DEF Ops, Pcs, Idle, Undone
  <2> QED BY <1>5, <2>2, <2>3, <2>4, <2>5
<1>7. TablesOK'
  BY <1>0, <1>4, <1>6 DEF TablesOK
<1>8. op'.new.members = <<>> /\ ~op'.new.use_mcast
  BY <1>3, <1>6
<1>9. OpInv' /\ MapInv'
  <2>1. op'.list \in Lists[op'.r] /\ op'.pc # "idle"
    BY <1>6
  <2>2. OpInv'
    BY <1>1, <1>3, <1>4, <1>6, <1>8, <2>1 DEF OpInv, Building, Loser, Info
  <2> QED BY <1>6, <2>2 DEF MapInv
<1>10. Quiet
  BY <1>0, <1>4, <1>6, <1>8, Constants DEF Quiet, Bare
<1>11. Taken \subseteq Taken'
  BY <1>4 DEF Taken
<1>12. ResInv' /\ ChipInv' /\ GroupInv'
  BY <1>4, <1>10, <1>11, QuietHolds, Untouched DEF IInv
<1> QED BY <1>7, <1>9, <1>12 DEF IInv


(* A delete takes the entries of its rule out of the chip.                 *)
LEMMA DelFlowStep ==
    ASSUME IInv, NEW r \in Rules, DelFlow(r)
    PROVE  IInv'
<1>0. /\ TablesOK /\ OpInv /\ op.pc = "idle" /\ op = Idle /\ rule[r] # Null
      /\ UNCHANGED <<rule, hwnh, group, pool, cnt>>
  BY DEF IInv, OpInv, DelFlow
<1>1. rule[r] \in Infos
  BY <1>0 DEF TablesOK
<1>2. /\ op' \in Ops /\ op'.r = r /\ op'.mode = "del" /\ op'.rel = rule[r] /\ op'.k = 1
      /\ op'.new = NoInfo /\ op'.pc \in {"delete", "release"}
  BY <1>1, Constants DEF DelFlow, Deleting, Ops, Pcs, Idle
<1>3. chip' \in [Entries -> Redirects \cup {Null}]
      /\ \A e \in Entries : chip'[e] # Null => chip'[e].list \in Lists[e[1]]
  BY <1>0 DEF DelFlow, TablesOK
<1>4. TablesOK'
  BY <1>0, <1>2, <1>3 DEF TablesOK
<1>5. OpInv' /\ MapInv'
  <2>1. r # "op"
    BY NullAssumption
  <2> QED BY <1>0, <1>2, <2>1 DEF OpInv, MapInv, Building, Loser, Info
<1>6. Quiet
  BY <1>0, <1>2, Constants DEF Quiet
<1>7. ResInv' /\ ChipInv' /\ GroupInv'
  BY <1>0, <1>6, QuietHolds, Untouched DEF IInv, Taken
<1> QED BY <1>4, <1>5, <1>7 DEF IInv

LEMMA DelExtraStep ==
    ASSUME IInv, DelExtra
    PROVE  IInv'
<1>0. /\ TablesOK /\ OpInv /\ op.pc = "delete" /\ UNCHANGED <<rule, hwnh, group, pool, cnt>>
  BY DEF IInv, DelExtra
<1>1. op.r \in Rules /\ op.mode = "del" /\ rule[op.r] # Null /\ op.new = NoInfo /\ op.rel = rule[op.r] /\ op.k = 1
  BY <1>0 DEF OpInv
<1>2. /\ op' \in Ops /\ op'.r = op.r /\ op'.mode = "del" /\ op'.rel = op.rel /\ op'.k = 1
      /\ op'.new = op.new /\ op'.pc = "release"
  BY <1>0, <1>1, Typed DEF DelExtra, Ops, Pcs
<1>3. chip' \in [Entries -> Redirects \cup {Null}]
      /\ \A e \in Entries : chip'[e] # Null => chip'[e].list \in Lists[e[1]]
  BY <1>0 DEF DelExtra, TablesOK
<1>4. TablesOK'
  BY <1>0, <1>2, <1>3 DEF TablesOK
<1>5. OpInv' /\ MapInv'
  <2>1. op.r # "op"
    BY <1>1, NullAssumption
  <2> QED BY <1>0, <1>1, <1>2, <2>1 DEF OpInv, MapInv, Building, Loser, Info
<1>6. Quiet
  BY <1>0, <1>2 DEF Quiet
<1>7. ResInv' /\ ChipInv' /\ GroupInv'
  BY <1>0, <1>6, QuietHolds, Untouched DEF IInv, Taken
<1> QED BY <1>4, <1>5, <1>7 DEF IInv

----------------------------------------------------------------------------
(* The failures of the allocators: what they have taken stays taken.       *)
LEMMA SizeIs == \A t : Size(t) \in {1, 2}
  BY DEF Size

LEMMA CountedTyped ==
    ASSUME TablesOK, NEW t
    PROVE  /\ Counted(t) \in [outs : Nat, gre : Nat, qinq : Nat]
           /\ UncountedNh(t) \in [outs : Nat, gre : Nat, qinq : Nat]
<1>1. cnt \in [outs : Nat, gre : Nat, qinq : Nat]
  BY DEF TablesOK
<1>2. \A a \in Nat : Less(a, 1) \in Nat
  BY DEF Less
<1>3. Counted(t) \in [outs : Nat, gre : Nat, qinq : Nat]
  BY <1>1 DEF Counted
<1> QED BY <1>1, <1>2, <1>3 DEF UncountedNh

LEMMA FlexFails ==
    ASSUME TablesOK, NEW c, AllocFlexFails(c)
    PROVE  Grown /\ cnt' \in [outs : Nat, gre : Nat, qinq : Nat]
<1>1. CASE ~Fits(c)
  BY <1>1, GrownSame DEF AllocFlexFails, TablesOK
<1>2. CASE Fits(c)
  <2>1. PICK t : t = TypeOf(c)
    OBVIOUS
  <2>2. PICK z : z = Size(t) /\ z \in {1, 2}
    BY SizeIs
  <2> DEFINE N == IF FreeWords(z) = {} \/ FreeNhs = {} THEN {} ELSE {Lowest(FreeNhs)}
             W == IF FreeWords(z) = {} THEN {} ELSE Span(Lowest(FreeWords(z)), z)
  <2>3. N \in SUBSET NhIds
    BY FreeIds
  <2>4. W \in SUBSET Words
    BY <2>2, FreeBlock
  <2>5. pool' = [pool EXCEPT !.word = IF FreeWords(z) = {} THEN @ ELSE @ \cup Span(Lowest(FreeWords(z)), z),
                             !.nh = IF FreeWords(z) = {} \/ FreeNhs = {} THEN @ ELSE @ \cup {Lowest(FreeNhs)}]
    BY <1>2, <2>1, <2>2 DEF AllocFlexFails
  <2>6. pool' = [nh |-> pool.nh \cup N, word |-> pool.word \cup W, met |-> pool.met \cup {}]
    BY <2>5 DEF TablesOK
  <2>7. cnt' = Counted(t)
    BY <1>2, <2>1 DEF AllocFlexFails
  <2> HIDE DEF N, W
  <2>8. PICK M \in SUBSET Mets : M = {}
    OBVIOUS
  <2>9. Grown
    BY <2>3, <2>4, <2>6, <2>8, GrownBy
  <2> QED BY <2>7, <2>9, CountedTyped
<1> QED BY <1>1, <1>2

LEMMA EncapFails ==
    ASSUME TablesOK, AllocEncapFails
    PROVE  Grown /\ cnt' \in [outs : Nat, gre : Nat, qinq : Nat]
<1>1. CASE pool' = pool
  BY <1>1, GrownSame DEF AllocEncapFails, TablesOK
<1>2. CASE FreeNhs # {} /\ pool' = [pool EXCEPT !.nh = @ \cup {Lowest(FreeNhs)}]
  <2>1. {Lowest(FreeNhs)} \in SUBSET NhIds
    BY <1>2, FreeIds
  <2>2. pool' = [nh |-> pool.nh \cup {Lowest(FreeNhs)}, word |-> pool.word \cup {}, met |-> pool.met \cup {}]
    BY <1>2 DEF TablesOK
  <2>3. PICK N \in SUBSET NhIds, W \in SUBSET Words, M \in SUBSET Mets :
            N = {Lowest(FreeNhs)} /\ W = {} /\ M = {}
    BY <2>1
  <2>4. Grown
    BY <2>2, <2>3, GrownBy
  <2> QED BY <2>4 DEF AllocEncapFails, TablesOK
<1> QED BY <1>1, <1>2 DEF AllocEncapFails

LEMMA GroupFails ==
    ASSUME IInv, AllocGroupFails
    PROVE  IInv'
<1>0. TablesOK /\ op.pc \in Building /\ op' = Undone(op) /\ UNCHANGED <<rule, chip, hwnh, group, cnt>>
  BY DEF IInv, AllocGroupFails, Building
<1> DEFINE N == IF FreeNhs = {} THEN {} ELSE {Lowest(FreeNhs)}
           M == IF FreeNhs = {} \/ FreeMets = {} THEN {} ELSE {Lowest(FreeMets)}
<1>1. N \in SUBSET NhIds /\ M \in SUBSET Mets
  BY <1>0, FreeIds
<1>2. pool' = [nh |-> pool.nh \cup N, word |-> pool.word \cup {}, met |-> pool.met \cup M]
  BY <1>0 DEF AllocGroupFails, TablesOK
<1>3. Grown
  <2> HIDE DEF N, M
  <2> QED BY <1>0, <1>1, <1>2, GrownBy
<1> QED BY <1>0, <1>3, UndoStep DEF TablesOK

LEMMA CpuFails ==
    ASSUME IInv, AllocToCpuFails
    PROVE  IInv'
<1>0. TablesOK /\ op.pc \in Building /\ op' = Undone(op) /\ UNCHANGED <<rule, chip, hwnh, group, cnt>>
  BY DEF IInv, AllocToCpuFails, MapDone, Building
<1>1. CASE pool' = pool
  BY <1>0, <1>1, GrownSame, UndoStep DEF TablesOK
<1>2. CASE FreeNhs # {} /\ pool' = [pool EXCEPT !.nh = @ \cup {Lowest(FreeNhs)}]
  <2>1. {Lowest(FreeNhs)} \in SUBSET NhIds
    BY <1>0, <1>2, FreeIds
  <2>2. pool' = [nh |-> pool.nh \cup {Lowest(FreeNhs)}, word |-> pool.word \cup {}, met |-> pool.met \cup {}]
    BY <1>0, <1>2 DEF TablesOK
  <2>4. PICK N \in SUBSET NhIds, W \in SUBSET Words, M \in SUBSET Mets :
            N = {Lowest(FreeNhs)} /\ W = {} /\ M = {}
    BY <2>1
  <2>3. Grown
    BY <1>0, <2>2, <2>4, GrownBy
  <2> QED BY <1>0, <2>3, UndoStep DEF TablesOK
<1> QED BY <1>1, <1>2 DEF AllocToCpuFails

(* Every way of giving up.                                                 *)
LEMMA Failures ==
    ASSUME IInv, \/ AllocGroupFails \/ MapLocalFails \/ MapTunnelFails \/ MapBad \/ AllocToCpuFails
                 \/ AddMemberFails \/ InstallFails \/ InstallExtraFails
    PROVE  IInv'
<1>0. TablesOK /\ OpInv
  BY DEF IInv
<1>1. CASE MapLocalFails
  <2>1. Grown /\ cnt' \in [outs : Nat, gre : Nat, qinq : Nat]
    BY <1>0, <1>1, FlexFails DEF MapLocalFails
  <2> QED BY <1>0, <1>1, <2>1, UndoStep DEF MapLocalFails, Mapping, Building, TablesOK
<1>2. CASE MapTunnelFails
  <2>1. Grown /\ cnt' \in [outs : Nat, gre : Nat, qinq : Nat]
    BY <1>0, <1>2, EncapFails DEF MapTunnelFails
  <2> QED BY <1>0, <1>2, <2>1, UndoStep DEF MapTunnelFails, Mapping, Building, TablesOK
<1>3. CASE MapBad \/ AddMemberFails \/ InstallFails
  <2>1. op' = Undone(op) /\ op.pc \in Building /\ UNCHANGED <<rule, chip, hwnh, group, pool, cnt>>
    BY <1>3 DEF MapBad, AddMemberFails, InstallFails, Mapping, Building
  <2>2. Grown
    BY <1>0, <2>1, GrownSame
  <2> QED BY <1>0, <2>1, <2>2, UndoStep DEF TablesOK
<1>4. CASE InstallExtraFails
  <2>1. op' = Undone(op) /\ op.pc \in Building /\ UNCHANGED <<rule, hwnh, group, pool, cnt>>
    BY <1>4 DEF InstallExtraFails, Building
  <2>2. Grown
    BY <1>0, <2>1, GrownSame
  <2>3. chip' \in [Entries -> Redirects \cup {Null}]
        /\ \A e \in Entries : chip'[e] # Null => chip'[e].list \in Lists[e[1]]
    BY <1>0, <1>4 DEF InstallExtraFails, TablesOK
  <2> QED BY <1>0, <2>1, <2>2, <2>3, UndoStep DEF TablesOK
<1> QED BY <1>1, <1>2, <1>3, <1>4, GroupFails, CpuFails


----------------------------------------------------------------------------
(* The action a handler is at.                                             *)
LEMMA AtAction ==
    ASSUME IInv, Mapping
    PROVE  /\ op.pc = "map" /\ op.i \in 1 .. Len(op.list) /\ op.i \in DOMAIN op.list /\ Act \in Acts
           /\ Combo # Null => Combo \in SUBSET Flags
           /\ Act.type = "OUTPUT" => Combo = op.combo
           /\ op.r \in Rules /\ op.mode \in {"add", "modify"} /\ op.list \in Lists[op.r]
           /\ op.new.use_mcast /\ Outputs(op.list) # {}
<1>1. /\ TablesOK /\ OpInv /\ MapInv /\ op.pc = "map" /\ op.i <= Len(op.list)
  BY DEF IInv, Mapping
<1>2. op.list \in Seq(Acts) /\ op.i \in Nat /\ op.combo \in SUBSET Flags
  BY <1>1, Typed
<1>3. op.i >= 1 /\ Outputs(op.list) # {}
  BY <1>1 DEF MapInv
<1>4. op.i \in 1 .. Len(op.list) /\ op.i \in DOMAIN op.list /\ Act \in Acts
  BY <1>1, <1>2, <1>3 DEF Act
<1>5. /\ Combo # Null => Combo \in SUBSET Flags
      /\ Act.type = "OUTPUT" => Combo = op.combo
  BY <1>2, <1>4, CombineProps DEF Combo
<1>6. /\ op.r \in Rules /\ op.mode \in {"add", "modify"} /\ op.list \in Lists[op.r]
      /\ op.new.use_mcast
  BY <1>1 DEF OpInv, Building
<1> QED BY <1>1, <1>3, <1>4, <1>5, <1>6

(* The handler goes on to the next action.                                 *)
LEMMA AdvanceIs ==
    ASSUME IInv, Mapping, Combo \in SUBSET Flags
    PROVE  /\ Advance \in Ops /\ Advance.i = op.i + 1 /\ Advance.k = 0 /\ Advance.new = op.new
           /\ Advance.pc = "map" /\ Advance.r = op.r /\ Advance.mode = op.mode /\ Advance.list = op.list
           /\ Advance.cpu = op.cpu /\ Advance.combo = Combo
<1>1. TablesOK
  BY DEF IInv
<1>2. PICK c, i : c = Combo /\ i = op.i + 1
  OBVIOUS
<1>3. c \in SUBSET Flags /\ i \in Nat /\ op.pc = "map" /\ op \in Ops
  BY <1>1, <1>2, AtAction, Typed
<1>4. Advance = [op EXCEPT !.i = i, !.k = 0, !.combo = c]
  BY <1>2 DEF Advance
<1> QED BY <1>2, <1>3, <1>4 DEF Ops

(* What has to hold of a handler that maps the list.                       *)
LEMMA Mapped ==
    ASSUME IInv, op.pc = "map", op' \in Ops, op'.pc = "map", op'.i \in {op.i, op.i + 1}, op'.list = op.list,
           op'.r = op.r, op'.mode = op.mode, op'.new.use_mcast, rule' = rule,
           (\E i \in Outputs(op.list) : i < op'.i) => op'.cpu \/ op'.new.members # <<>>
    PROVE  OpInv' /\ MapInv'
<1>0. /\ TablesOK /\ OpInv /\ MapInv /\ op.i \in Nat
  BY Typed DEF IInv
<1>1. op.r \in Rules /\ op.mode \in {"add", "modify"} /\ op.list \in Lists[op.r]
  BY <1>0 DEF OpInv, Building
<1>2. op.mode = "add" => rule[op.r] = Null
  BY <1>0 DEF OpInv
<1>3. op.mode = "modify" => rule[op.r] # Null
  BY <1>0 DEF OpInv
<1>4. OpInv'
  BY <1>1, <1>2, <1>3 DEF OpInv, Building
<1>5. Outputs(op.list) # {} /\ op.i >= 1 /\ op'.i >= 1
  BY <1>0 DEF MapInv
<1>6. MapInv'
  BY <1>5 DEF MapInv
<1> QED BY <1>4, <1>6

(* Outputs before the next action.                                         *)
LEMMA NextOutput ==
    ASSUME NEW l \in Seq(Acts), NEW i \in Nat, \E q \in Outputs(l) : q < i + 1
    PROVE  (\E q \in Outputs(l) : q < i) \/ i \in Outputs(l)
<1>1. \A q \in Outputs(l) : q \in Nat
  BY DEF Outputs
<1> QED BY <1>1

LEMMA MapFieldStep == ASSUME IInv, MapField PROVE IInv'
<1>0. /\ TablesOK /\ Mapping /\ Act.type # "OUTPUT" /\ Combo # Null /\ op' = Advance
      /\ UNCHANGED <<rule, chip, hwnh, group, pool, cnt>> /\ MapInv
  BY DEF IInv, MapField
<1>1. /\ op' \in Ops /\ op'.i = op.i + 1 /\ op'.new = op.new /\ op'.pc = "map" /\ op'.r = op.r
      /\ op'.mode = op.mode /\ op'.list = op.list /\ op'.cpu = op.cpu
  BY <1>0, AtAction, AdvanceIs
<1>2. op.pc = "map" /\ op.new.use_mcast /\ op.list \in Seq(Acts) /\ op.i \in Nat
  BY <1>0, AtAction, Typed
<1>3. op.i \notin Outputs(op.list)
  BY <1>0 DEF Outputs, Act
<1>4. (\E i \in Outputs(op.list) : i < op'.i) => op'.cpu \/ op'.new.members # <<>>
  BY <1>0, <1>1, <1>2, <1>3, NextOutput DEF MapInv
<1>5. OpInv' /\ MapInv'
  BY <1>0, <1>1, <1>2, <1>4, Mapped
<1>6. TablesOK'
  BY <1>0, <1>1 DEF TablesOK
<1>7. Quiet
  BY <1>0, <1>1, <1>2 DEF Quiet
<1>8. ResInv' /\ ChipInv' /\ GroupInv'
  BY <1>0, <1>7, QuietHolds, Untouched DEF IInv, Taken
<1> QED BY <1>5, <1>6, <1>8 DEF IInv

LEMMA MapCpuStep == ASSUME IInv, MapCpu PROVE IInv'
<1>0. /\ TablesOK /\ Mapping /\ Act.type = "OUTPUT" /\ op' = [Advance EXCEPT !.cpu = TRUE]
      /\ UNCHANGED <<rule, chip, hwnh, group, pool, cnt>> /\ MapInv
  BY DEF IInv, MapCpu, ForCpu, Is
<1>1. Combo \in SUBSET Flags /\ op.pc = "map" /\ op.new.use_mcast
  <2>1. op.combo \in SUBSET Flags
    BY <1>0, Typed
  <2> QED BY <1>0, <2>1, AtAction
<1>2. /\ op' \in Ops /\ op'.i = op.i + 1 /\ op'.new = op.new /\ op'.pc = "map" /\ op'.r = op.r
      /\ op'.mode = op.mode /\ op'.list = op.list /\ op'.cpu
  <2>1. PICK a : a = Advance
    OBVIOUS
  <2>2. /\ a \in Ops /\ a.i = op.i + 1 /\ a.new = op.new /\ a.pc = "map" /\ a.r = op.r
        /\ a.mode = op.mode /\ a.list = op.list
    BY <1>0, <1>1, <2>1, AdvanceIs
  <2>3. op' = [a EXCEPT !.cpu = TRUE]
    BY <1>0, <2>1
  <2> QED BY <2>2, <2>3 DEF Ops
<1>3. OpInv' /\ MapInv'
  BY <1>0, <1>1, <1>2, Mapped
<1>4. TablesOK'
  BY <1>0, <1>2 DEF TablesOK
<1>5. Quiet
  BY <1>0, <1>1, <1>2 DEF Quiet
<1>6. ResInv' /\ ChipInv' /\ GroupInv'
  BY <1>0, <1>5, QuietHolds, Untouched DEF IInv, Taken
<1> QED BY <1>3, <1>4, <1>6 DEF IInv

(* When all outputs are mapped there is a member, or one for the CPU to    *)
(* come.                                                                   *)
LEMMA MapEnd ==
    ASSUME IInv, MapDone
    PROVE  /\ op.cpu \/ op.new.members # <<>>
           /\ op.pc = "map" /\ op.r \in Rules /\ op.mode \in {"add", "modify"} /\ op.list \in Lists[op.r]
           /\ op.new.use_mcast
<1>1. /\ TablesOK /\ OpInv /\ MapInv /\ op.pc = "map" /\ op.i > Len(op.list)
  BY DEF IInv, MapDone
<1>2. op.list \in Seq(Acts) /\ op.i \in Nat
  BY <1>1, Typed
<1>3. PICK q : q \in Outputs(op.list)
  BY <1>1 DEF MapInv
<1>4. q < op.i
  BY <1>1, <1>2, <1>3 DEF Outputs
<1>5. op.cpu \/ op.new.members # <<>>
  BY <1>1, <1>3, <1>4 DEF MapInv
<1> QED BY <1>1, <1>5 DEF OpInv, Building

LEMMA NoCpuStep == ASSUME IInv, NoCpu PROVE IInv'
<1>0. /\ TablesOK /\ OpInv /\ MapDone /\ ~op.cpu /\ op' = ToMembers(op)
      /\ UNCHANGED <<rule, chip, hwnh, group, pool, cnt>> /\ MapInv
  BY DEF IInv, NoCpu
<1>1. /\ op.new.members # <<>> /\ op.pc = "map" /\ op.r \in Rules /\ op.mode \in {"add", "modify"}
      /\ op.list \in Lists[op.r] /\ op.new.use_mcast
  BY <1>0, MapEnd
<1>2. /\ op' \in Ops /\ op'.k = 1 /\ op'.new = op.new /\ op'.pc = "member" /\ op'.r = op.r
      /\ op'.mode = op.mode /\ op'.list = op.list
  BY <1>0, Typed DEF ToMembers, Ops, Pcs
<1>3. Len(op.new.members) \in Nat /\ Len(op.new.members) >= 1
  BY <1>0, <1>1, Typed
<1>4. OpInv' /\ MapInv'
  <2>1. /\ op.mode = "add" => rule[op.r] = Null
        /\ op.mode = "modify" => rule[op.r] # Null
    BY <1>0, <1>1 DEF OpInv
  <2>2. OpInv'
    BY <1>0, <1>1, <1>2, <2>1 DEF OpInv, Building
  <2> QED BY <1>2, <1>3, <2>2 DEF MapInv
<1>5. TablesOK'
  BY <1>0, <1>2 DEF TablesOK
<1>6. Quiet
  BY <1>0, <1>1, <1>2 DEF Quiet
<1>7. ResInv' /\ ChipInv' /\ GroupInv'
  BY <1>0, <1>6, QuietHolds, Untouched DEF IInv, Taken
<1> QED BY <1>4, <1>5, <1>7 DEF IInv


(* What a handler that builds has in the chip.                             *)
LEMMA OwnInChip ==
    ASSUME IInv, op.pc \in Building
    PROVE  /\ \A j \in DOMAIN op.new.members :
                 op.new.members[j].nhid \in NhIds /\ hwnh[op.new.members[j].nhid] # Null
           /\ op.new.use_mcast => op.new.main.nhid \in NhIds /\ group[op.new.main.nhid] # Null
<1>1. /\ TablesOK /\ ChipInv /\ "op" \in Owners /\ Holds("op") /\ Info("op") = op.new
  BY DEF IInv, Owners, Holds, Info
<1>2. From("op") = 1 /\ ~Gone("op")
  BY DEF Building, From, Gone, Releasing
<1>3. \A j \in DOMAIN op.new.members : 1 <= j
  BY <1>1, Typed
<1> QED BY <1>1, <1>2, <1>3 DEF ChipInv

LEMMA AddMemberStep == ASSUME IInv, AddMember PROVE IInv'
<1>0. /\ TablesOK /\ OpInv /\ MapInv /\ op.pc = "member" /\ op.pc \in Building
      /\ UNCHANGED <<rule, chip, hwnh, pool, cnt>>
  BY DEF IInv, AddMember, Building
<1>1. PICK n, m : n = op.new.main.nhid /\ m = op.new.members[op.k].nhid
  OBVIOUS
<1>2. op.k \in 1 .. Len(op.new.members) /\ op.new.use_mcast /\ op.k \in Nat
  BY <1>0, Typed DEF MapInv, OpInv
<1>3. op.k \in DOMAIN op.new.members
  BY <1>0, <1>2, Typed
<1>4. n \in NhIds /\ group[n] # Null /\ m \in NhIds
  BY <1>0, <1>1, <1>2, <1>3, OwnInChip
<1>5. group[n] \in Seq(NhIds)
  BY <1>0, <1>4 DEF TablesOK
<1>6. group' = [group EXCEPT ![n] = Append(group[n], m)]
  BY <1>1 DEF AddMember
<1>7. Append(group[n], m) \in Seq(NhIds) /\ Append(group[n], m) # Null
  BY <1>4, <1>5, NullAssumption
<1>8. group' \in [NhIds -> Seq(NhIds) \cup {Null}] /\ \A q \in NhIds : group[q] # Null => group'[q] # Null
  <2>1. group \in [NhIds -> Seq(NhIds) \cup {Null}]
    BY <1>0 DEF TablesOK
  <2>2. PICK a : a = Append(group[n], m)
    OBVIOUS
  <2> QED BY <1>4, <1>6, <1>7, <2>1, <2>2
<1>9. /\ op' \in Ops /\ op'.k = op.k + 1 /\ op'.new = op.new /\ op'.r = op.r
      /\ op'.mode = op.mode /\ op'.list = op.list
      /\ op'.pc = IF op.k = Len(op.new.members) THEN "install" ELSE "member"
  <2>1. PICK p, k : p = (IF op.k = Len(op.new.members) THEN "install" ELSE "member") /\ k = op.k + 1
    OBVIOUS
  <2>2. p \in Pcs /\ k \in Nat
    BY <1>2, <2>1 DEF Pcs
  <2>3. op' = [op EXCEPT !.pc = p, !.k = k]
    BY <1>0, <2>1 DEF AddMember
  <2> QED BY <1>0, <2>1, <2>2, <2>3, Typed DEF Ops
<1>10. TablesOK'
  BY <1>0, <1>8, <1>9 DEF TablesOK
<1>11. OpInv' /\ MapInv'
  <2>1. /\ op.r \in Rules /\ op.mode \in {"add", "modify"} /\ op.list \in Lists[op.r]
        /\ op.mode = "add" => rule[op.r] = Null
        /\ op.mode = "modify" => rule[op.r] # Null
    BY <1>0 DEF OpInv
  <2>2. OpInv'
    BY <1>0, <1>2, <1>9, <2>1 DEF OpInv, Building
  <2>3. op'.pc = "member" => op.k + 1 \in 1 .. Len(op.new.members)
    <3>1. Len(op.new.members) \in Nat
      BY <1>0, Typed
    <3> QED BY <1>2, <1>9, <3>1
  <2> QED BY <1>9, <2>2, <2>3 DEF MapInv
<1>12. Quiet
  BY <1>0, <1>9 DEF Quiet
<1>13. ResInv' /\ ChipInv' /\ GroupInv'
  BY <1>0, <1>8, <1>12, QuietHolds, Untouched DEF IInv, Taken
<1> QED BY <1>10, <1>11, <1>13 DEF IInv

(* An entry of the flow is written.                                        *)
Spot == <<op.r, IF op.pc = "install" THEN "main" ELSE "extra">>
LEMMA Entered ==
    ASSUME IInv, PresentInv, Install \/ InstallExtra \/ ExtraIgnored
    PROVE  /\ op.pc \in {"install", "extra"} /\ UNCHANGED <<rule, hwnh, group, pool, cnt>>
           /\ Spot \in Entries /\ Spot[1] = op.r
           /\ chip' \in [Entries -> Redirects \cup {Null}]
           /\ chip'[Spot] \in Redirects /\ chip'[Spot].list = op.list
           /\ Spot \in stale' \/ chip'[Spot].nhid = op.new.main.nhid
           /\ \A e \in Entries : e # Spot => chip'[e] = chip[e] /\ (e \in stale' <=> e \in stale)
           /\ op' = [op EXCEPT !.pc = IF op.pc = "install" /\ op.r \in AnyType THEN "extra" ELSE "installed"]
<1>0. TablesOK /\ OpInv /\ op.pc \in {"install", "extra"} /\ op.pc \in Building
  BY DEF IInv, Install, InstallExtra, ExtraIgnored, Building
<1>1. /\ op.r \in Rules /\ op.mode \in {"add", "modify"} /\ op.list \in Lists[op.r]
      /\ op.mode = "modify" => rule[op.r] # Null
      /\ op.new.use_mcast \/ op.new.main = Drop
  BY <1>0 DEF OpInv
<1>2. op.new.main.nhid \in NhIds \cup {DROP}
  BY <1>0, <1>1, OwnInChip, Constants
<1>3. PICK d, e : d = Spot /\ e = d[2]
  OBVIOUS
<1>4. d \in Entries /\ d[1] = op.r /\ d = <<op.r, e>> /\ e = (IF op.pc = "install" THEN "main" ELSE "extra")
  BY <1>1, <1>3 DEF Spot, Entries
<1>5. PICK w : w = [nhid |-> op.new.main.nhid, list |-> op.list]
  OBVIOUS
<1>6. w \in Redirects /\ w.list = op.list /\ w.nhid = op.new.main.nhid
  BY <1>0, <1>2, <1>5, Typed DEF Redirects
<1>7. Written(e) \/ (op.mode = "modify" /\ Kept(e))
  BY <1>0, <1>4 DEF Install, InstallExtra, ExtraIgnored, SetAction, LeftAlone
<1>8. CASE Written(e)
  <2>1. chip' = [chip EXCEPT ![d] = w]
    BY <1>4, <1>5, <1>8 DEF Written
  <2>2. \A f \in Entries : f # d => (f \in stale' <=> f \in stale)
    BY <1>4, <1>8 DEF Written
  <2>3. chip'[d] = w /\ chip' \in [Entries -> Redirects \cup {Null}] /\ \A f \in Entries : f # d => chip'[f] = chip[f]
    BY <1>0, <1>4, <1>6, <2>1 DEF TablesOK
  <2> QED BY <1>0, <1>3, <1>4, <1>6, <2>2, <2>3 DEF Install, InstallExtra, ExtraIgnored
<1>9. CASE op.mode = "modify" /\ Kept(e)
  <2>1. chip[d] # Null
    BY <1>0, <1>1, <1>4, <1>9 DEF PresentInv, Whole, Removing
  <2>2. chip[d] \in Redirects
    BY <1>0, <1>4, <2>1 DEF TablesOK
  <2>3. PICK v : v = [chip[d] EXCEPT !.list = op.list]
    OBVIOUS
  <2>4. v \in Redirects /\ v.list = op.list
    BY <1>6, <2>2, <2>3 DEF Redirects
  <2>5. chip' = [chip EXCEPT ![d] = v] /\ stale' = stale \cup {d}
    BY <1>4, <1>9, <2>3 DEF Kept
  <2>6. chip'[d] = v /\ chip' \in [Entries -> Redirects \cup {Null}] /\ \A f \in Entries : f # d => chip'[f] = chip[f]
    BY <1>0, <1>4, <2>4, <2>5 DEF TablesOK
  <2> QED BY <1>0, <1>3, <1>4, <2>4, <2>5, <2>6 DEF Install, InstallExtra, ExtraIgnored
<1> QED BY <1>7, <1>8, <1>9

LEMMA InstallStep ==
    ASSUME IInv, PresentInv, Install \/ InstallExtra \/ ExtraIgnored
    PROVE  IInv'
<1>0. TablesOK /\ OpInv /\ op.pc \in Building /\ UNCHANGED <<rule, hwnh, group, pool, cnt>>
  BY Entered DEF IInv, Building
<1>1. /\ op.r \in Rules /\ op.mode \in {"add", "modify"} /\ op.list \in Lists[op.r]
      /\ op.mode = "add" => rule[op.r] = Null
      /\ op.mode = "modify" => rule[op.r] # Null
      /\ op.new.use_mcast \/ op.new.main = Drop
  BY <1>0, Entered DEF OpInv
<1>2. PICK p \in {"extra", "installed"} : op' = [op EXCEPT !.pc = p]
  BY Entered
<1>3. /\ chip' \in [Entries -> Redirects \cup {Null}]
      /\ \A d \in Entries : chip'[d] # Null => chip'[d].list \in Lists[d[1]]
  BY <1>0, <1>1, Entered DEF TablesOK
<1>4. /\ op' \in Ops /\ op'.new = op.new /\ op'.r = op.r
      /\ op'.mode = op.mode /\ op'.list = op.list /\ op'.pc = p
  BY <1>0, <1>2, Typed DEF Ops, Pcs
<1>5. TablesOK'
  BY <1>0, <1>3, <1>4 DEF TablesOK
<1>6. OpInv' /\ MapInv'
  BY <1>0, <1>1, <1>4 DEF OpInv, MapInv, Building
<1>7. Quiet
  BY <1>0, <1>4 DEF Quiet, Building
<1>8. ResInv' /\ ChipInv' /\ GroupInv'
  BY <1>0, <1>7, QuietHolds, Untouched DEF IInv, Taken
<1> QED BY <1>5, <1>6, <1>8 DEF IInv

LEMMA ReleaseOldStep == ASSUME IInv, ReleaseOld PROVE IInv'
<1>0. /\ TablesOK /\ OpInv /\ op.pc = "installed" /\ op.mode = "modify"
      /\ UNCHANGED <<rule, chip, hwnh, group, pool, cnt>>
  BY DEF IInv, ReleaseOld
<1>1. op.r \in Rules /\ rule[op.r] # Null /\ rule[op.r] \in Infos /\ op.r # "op"
  BY <1>0, NullAssumption DEF OpInv, TablesOK
<1>2. /\ op' \in Ops /\ op'.new = op.new /\ op'.r = op.r /\ op'.mode = "modify"
      /\ op'.pc = "release" /\ op'.k = 1 /\ op'.rel = rule[op.r]
  BY <1>0, <1>1, Typed DEF ReleaseOld, Ops, Pcs
<1>3. TablesOK'
  BY <1>0, <1>2 DEF TablesOK
<1>4. OpInv' /\ MapInv'
  BY <1>0, <1>1, <1>2 DEF OpInv, MapInv, Building, Loser, Info
<1>5. Quiet
  BY <1>0, <1>2 DEF Quiet
<1>6. ResInv' /\ ChipInv' /\ GroupInv'
  BY <1>0, <1>5, QuietHolds, Untouched DEF IInv, Taken
<1> QED BY <1>3, <1>4, <1>6 DEF IInv


----------------------------------------------------------------------------
(* Something is taken: it was free, so nobody else has it.                 *)
LEMMA ResTaken ==
    ASSUME ResInv, NEW p, NEW i, NEW R, Taken' = Taken \cup R, \A x \in R : x \notin Taken,
           \A x : ~Has(p, i, x),
           \A o, j, x : Has(o, j, x)' <=> Has(o, j, x) \/ (o = p /\ j = i /\ x \in R)
    PROVE  ResInv'
<1>1. \A o, j, x : Has(o, j, x)' => x \in Taken'
  BY DEF ResInv
<1>2. ASSUME NEW o, NEW j, NEW q, NEW k, NEW x, Has(o, j, x)', Has(q, k, x)'
      PROVE  o = q /\ k = j
  <2>1. CASE x \in R
    <3>1. ~Has(o, j, x) /\ ~Has(q, k, x)
      BY <2>1 DEF ResInv
    <3> QED BY <1>2, <3>1
  <2>2. CASE x \notin R
    <3>1. Has(o, j, x) /\ Has(q, k, x)
      BY <1>2, <2>2
    <3> QED BY <3>1 DEF ResInv
  <2> QED BY <2>1, <2>2
<1> QED BY <1>1, <1>2 DEF ResInv

(* The next hop of a member has just been written and stored.              *)
NewMember(nh, rec) ==
    /\ op.pc = "map" /\ nh \in Nh /\ rec \in HwNhs /\ rec.words = Freed(nh)
    /\ nh.nhid \in NhIds \ pool.nh /\ Freed(nh) \subseteq Words \ pool.word
    /\ pool' = [pool EXCEPT !.nh = @ \cup {nh.nhid}, !.word = @ \cup Freed(nh)]
    /\ hwnh' = [hwnh EXCEPT ![nh.nhid] = rec]
    /\ UNCHANGED <<rule, chip, group>>
    /\ op' \in Ops /\ op'.new = Stored(nh) /\ op'.pc \notin {"release", "end"}

LEMMA NewMemberHas ==
    ASSUME IInv, NEW nh, NEW rec, NewMember(nh, rec), NEW n, n = Len(op.new.members)
    PROVE  /\ n \in Nat /\ op'.new \in Infos /\ Len(op'.new.members) = n + 1 /\ op'.new.members[n + 1] = nh
           /\ \A j \in 1 .. n : op'.new.members[j] = op.new.members[j]
           /\ op'.new.use_mcast = op.new.use_mcast /\ op'.new.main = op.new.main
           /\ op'.new.outs = op.new.outs /\ op'.new.tuns = op.new.tuns
           /\ \A o \in Owners : o # "op" => SameHold(o)
           /\ \A o, j, x : Has(o, j, x)' <=> Has(o, j, x) \/ (o = "op" /\ j = n + 1 /\ x \in NhRes(nh))
           /\ \A x : ~Has("op", n + 1, x)
           /\ Taken' = Taken \cup NhRes(nh) /\ \A x \in NhRes(nh) : x \notin Taken
<1>0. TablesOK
  BY DEF IInv
<1>1. PICK s : s = op.new.members
  OBVIOUS
<1>2. s \in Seq(Nh) /\ n \in Nat /\ n = Len(s) /\ DOMAIN s = 1 .. n
  BY <1>0, <1>1, Typed
<1>3. op'.new = [op.new EXCEPT !.members = Append(s, nh)]
  BY <1>1 DEF NewMember, Stored
<1>4. Append(s, nh) \in Seq(Nh) /\ Len(Append(s, nh)) = n + 1 /\ Append(s, nh)[n + 1] = nh
      /\ \A j \in 1 .. n : Append(s, nh)[j] = s[j]
  BY <1>2 DEF NewMember
<1>5. PICK t : t = Append(s, nh)
  OBVIOUS
<1>6. /\ t \in Seq(Nh) /\ Len(t) = n + 1 /\ t[n + 1] = nh /\ DOMAIN t = 1 .. n + 1
      /\ \A j \in 1 .. n : t[j] = s[j]
  BY <1>2, <1>4, <1>5
<1>7. /\ op'.new \in Infos /\ op'.new.members = t
      /\ op'.new.use_mcast = op.new.use_mcast /\ op'.new.main = op.new.main
      /\ op'.new.outs = op.new.outs /\ op'.new.tuns = op.new.tuns
  BY <1>0, <1>3, <1>5, <1>6, Typed DEF Infos
<1>8. /\ \A o \in Owners : o # "op" => SameHold(o)
  BY DEF NewMember, SameHold, Holds, Info, From, Gone, Releasing
<1>9. \A j, x : Has("op", j, x) <=> HeldIn(op.new, 1, FALSE, j, x)
  BY DEF NewMember, Has, Owners, Holds, Info, From, Gone, Releasing
<1>10. \A j, x : Has("op", j, x)' <=> HeldIn(op'.new, 1, FALSE, j, x)
  BY DEF NewMember, Has, Owners, Holds, Info, From, Gone, Releasing, HeldIn, GroupRes, NhRes, Freed, Span, Size
<1>11. ASSUME NEW j, NEW x
       PROVE HeldIn(op'.new, 1, FALSE, j, x) <=> HeldIn(op.new, 1, FALSE, j, x) \/ (j = n + 1 /\ x \in NhRes(nh))
  <2>1. HeldIn(op'.new, 1, FALSE, j, x) <=> \/ j = 0 /\ op.new.use_mcast /\ x \in GroupRes(op.new)
                                            \/ j \in 1 .. n + 1 /\ 1 <= j /\ x \in NhRes(t[j])
    BY <1>6, <1>7 DEF HeldIn, GroupRes
  <2>2. HeldIn(op.new, 1, FALSE, j, x) <=> \/ j = 0 /\ op.new.use_mcast /\ x \in GroupRes(op.new)
                                           \/ j \in 1 .. n /\ 1 <= j /\ x \in NhRes(s[j])
    BY <1>1, <1>2 DEF HeldIn, GroupRes
  <2>3. j \in 1 .. n + 1 <=> j \in 1 .. n \/ j = n + 1
    BY <1>2
  <2>4. n + 1 >= 1 /\ n + 1 # 0
    BY <1>2
  <2> QED BY <1>6, <2>1, <2>2, <2>3, <2>4
<1>12. \A o, j, x : Has(o, j, x)' <=> Has(o, j, x) \/ (o = "op" /\ j = n + 1 /\ x \in NhRes(nh))
  <2>1. \A o, j, x : Has(o, j, x) => o \in Owners
    BY DEF Has
  <2>2. \A o, j, x : Has(o, j, x)' => o \in Owners
    BY DEF Has, Owners
  <2>3. \A o \in Owners : \A j, x : o # "op" => (Has(o, j, x)' <=> Has(o, j, x))
    BY <1>8, HasSame
  <2> QED BY <1>9, <1>10, <1>11, <2>1, <2>2, <2>3
<1>13. \A x : ~Has("op", n + 1, x)
  <2>1. n + 1 # 0 /\ n + 1 \notin 1 .. n
    BY <1>2
  <2> QED BY <1>1, <1>2, <1>9, <2>1 DEF HeldIn
<1>14. Taken' = Taken \cup NhRes(nh) /\ \A x \in NhRes(nh) : x \notin Taken
  <2>1. pool' = [pool EXCEPT !.nh = @ \cup {nh.nhid}, !.word = @ \cup Freed(nh)]
    BY DEF NewMember
  <2>2. pool'.nh = pool.nh \cup {nh.nhid} /\ pool'.word = pool.word \cup Freed(nh) /\ pool'.met = pool.met
    BY <1>0, <2>1 DEF TablesOK
  <2>3. Taken' = Taken \cup NhRes(nh)
    BY <2>2 DEF Taken, NhRes
  <2> QED BY <2>3 DEF Taken, NhRes, NewMember
<1>15. /\ Len(op'.new.members) = n + 1 /\ op'.new.members[n + 1] = nh
       /\ \A j \in 1 .. n : op'.new.members[j] = op.new.members[j]
  BY <1>1, <1>6, <1>7
<1> QED BY <1>2, <1>7, <1>8, <1>12, <1>13, <1>14, <1>15

LEMMA NewMemberGood ==
    ASSUME IInv, NEW nh, NEW rec, NewMember(nh, rec), cnt' \in [outs : Nat, gre : Nat, qinq : Nat]
    PROVE  TablesOK' /\ ResInv' /\ ChipInv' /\ GroupInv'
<1>0. TablesOK /\ ChipInv /\ ResInv /\ GroupInv /\ OpInv
  BY DEF IInv
<1>1. PICK n : n = Len(op.new.members)
  OBVIOUS
<1>2. ResInv'
  <2>1. PICK i, R : i = n + 1 /\ R = NhRes(nh)
    OBVIOUS
  <2>2. /\ \A o, j, x : Has(o, j, x)' <=> Has(o, j, x) \/ (o = "op" /\ j = i /\ x \in R)
        /\ \A x : ~Has("op", i, x)
        /\ Taken' = Taken \cup R /\ \A x \in R : x \notin Taken
    BY <1>1, <2>1, NewMemberHas
  <2> QED BY <1>0, <2>2, ResTaken
<1>3. hwnh' \in [NhIds -> HwNhs \cup {Null}] /\ pool' \in [nh : SUBSET NhIds, word : SUBSET Words, met : SUBSET Mets]
  BY <1>0 DEF NewMember, TablesOK
<1>4. TablesOK'
  BY <1>0, <1>3 DEF TablesOK, NewMember
<1>5. op.new.use_mcast /\ op'.new.use_mcast
  BY <1>0, <1>1, NewMemberHas DEF OpInv, NewMember
<1>6. GroupInv'
  <2>1. \A o \in Owners : o # "op" => (Holds(o)' => Info(o)'.use_mcast \/ Info(o)'.members = <<>>)
    BY <1>0, <1>1, NewMemberHas DEF GroupInv, SameHold, Bare
  <2>2. Info("op")' = op'.new
    BY DEF Info
  <2> QED BY <1>5, <2>1, <2>2 DEF GroupInv, Owners
<1>7. ChipInv'
  <2> SUFFICES ASSUME NEW o \in Owners, Holds(o)'
               PROVE  /\ \A j \in DOMAIN Info(o)'.members : From(o)' <= j =>
                            LET h == Info(o)'.members[j]
                            IN /\ h.nhid \in NhIds /\ hwnh'[h.nhid] # Null
                               /\ hwnh'[h.nhid].words = Freed(h)
                      /\ (Info(o)'.use_mcast /\ ~Gone(o)') =>
                            /\ Info(o)'.main.nhid \in NhIds /\ Info(o)'.main.offset \in Mets
                            /\ group'[Info(o)'.main.nhid] # Null
    BY DEF ChipInv, Owners, Freed, Span, Size
  <2>0. group' = group /\ rec # Null /\ nh.nhid \in NhIds /\ hwnh' = [hwnh EXCEPT ![nh.nhid] = rec]
    BY NullAssumption DEF NewMember
  <2>1. \A m \in pool.nh : m \in NhIds => hwnh'[m] = hwnh[m]
    BY <1>0, <2>0 DEF NewMember, TablesOK
  <2>2. hwnh'[nh.nhid] = rec /\ rec.words = Freed(nh)
    BY <1>0, <2>0 DEF TablesOK, NewMember
  <2>3. CASE o # "op"
    <3>1. CASE Bare(Info(o))'
      <4>1. Info(o)'.members = <<>> /\ ~Info(o)'.use_mcast
        BY <3>1 DEF Bare
      <4> QED BY <4>1
    <3>2. CASE /\ Holds(o) /\ Info(o)' = Info(o) /\ From(o)' = From(o)
               /\ Gone(o)' <=> Gone(o)
      <4>1. ASSUME NEW j \in DOMAIN Info(o).members, From(o) <= j
            PROVE  Info(o).members[j].nhid \in pool.nh
        <5>1. Has(o, j, <<"nh", Info(o).members[j].nhid>>)
          BY <3>2, <4>1 DEF Has, HeldIn, NhRes
        <5>2. <<"nh", Info(o).members[j].nhid>> \in Taken
          BY <1>0, <5>1 DEF ResInv
        <5> QED BY <5>2 DEF Taken
      <4> QED BY <1>0, <2>0, <2>1, <3>2, <4>1 DEF ChipInv
    <3>3. SameHold(o)
      BY <1>1, <2>3, NewMemberHas
    <3> QED BY <3>1, <3>2, <3>3 DEF SameHold
  <2>4. CASE o = "op"
    <3>1. Info(o)' = op'.new /\ From(o)' = 1 /\ ~Gone(o)' /\ Info(o) = op.new /\ Holds(o) /\ From(o) = 1 /\ ~Gone(o)
      BY <2>4 DEF Info, From, Gone, Releasing, NewMember, Holds
    <3>2. /\ n \in Nat /\ Len(op'.new.members) = n + 1 /\ op'.new.members[n + 1] = nh
          /\ \A j \in 1 .. n : op'.new.members[j] = op.new.members[j]
          /\ op'.new.use_mcast = op.new.use_mcast /\ op'.new.main = op.new.main /\ op'.new \in Infos
      BY <1>1, NewMemberHas
    <3>3. DOMAIN op'.new.members = 1 .. n + 1 /\ DOMAIN op.new.members = 1 .. n
      <4>1. op.new.members \in Seq(Nh)
        BY <1>0, Typed
      <4>2. op'.new.members \in Seq(Nh)
        BY <3>2 DEF Infos
      <4> QED BY <1>1, <3>2, <4>1, <4>2
    <3>4. ASSUME NEW j \in 1 .. n
          PROVE  LET h == op.new.members[j] IN h.nhid \in NhIds /\ hwnh[h.nhid] # Null
                         /\ hwnh[h.nhid].words = Freed(h) /\ h.nhid \in pool.nh
      <4>1. j \in DOMAIN Info(o).members /\ From(o) <= j
        BY <3>1, <3>3
      <4>2. Has(o, j, <<"nh", op.new.members[j].nhid>>)
        BY <3>1, <4>1 DEF Has, HeldIn, NhRes
      <4>3. <<"nh", op.new.members[j].nhid>> \in Taken
        BY <1>0, <4>2 DEF ResInv
      <4>4. op.new.members[j].nhid \in pool.nh
        BY <4>3 DEF Taken
      <4> QED BY <1>0, <3>1, <4>1, <4>4 DEF ChipInv
    <3>5. \A j \in 1 .. n + 1 : j \in 1 .. n \/ j = n + 1
      BY <3>2
    <3>6. \A j \in 1 .. n + 1 : LET h == op'.new.members[j] IN /\ h.nhid \in NhIds /\ hwnh'[h.nhid] # Null
                                                               /\ hwnh'[h.nhid].words = Freed(h)
      <4> SUFFICES ASSUME NEW j \in 1 .. n + 1
                   PROVE  LET h == op'.new.members[j] IN /\ h.nhid \in NhIds /\ hwnh'[h.nhid] # Null
                                                         /\ hwnh'[h.nhid].words = Freed(h)
        OBVIOUS
      <4>1. CASE j \in 1 .. n
        BY <2>1, <3>2, <3>4, <4>1
      <4>2. CASE j = n + 1
        BY <2>0, <2>2, <3>2, <4>2
      <4> QED BY <3>5, <4>1, <4>2
    <3>7. op.new.use_mcast => /\ op.new.main.nhid \in NhIds /\ op.new.main.offset \in Mets
                              /\ group[op.new.main.nhid] # Null
      BY <1>0, <2>4, <3>1 DEF ChipInv
    <3> QED BY <2>0, <3>1, <3>2, <3>3, <3>6, <3>7
  <2> QED BY <2>3, <2>4
<1> QED BY <1>2, <1>4, <1>6, <1>7


Targeted == [kind : Targets \cup {"CPU"}, n : Nat]

(* The counter of its type has a place for a new member.                   *)
Charged(nh) ==
    /\ cnt' = Counted(nh.type)
    /\ nh.type = "FLEX_QINQ" => cnt.qinq < QinqMax
    /\ nh.type = "FLEX_IPDA" => cnt.gre + 1 <= GreMax

(* The handler with one more member.                                       *)
LEMMA StoredIs ==
    ASSUME TablesOK, NEW nh \in Nh, NEW o \in Ops
    PROVE  /\ Stored(nh) \in Infos /\ [o EXCEPT !.new = Stored(nh)] \in Ops
           /\ [o EXCEPT !.new = Stored(nh)].new = Stored(nh)
           /\ \A f \in {"pc", "mode", "r", "list", "i", "k", "combo", "cpu", "rel"} :
                 [o EXCEPT !.new = Stored(nh)][f] = o[f]
<1>1. PICK s : s = Append(op.new.members, nh)
  OBVIOUS
<1>2. s \in Seq(Nh)
  BY <1>1, Typed
<1>3. Stored(nh) = [op.new EXCEPT !.members = s]
  BY <1>1 DEF Stored
<1>4. Stored(nh) \in Infos
  BY <1>2, <1>3, Typed DEF Infos
<1>5. PICK i : i = Stored(nh)
  OBVIOUS
<1> QED BY <1>4, <1>5 DEF Ops

Made(o, to, edit) ==
    \E nh, rec : /\ NewMember(nh, rec) /\ op' = [o EXCEPT !.new = Stored(nh)] /\ nh \in Nh
                 /\ Charged(nh) /\ rec.to = to /\ rec.edit = edit
LEMMA FlexIs ==
    ASSUME IInv, op.pc = "map", NEW c \in SUBSET Flags, NEW to \in Targeted,
           NEW o \in Ops, o.pc = "map", AllocFlex(c, to, o), UNCHANGED <<rule, chip, group>>
    PROVE  /\ cnt' \in [outs : Nat, gre : Nat, qinq : Nat]
           /\ Made(o, to, FlexEdit(c))
<1>0. TablesOK
  BY DEF IInv
<1>1. PICK t, z : t = TypeOf(c) /\ z = Size(t)
  OBVIOUS
<1>2. t \in {"IPUC", "FLEX_IPDA", "FLEX_QINQ", "FLEX"} /\ z \in {1, 2}
  BY <1>1, SizeIs DEF TypeOf
<1>3. FreeWords(z) # {} /\ FreeNhs # {}
  BY <1>1 DEF AllocFlex
<1>4. PICK off, id, W : off = Lowest(FreeWords(z)) /\ id = Lowest(FreeNhs) /\ W = Span(off, z)
  OBVIOUS
<1>5. id \in NhIds \ pool.nh
  BY <1>0, <1>3, <1>4, FreeIds
<1>6. off \in Words /\ off # 0 /\ W \subseteq Words \ pool.word
  BY <1>0, <1>2, <1>3, <1>4, FreeBlock
<1>7. PICK nh, rec : /\ nh = [nhid |-> id, offset |-> off, type |-> t]
                     /\ rec = [to |-> to, edit |-> FlexEdit(c), words |-> W]
  OBVIOUS
<1>8. nh \in Nh /\ nh.nhid = id /\ Freed(nh) = W /\ nh.type = t
  <2>1. nh \in Nh /\ nh.nhid = id /\ nh.offset = off /\ nh.type = t
    BY <1>2, <1>5, <1>6, <1>7 DEF Nh, Types
  <2> QED BY <1>1, <1>2, <1>4, <1>6, <2>1 DEF Freed
<1>9. rec \in HwNhs /\ rec.words = W /\ rec.to = to /\ rec.edit = FlexEdit(c)
  <2>1. FlexEdit(c) \in SUBSET Flags
    BY DEF FlexEdit, Strips, Flags
  <2> QED BY <1>6, <1>7, <2>1 DEF HwNhs, Targeted
<1>10. /\ cnt' = Counted(t) /\ pool' = [pool EXCEPT !.nh = @ \cup {id}, !.word = @ \cup W]
       /\ hwnh' = [hwnh EXCEPT ![id] = rec] /\ op' = [o EXCEPT !.new = Stored(nh)]
  BY <1>1, <1>4, <1>7 DEF AllocFlex
<1>11. op' \in Ops /\ op'.new = Stored(nh) /\ op'.pc = "map"
  <2>1. [o EXCEPT !.new = Stored(nh)]["pc"] = o["pc"]
    BY <1>0, <1>8, StoredIs
  <2> QED BY <1>0, <1>8, <1>10, <2>1, StoredIs
<1>12. NewMember(nh, rec)
  BY <1>5, <1>6, <1>8, <1>9, <1>10, <1>11 DEF NewMember
<1>13. (t = "FLEX_QINQ" => cnt.qinq < QinqMax) /\ (t = "FLEX_IPDA" => cnt.gre + 1 <= GreMax)
  BY <1>1 DEF AllocFlex, Fits, Room
<1>14. Charged(nh)
  BY <1>8, <1>10, <1>13 DEF Charged
<1>15. Made(o, to, FlexEdit(c))
  BY <1>8, <1>9, <1>10, <1>12, <1>14 DEF Made
<1> QED BY <1>0, <1>10, <1>15, CountedTyped

LEMMA EncapIs ==
    ASSUME IInv, op.pc = "map", NEW c \in SUBSET Flags, NEW to \in Targeted,
           NEW o \in Ops, o.pc = "map", AllocEncap(c, to, o), UNCHANGED <<rule, chip, group>>
    PROVE  /\ cnt' \in [outs : Nat, gre : Nat, qinq : Nat]
           /\ Made(o, to, EncapEdit(c))
<1>0. TablesOK
  BY DEF IInv
<1>3. FreeWords(1) # {} /\ FreeNhs # {}
  BY DEF AllocEncap
<1>4. PICK off, id : off = Lowest(FreeWords(1)) /\ id = Lowest(FreeNhs)
  OBVIOUS
<1>5. id \in NhIds \ pool.nh
  BY <1>0, <1>3, <1>4, FreeIds
<1>6. off \in Words \ pool.word /\ off # 0 /\ Span(off, 1) = {off}
  BY <1>0, <1>3, <1>4, FreeBlock
<1>7. PICK nh, rec : /\ nh = [nhid |-> id, offset |-> off, type |-> "IPUC"]
                     /\ rec = [to |-> to, edit |-> EncapEdit(c), words |-> {off}]
  OBVIOUS
<1>8. nh \in Nh /\ nh.nhid = id /\ Freed(nh) = {off} /\ nh.type = "IPUC"
  <2>1. nh \in Nh /\ nh.nhid = id /\ nh.offset = off /\ nh.type = "IPUC"
    BY <1>5, <1>6, <1>7 DEF Nh, Types
  <2> QED BY <1>6, <2>1 DEF Freed, Size
<1>9. rec \in HwNhs /\ rec.words = {off} /\ rec.to = to /\ rec.edit = EncapEdit(c)
  <2>1. EncapEdit(c) \in SUBSET Flags
    BY DEF EncapEdit
  <2> QED BY <1>6, <1>7, <2>1 DEF HwNhs, Targeted
<1>10. /\ cnt' = cnt /\ pool' = [pool EXCEPT !.nh = @ \cup {id}, !.word = @ \cup {off}]
       /\ hwnh' = [hwnh EXCEPT ![id] = rec] /\ op' = [o EXCEPT !.new = Stored(nh)]
  BY <1>4, <1>7 DEF AllocEncap
<1>11. op' \in Ops /\ op'.new = Stored(nh) /\ op'.pc = "map"
  <2>1. [o EXCEPT !.new = Stored(nh)]["pc"] = o["pc"]
    BY <1>0, <1>8, StoredIs
  <2> QED BY <1>0, <1>8, <1>10, <2>1, StoredIs
<1>12. NewMember(nh, rec)
  BY <1>5, <1>6, <1>8, <1>9, <1>10, <1>11 DEF NewMember
<1>13. Charged(nh)
  BY <1>8, <1>10 DEF Charged, Counted
<1>14. Made(o, to, EncapEdit(c))
  BY <1>8, <1>9, <1>10, <1>12, <1>13 DEF Made
<1> QED BY <1>0, <1>10, <1>14 DEF TablesOK

(* The handler has a new member and goes on with the list.                 *)
LEMMA MemberMapped ==
    ASSUME IInv, Mapping, NEW o \in Ops, o.pc = "map", o.i \in {op.i, op.i + 1}, o.list = op.list,
           o.r = op.r, o.mode = op.mode, cnt' \in [outs : Nat, gre : Nat, qinq : Nat],
           NEW nh \in Nh, NEW rec, NewMember(nh, rec), op' = [o EXCEPT !.new = Stored(nh)]
    PROVE  IInv'
<1>0. TablesOK /\ op.pc = "map" /\ op.new.use_mcast /\ rule' = rule /\ op.i \in Nat
  BY AtAction, Typed DEF IInv, NewMember
<1>1. TablesOK' /\ ResInv' /\ ChipInv' /\ GroupInv'
  BY NewMemberGood
<1>2. PICK n : n = Len(op.new.members)
  OBVIOUS
<1>3. op'.new.use_mcast /\ n \in Nat /\ Len(op'.new.members) = n + 1
  BY <1>0, <1>2, NewMemberHas
<1>4. op'.new.members # <<>>
  BY <1>3
<1>5. /\ op' \in Ops /\ op'["pc"] = o["pc"] /\ op'["i"] = o["i"] /\ op'["list"] = o["list"] /\ op'["r"] = o["r"]
      /\ op'["mode"] = o["mode"]
  BY <1>0, StoredIs
<1>6. op'.pc = "map" /\ op'.i \in {op.i, op.i + 1} /\ op'.list = op.list /\ op'.r = op.r /\ op'.mode = op.mode
  BY <1>5
<1>7. OpInv' /\ MapInv'
  BY <1>0, <1>3, <1>4, <1>5, <1>6, Mapped
<1> QED BY <1>1, <1>7 DEF IInv

LEMMA MapLocalStep == ASSUME IInv, MapLocal PROVE IInv'
<1>0. /\ TablesOK /\ Mapping /\ Act.type = "OUTPUT" /\ UNCHANGED <<rule, chip, group>>
  BY DEF IInv, MapLocal, Local, Is
<1>1. op.pc = "map" /\ Act \in Acts /\ Combo = op.combo /\ op.combo \in SUBSET Flags /\ op.k \in Nat /\ op.i \in Nat
  BY <1>0, AtAction, Typed
<1>2. Act.to \in Targets /\ Act.n \in Nat
  <2>1. Act \in [type : {"OUTPUT"}, to : Targets, n : Ports \cup {0}]
    BY <1>0, <1>1 DEF Acts, Fields
  <2> QED BY <2>1 DEF Ports
<1>3. LocalPort \in Targeted
  BY <1>1, <1>2 DEF LocalPort, To, Targeted, Targets
<1>4. PICK o : o = IF Act.to = "ALL" /\ op.k + 1 < NPorts THEN [op EXCEPT !.k = @ + 1] ELSE Advance
  OBVIOUS
<1>5. o \in Ops /\ o.pc = "map" /\ o.i \in {op.i, op.i + 1} /\ o.list = op.list /\ o.r = op.r /\ o.mode = op.mode
  <2>1. CASE o = Advance
    BY <1>0, <1>1, <2>1, AdvanceIs
  <2>2. CASE o = [op EXCEPT !.k = @ + 1]
    <3>1. op.k + 1 \in Nat
      BY <1>1
    <3> QED BY <1>0, <1>1, <2>2, <3>1, Typed DEF Ops
  <2> QED BY <1>4, <2>1, <2>2
<1>6. AllocFlex(op.combo, LocalPort, o)
  BY <1>1, <1>4 DEF MapLocal
<1>7. /\ cnt' \in [outs : Nat, gre : Nat, qinq : Nat]
      /\ Made(o, LocalPort, FlexEdit(op.combo))
  BY <1>0, <1>1, <1>3, <1>5, <1>6, FlexIs
<1> QED BY <1>0, <1>5, <1>7, MemberMapped DEF Made

LEMMA MapTunnelStep == ASSUME IInv, MapTunnel PROVE IInv'
<1>0. /\ TablesOK /\ Mapping /\ Act.type = "OUTPUT" /\ UNCHANGED <<rule, chip, group>>
  BY DEF IInv, MapTunnel, Is
<1>1. op.pc = "map" /\ Act \in Acts /\ Combo = op.combo /\ op.combo \in SUBSET Flags /\ op.k \in Nat /\ op.i \in Nat
  BY <1>0, AtAction, Typed
<1>2. Act.n \in Nat
  <2>1. Act \in [type : {"OUTPUT"}, to : Targets, n : Ports \cup {0}]
    BY <1>0, <1>1 DEF Acts, Fields
  <2> QED BY <2>1 DEF Ports
<1>3. To("TUNNEL", Act.n) \in Targeted
  BY <1>2 DEF To, Targeted, Targets
<1>4. PICK o : o = Advance
  OBVIOUS
<1>5. o \in Ops /\ o.pc = "map" /\ o.i \in {op.i, op.i + 1} /\ o.list = op.list /\ o.r = op.r /\ o.mode = op.mode
  BY <1>0, <1>1, <1>4, AdvanceIs
<1>6. AllocEncap(op.combo, To("TUNNEL", Act.n), o)
  BY <1>1, <1>4 DEF MapTunnel
<1>7. /\ cnt' \in [outs : Nat, gre : Nat, qinq : Nat]
      /\ Made(o, To("TUNNEL", Act.n), EncapEdit(op.combo))
  BY <1>0, <1>1, <1>3, <1>5, <1>6, EncapIs
<1> QED BY <1>0, <1>5, <1>7, MemberMapped DEF Made

LEMMA ToCpuIs ==
    ASSUME IInv, AllocToCpu
    PROVE  /\ \E nh, rec : NewMember(nh, rec) /\ Charged(nh) /\ rec.to = To("CPU", 0) /\ rec.edit = {}
           /\ op'.pc = "member" /\ op'.k = 1 /\ op'.list = op.list /\ op'.r = op.r /\ op'.mode = op.mode
<1>0. /\ TablesOK /\ MapDone /\ FreeNhs # {} /\ UNCHANGED <<rule, chip, group, cnt>> /\ op.pc = "map"
  BY DEF IInv, AllocToCpu, MapDone
<1>1. PICK id, off : id = Lowest(FreeNhs) /\ off = Lowest(Words)
  OBVIOUS
<1>2. id \in NhIds \ pool.nh
  BY <1>0, <1>1, FreeIds
<1>3. off \in Words
  BY <1>1, LowestIn, PoolAssumption
<1>4. PICK nh, rec : /\ nh = [nhid |-> id, offset |-> off, type |-> "USER_DEFINED_OFFSET"]
                     /\ rec = [to |-> To("CPU", 0), edit |-> {}, words |-> {}]
  OBVIOUS
<1>5. nh \in Nh /\ nh.nhid = id /\ Freed(nh) = {} /\ nh.type = "USER_DEFINED_OFFSET"
  BY <1>2, <1>3, <1>4 DEF Nh, Types, Freed
<1>6. rec \in HwNhs /\ rec.words = {} /\ rec.to = To("CPU", 0) /\ rec.edit = {}
  BY <1>4 DEF HwNhs, To
<1>7. PICK o : o = ToMembers(op)
  OBVIOUS
<1>8. o \in Ops /\ o.pc = "member" /\ o.k = 1 /\ o.list = op.list /\ o.r = op.r /\ o.mode = op.mode
  BY <1>0, <1>7, Typed DEF ToMembers, Ops, Pcs
<1>9. /\ pool' = [pool EXCEPT !.nh = @ \cup {id}]
       /\ hwnh' = [hwnh EXCEPT ![id] = rec] /\ op' = [o EXCEPT !.new = Stored(nh)]
  BY <1>1, <1>4, <1>7 DEF AllocToCpu
<1>10. /\ op' \in Ops /\ op'.new = Stored(nh) /\ op'["pc"] = o["pc"] /\ op'["k"] = o["k"] /\ op'["list"] = o["list"]
       /\ op'["r"] = o["r"] /\ op'["mode"] = o["mode"]
  BY <1>0, <1>5, <1>8, <1>9, StoredIs
<1>11. pool' = [pool EXCEPT !.nh = @ \cup {id}, !.word = @ \cup {}]
  BY <1>0, <1>9 DEF TablesOK
<1>12. NewMember(nh, rec)
  BY <1>0, <1>2, <1>5, <1>6, <1>8, <1>9, <1>10, <1>11 DEF NewMember
<1>13. op'.pc = "member" /\ op'.k = 1 /\ op'.list = op.list /\ op'.r = op.r /\ op'.mode = op.mode
  BY <1>8, <1>10
<1>14. Charged(nh)
  BY <1>0, <1>5 DEF Charged, Counted
<1> QED BY <1>6, <1>12, <1>13, <1>14

LEMMA ToCpuStep == ASSUME IInv, AllocToCpu PROVE IInv'
<1>0. /\ TablesOK /\ OpInv /\ MapDone /\ FreeNhs # {} /\ UNCHANGED <<rule, chip, group, cnt>>
  BY DEF IInv, AllocToCpu
<1>1. /\ op.pc = "map" /\ op.r \in Rules /\ op.mode \in {"add", "modify"} /\ op.list \in Lists[op.r]
      /\ op.new.use_mcast
  BY <1>0, MapEnd
<1>2. PICK nh, rec : NewMember(nh, rec)
  BY ToCpuIs
<1>3. TablesOK' /\ ResInv' /\ ChipInv' /\ GroupInv'
  BY <1>0, <1>2, NewMemberGood DEF TablesOK
<1>4. PICK n : n = Len(op.new.members)
  OBVIOUS
<1>5. op'.new.use_mcast /\ n \in Nat /\ Len(op'.new.members) = n + 1
  BY <1>1, <1>2, <1>4, NewMemberHas
<1>6. op'.pc = "member" /\ op'.k = 1 /\ op'.list = op.list /\ op'.r = op.r /\ op'.mode = op.mode
  BY ToCpuIs
<1>7. OpInv'
  <2>1. /\ op.mode = "add" => rule[op.r] = Null
        /\ op.mode = "modify" => rule[op.r] # Null
    BY <1>0, <1>1 DEF OpInv
  <2> QED BY <1>0, <1>1, <1>5, <1>6, <2>1 DEF OpInv, Building
<1>8. MapInv'
  BY <1>5, <1>6 DEF MapInv
<1> QED BY <1>3, <1>7, <1>8 DEF IInv


----------------------------------------------------------------------------
(* The group of a flow is there; it has no members yet.                    *)
LEMMA GroupIs ==
    ASSUME IInv, AllocGroup
    PROVE  \E id \in NhIds \ pool.nh, m \in Mets \ pool.met :
              /\ pool' = [pool EXCEPT !.nh = @ \cup {id}, !.met = @ \cup {m}]
              /\ group' = [group EXCEPT ![id] = <<>>]
              /\ op' \in Ops /\ op'.pc = "map" /\ op'.new.use_mcast /\ op'.new.members = <<>>
              /\ op'.new.main.nhid = id /\ op'.new.main.offset = m
              /\ op'.new.outs = op.new.outs /\ op'.new.tuns = op.new.tuns
              /\ op.new.members = <<>> /\ ~op.new.use_mcast
              /\ op'.r = op.r /\ op'.mode = op.mode /\ op'.list = op.list /\ op'.i = op.i
              /\ op'.k = op.k /\ op'.cpu = op.cpu /\ op'.combo = op.combo /\ op'.new \in Infos
<1>0. TablesOK /\ OpInv /\ GroupInv /\ op.pc = "group" /\ FreeNhs # {} /\ FreeMets # {}
  BY DEF IInv, AllocGroup
<1>1. PICK id, m : id = Lowest(FreeNhs) /\ m = Lowest(FreeMets)
  OBVIOUS
<1>2. id \in NhIds \ pool.nh /\ m \in Mets \ pool.met
  BY <1>0, <1>1, FreeIds
<1>3. ~op.new.use_mcast /\ op.new.members = <<>>
  <2>1. "op" \in Owners /\ Holds("op") /\ Info("op") = op.new
    BY DEF Owners, Holds, Info
  <2> QED BY <1>0, <2>1 DEF OpInv, GroupInv
<1>4. /\ pool' = [pool EXCEPT !.nh = @ \cup {id}, !.met = @ \cup {m}]
      /\ group' = [group EXCEPT ![id] = <<>>]
      /\ op' = [op EXCEPT !.pc = "map", !.new.use_mcast = TRUE,
                          !.new.main = [nhid |-> id, offset |-> m, type |-> "MAX"]]
  BY <1>1 DEF AllocGroup
<1>5. PICK h : h = [nhid |-> id, offset |-> m, type |-> "MAX"]
  OBVIOUS
<1>6. h \in Nh /\ h.nhid = id /\ h.offset = m
  BY <1>2, <1>5 DEF Nh, Types
<1>7. PICK w : w = [op.new EXCEPT !.use_mcast = TRUE, !.main = h]
  OBVIOUS
<1>8. w \in Infos /\ w.use_mcast /\ w.members = <<>> /\ w.main = h /\ w.outs = op.new.outs /\ w.tuns = op.new.tuns
  BY <1>0, <1>3, <1>6, <1>7, Typed DEF Infos
<1>9. op' = [op EXCEPT !.pc = "map", !.new = w]
  BY <1>0, <1>4, <1>5, <1>7, Typed DEF Ops
<1>10. /\ op' \in Ops /\ op'.pc = "map" /\ op'.new = w
       /\ op'.r = op.r /\ op'.mode = op.mode /\ op'.list = op.list /\ op'.i = op.i
       /\ op'.k = op.k /\ op'.cpu = op.cpu /\ op'.combo = op.combo
  BY <1>0, <1>8, <1>9, Typed DEF Ops, Pcs
<1> QED BY <1>2, <1>3, <1>4, <1>6, <1>8, <1>10

LEMMA GroupHas ==
    ASSUME IInv, AllocGroup, NEW R, R = GroupRes(op'.new)
    PROVE  /\ \A o \in Owners : o # "op" => SameHold(o)
           /\ \A o, j, x : Has(o, j, x)' <=> Has(o, j, x) \/ (o = "op" /\ j = 0 /\ x \in R)
           /\ \A j, x : ~Has("op", j, x)
           /\ Taken' = Taken \cup R /\ \A x \in R : x \notin Taken
<1>0. TablesOK /\ op.pc = "group" /\ rule' = rule
  BY DEF IInv, AllocGroup
<1>1. PICK id \in NhIds \ pool.nh, m \in Mets \ pool.met :
         /\ pool' = [pool EXCEPT !.nh = @ \cup {id}, !.met = @ \cup {m}]
         /\ op'.pc = "map" /\ op'.new.use_mcast /\ op'.new.members = <<>>
         /\ op'.new.main.nhid = id /\ op'.new.main.offset = m
         /\ op.new.members = <<>> /\ ~op.new.use_mcast
  BY GroupIs
<1>2. \A o \in Owners : o # "op" => SameHold(o)
  BY <1>0, <1>1 DEF SameHold, Holds, Info, From, Gone, Releasing
<1>3. \A j, x : ~Has("op", j, x)
  BY <1>1 DEF Has, Info, HeldIn
<1>4. \A j, x : Has("op", j, x)' <=> j = 0 /\ x \in R
  <2>1. Info("op")' = op'.new /\ Holds("op")' /\ ~Gone("op")'
    BY <1>1 DEF Info, Holds, Gone, Releasing
  <2>2. \A x : x \in GroupRes(Info("op"))' <=> x \in R
    BY <2>1 DEF GroupRes
  <2>3. Info("op")'.use_mcast /\ Info("op")'.members = <<>>
    BY <1>1, <2>1
  <2> QED BY <2>1, <2>2, <2>3 DEF Has, HeldIn, Owners
<1>5. \A o, j, x : Has(o, j, x)' <=> Has(o, j, x) \/ (o = "op" /\ j = 0 /\ x \in R)
  <2>1. \A o, j, x : Has(o, j, x) => o \in Owners
    BY DEF Has
  <2>2. \A o, j, x : Has(o, j, x)' => o \in Owners
    BY DEF Has, Owners
  <2>3. \A o \in Owners : \A j, x : o # "op" => (Has(o, j, x)' <=> Has(o, j, x))
    BY <1>2, HasSame
  <2> QED BY <1>3, <1>4, <2>1, <2>2, <2>3
<1>6. Taken' = Taken \cup R /\ \A x \in R : x \notin Taken
  <2>1. pool'.nh = pool.nh \cup {id} /\ pool'.word = pool.word /\ pool'.met = pool.met \cup {m}
    BY <1>0, <1>1 DEF TablesOK
  <2>2. R = {<<"nh", id>>, <<"met", m>>}
    BY <1>1 DEF GroupRes
  <2>3. Taken' = Taken \cup R
    BY <2>1, <2>2 DEF Taken
  <2> QED BY <2>2, <2>3 DEF Taken
<1> QED BY <1>2, <1>3, <1>5, <1>6

(* In the chip nothing changes for the owners that hold what they held.    *)
LEMMA ChipKept ==
    ASSUME ChipInv, ResInv, NEW o \in Owners, SameHold(o), Holds(o)',
           \A n \in NhIds : (\E j, x : Has(o, j, x) /\ x = <<"nh", n>>) =>
               hwnh'[n] = hwnh[n] /\ (group[n] # Null => group'[n] # Null)
    PROVE  /\ \A j \in DOMAIN Info(o)'.members : From(o)' <= j =>
                 LET h == Info(o)'.members[j]
                 IN /\ h.nhid \in NhIds /\ hwnh'[h.nhid] # Null
                    /\ hwnh'[h.nhid].words = Freed(h)
           /\ (Info(o)'.use_mcast /\ ~Gone(o)') =>
                 /\ Info(o)'.main.nhid \in NhIds /\ Info(o)'.main.offset \in Mets
                 /\ group'[Info(o)'.main.nhid] # Null
<1>1. CASE Bare(Info(o))'
  <2>1. Info(o)'.members = <<>> /\ ~Info(o)'.use_mcast
    BY <1>1 DEF Bare
  <2> QED BY <2>1
<1>2. CASE /\ Holds(o) /\ Info(o)' = Info(o) /\ From(o)' = From(o)
           /\ Gone(o)' <=> Gone(o)
  <2>1. ASSUME NEW j \in DOMAIN Info(o).members, From(o) <= j
        PROVE  LET h == Info(o).members[j]
               IN h.nhid \in NhIds /\ hwnh[h.nhid] # Null /\ hwnh[h.nhid].words = Freed(h) /\ hwnh'[h.nhid] = hwnh[h.nhid]
    <3>1. Has(o, j, <<"nh", Info(o).members[j].nhid>>)
      BY <1>2, <2>1 DEF Has, HeldIn, NhRes
    <3>2. LET h == Info(o).members[j] IN h.nhid \in NhIds /\ hwnh[h.nhid] # Null /\ hwnh[h.nhid].words = Freed(h)
      BY <1>2, <2>1 DEF ChipInv
    <3> QED BY <3>1, <3>2
  <2>2. ASSUME Info(o).use_mcast, ~Gone(o)
        PROVE  /\ Info(o).main.nhid \in NhIds /\ Info(o).main.offset \in Mets
               /\ group'[Info(o).main.nhid] # Null
    <3>1. Has(o, 0, <<"nh", Info(o).main.nhid>>)
      BY <1>2, <2>2 DEF Has, HeldIn, GroupRes
    <3>2. /\ Info(o).main.nhid \in NhIds /\ Info(o).main.offset \in Mets
          /\ group[Info(o).main.nhid] # Null
      BY <1>2, <2>2 DEF ChipInv
    <3> QED BY <3>1, <3>2
  <2> QED BY <1>2, <2>1, <2>2
<1> QED BY <1>1, <1>2 DEF SameHold

LEMMA AllocGroupStep == ASSUME IInv, AllocGroup PROVE IInv'
<1>0. /\ TablesOK /\ OpInv /\ MapInv /\ GroupInv /\ ChipInv /\ ResInv /\ op.pc = "group"
      /\ UNCHANGED <<rule, chip, hwnh, cnt>>
  BY DEF IInv, AllocGroup
<1>1. PICK id \in NhIds \ pool.nh, m \in Mets \ pool.met :
         /\ pool' = [pool EXCEPT !.nh = @ \cup {id}, !.met = @ \cup {m}]
         /\ group' = [group EXCEPT ![id] = <<>>]
         /\ op' \in Ops /\ op'.pc = "map" /\ op'.new.use_mcast /\ op'.new.members = <<>>
         /\ op'.new.main.nhid = id /\ op'.new.main.offset = m
         /\ op'.r = op.r /\ op'.mode = op.mode /\ op'.list = op.list /\ op'.i = op.i
  BY GroupIs
<1>2. <<>> \in Seq(NhIds) /\ <<>> # Null
  <2>1. PICK e : e = <<>>
    OBVIOUS
  <2>2. e \in Seq(NhIds)
    BY <2>1
  <2> QED BY <2>1, <2>2, NullAssumption
<1>3. TablesOK'
  BY <1>0, <1>1, <1>2 DEF TablesOK
<1>4. ResInv'
  <2>1. PICK i, R : i = 0 /\ R = GroupRes(op'.new)
    OBVIOUS
  <2>2. /\ \A o, j, x : Has(o, j, x)' <=> Has(o, j, x) \/ (o = "op" /\ j = i /\ x \in R)
        /\ \A x : ~Has("op", i, x)
        /\ Taken' = Taken \cup R /\ \A x \in R : x \notin Taken
    BY <2>1, GroupHas
  <2> QED BY <1>0, <2>2, ResTaken
<1>5. \A o \in Owners : o # "op" => SameHold(o)
  <2>1. PICK R : R = GroupRes(op'.new)
    OBVIOUS
  <2> QED BY <2>1, GroupHas
<1>6. GroupInv'
  <2>1. \A o \in Owners : o # "op" => (Holds(o)' => Info(o)'.use_mcast \/ Info(o)'.members = <<>>)
    BY <1>0, <1>5 DEF GroupInv, SameHold, Bare
  <2>2. Info("op")' = op'.new
    BY DEF Info
  <2> QED BY <1>1, <2>1, <2>2 DEF GroupInv, Owners
<1>7. ChipInv'
  <2> SUFFICES ASSUME NEW o \in Owners, Holds(o)'
               PROVE  /\ \A j \in DOMAIN Info(o)'.members : From(o)' <= j =>
                            LET h == Info(o)'.members[j]
                            IN /\ h.nhid \in NhIds /\ hwnh'[h.nhid] # Null
                               /\ hwnh'[h.nhid].words = Freed(h)
                      /\ (Info(o)'.use_mcast /\ ~Gone(o)') =>
                            /\ Info(o)'.main.nhid \in NhIds /\ Info(o)'.main.offset \in Mets
                            /\ group'[Info(o)'.main.nhid] # Null
    BY DEF ChipInv, Owners, Freed, Span, Size
  <2>1. CASE o # "op"
    <3>1. \A n \in NhIds : group[n] # Null => group'[n] # Null
      BY <1>0, <1>1, <1>2 DEF TablesOK
    <3> QED BY <1>0, <1>5, <2>1, <3>1, ChipKept
  <2>2. CASE o = "op"
    <3>1. Info(o)' = op'.new
      BY <2>2 DEF Info
    <3>2. group'[id] # Null
      BY <1>0, <1>1, <1>2 DEF TablesOK
    <3>3. DOMAIN Info(o)'.members = {}
      BY <1>1, <3>1
    <3> QED BY <1>1, <3>1, <3>2, <3>3
  <2> QED BY <2>1, <2>2
<1>8. OpInv' /\ MapInv'
  <2>1. /\ op.r \in Rules /\ op.mode \in {"add", "modify"} /\ op.list \in Lists[op.r]
        /\ op.mode = "add" => rule[op.r] = Null
        /\ op.mode = "modify" => rule[op.r] # Null
    BY <1>0 DEF OpInv, Building
  <2>2. OpInv'
    BY <1>0, <1>1, <2>1 DEF OpInv, Building
  <2>3. \A i \in Outputs(op.list) : ~(i < 1)
    <3>1. op.list \in Seq(Acts)
      BY <1>0, Typed
    <3> QED BY <3>1 DEF Outputs
  <2>4. op.i = 1 /\ Outputs(op.list) # {}
    BY <1>0 DEF MapInv
  <2>5. MapInv'
    BY <1>1, <2>3, <2>4 DEF MapInv
  <2> QED BY <2>2, <2>5
<1> QED BY <1>3, <1>4, <1>6, <1>7, <1>8 DEF IInv


----------------------------------------------------------------------------
(* Something is given back by the one who has it.                          *)
LEMMA ResGiven ==
    ASSUME ResInv, NEW p, NEW i, NEW R, \A x : x \in R <=> Has(p, i, x),
           \A o, j, x : Has(o, j, x)' <=> Has(o, j, x) /\ ~(o = p /\ j = i),
           \A x : x \in Taken' <=> x \in Taken /\ x \notin R
    PROVE  ResInv'
<1>1. ASSUME NEW o, NEW j, NEW x, Has(o, j, x)' PROVE x \in Taken'
  <2>1. Has(o, j, x) /\ ~(o = p /\ j = i)
    BY <1>1
  <2>2. ~Has(p, i, x)
    BY <2>1 DEF ResInv
  <2> QED BY <2>1, <2>2 DEF ResInv
<1> QED BY <1>1 DEF ResInv

(* The one a handler releases for.                                         *)
LEMMA LoserIs ==
    ASSUME IInv, op.pc \in {"release", "end"}
    PROVE  /\ Loser \in Owners /\ Holds(Loser) /\ Info(Loser) = op.rel /\ Releasing(Loser)
           /\ op.k \in Nat /\ op.k >= 1 /\ op.rel \in Infos
           /\ \A o \in Owners : o # Loser => ~Releasing(o)
           /\ op.rel.members \in Seq(Nh) /\ op.rel.main \in Nh
           /\ op.r \in Rules /\ op.r # "op" /\ op.mode \in {"modify", "del", "undo"}
<1>1. TablesOK /\ OpInv
  BY DEF IInv
<1>2. /\ op.r \in Rules /\ op.mode \in {"modify", "del", "undo"} /\ op.rel = Info(Loser) /\ op.k >= 1
      /\ op.mode \in {"modify", "del"} => rule[op.r] # Null
  BY <1>1 DEF OpInv
<1>3. op.r # "op"
  BY <1>2, NullAssumption
<1>4. Loser \in Owners /\ Holds(Loser)
  BY <1>2 DEF Loser, Owners, Holds
<1>5. Releasing(Loser) /\ \A o \in Owners : o # Loser => ~Releasing(o)
  BY DEF Releasing, Loser
<1> QED BY <1>1, <1>2, <1>3, <1>4, <1>5, Typed

LEMMA MemberGone ==
    ASSUME IInv, ReleaseMember
    PROVE  /\ op.k \in DOMAIN op.rel.members
           /\ op' \in Ops /\ op'.k = op.k + 1 /\ op'.pc = "release" /\ op'.rel = op.rel /\ op'.new = op.new
           /\ op'.r = op.r /\ op'.mode = op.mode
           /\ \A o \in Owners : o # Loser => SameHold(o)
           /\ Holds(Loser)' /\ Info(Loser)' = op.rel /\ From(Loser)' = op.k + 1 /\ ~Gone(Loser)' /\ Loser' = Loser
           /\ From(Loser) = op.k /\ ~Gone(Loser)
           /\ \A x : x \in NhRes(op.rel.members[op.k]) <=> Has(Loser, op.k, x)
           /\ \A o, j, x : Has(o, j, x)' <=> Has(o, j, x) /\ ~(o = Loser /\ j = op.k)
           /\ \A x : x \in Taken' <=> x \in Taken /\ x \notin NhRes(op.rel.members[op.k])
<1>0. TablesOK /\ op.pc = "release" /\ MembersLeft /\ rule' = rule
  BY DEF IInv, ReleaseMember
<1>1. PICK l, k : l = Loser /\ k = op.k
  OBVIOUS
<1>2. /\ l \in Owners /\ Holds(l) /\ Info(l) = op.rel /\ Releasing(l) /\ k \in Nat /\ k >= 1
      /\ \A o \in Owners : o # l => ~Releasing(o)
      /\ op.rel.members \in Seq(Nh)
  BY <1>0, <1>1, LoserIs
<1>3. k \in DOMAIN op.rel.members
  BY <1>0, <1>1, <1>2 DEF MembersLeft
<1>4. /\ op' \in Ops /\ op'.k = k + 1 /\ op'.pc = "release" /\ op'.rel = op.rel /\ op'.new = op.new
      /\ op'.r = op.r /\ op'.mode = op.mode
  <2>1. PICK i : i = k + 1
    OBVIOUS
  <2>2. i \in Nat
    BY <1>2, <2>1
  <2>3. op' = [op EXCEPT !.k = i]
    BY <1>1, <2>1 DEF ReleaseMember
  <2> QED BY <1>0, <2>1, <2>2, <2>3, Typed DEF Ops
<1>5. \A o \in Owners : (Releasing(o)' <=> Releasing(o)) /\ ~Gone(o) /\ ~Gone(o)' /\ Info(o)' = Info(o)
                        /\ (Holds(o)' <=> Holds(o))
  BY <1>0, <1>4 DEF Releasing, Gone, Info, Holds
<1>6. \A o \in Owners : o # l => SameHold(o)
  BY <1>2, <1>5 DEF SameHold, From
<1>7. From(l) = k /\ From(l)' = k + 1 /\ Info(l)' = op.rel /\ Holds(l)'
  BY <1>1, <1>2, <1>4, <1>5 DEF From
<1>8. \A j, x : Has(l, j, x) <=> HeldIn(op.rel, k, FALSE, j, x)
  BY <1>2, <1>5, <1>7 DEF Has, HeldIn
<1>9. \A j, x : Has(l, j, x)' <=> HeldIn(op.rel, k + 1, FALSE, j, x)
  BY <1>2, <1>5, <1>7 DEF Has, HeldIn, Owners, GroupRes, NhRes, Freed, Span, Size
<1>10. \A j, x : HeldIn(op.rel, k + 1, FALSE, j, x) <=> HeldIn(op.rel, k, FALSE, j, x) /\ j # k
  <2>1. \A j \in DOMAIN op.rel.members : j \in Nat
    BY <1>2
  <2>2. \A j \in DOMAIN op.rel.members : k + 1 <= j <=> k <= j /\ j # k
    BY <1>2, <2>1
  <2> QED BY <1>2, <2>2 DEF HeldIn
<1>11. \A x : x \in NhRes(op.rel.members[k]) <=> Has(l, k, x)
  BY <1>2, <1>3, <1>8 DEF HeldIn
<1>12. \A o, j, x : Has(o, j, x)' <=> Has(o, j, x) /\ ~(o = l /\ j = k)
  <2>1. \A o, j, x : Has(o, j, x) => o \in Owners
    BY DEF Has
  <2>2. \A o, j, x : Has(o, j, x)' => o \in Owners
    BY DEF Has, Owners
  <2>3. \A o \in Owners : \A j, x : o # l => (Has(o, j, x)' <=> Has(o, j, x))
    BY <1>6, HasSame
  <2> QED BY <1>8, <1>9, <1>10, <2>1, <2>2, <2>3
<1>13. \A x : x \in Taken' <=> x \in Taken /\ x \notin NhRes(op.rel.members[k])
  <2>1. PICK nh : nh = op.rel.members[k]
    OBVIOUS
  <2>2. pool'.nh = pool.nh \ {nh.nhid} /\ pool'.word = pool.word \ Freed(nh) /\ pool'.met = pool.met
    BY <1>0, <1>1, <2>1 DEF ReleaseMember, TablesOK
  <2>3. \A x : x \in NhRes(nh) <=> x = <<"nh", nh.nhid>> \/ \E w \in Freed(nh) : x = <<"word", w>>
    BY DEF NhRes
  <2>4. \A x : x \in Taken <=> \/ \E w \in pool.nh : x = <<"nh", w>>
                               \/ \E w \in pool.word : x = <<"word", w>>
                               \/ \E w \in pool.met : x = <<"met", w>>
    BY DEF Taken
  <2>5. \A x : x \in Taken' <=> \/ \E w \in pool'.nh : x = <<"nh", w>>
                                \/ \E w \in pool'.word : x = <<"word", w>>
                                \/ \E w \in pool'.met : x = <<"met", w>>
    BY DEF Taken
  <2>6. \A x : x \in Taken' <=> x \in Taken /\ x \notin NhRes(nh)
    BY <2>2, <2>3, <2>4, <2>5
  <2> QED BY <2>1, <2>6
<1>14. Loser' = l
  BY <1>1, <1>4 DEF Loser
<1> QED BY <1>1, <1>2, <1>3, <1>4, <1>5, <1>6, <1>7, <1>11, <1>12, <1>13, <1>14

LEMMA ReleaseMemberStep == ASSUME IInv, ReleaseMember PROVE IInv'
<1>0. /\ TablesOK /\ OpInv /\ ResInv /\ ChipInv /\ GroupInv /\ op.pc = "release" /\ UNCHANGED <<rule, chip, group>>
  BY DEF IInv, ReleaseMember
<1>1. PICK l, k, nh : l = Loser /\ k = op.k /\ nh = op.rel.members[k]
  OBVIOUS
<1>2. /\ op' \in Ops /\ op'.k = k + 1 /\ op'.pc = "release" /\ op'.rel = op.rel /\ op'.new = op.new
      /\ op'.r = op.r /\ op'.mode = op.mode /\ k \in DOMAIN op.rel.members
      /\ Holds(l)' /\ Info(l)' = op.rel /\ From(l)' = k + 1 /\ ~Gone(l)' /\ Loser' = l
      /\ From(l) = k /\ ~Gone(l)
      /\ \A o \in Owners : o # l => SameHold(o)
  BY <1>1, MemberGone
<1>3. /\ l \in Owners /\ Holds(l) /\ Info(l) = op.rel /\ k \in Nat /\ k >= 1
      /\ op.rel.members \in Seq(Nh) /\ op.rel \in Infos
  BY <1>0, <1>1, LoserIs
<1>4. ResInv'
  <2>1. PICK R : R = NhRes(op.rel.members[op.k])
    OBVIOUS
  <2>2. /\ \A x : x \in R <=> Has(l, k, x)
        /\ \A o, j, x : Has(o, j, x)' <=> Has(o, j, x) /\ ~(o = l /\ j = k)
        /\ \A x : x \in Taken' <=> x \in Taken /\ x \notin R
    BY <1>1, <2>1, MemberGone
  <2> QED BY <1>0, <2>2, ResGiven
<1>5. nh \in Nh /\ nh.nhid \in NhIds
  <2>1. nh \in Nh
    BY <1>1, <1>2, <1>3
  <2>2. k <= k
    BY <1>3
  <2> QED BY <1>0, <1>1, <1>2, <1>3, <2>1, <2>2 DEF ChipInv
<1>6. /\ hwnh' = [hwnh EXCEPT ![nh.nhid] = Null] /\ cnt' = UncountedNh(nh.type)
      /\ pool' = [pool EXCEPT !.nh = @ \ {nh.nhid}, !.word = @ \ Freed(nh)]
  BY <1>1 DEF ReleaseMember
<1>7. TablesOK'
  <2>1. cnt' \in [outs : Nat, gre : Nat, qinq : Nat]
    BY <1>0, <1>6, CountedTyped
  <2>2. hwnh' \in [NhIds -> HwNhs \cup {Null}] /\ pool' \in [nh : SUBSET NhIds, word : SUBSET Words, met : SUBSET Mets]
    BY <1>0, <1>6 DEF TablesOK
  <2> QED BY <1>0, <1>2, <2>1, <2>2 DEF TablesOK
<1>8. GroupInv'
  <2>1. \A o \in Owners : o # l => (Holds(o)' => Info(o)'.use_mcast \/ Info(o)'.members = <<>>)
    BY <1>0, <1>2 DEF GroupInv, SameHold, Bare
  <2>2. op.rel.use_mcast \/ op.rel.members = <<>>
    BY <1>0, <1>3 DEF GroupInv
  <2> QED BY <1>2, <2>1, <2>2 DEF GroupInv, Owners
<1>9. OpInv' /\ MapInv'
  <2>1. /\ op.r \in Rules /\ op.mode \in {"modify", "del", "undo"} /\ op.r # "op"
        /\ op.mode \in {"modify", "del"} => rule[op.r] # Null
        /\ op.mode = "del" => op.new = NoInfo
    BY <1>0, LoserIs DEF OpInv
  <2>2. op'.k >= 1
    BY <1>2, <1>3
  <2>3. op'.rel = Info(Loser)'
    BY <1>2
  <2>4. OpInv'
    BY <1>0, <1>2, <2>1, <2>2, <2>3 DEF OpInv, Building
  <2> QED BY <1>2, <2>4 DEF MapInv
<1>10. \A o, j, x : Has(o, j, x) /\ x = <<"nh", nh.nhid>> => o = l /\ j = k
  <2>1. Has(l, k, <<"nh", nh.nhid>>)
    <3>1. <<"nh", nh.nhid>> \in NhRes(nh)
      BY DEF NhRes
    <3> QED BY <1>1, <3>1, MemberGone
  <2> QED BY <1>0, <2>1 DEF ResInv
<1>11. \A n \in NhIds : n # nh.nhid => hwnh'[n] = hwnh[n]
  BY <1>0, <1>5, <1>6 DEF TablesOK
<1>12. ChipInv'
  <2> SUFFICES ASSUME NEW o \in Owners, Holds(o)'
               PROVE  /\ \A j \in DOMAIN Info(o)'.members : From(o)' <= j =>
                            LET h == Info(o)'.members[j]
                            IN /\ h.nhid \in NhIds /\ hwnh'[h.nhid] # Null
                               /\ hwnh'[h.nhid].words = Freed(h)
                      /\ (Info(o)'.use_mcast /\ ~Gone(o)') =>
                            /\ Info(o)'.main.nhid \in NhIds /\ Info(o)'.main.offset \in Mets
                            /\ group'[Info(o)'.main.nhid] # Null
    BY DEF ChipInv, Owners, Freed, Span, Size
  <2>1. CASE o # l
    <3>1. ASSUME NEW n \in NhIds, \E j, x : Has(o, j, x) /\ x = <<"nh", n>>
          PROVE  hwnh'[n] = hwnh[n] /\ (group[n] # Null => group'[n] # Null)
      <4>1. n # nh.nhid
        BY <1>10, <2>1, <3>1
      <4> QED BY <1>0, <1>11, <4>1
    <3>2. SameHold(o)
      BY <1>2, <2>1
    <3> QED BY <1>0, <3>1, <3>2, ChipKept
  <2>2. CASE o = l
    <3>1. ASSUME NEW j \in DOMAIN op.rel.members, k + 1 <= j
          PROVE  LET h == op.rel.members[j]
                 IN /\ h.nhid \in NhIds /\ hwnh'[h.nhid] # Null /\ hwnh'[h.nhid].words = Freed(h)
      <4>1. j \in Nat /\ k <= j /\ j # k
        BY <1>3, <3>1
      <4>2. LET h == op.rel.members[j]
            IN /\ h.nhid \in NhIds /\ hwnh[h.nhid] # Null /\ hwnh[h.nhid].words = Freed(h)
        BY <1>0, <1>2, <1>3, <4>1 DEF ChipInv
      <4>3. Has(l, j, <<"nh", op.rel.members[j].nhid>>)
        BY <1>2, <1>3, <4>1 DEF Has, HeldIn, NhRes
      <4>4. op.rel.members[j].nhid # nh.nhid
        BY <1>10, <4>1, <4>3
      <4> QED BY <1>11, <4>2, <4>4
    <3>2. op.rel.use_mcast => /\ op.rel.main.nhid \in NhIds /\ op.rel.main.offset \in Mets
                              /\ group[op.rel.main.nhid] # Null
      BY <1>0, <1>2, <1>3 DEF ChipInv
    <3> QED BY <1>0, <1>2, <2>2, <3>1, <3>2
  <2> QED BY <2>1, <2>2
<1> QED BY <1>4, <1>7, <1>8, <1>9, <1>12 DEF IInv


(* The group goes when the members are gone.                               *)
LEMMA GroupGone ==
    ASSUME IInv, ReleaseGroup
    PROVE  /\ op' \in Ops /\ op'.k = op.k /\ op'.pc = "end" /\ op'.rel = op.rel /\ op'.new = op.new
           /\ op'.r = op.r /\ op'.mode = op.mode
           /\ \A o \in Owners : o # Loser => SameHold(o)
           /\ Holds(Loser)' /\ Info(Loser)' = op.rel /\ From(Loser)' = op.k /\ Gone(Loser)' /\ Loser' = Loser
           /\ From(Loser) = op.k /\ ~Gone(Loser)
           /\ op.rel.use_mcast => \A x : x \in GroupRes(op.rel) <=> Has(Loser, 0, x)
           /\ \A o, j, x : Has(o, j, x)' <=> Has(o, j, x) /\ ~(o = Loser /\ j = 0)
<1>0. TablesOK /\ op.pc = "release" /\ rule' = rule
  BY DEF IInv, ReleaseGroup
<1>1. PICK l, k : l = Loser /\ k = op.k
  OBVIOUS
<1>2. /\ l \in Owners /\ Holds(l) /\ Info(l) = op.rel /\ Releasing(l) /\ k \in Nat /\ k >= 1
      /\ \A o \in Owners : o # l => ~Releasing(o)
      /\ op.rel.members \in Seq(Nh)
  BY <1>0, <1>1, LoserIs
<1>4. /\ op' \in Ops /\ op'.k = k /\ op'.pc = "end" /\ op'.rel = op.rel /\ op'.new = op.new
      /\ op'.r = op.r /\ op'.mode = op.mode
  BY <1>0, <1>1, Typed DEF ReleaseGroup, Ops, Pcs
<1>5. \A o \in Owners : (Releasing(o)' <=> Releasing(o)) /\ ~Gone(o) /\ (Gone(o)' <=> Releasing(o)) /\ Info(o)' = Info(o)
                        /\ (Holds(o)' <=> Holds(o)) /\ From(o)' = From(o)
  BY <1>0, <1>1, <1>4 DEF Releasing, Gone, Info, Holds, From
<1>6. \A o \in Owners : o # l => SameHold(o)
  BY <1>2, <1>5 DEF SameHold
<1>7. From(l) = k /\ From(l)' = k /\ Info(l)' = op.rel /\ Holds(l)' /\ Gone(l)' /\ ~Gone(l)
  BY <1>1, <1>2, <1>4, <1>5 DEF From
<1>8. \A j, x : Has(l, j, x) <=> HeldIn(op.rel, k, FALSE, j, x)
  BY <1>2, <1>5, <1>7 DEF Has, HeldIn
<1>9. \A j, x : Has(l, j, x)' <=> HeldIn(op.rel, k, TRUE, j, x)
  BY <1>2, <1>5, <1>7 DEF Has, HeldIn, Owners, GroupRes, NhRes, Freed, Span, Size
<1>10. \A j, x : HeldIn(op.rel, k, TRUE, j, x) <=> HeldIn(op.rel, k, FALSE, j, x) /\ j # 0
  <2>1. 0 \notin DOMAIN op.rel.members
    BY <1>2
  <2> QED BY <2>1 DEF HeldIn
<1>11. op.rel.use_mcast => \A x : x \in GroupRes(op.rel) <=> Has(l, 0, x)
  <2>1. 0 \notin DOMAIN op.rel.members
    BY <1>2
  <2> QED BY <1>8, <2>1 DEF HeldIn
<1>12. \A o, j, x : Has(o, j, x)' <=> Has(o, j, x) /\ ~(o = l /\ j = 0)
  <2>1. \A o, j, x : Has(o, j, x) => o \in Owners
    BY DEF Has
  <2>2. \A o, j, x : Has(o, j, x)' => o \in Owners
    BY DEF Has, Owners
  <2>3. \A o \in Owners : \A j, x : o # l => (Has(o, j, x)' <=> Has(o, j, x))
    BY <1>6, HasSame
  <2> QED BY <1>8, <1>9, <1>10, <2>1, <2>2, <2>3
<1>14. Loser' = l
  BY <1>1, <1>4 DEF Loser
<1> QED BY <1>1, <1>4, <1>6, <1>7, <1>11, <1>12, <1>14

(* What the pools get back with the group.                                 *)
LEMMA GroupTaken ==
    ASSUME IInv, ReleaseGroup, op.rel.use_mcast
    PROVE  \A x : x \in Taken' <=> x \in Taken /\ x \notin GroupRes(op.rel)
<1>0. TablesOK
  BY DEF IInv
<1>1. PICK n, m : n = op.rel.main.nhid /\ m = op.rel.main.offset
  OBVIOUS
<1>2. pool'.nh = pool.nh \ {n} /\ pool'.word = pool.word /\ pool'.met = pool.met \ {m}
  BY <1>0, <1>1 DEF ReleaseGroup, TablesOK
<1>3. GroupRes(op.rel) = {<<"nh", n>>, <<"met", m>>}
  BY <1>1 DEF GroupRes
<1>4. \A x : x \in Taken <=> \/ \E w \in pool.nh : x = <<"nh", w>>
                             \/ \E w \in pool.word : x = <<"word", w>>
                             \/ \E w \in pool.met : x = <<"met", w>>
  BY DEF Taken
<1>5. \A x : x \in Taken' <=> \/ \E w \in pool'.nh : x = <<"nh", w>>
                              \/ \E w \in pool'.word : x = <<"word", w>>
                              \/ \E w \in pool'.met : x = <<"met", w>>
  BY DEF Taken
<1> QED BY <1>2, <1>3, <1>4, <1>5

LEMMA ReleaseGroupStep == ASSUME IInv, ReleaseGroup PROVE IInv'
<1>0. /\ TablesOK /\ OpInv /\ ResInv /\ ChipInv /\ GroupInv /\ op.pc = "release" /\ UNCHANGED <<rule, chip, hwnh, cnt>>
  BY DEF IInv, ReleaseGroup
<1>1. PICK l : l = Loser
  OBVIOUS
<1>2. /\ op' \in Ops /\ op'.k = op.k /\ op'.pc = "end" /\ op'.rel = op.rel /\ op'.new = op.new
      /\ op'.r = op.r /\ op'.mode = op.mode
      /\ Holds(l)' /\ Info(l)' = op.rel /\ From(l)' = op.k /\ Gone(l)' /\ Loser' = l
      /\ From(l) = op.k /\ ~Gone(l)
      /\ \A o \in Owners : o # l => SameHold(o)
      /\ \A o, j, x : Has(o, j, x)' <=> Has(o, j, x) /\ ~(o = l /\ j = 0)
  BY <1>1, GroupGone
<1>3. /\ l \in Owners /\ Holds(l) /\ Info(l) = op.rel /\ op.k \in Nat /\ op.k >= 1
      /\ op.rel.members \in Seq(Nh) /\ op.rel \in Infos
  BY <1>0, <1>1, LoserIs
<1>4. ResInv'
  <2>1. CASE op.rel.use_mcast
    <3>1. PICK R, i : R = GroupRes(op.rel) /\ i = 0
      OBVIOUS
    <3>2. \A x : x \in R <=> Has(l, i, x)
      BY <1>1, <2>1, <3>1, GroupGone
    <3>3. \A x : x \in Taken' <=> x \in Taken /\ x \notin R
      BY <2>1, <3>1, GroupTaken
    <3>4. \A o, j, x : Has(o, j, x)' <=> Has(o, j, x) /\ ~(o = l /\ j = i)
      BY <1>2, <3>1
    <3> QED BY <1>0, <3>2, <3>3, <3>4, ResGiven
  <2>2. CASE ~op.rel.use_mcast
    <3>1. Taken' = Taken
      BY <2>2 DEF ReleaseGroup, Taken
    <3> QED BY <1>0, <1>2, <3>1 DEF ResInv
  <2> QED BY <2>1, <2>2
<1>5. TablesOK'
  <2>1. CASE op.rel.use_mcast
    <3>0. PICK n : n = op.rel.main.nhid
      OBVIOUS
    <3>a. n \in NhIds
      BY <1>0, <1>2, <1>3, <2>1, <3>0 DEF ChipInv
    <3>1. group' = [group EXCEPT ![n] = Null]
      BY <2>1, <3>0 DEF ReleaseGroup
    <3>2. group' \in [NhIds -> Seq(NhIds) \cup {Null}]
      BY <1>0, <3>a, <3>1 DEF TablesOK
    <3>3. pool' \in [nh : SUBSET NhIds, word : SUBSET Words, met : SUBSET Mets]
      <4>1. PICK m : m = op.rel.main.offset
        OBVIOUS
      <4>2. pool' = [pool EXCEPT !.nh = @ \ {n}, !.met = @ \ {m}]
        BY <2>1, <3>0, <4>1 DEF ReleaseGroup
      <4> QED BY <1>0, <4>2 DEF TablesOK
    <3> QED BY <1>0, <1>2, <3>2, <3>3 DEF TablesOK
  <2>2. CASE ~op.rel.use_mcast
    BY <1>0, <1>2, <2>2 DEF TablesOK, ReleaseGroup
  <2> QED BY <2>1, <2>2
<1>6. GroupInv'
  <2>1. \A o \in Owners : o # l => (Holds(o)' => Info(o)'.use_mcast \/ Info(o)'.members = <<>>)
    BY <1>0, <1>2 DEF GroupInv, SameHold, Bare
  <2>2. op.rel.use_mcast \/ op.rel.members = <<>>
    BY <1>0, <1>3 DEF GroupInv
  <2> QED BY <1>2, <2>1, <2>2 DEF GroupInv, Owners
<1>7. OpInv' /\ MapInv'
  <2>1. /\ op.r \in Rules /\ op.mode \in {"modify", "del", "undo"} /\ op.r # "op"
        /\ op.mode \in {"modify", "del"} => rule[op.r] # Null
        /\ op.mode = "del" => op.new = NoInfo
    BY <1>0, LoserIs DEF OpInv
  <2>2. op'.k >= 1
    BY <1>2, <1>3
  <2>3. op'.rel = Info(Loser)'
    BY <1>2
  <2>4. OpInv'
    BY <1>0, <1>2, <2>1, <2>2, <2>3 DEF OpInv, Building
  <2> QED BY <1>2, <2>4 DEF MapInv
<1>8. ASSUME NEW o \in Owners, o # l, NEW n \in NhIds, \E j, x : Has(o, j, x) /\ x = <<"nh", n>>, group[n] # Null
      PROVE  group'[n] # Null
  <2>1. CASE op.rel.use_mcast
    <3>1. Has(l, 0, <<"nh", op.rel.main.nhid>>)
      <4>1. <<"nh", op.rel.main.nhid>> \in GroupRes(op.rel)
        BY DEF GroupRes
      <4> QED BY <1>1, <2>1, <4>1, GroupGone
    <3>2. n # op.rel.main.nhid
      BY <1>0, <1>8, <3>1 DEF ResInv
    <3> QED BY <1>0, <1>8, <2>1, <3>2 DEF ReleaseGroup, TablesOK
  <2>2. CASE ~op.rel.use_mcast
    BY <1>8, <2>2 DEF ReleaseGroup
  <2> QED BY <2>1, <2>2
<1>9. ChipInv'
  <2> SUFFICES ASSUME NEW o \in Owners, Holds(o)'
               PROVE  /\ \A j \in DOMAIN Info(o)'.members : From(o)' <= j =>
                            LET h == Info(o)'.members[j]
                            IN /\ h.nhid \in NhIds /\ hwnh'[h.nhid] # Null
                               /\ hwnh'[h.nhid].words = Freed(h)
                      /\ (Info(o)'.use_mcast /\ ~Gone(o)') =>
                            /\ Info(o)'.main.nhid \in NhIds /\ Info(o)'.main.offset \in Mets
                            /\ group'[Info(o)'.main.nhid] # Null
    BY DEF ChipInv, Owners, Freed, Span, Size
  <2>1. CASE o # l
    <3>1. SameHold(o)
      BY <1>2, <2>1
    <3> QED BY <1>0, <1>8, <2>1, <3>1, ChipKept
  <2>2. CASE o = l
    <3>1. \A j \in DOMAIN op.rel.members : op.k <= j =>
             LET h == op.rel.members[j]
             IN /\ h.nhid \in NhIds /\ hwnh[h.nhid] # Null /\ hwnh[h.nhid].words = Freed(h)
      BY <1>0, <1>2, <1>3 DEF ChipInv
    <3> QED BY <1>0, <1>2, <2>2, <3>1
  <2> QED BY <2>1, <2>2
<1> QED BY <1>4, <1>5, <1>6, <1>7, <1>9 DEF IInv


----------------------------------------------------------------------------
(* The end of a handler: the rule takes over what the handler built.       *)
LEMMA HandOver ==
    ASSUME IInv, op.pc \in {"installed", "end"}, op.mode \in {"add", "modify"},
           rule' = [rule EXCEPT ![op.r] = op.new], op' = Idle, NEW r, r = op.r
    PROVE  /\ r \in Rules /\ r # "op" /\ rule' \in [Rules -> Infos \cup {Null}]
           /\ \A o \in Owners : o # "op" /\ o # r => SameHold(o)
           /\ Holds(r)' /\ Info(r)' = op.new /\ From(r)' = 1 /\ ~Gone(r)'
           /\ Info("op") = op.new /\ Holds("op") /\ From("op") = 1 /\ ~Gone("op")
           /\ \A j, x : Has(r, j, x)' <=> Has("op", j, x)
           /\ \A j, x : ~Has("op", j, x)'
           /\ \A o \in Owners : \A j, x : o # "op" /\ o # r => (Has(o, j, x)' <=> Has(o, j, x))
<1>0. TablesOK /\ OpInv
  BY DEF IInv
<1>1. r \in Rules /\ r # "op" /\ op.new \in Infos
  BY <1>0, Typed, NullAssumption DEF OpInv
<1>2. rule' \in [Rules -> Infos \cup {Null}] /\ rule'[r] = op.new /\ \A q \in Rules : q # r => rule'[q] = rule[q]
  BY <1>0, <1>1 DEF TablesOK
<1>3. op.new # Null
  BY <1>1, NullAssumption
<1>4. op'.pc = "idle" /\ op'.new = NoInfo
  BY Constants
<1>5. \A o : ~Releasing(o)'
  BY <1>4 DEF Releasing
<1>6. \A o \in Owners : o # "op" /\ o # r => ~Releasing(o)
  BY DEF Releasing
<1>7. ~Releasing("op")
  BY <1>1 DEF Releasing
<1>8. ASSUME NEW o \in Owners, o # "op", o # r PROVE SameHold(o)
  <2>1. o \in Rules /\ rule'[o] = rule[o]
    BY <1>2, <1>8 DEF Owners
  <2> QED BY <1>5, <1>6, <1>8, <2>1 DEF SameHold, Holds, Info, From, Gone
<1>9. Holds(r)' /\ Info(r)' = op.new /\ From(r)' = 1 /\ ~Gone(r)'
  BY <1>1, <1>2, <1>3, <1>5 DEF Holds, Info, From, Gone
<1>10. Holds("op") /\ Info("op") = op.new /\ From("op") = 1 /\ ~Gone("op") /\ "op" \in Owners
  BY <1>7 DEF Holds, Info, From, Gone, Owners
<1>11. \A j, x : Has(r, j, x)' <=> HeldIn(op.new, 1, FALSE, j, x)
  BY <1>1, <1>9 DEF Has, HeldIn, Owners, GroupRes, NhRes, Freed, Span, Size
<1>12. \A j, x : Has("op", j, x) <=> HeldIn(op.new, 1, FALSE, j, x)
  BY <1>10 DEF Has, HeldIn
<1>13. \A j, x : ~Has("op", j, x)'
  <2>1. Info("op")' = NoInfo /\ NoInfo.members = <<>> /\ ~NoInfo.use_mcast
    BY <1>4, Constants DEF Info
  <2> QED BY <2>1 DEF Has, HeldIn
<1>14. \A o \in Owners : \A j, x : o # "op" /\ o # r => (Has(o, j, x)' <=> Has(o, j, x))
  BY <1>8, HasSame
<1> QED BY <1>1, <1>2, <1>8, <1>9, <1>10, <1>11, <1>12, <1>13, <1>14

(* The invariant of a handler that has ended.                              *)
LEMMA IdleInv == ASSUME op' = Idle PROVE OpInv' /\ MapInv'
<1>1. op'.pc = "idle"
  BY Constants
<1> QED BY <1>1 DEF OpInv, MapInv, Building

LEMMA HandedOver ==
    ASSUME IInv, op.pc \in {"installed", "end"}, op.mode \in {"add", "modify"},
           rule' = [rule EXCEPT ![op.r] = op.new], op' = Idle, UNCHANGED <<chip, hwnh, group, pool>>,
           cnt' \in [outs : Nat, gre : Nat, qinq : Nat]
    PROVE  IInv'
<1>0. TablesOK /\ ResInv /\ ChipInv /\ GroupInv
  BY DEF IInv
<1>1. PICK r : r = op.r
  OBVIOUS
<1>2. /\ r \in Rules /\ r # "op" /\ rule' \in [Rules -> Infos \cup {Null}]
      /\ \A o \in Owners : o # "op" /\ o # r => SameHold(o)
      /\ Holds(r)' /\ Info(r)' = op.new /\ From(r)' = 1 /\ ~Gone(r)'
      /\ Info("op") = op.new /\ Holds("op") /\ From("op") = 1 /\ ~Gone("op")
      /\ \A j, x : Has(r, j, x)' <=> Has("op", j, x)
      /\ \A j, x : ~Has("op", j, x)'
      /\ \A o \in Owners : \A j, x : o # "op" /\ o # r => (Has(o, j, x)' <=> Has(o, j, x))
  BY <1>1, HandOver
<1>3. TablesOK'
  BY <1>0, <1>2, Constants DEF TablesOK
<1>4. ResInv'
  <2>1. \A o, j, x : Has(o, j, x)' => o \in Owners /\ o # "op"
    BY <1>2 DEF Has, Owners
  <2>2. \A x : x \in Taken' <=> x \in Taken
    BY DEF Taken
  <2>3. \A o, j, x : Has(o, j, x)' => (o = r /\ Has("op", j, x)) \/ (o # r /\ o # "op" /\ Has(o, j, x))
    BY <1>2, <2>1
  <2>4. \A o, j, x : Has(o, j, x)' => x \in Taken'
    BY <1>0, <2>2, <2>3 DEF ResInv
  <2>5. ASSUME NEW o, NEW j, NEW q, NEW i, NEW x, Has(o, j, x)', Has(q, i, x)' PROVE o = q /\ i = j
    BY <1>0, <2>3, <2>5 DEF ResInv
  <2> QED BY <2>4, <2>5 DEF ResInv
<1>5. "op" \in Owners /\ \A o \in Owners : o = "op" \/ o = r \/ (o # "op" /\ o # r)
  BY DEF Owners
<1>6. Info("op")' = NoInfo /\ NoInfo.members = <<>> /\ ~NoInfo.use_mcast
  BY Constants DEF Info
<1>7. GroupInv'
  <2>1. \A o \in Owners : o # "op" /\ o # r => (Holds(o)' => Info(o)'.use_mcast \/ Info(o)'.members = <<>>)
    BY <1>0, <1>2 DEF GroupInv, SameHold, Bare
  <2>2. op.new.use_mcast \/ op.new.members = <<>>
    BY <1>0, <1>2, <1>5 DEF GroupInv
  <2> QED BY <1>2, <1>6, <2>1, <2>2 DEF GroupInv, Owners
<1>8. ChipInv'
  <2> SUFFICES ASSUME NEW o \in Owners, Holds(o)'
               PROVE  /\ \A j \in DOMAIN Info(o)'.members : From(o)' <= j =>
                            LET h == Info(o)'.members[j]
                            IN /\ h.nhid \in NhIds /\ hwnh'[h.nhid] # Null
                               /\ hwnh'[h.nhid].words = Freed(h)
                      /\ (Info(o)'.use_mcast /\ ~Gone(o)') =>
                            /\ Info(o)'.main.nhid \in NhIds /\ Info(o)'.main.offset \in Mets
                            /\ group'[Info(o)'.main.nhid] # Null
    BY DEF ChipInv, Owners, Freed, Span, Size
  <2>1. CASE o # "op" /\ o # r
    BY <1>0, <1>2, <2>1, ChipKept
  <2>2. CASE o = r
    <3>1. /\ \A j \in DOMAIN op.new.members : 1 <= j =>
                LET h == op.new.members[j]
                IN /\ h.nhid \in NhIds /\ hwnh[h.nhid] # Null /\ hwnh[h.nhid].words = Freed(h)
          /\ op.new.use_mcast =>
                /\ op.new.main.nhid \in NhIds /\ op.new.main.offset \in Mets
                /\ group[op.new.main.nhid] # Null
      BY <1>0, <1>2, <1>5 DEF ChipInv
    <3> QED BY <1>2, <2>2, <3>1
  <2>3. CASE o = "op"
    <3>1. Info(o)'.members = <<>> /\ ~Info(o)'.use_mcast
      BY <1>6, <2>3
    <3> QED BY <3>1
  <2> QED BY <1>5, <2>1, <2>2, <2>3
<1> QED BY <1>3, <1>4, <1>7, <1>8, IdleInv DEF IInv

(* A delete or an undo ends: its loser holds no more.                      *)
LEMMA Dropped ==
    ASSUME IInv, op.pc = "end", op.mode \in {"del", "undo"}, op' = Idle, UNCHANGED <<chip, hwnh, group, pool>>,
           \/ op.mode = "undo" /\ rule' = rule
           \/ op.mode = "del" /\ rule' = [rule EXCEPT ![op.r] = Null]
    PROVE  /\ rule' \in [Rules -> Infos \cup {Null}]
           /\ \A o \in Owners : o # "op" /\ Holds(o)' => Holds(o) /\ o # Loser /\ SameHold(o)
           /\ \A o \in Owners : o # "op" /\ o # Loser => (Holds(o)' <=> Holds(o)) /\ SameHold(o)
           /\ \A j, x : ~Has("op", j, x)'
           /\ \A o, j, x : Has(o, j, x)' => o # Loser /\ Has(o, j, x)
           /\ \A j, x : Has("op", j, x) => Loser = "op"
<1>0. TablesOK /\ OpInv
  BY DEF IInv
<1>1. PICK r : r = op.r
  OBVIOUS
<1>2. r \in Rules /\ r # "op" /\ rule \in [Rules -> Infos \cup {Null}]
  BY <1>0, <1>1, NullAssumption DEF OpInv, TablesOK
<1>3. op'.pc = "idle" /\ op'.new = NoInfo
  BY Constants
<1>4. \A o : ~Releasing(o)'
  BY <1>3 DEF Releasing
<1>5. \A o \in Owners : o # Loser => ~Releasing(o)
  BY DEF Releasing, Loser
<1>6. ASSUME NEW o \in Owners, o # "op", o # Loser PROVE (Holds(o)' <=> Holds(o)) /\ SameHold(o)
  <2>1. o \in Rules /\ rule'[o] = rule[o]
    BY <1>1, <1>2, <1>6 DEF Owners, Loser
  <2> QED BY <1>4, <1>5, <1>6, <2>1 DEF SameHold, Holds, Info, From, Gone
<1>7. ASSUME NEW o \in Owners, o # "op", Holds(o)' PROVE Holds(o) /\ o # Loser /\ SameHold(o)
  <2>1. o # Loser
    <3>1. CASE op.mode = "undo"
      BY <1>7, <3>1 DEF Loser
    <3>2. CASE op.mode = "del"
      <4>1. rule'[r] = Null
        BY <1>1, <1>2, <3>2
      <4> QED BY <1>1, <1>7, <3>2, <4>1 DEF Loser, Holds
    <3> QED BY <3>1, <3>2
  <2> QED BY <1>6, <1>7, <2>1
<1>8. \A j, x : ~Has("op", j, x)'
  <2>1. Info("op")' = NoInfo /\ NoInfo.members = <<>> /\ ~NoInfo.use_mcast
    BY <1>3, Constants DEF Info
  <2> QED BY <2>1 DEF Has, HeldIn
<1>9. ASSUME NEW o, NEW j, NEW x, Has(o, j, x)' PROVE o # Loser /\ Has(o, j, x)
  <2>1. o \in Owners /\ Holds(o)' /\ o # "op"
    BY <1>8, <1>9 DEF Has, Owners
  <2>2. Holds(o) /\ o # Loser /\ SameHold(o)
    BY <1>7, <2>1
  <2> QED BY <1>9, <2>1, <2>2, HasSame
<1>10. \A j, x : Has("op", j, x) => Loser = "op"
  <2>1. op.mode = "del" => op.new = NoInfo
    BY <1>0 DEF OpInv
  <2>2. NoInfo.members = <<>> /\ ~NoInfo.use_mcast
    BY Constants
  <2> QED BY <2>1, <2>2 DEF Has, HeldIn, Info, Loser
<1>11. rule' \in [Rules -> Infos \cup {Null}]
  BY <1>2
<1> QED BY <1>6, <1>7, <1>8, <1>9, <1>10, <1>11

LEMMA DroppedGood ==
    ASSUME IInv, op.pc = "end", op.mode \in {"del", "undo"}, op' = Idle, UNCHANGED <<chip, hwnh, group, pool>>,
           \/ op.mode = "undo" /\ rule' = rule
           \/ op.mode = "del" /\ rule' = [rule EXCEPT ![op.r] = Null],
           cnt' \in [outs : Nat, gre : Nat, qinq : Nat]
    PROVE  IInv'
<1>0. TablesOK /\ ResInv /\ ChipInv /\ GroupInv
  BY DEF IInv
<1>1. /\ rule' \in [Rules -> Infos \cup {Null}]
      /\ \A o \in Owners : o # "op" /\ Holds(o)' => Holds(o) /\ SameHold(o)
      /\ \A o, j, x : Has(o, j, x)' => Has(o, j, x)
  BY Dropped
<1>2. TablesOK'
  BY <1>0, <1>1, Constants DEF TablesOK
<1>3. ResInv'
  <2>1. \A x : x \in Taken' <=> x \in Taken
    BY DEF Taken
  <2> QED BY <1>0, <1>1, <2>1 DEF ResInv
<1>4. Info("op")' = NoInfo /\ NoInfo.members = <<>> /\ ~NoInfo.use_mcast
  BY Constants DEF Info
<1>5. GroupInv'
  <2>1. \A o \in Owners : o # "op" => (Holds(o)' => Info(o)'.use_mcast \/ Info(o)'.members = <<>>)
    BY <1>0, <1>1 DEF GroupInv, SameHold, Bare
  <2> QED BY <1>4, <2>1 DEF GroupInv, Owners
<1>6. ChipInv'
  <2> SUFFICES ASSUME NEW o \in Owners, Holds(o)'
               PROVE  /\ \A j \in DOMAIN Info(o)'.members : From(o)' <= j =>
                            LET h == Info(o)'.members[j]
                            IN /\ h.nhid \in NhIds /\ hwnh'[h.nhid] # Null
                               /\ hwnh'[h.nhid].words = Freed(h)
                      /\ (Info(o)'.use_mcast /\ ~Gone(o)') =>
                            /\ Info(o)'.main.nhid \in NhIds /\ Info(o)'.main.offset \in Mets
                            /\ group'[Info(o)'.main.nhid] # Null
    BY DEF ChipInv, Owners, Freed, Span, Size
  <2>1. CASE o # "op"
    BY <1>0, <1>1, <2>1, ChipKept
  <2>2. CASE o = "op"
    <3>1. Info(o)'.members = <<>> /\ ~Info(o)'.use_mcast
      BY <1>4, <2>2
    <3> QED BY <3>1
  <2> QED BY <2>1, <2>2
<1> QED BY <1>2, <1>3, <1>5, <1>6, IdleInv DEF IInv

(* The counters stay numbers.                                              *)
LEMMA CountTyped ==
    ASSUME NEW c \in [outs : Nat, gre : Nat, qinq : Nat], NEW a \in Infos
    PROVE  /\ Count(c, a) \in [outs : Nat, gre : Nat, qinq : Nat]
           /\ Uncount(c, a) \in [outs : Nat, gre : Nat, qinq : Nat]
<1>1. a.outs \in Nat /\ a.tuns \in Nat
  BY DEF Infos
<1>2. \A x, y \in Nat : Less(x, y) \in Nat
  BY DEF Less
<1>3. c.outs \in Nat /\ c.gre \in Nat /\ c.qinq \in Nat
  OBVIOUS
<1>4. c.outs + a.outs \in Nat /\ c.gre + a.tuns \in Nat
  BY <1>1, <1>3
<1>5. Less(c.outs, a.outs) \in Nat /\ Less(c.gre, a.tuns) \in Nat
  BY <1>1, <1>2, <1>3
<1> QED BY <1>4, <1>5 DEF Count, Uncount

LEMMA EndStep == ASSUME IInv, EndAdd \/ EndModify \/ EndDel \/ EndUndo PROVE IInv'
<1>0. TablesOK /\ OpInv /\ op.new \in Infos /\ op.rel \in Infos /\ cnt \in [outs : Nat, gre : Nat, qinq : Nat]
  BY Typed DEF IInv, TablesOK
<1>1. CASE EndAdd
  <2>1. cnt' \in [outs : Nat, gre : Nat, qinq : Nat]
    BY <1>0, <1>1, CountTyped DEF EndAdd
  <2> QED BY <1>1, <2>1, HandedOver DEF EndAdd
<1>2. CASE EndModify
  <2>1. PICK c : c = Count(cnt, op.new)
    OBVIOUS
  <2>2. c \in [outs : Nat, gre : Nat, qinq : Nat]
    BY <1>0, <2>1, CountTyped
  <2>3. cnt' \in [outs : Nat, gre : Nat, qinq : Nat]
    BY <1>0, <1>2, <2>1, <2>2, CountTyped DEF EndModify, Ended
  <2> QED BY <1>2, <2>3, HandedOver DEF EndModify, Ended
<1>3. CASE EndDel
  <2>1. cnt' \in [outs : Nat, gre : Nat, qinq : Nat]
    BY <1>0, <1>3, CountTyped DEF EndDel, Ended
  <2> QED BY <1>3, <2>1, DroppedGood DEF EndDel, Ended
<1>4. CASE EndUndo
  <2>1. rule' = rule
    BY <1>0, <1>4 DEF EndUndo, Ended, TablesOK
  <2> QED BY <1>0, <1>4, <2>1, DroppedGood DEF EndUndo, Ended
<1> QED BY <1>1, <1>2, <1>3, <1>4

----------------------------------------------------------------------------
LEMMA InitGood == Init => IInv
<1> SUFFICES ASSUME Init PROVE IInv
  OBVIOUS
<1>1. op = Idle /\ op.pc = "idle" /\ op.new = NoInfo /\ NoInfo.members = <<>> /\ ~NoInfo.use_mcast
  BY Constants DEF Init
<1>2. TablesOK
  BY <1>1, Constants DEF Init, TablesOK
<1>3. \A o \in Owners : Holds(o) => o = "op"
  BY DEF Init, Owners, Holds
<1>4. Info("op") = NoInfo
  BY <1>1 DEF Info
<1>5. \A o, j, x : ~Has(o, j, x)
  BY <1>1, <1>3, <1>4 DEF Has, HeldIn
<1>6. ResInv
  BY <1>5 DEF ResInv
<1>7. GroupInv
  BY <1>1, <1>3, <1>4 DEF GroupInv
<1>8. ChipInv
  <2>1. DOMAIN Info("op").members = {} /\ ~Info("op").use_mcast
    BY <1>1, <1>4
  <2> QED BY <1>3, <2>1 DEF ChipInv
<1>9. OpInv /\ MapInv
  BY <1>1 DEF OpInv, MapInv, Building
<1> QED BY <1>2, <1>6, <1>7, <1>8, <1>9 DEF IInv

LEMMA Stutter == ASSUME IInv, UNCHANGED vars PROVE IInv'
<1>1. UNCHANGED <<rule, chip, hwnh, group, pool, cnt, op>>
  BY DEF vars
<1>2. TablesOK' /\ GroupInv' /\ OpInv' /\ MapInv'
  BY <1>1 DEF IInv, TablesOK, GroupInv, OpInv, MapInv, Info, Holds, Loser
<1>3. \A o \in Owners : SameHold(o)
  BY <1>1 DEF SameHold, Holds, Info, From, Gone, Releasing
<1>4. ResInv' /\ ChipInv'
  BY <1>1, <1>3, Untouched DEF IInv, Taken
<1> QED BY <1>2, <1>4 DEF IInv

(* Every step keeps the invariant.                                         *)
LEMMA StepGood == ASSUME IInv, PresentInv, [Next]_vars PROVE IInv'
<1>1. CASE \E r \in Rules : \E l \in Lists[r] : AddFlow(r, l) \/ ModifyFlow(r, l)
  BY <1>1, BeginStep
<1>2. CASE \E r \in Rules : DelFlow(r)
  BY <1>2, DelFlowStep
<1>3. CASE Install \/ InstallExtra \/ ExtraIgnored
  BY <1>3, InstallStep
<1>5. CASE \/ AllocGroupFails \/ MapLocalFails \/ MapTunnelFails \/ MapBad \/ AllocToCpuFails
           \/ AddMemberFails \/ InstallFails \/ InstallExtraFails
  BY <1>5, Failures
<1>6. CASE EndAdd \/ EndModify \/ EndDel \/ EndUndo
  BY <1>6, EndStep
<1> QED BY <1>1, <1>2, <1>3, <1>5, <1>6, DelExtraStep, AllocGroupStep, MapFieldStep, MapLocalStep,
           MapTunnelStep, MapCpuStep, ToCpuStep, NoCpuStep, AddMemberStep, ReleaseOldStep,
           ReleaseMemberStep, ReleaseGroupStep, Stutter DEF Next

LEMMA PresentInit == Init => PresentInv
  BY Constants DEF Init, PresentInv

LEMMA PresentStep == ASSUME IInv, PresentInv, [Next]_vars PROVE PresentInv'
<1>0. /\ TablesOK /\ OpInv /\ op \in Ops /\ chip \in [Entries -> Redirects \cup {Null}]
      /\ rule \in [Rules -> Infos \cup {Null}] /\ Null \notin Redirects /\ Null \notin Infos
  BY NullAssumption DEF IInv, TablesOK
<1>1. \A r \in Rules : <<r, "main">> \in Entries /\ <<r, "extra">> \in Entries
  BY DEF Entries
<1>2. ASSUME UNCHANGED <<rule, chip>>, op'.pc \notin {"extra", "installed"},
             \A r \in Rules : Removing(r) => Removing(r)'
      PROVE  PresentInv'
  BY <1>2 DEF PresentInv, Whole
<1>3. CASE \E r \in Rules : \E l \in Lists[r] : AddFlow(r, l) \/ ModifyFlow(r, l)
  <2>1. PICK r \in Rules, l \in Seq(Acts) : AddFlow(r, l) \/ ModifyFlow(r, l)
    BY <1>3, ListAssumption
  <2>2. UNCHANGED <<rule, chip>> /\ op'.pc \in {"install", "group", "release"} /\ op = Idle
    BY <1>0, <2>1 DEF AddFlow, ModifyFlow, Begin, Undone, Idle, OpInv
  <2>3. \A q \in Rules : ~Removing(q)
    BY <2>2 DEF Removing, Idle
  <2> QED BY <1>2, <2>2, <2>3
<1>4. CASE \E r \in Rules : DelFlow(r)
  <2>1. PICK r \in Rules : DelFlow(r)
    BY <1>4
  <2>2. op'.mode = "del" /\ op'.r = r /\ op'.pc \in {"delete", "release"} /\ rule' = rule /\ op = Idle
    BY <1>0, <2>1 DEF DelFlow, Deleting, Idle, OpInv
  <2>3. \A q \in Rules : ~Removing(q)
    BY <2>2 DEF Removing, Idle
  <2>4. ASSUME NEW q \in Rules, q # r, rule[q] # Null PROVE Whole(q)'
    <3>1. Whole(q)
      BY <2>3, <2>4 DEF PresentInv
    <3>2. chip'[<<q, "main">>] = chip[<<q, "main">>] /\ chip'[<<q, "extra">>] = chip[<<q, "extra">>]
      BY <1>0, <1>1, <2>1, <2>4 DEF DelFlow
    <3> QED BY <3>1, <3>2 DEF Whole
  <2> QED BY <2>2, <2>4 DEF PresentInv, Removing
<1>5. CASE DelExtra
  <2>1. PICK r : r = op.r
    OBVIOUS
  <2>2. r \in Rules /\ op.mode = "del" /\ rule' = rule /\ op.pc = "delete"
    BY <1>0, <1>5, <2>1 DEF DelExtra, OpInv
  <2>3. op'.mode = "del" /\ op'.r = r /\ op'.pc = "release"
    BY <1>0, <1>5, <2>1, <2>2 DEF DelExtra, Ops
  <2>4. ASSUME NEW q \in Rules, q # r, rule[q] # Null PROVE Whole(q)'
    <3>1. Whole(q)
      BY <2>1, <2>4 DEF PresentInv, Removing
    <3>2. chip'[<<q, "main">>] = chip[<<q, "main">>] /\ chip'[<<q, "extra">>] = chip[<<q, "extra">>]
      BY <1>0, <1>1, <1>5, <2>1, <2>4 DEF DelExtra
    <3> QED BY <3>1, <3>2 DEF Whole
  <2> QED BY <2>2, <2>3, <2>4 DEF PresentInv, Removing
<1>6. CASE Install \/ InstallExtra \/ ExtraIgnored
  <2>1. PICK r, d : r = op.r /\ d = Spot
    OBVIOUS
  <2>2. /\ op.pc \in {"install", "extra"} /\ rule' = rule /\ d \in Entries /\ chip'[d] # Null
        /\ \A e \in Entries : e # d => chip'[e] = chip[e]
        /\ op' = [op EXCEPT !.pc = IF op.pc = "install" /\ op.r \in AnyType THEN "extra" ELSE "installed"]
    BY <1>0, <1>6, <2>1, Entered
  <2>3. r \in Rules /\ op.mode \in {"add", "modify"}
    BY <1>0, <2>1, <2>2 DEF OpInv, Building
  <2>4. /\ op'.r = r /\ op'.mode = op.mode
        /\ op'.pc = IF op.pc = "install" /\ r \in AnyType THEN "extra" ELSE "installed"
    BY <1>0, <2>1, <2>2 DEF Ops
  <2>5. \A e \in Entries : chip[e] # Null => chip'[e] # Null
    BY <2>2
  <2>6. \A q \in Rules : Whole(q) => Whole(q)'
    BY <1>1, <2>5 DEF Whole
  <2>7. op.pc = "install" => chip'[<<r, "main">>] # Null
    BY <2>1, <2>2 DEF Spot
  <2>8. op.pc = "extra" => chip'[<<r, "main">>] # Null /\ chip'[<<r, "extra">>] # Null
    <3>1. op.pc = "extra" => chip[<<r, "main">>] # Null
      BY <2>1 DEF PresentInv
    <3>2. op.pc = "extra" => d = <<r, "extra">>
      BY <2>1 DEF Spot
    <3> QED BY <1>1, <2>2, <2>3, <2>5, <3>1, <3>2
  <2>9. /\ op'.pc = "extra" => r \in AnyType /\ chip'[<<r, "main">>] # Null
        /\ op'.pc = "installed" => Whole(r)'
    BY <2>2, <2>4, <2>7, <2>8 DEF Whole
  <2>10. /\ op'.pc = "extra" => op'.r \in AnyType /\ chip'[<<op'.r, "main">>] # Null
         /\ op'.pc = "installed" => Whole(op.r)'
    BY <2>4, <2>9 DEF Whole
  <2>11. \A q \in Rules : ~Removing(q)
    BY <2>3 DEF Removing
  <2> QED BY <2>2, <2>6, <2>10, <2>11 DEF PresentInv
<1>7. CASE InstallExtraFails
  <2>1. PICK r : r = op.r
    OBVIOUS
  <2>2. r \in Rules /\ op.mode = "add" /\ rule' = rule /\ rule[r] = Null
    BY <1>0, <1>7, <2>1 DEF InstallExtraFails, OpInv
  <2>3. op'.pc = "release"
    BY <1>0, <1>7 DEF InstallExtraFails, Undone, Ops
  <2>4. ASSUME NEW q \in Rules, rule[q] # Null PROVE Whole(q)'
    <3>1. Whole(q) /\ q # r
      BY <2>2, <2>4 DEF PresentInv, Removing
    <3>2. chip'[<<q, "main">>] = chip[<<q, "main">>] /\ chip'[<<q, "extra">>] = chip[<<q, "extra">>]
      BY <1>0, <1>1, <1>7, <2>1, <3>1 DEF InstallExtraFails
    <3> QED BY <3>1, <3>2 DEF Whole
  <2> QED BY <2>2, <2>3, <2>4 DEF PresentInv
<1>8. CASE \/ AllocGroupFails \/ MapLocalFails \/ MapTunnelFails \/ MapBad \/ AllocToCpuFails
           \/ AddMemberFails \/ InstallFails
  <2>1. op' = Undone(op) /\ UNCHANGED <<rule, chip>> /\ op.pc \in Building
    BY <1>8 DEF AllocGroupFails, MapLocalFails, MapTunnelFails, MapBad, AllocToCpuFails, AddMemberFails,
                InstallFails, Mapping, MapDone, Building
  <2>2. op'.pc = "release" /\ op.mode # "del"
    BY <1>0, <2>1 DEF Undone, Ops, OpInv
  <2> QED BY <1>2, <2>1, <2>2 DEF Removing
<1>9. CASE MapLocal \/ MapTunnel
  <2>1. UNCHANGED <<rule, chip>> /\ op.pc = "map"
    BY <1>9 DEF MapLocal, MapTunnel, Mapping
  <2>2. PICK o, new : o \in {Advance, [op EXCEPT !.k = @ + 1]} /\ op' = [o EXCEPT !.new = new]
    BY <1>9 DEF MapLocal, MapTunnel, AllocFlex, AllocEncap
  <2>3. op'.pc = "map" /\ op.mode # "del"
    BY <1>0, <2>1, <2>2 DEF Advance, Ops, OpInv, Building
  <2> QED BY <1>2, <2>1, <2>3 DEF Removing
<1>10. CASE AllocGroup \/ MapField \/ MapCpu \/ AllocToCpu \/ NoCpu \/ AddMember
  <2>1. UNCHANGED <<rule, chip>> /\ op'.pc \in {"map", "member", "install"}
    BY <1>0, <1>10, GroupIs, ToCpuIs
       DEF AllocGroup, MapField, MapCpu, AllocToCpu, NoCpu, AddMember, Mapping, Advance, ToMembers, Ops
  <2>2. op.mode # "del"
    BY <1>0, <1>10 DEF AllocGroup, MapField, MapCpu, AllocToCpu, NoCpu, AddMember, Mapping, MapDone, OpInv, Building
  <2> QED BY <1>2, <2>1, <2>2 DEF Removing
<1>11. CASE ReleaseOld \/ ReleaseMember \/ ReleaseGroup
  <2>1. UNCHANGED <<rule, chip>> /\ op'.pc \in {"release", "end"} /\ op'.mode = op.mode /\ op'.r = op.r
    BY <1>0, <1>11 DEF ReleaseOld, ReleaseMember, ReleaseGroup, Ops
  <2> QED BY <1>2, <2>1 DEF Removing
<1>12. CASE EndAdd \/ EndModify \/ EndDel \/ EndUndo
  <2>1. PICK r : r = op.r
    OBVIOUS
  <2>2. chip' = chip /\ op' = Idle /\ op'.pc = "idle" /\ r \in Rules
    BY <1>0, <1>12, <2>1 DEF EndAdd, EndModify, EndDel, EndUndo, Ended, Idle, OpInv
  <2>3. \A q \in Rules : q # r => rule'[q] = rule[q]
    BY <1>0, <1>12, <2>1 DEF EndAdd, EndModify, EndDel, EndUndo, Ended
  <2>4. rule'[r] # Null => Whole(r)
    <3>1. CASE EndAdd
      BY <2>1, <3>1 DEF EndAdd, PresentInv
    <3>2. CASE EndDel
      BY <1>0, <2>1, <2>2, <3>2 DEF EndDel, Ended
    <3>3. CASE EndModify
      BY <1>0, <2>1, <2>2, <3>3 DEF EndModify, OpInv, PresentInv, Removing
    <3>4. CASE EndUndo
      BY <1>0, <2>1, <2>2, <3>4 DEF EndUndo, Ended, PresentInv, Removing
    <3> QED BY <1>12, <3>1, <3>2, <3>3, <3>4
  <2>5. ASSUME NEW q \in Rules, rule'[q] # Null PROVE Whole(q)'
    <3>1. Whole(q)
      BY <2>1, <2>3, <2>4, <2>5 DEF PresentInv, Removing
    <3> QED BY <2>2, <3>1 DEF Whole
  <2> QED BY <2>2, <2>5 DEF PresentInv
<1>13. CASE UNCHANGED vars
  BY <1>13 DEF vars, PresentInv, Whole, Removing
<1> QED BY <1>3, <1>4, <1>5, <1>6, <1>7, <1>8, <1>9, <1>10, <1>11, <1>12, <1>13 DEF Next

(* The next hops the rules and the handler hold are taken in the pools,    *)
(* held by one only and written in the chip, wherever a handler of         *)
(* adpt_flow.c is and whatever the chip refuses.                           *)
THEOREM Invariant == Spec => [](IInv /\ PresentInv)
<1>1. Init => IInv /\ PresentInv
  BY InitGood, PresentInit
<1>2. IInv /\ PresentInv /\ [Next]_vars => (IInv /\ PresentInv)'
  BY StepGood, PresentStep
<1> QED BY <1>1, <1>2, PTL DEF Spec

(* What Exclusive calls held, in the terms of the invariant.               *)
LEMMA HeldIs ==
    ASSUME TablesOK, NEW h \in Held
    PROVE  /\ h = <<h[1], h[2]>> /\ h[1] \in Owners /\ Holds(h[1])
           /\ h[2] \in DOMAIN Info(h[1]).members /\ From(h[1]) <= h[2]
           /\ \A x \in NhRes(NhOf(h)) : Has(h[1], h[2], x)
<1>0. \E o \in Owners : \E j \in Members(o) : h = <<o, j>>
  BY DEF Held
<1>1. PICK o, j : o \in Owners /\ j \in Members(o) /\ h = <<o, j>>
  BY <1>0
<1>2. Holds(o) /\ j \in DOMAIN Info(o).members /\ (Releasing(o) => j >= op.k)
  BY <1>1 DEF Members
<1>3. DOMAIN Info(o).members = 1 .. Len(Info(o).members) /\ Len(Info(o).members) \in Nat
  BY <1>1, <1>2, InfoTyped
<1>3a. j \in Nat /\ j >= 1 /\ op.k \in Nat
  BY <1>2, <1>3, Typed
<1>4. From(o) <= j
  BY <1>2, <1>3a DEF From
<1>5. \A x \in NhRes(NhOf(h)) : Has(o, j, x)
  BY <1>1, <1>2, <1>4 DEF Has, HeldIn, NhOf
<1> QED BY <1>1, <1>2, <1>4, <1>5

LEMMA GroupsAre ==
    ASSUME NEW o \in Groups
    PROVE  /\ o \in Owners /\ Holds(o) /\ Info(o).use_mcast /\ ~Gone(o)
           /\ \A x \in GroupRes(Info(o)) : Has(o, 0, x)
<1>1. o \in Owners /\ Holds(o) /\ Info(o).use_mcast /\ ~Gone(o)
  BY DEF Groups, Gone
<1> QED BY <1>1 DEF Has, HeldIn

LEMMA InvExclusive == IInv => Exclusive
<1> SUFFICES ASSUME IInv PROVE Exclusive
  OBVIOUS
<1>0. TablesOK /\ ResInv /\ ChipInv
  BY DEF IInv
<1>1. ASSUME NEW h \in Held
      PROVE  /\ NhOf(h).nhid \in pool.nh
             /\ hwnh[NhOf(h).nhid] # Null
             /\ hwnh[NhOf(h).nhid].words = Freed(NhOf(h))
             /\ Freed(NhOf(h)) \subseteq pool.word
  <2>1. PICK nh : nh = NhOf(h)
    OBVIOUS
  <2>2. \A x \in NhRes(nh) : x \in Taken
    BY <1>0, <1>1, <2>1, HeldIs DEF ResInv
  <2>3. nh.nhid \in pool.nh /\ Freed(nh) \subseteq pool.word
    <3>1. PICK f : f = Freed(nh)
      OBVIOUS
    <3>2. <<"nh", nh.nhid>> \in NhRes(nh) /\ \A w \in f : <<"word", w>> \in NhRes(nh)
      BY <3>1 DEF NhRes
    <3>3. \A w : /\ <<"nh", w>> \in Taken => w \in pool.nh
                 /\ <<"word", w>> \in Taken => w \in pool.word
      BY DEF Taken
    <3>4. <<"nh", nh.nhid>> \in Taken /\ \A w \in f : <<"word", w>> \in Taken
      BY <2>2, <3>2
    <3> QED BY <3>1, <3>3, <3>4
  <2>4. hwnh[nh.nhid] # Null /\ hwnh[nh.nhid].words = Freed(nh)
    BY <1>0, <1>1, <2>1, HeldIs DEF ChipInv, NhOf
  <2> QED BY <2>1, <2>3, <2>4
<1>2. ASSUME NEW g \in Held, NEW h \in Held, g # h
      PROVE  NhOf(g).nhid # NhOf(h).nhid /\ Freed(NhOf(g)) \cap Freed(NhOf(h)) = {}
  <2>1. ~(g[1] = h[1] /\ g[2] = h[2])
    BY <1>0, <1>2, HeldIs
  <2>2. \A x : ~(x \in NhRes(NhOf(g)) /\ x \in NhRes(NhOf(h)))
    BY <1>0, <1>2, <2>1, HeldIs DEF ResInv
  <2>3. PICK a, b : a = Freed(NhOf(g)) /\ b = Freed(NhOf(h))
    OBVIOUS
  <2>4. /\ \A w \in a : <<"word", w>> \in NhRes(NhOf(g))
        /\ \A w \in b : <<"word", w>> \in NhRes(NhOf(h))
    BY <2>3 DEF NhRes
  <2>5. <<"nh", NhOf(g).nhid>> \in NhRes(NhOf(g)) /\ <<"nh", NhOf(h).nhid>> \in NhRes(NhOf(h))
    BY DEF NhRes
  <2> QED BY <2>2, <2>3, <2>4, <2>5
<1>3. ASSUME NEW o \in Groups
      PROVE  /\ Info(o).main.nhid \in pool.nh
             /\ group[Info(o).main.nhid] # Null
             /\ Info(o).main.offset \in pool.met
  <2>1. \A x \in GroupRes(Info(o)) : x \in Taken
    BY <1>0, <1>3, GroupsAre DEF ResInv
  <2>2. Info(o).main.nhid \in pool.nh /\ Info(o).main.offset \in pool.met
    BY <2>1 DEF GroupRes, Taken
  <2>3. group[Info(o).main.nhid] # Null
    BY <1>0, <1>3, GroupsAre DEF ChipInv
  <2> QED BY <2>2, <2>3
<1>4. ASSUME NEW o \in Groups, NEW q \in Groups, o # q
      PROVE  /\ Info(o).main.nhid # Info(q).main.nhid
             /\ Info(o).main.offset # Info(q).main.offset
  <2>1. \A x : ~(x \in GroupRes(Info(o)) /\ x \in GroupRes(Info(q)))
    BY <1>0, <1>4, GroupsAre DEF ResInv
  <2> QED BY <2>1 DEF GroupRes
<1> QED BY <1>1, <1>2, <1>3, <1>4 DEF Exclusive

(* What the driver knows is about the entries of the rules.                *)
DriverOK == stats \in [Rules -> {"has", "none", "new"}] /\ stale \subseteq Entries

LEMMA DriverStep == ASSUME IInv, PresentInv, DriverOK, [Next]_vars PROVE DriverOK'
<1>1. CASE \E r \in Rules : \E l \in Lists[r] : AddFlow(r, l) \/ ModifyFlow(r, l)
  BY <1>1 DEF AddFlow, ModifyFlow, Begin, DriverOK
<1>2. CASE (\E r \in Rules : DelFlow(r)) \/ DelExtra
  BY <1>2 DEF DelFlow, DelExtra, DriverOK
<1>3. CASE Install \/ InstallExtra \/ ExtraIgnored
  <2>1. stats' = stats
    BY <1>3 DEF Install, InstallExtra, ExtraIgnored
  <2>2. Spot \in Entries /\ stale' \subseteq stale \cup {Spot}
    BY <1>3, Entered DEF Install, InstallExtra, ExtraIgnored, SetAction, Kept, Written, Spot
  <2> QED BY <2>1, <2>2 DEF DriverOK
<1>4. CASE InstallFails \/ InstallExtraFails
  BY <1>4 DEF InstallFails, InstallExtraFails, DriverOK
<1>5. CASE EndModify \/ EndDel \/ EndUndo
  BY <1>5 DEF EndModify, EndDel, EndUndo, Ended, DriverOK
<1>6. CASE \/ AllocGroup \/ AllocGroupFails \/ MapField \/ MapLocal \/ MapLocalFails \/ MapTunnel
           \/ MapTunnelFails \/ MapCpu \/ MapBad \/ AllocToCpu \/ AllocToCpuFails \/ NoCpu
           \/ AddMember \/ AddMemberFails \/ EndAdd \/ ReleaseOld \/ ReleaseMember \/ ReleaseGroup
           \/ UNCHANGED vars
  <2>1. driver' = driver
    BY <1>6 DEF AllocGroup, AllocGroupFails, MapField, MapLocal, MapLocalFails, MapTunnel, MapTunnelFails,
                MapCpu, MapBad, AllocToCpu, AllocToCpuFails, NoCpu, AddMember, AddMemberFails, EndAdd,
                ReleaseOld, ReleaseMember, ReleaseGroup, vars
  <2> QED BY <2>1 DEF driver, DriverOK
<1> QED BY <1>1, <1>2, <1>3, <1>4, <1>5, <1>6 DEF Next

(* The tables and the handler keep their shapes: the offset of a double    *)
(* next hop stays in the pool, the chip is written with actions of the     *)
(* flow, and no counter gets below zero.                                   *)
THEOREM TypeCorrect == Spec => []TypeOK
<1>1. Init => DriverOK
  BY DEF Init, DriverOK
<1>2. IInv /\ PresentInv /\ DriverOK /\ [Next]_vars => DriverOK'
  BY DriverStep
<1>3. IInv /\ DriverOK => TypeOK
  BY DEF IInv, DriverOK, TypeOK
<1> QED BY <1>1, <1>2, <1>3, Invariant, PTL DEF Spec

(* No two outputs of flows share a next hop, an offset or a group of the   *)
(* chip, at no step of adding, modifying, deleting or giving up and        *)
(* whatever the chip refuses; what is held is taken in the pools of        *)
(* adpt_nexthop.c and occupies in the chip the words it will give back.    *)
THEOREM NextHopsExclusive == Spec => []Exclusive
<1>1. IInv => Exclusive
  BY InvExclusive
<1> QED BY <1>1, Invariant, PTL

----------------------------------------------------------------------------
(* How many next hops the outputs of l up to n ask for.                    *)
UptoOuts(l, n) == {i \in Outputs(l) : i <= n}
UptoAlls(l, n) == {i \in Outputs(l) : i <= n /\ l[i].to = "ALL"}
Upto(l, n) == Cardinality(UptoOuts(l, n)) + (NPorts - 1) * Cardinality(UptoAlls(l, n))

(* A release looks at the first output_count members only: so there are    *)
(* never more, because the list asks for that many, and when it ends it    *)
(* has been through them all.                                              *)
CountInv ==
    /\ \A o \in Owners : Holds(o) => Len(Info(o).members) <= Info(o).outs
    /\ op.pc \in {"group", "map"} => op.new.outs = OutputCount(op.list)
    /\ op.pc = "group" => op.k = 0 /\ ~op.cpu
    /\ op.pc = "map" =>
          Len(op.new.members) + (IF op.cpu THEN 1 ELSE 0) <= Upto(op.list, op.i - 1) + op.k
    /\ (op.pc = "map" /\ op.k > 0) => Mapping /\ Is({"ALL"}) /\ op.k < NPorts
    /\ op.pc = "end" => op.k > Len(op.rel.members)

(* Counting one action further.                                            *)
LEMMA UptoNext ==
    ASSUME NEW l \in Seq(Acts), NEW i \in 1 .. Len(l)
    PROVE  /\ Upto(l, i - 1) \in Nat
           /\ l[i].type # "OUTPUT" => Upto(l, i) = Upto(l, i - 1)
           /\ (l[i].type = "OUTPUT" /\ l[i].to # "ALL") => Upto(l, i) = Upto(l, i - 1) + 1
           /\ (l[i].type = "OUTPUT" /\ l[i].to = "ALL") => Upto(l, i) = Upto(l, i - 1) + NPorts
<1>0. Len(l) \in Nat /\ DOMAIN l = 1 .. Len(l) /\ i \in Nat /\ NPorts \in Nat \ {0}
  BY PoolAssumption
<1>1. PICK A, B, C, D : /\ A = UptoOuts(l, i - 1) /\ B = UptoAlls(l, i - 1)
                        /\ C = UptoOuts(l, i) /\ D = UptoAlls(l, i)
  OBVIOUS
<1>2. /\ IsFiniteSet(A) /\ Cardinality(A) \in Nat
      /\ IsFiniteSet(B) /\ Cardinality(B) \in Nat
  BY <1>1, OutputsFinite DEF UptoOuts, UptoAlls
<1>3. \A q \in Outputs(l) : q \in Nat
  BY DEF Outputs
<1>4. i \in Outputs(l) <=> l[i].type = "OUTPUT"
  BY <1>0 DEF Outputs
<1>5. \A q \in Nat : q <= i <=> q <= i - 1 \/ q = i
  BY <1>0
<1>6. i \notin A /\ i \notin B
  BY <1>0, <1>1 DEF UptoOuts, UptoAlls
<1>7. l[i].type # "OUTPUT" => C = A /\ D = B
  BY <1>1, <1>3, <1>4, <1>5 DEF UptoOuts, UptoAlls
<1>8. l[i].type = "OUTPUT" => C = A \cup {i}
  BY <1>1, <1>3, <1>4, <1>5 DEF UptoOuts
<1>9. (l[i].type = "OUTPUT" /\ l[i].to # "ALL") => D = B
  BY <1>1, <1>3, <1>4, <1>5 DEF UptoAlls
<1>10. (l[i].type = "OUTPUT" /\ l[i].to = "ALL") => D = B \cup {i}
  BY <1>1, <1>3, <1>4, <1>5 DEF UptoAlls
<1>11. Cardinality(A \cup {i}) = Cardinality(A) + 1 /\ Cardinality(B \cup {i}) = Cardinality(B) + 1
  BY <1>2, <1>6, FS_AddElement
<1>12. PICK a, b, p, x, y : /\ a = Cardinality(A) /\ b = Cardinality(B) /\ p = NPorts - 1
                            /\ x = Cardinality(C) /\ y = Cardinality(D)
  OBVIOUS
<1>13. a \in Nat /\ b \in Nat /\ p \in Nat /\ NPorts = p + 1
  BY <1>0, <1>2, <1>12
<1>14. Upto(l, i - 1) = a + p * b /\ Upto(l, i) = x + p * y
  BY <1>1, <1>12 DEF Upto
<1>15. PICK u : u = p * b
  OBVIOUS
<1>16. u \in Nat /\ p * (b + 1) = u + p
  BY <1>13, <1>15
<1>17. /\ l[i].type # "OUTPUT" => x = a /\ y = b
       /\ (l[i].type = "OUTPUT" /\ l[i].to # "ALL") => x = a + 1 /\ y = b
       /\ (l[i].type = "OUTPUT" /\ l[i].to = "ALL") => x = a + 1 /\ y = b + 1
  BY <1>7, <1>8, <1>9, <1>10, <1>11, <1>12
<1>18. /\ y = b => Upto(l, i) = x + u
       /\ y = b + 1 => Upto(l, i) = x + (u + p)
  BY <1>14, <1>15, <1>16
<1>19. Upto(l, i - 1) = a + u
  BY <1>14, <1>15
<1> QED BY <1>13, <1>16, <1>17, <1>18, <1>19

(* Before the first action nothing is asked for, behind the last one all.  *)
LEMMA UptoEnds ==
    ASSUME NEW l \in Seq(Acts), NEW n \in Nat
    PROVE  /\ Upto(l, 0) = 0 /\ Upto(l, n) \in Nat /\ Upto(l, n) <= OutputCount(l)
<1>0. Len(l) \in Nat /\ DOMAIN l = 1 .. Len(l) /\ NPorts \in Nat \ {0}
  BY PoolAssumption
<1>1. PICK A, B, C, D : /\ A = UptoOuts(l, n) /\ B = UptoAlls(l, n)
                        /\ C = Outputs(l) /\ D = {i \in Outputs(l) : l[i].to = "ALL"}
  OBVIOUS
<1>2. IsFiniteSet(C) /\ IsFiniteSet(D) /\ Cardinality(C) \in Nat /\ Cardinality(D) \in Nat
  BY <1>1, OutputsFinite
<1>3. A \subseteq C /\ B \subseteq D
  BY <1>1 DEF UptoOuts, UptoAlls
<1>4. /\ Cardinality(A) \in Nat /\ Cardinality(B) \in Nat
      /\ Cardinality(A) <= Cardinality(C) /\ Cardinality(B) <= Cardinality(D)
  BY <1>2, <1>3, FS_Subset, FS_CardinalityType
<1>5. PICK a, b, p, x, y : /\ a = Cardinality(A) /\ b = Cardinality(B) /\ p = NPorts - 1
                           /\ x = Cardinality(C) /\ y = Cardinality(D)
  OBVIOUS
<1>6. a \in Nat /\ b \in Nat /\ p \in Nat /\ x \in Nat /\ y \in Nat /\ a <= x /\ b <= y
  BY <1>0, <1>2, <1>4, <1>5
<1>7. Upto(l, n) = a + p * b /\ OutputCount(l) = x + p * y
  BY <1>1, <1>5 DEF Upto, OutputCount
<1>8. p * b \in Nat /\ p * y \in Nat /\ p * b <= p * y
  BY <1>6
<1>9. Upto(l, 0) = 0
  <2>1. \A q \in Outputs(l) : ~(q <= 0)
    BY <1>0 DEF Outputs
  <2>2. UptoOuts(l, 0) = {} /\ UptoAlls(l, 0) = {}
    BY <2>1 DEF UptoOuts, UptoAlls
  <2>3. Cardinality({}) = 0
    BY FS_EmptySet
  <2>4. Upto(l, 0) = 0 + p * 0
    BY <1>5, <2>2, <2>3 DEF Upto
  <2> QED BY <1>6, <2>4
<1> QED BY <1>6, <1>7, <1>8, <1>9

(* A record of next hops has no more members than outputs.                 *)
LEMMA CountAt ==
    ASSUME CountInv, rule' = rule, op'.new = op.new \/ Len(op'.new.members) <= op'.new.outs
    PROVE  (\A o \in Owners : Holds(o) => Len(Info(o).members) <= Info(o).outs)'
<1>1. Len(op.new.members) <= op.new.outs
  BY DEF CountInv, Owners, Holds, Info
<1>2. \A o \in Owners : (Holds(o)' <=> Holds(o)) /\ (o # "op" => Info(o)' = Info(o))
  BY DEF Holds, Info
<1>3. Info("op")' = op'.new
  BY DEF Info
<1>4. \A o \in Owners : Holds(o)' => Len(Info(o)'.members) <= Info(o)'.outs
  BY <1>1, <1>2, <1>3 DEF CountInv
<1> QED BY <1>4 DEF Owners

(* Wherever the handler is not counting, that is all.                      *)
LEMMA CountKept ==
    ASSUME CountInv, rule' = rule, op'.new = op.new \/ Len(op'.new.members) <= op'.new.outs,
           op'.pc \notin {"group", "map", "end"}
    PROVE  CountInv'
  BY CountAt DEF CountInv

(* While the list is mapped: one action, or one port of output to all.     *)
LEMMA CountMapped ==
    ASSUME IInv, CountInv, Mapping, rule' = rule, op' \in Ops, op'.pc = "map",
           op'.list = op.list, op'.new.outs = op.new.outs,
           NEW n \in {0, 1}, Len(op'.new.members) = Len(op.new.members) + n,
           NEW c \in {0, 1}, n + c <= 1, op'.cpu <=> op.cpu \/ c = 1,
           \/ op'.i = op.i + 1 /\ op'.k = 0
           \/ op'.i = op.i /\ op'.k = op.k + 1 /\ Is({"ALL"}) /\ op.k + 1 < NPorts,
           n + c = 1 => Act.type = "OUTPUT"
    PROVE  CountInv'
<1>0. /\ TablesOK /\ op.pc = "map" /\ op.i \in 1 .. Len(op.list) /\ op.list \in Seq(Acts) /\ NPorts \in Nat \ {0}
      /\ op.k \in Nat /\ op.new.members \in Seq(Nh) /\ op.cpu \in BOOLEAN
  BY AtAction, Typed, PoolAssumption DEF IInv
<1>1. PICK l, i, k, m, d : l = op.list /\ i = op.i /\ k = op.k /\ m = Len(op.new.members) /\ d = IF op.cpu THEN 1 ELSE 0
  OBVIOUS
<1>2. m \in Nat /\ d \in {0, 1} /\ k \in Nat /\ i \in Nat /\ i >= 1 /\ l \in Seq(Acts) /\ i \in 1 .. Len(l)
  BY <1>0, <1>1
<1>3. PICK u, v, w : u = Upto(l, i - 1) /\ v = Upto(l, i) /\ w = OutputCount(l)
  OBVIOUS
<1>4. /\ u \in Nat /\ v \in Nat /\ w \in Nat /\ u <= w /\ v <= w
      /\ Act.type # "OUTPUT" => v = u
      /\ (Act.type = "OUTPUT" /\ Act.to # "ALL") => v = u + 1
      /\ (Act.type = "OUTPUT" /\ Act.to = "ALL") => v = u + NPorts
  <2>1. i - 1 \in Nat /\ Act = l[i]
    BY <1>1, <1>2 DEF Act
  <2> QED BY <1>2, <1>3, <2>1, UptoNext, UptoEnds, Counts
<1>5. m + d <= u + k /\ op.new.outs = w
  BY <1>0, <1>1, <1>3 DEF CountInv
<1>6. k > 0 => Act.type = "OUTPUT" /\ Act.to = "ALL" /\ k < NPorts
  BY <1>0, <1>1 DEF CountInv, Is
<1>7. PICK e : e = IF op'.cpu THEN 1 ELSE 0
  OBVIOUS
<1>8. e \in {0, 1} /\ (c = 0 => e = d) /\ (c = 1 => e <= 1)
  BY <1>0, <1>1, <1>7
<1>9. PICK f : f = Len(op'.new.members)
  OBVIOUS
<1>9a. f = m + n
  BY <1>1, <1>9
<1>9b. f + e <= m + d + 1 /\ (n + c = 0 => f + e <= m + d) /\ f \in Nat
  BY <1>2, <1>8, <1>9a
<1>10. CASE op'.i = op.i + 1 /\ op'.k = 0
  <2>1. op'.i - 1 = i
    BY <1>1, <1>2, <1>10
  <2>2. f + e <= v
    BY <1>0, <1>2, <1>4, <1>5, <1>6, <1>8, <1>9b
  <2>3. f <= w /\ f + e <= v + 0
    BY <1>4, <1>8, <1>9b, <2>2
  <2>4. f <= op'.new.outs /\ f + e <= Upto(op'.list, op'.i - 1) + op'.k
    BY <1>1, <1>3, <1>5, <1>10, <2>1, <2>3
  <2>5. ~(op'.k > 0)
    BY <1>10
  <2> QED BY <1>1, <1>3, <1>5, <1>7, <1>9, <2>4, <2>5, CountAt DEF CountInv
<1>11. CASE op'.i = op.i /\ op'.k = op.k + 1 /\ Is({"ALL"}) /\ op.k + 1 < NPorts
  <2>1. v = u + NPorts /\ k + 1 < NPorts
    BY <1>1, <1>4, <1>11 DEF Is
  <2>2. f + e <= u + (k + 1)
    BY <1>2, <1>4, <1>5, <1>8, <1>9b
  <2>3. f <= w
    BY <1>0, <1>2, <1>4, <1>8, <1>9b, <2>1, <2>2
  <2>4. f <= op'.new.outs /\ f + e <= Upto(op'.list, op'.i - 1) + op'.k
    BY <1>1, <1>3, <1>5, <1>11, <2>2, <2>3
  <2>5. Mapping' /\ Is({"ALL"})' /\ op'.k < NPorts
    BY <1>0, <1>11 DEF Mapping, Is, Act
  <2> QED BY <1>1, <1>3, <1>5, <1>7, <1>9, <2>4, <2>5, CountAt DEF CountInv
<1> QED BY <1>10, <1>11

(* The steps in which the handler is not counting.                         *)
LEMMA CountQuiet ==
    ASSUME IInv, CountInv,
           \/ DelExtra \/ AllocGroupFails \/ MapLocalFails \/ MapTunnelFails \/ MapBad
           \/ AllocToCpuFails \/ NoCpu \/ AddMember \/ AddMemberFails \/ Install \/ InstallFails
           \/ InstallExtra \/ InstallExtraFails \/ ExtraIgnored \/ ReleaseOld \/ ReleaseMember
    PROVE  CountInv'
<1>0. op \in Ops
  BY DEF IInv, TablesOK
<1>1. CASE \/ AllocGroupFails \/ MapLocalFails \/ MapTunnelFails \/ MapBad \/ AllocToCpuFails
           \/ AddMemberFails \/ InstallFails \/ InstallExtraFails
  <2>1. op' = Undone(op) /\ rule' = rule
    BY <1>1 DEF AllocGroupFails, MapLocalFails, MapTunnelFails, MapBad, AllocToCpuFails,
                AddMemberFails, InstallFails, InstallExtraFails
  <2>2. op'.new = op.new /\ op'.pc = "release"
    BY <1>0, <2>1 DEF Undone, Ops
  <2> QED BY <2>1, <2>2, CountKept
<1>2. CASE DelExtra \/ NoCpu \/ Install \/ InstallExtra \/ ExtraIgnored \/ ReleaseOld
  <2>1. /\ op'.new = op.new /\ rule' = rule
        /\ op'.pc \in {"release", "member", "extra", "installed"}
    BY <1>0, <1>2 DEF DelExtra, NoCpu, Install, InstallExtra, ExtraIgnored, ReleaseOld, ToMembers, Ops
  <2> QED BY <2>1, CountKept
<1>3. CASE AddMember
  <2>1. op'.new = op.new /\ rule' = rule /\ op'.pc \in {"member", "install"}
    BY <1>0, <1>3 DEF AddMember, Ops
  <2> QED BY <2>1, CountKept
<1>4. CASE ReleaseMember
  <2>1. op'.new = op.new /\ rule' = rule /\ op'.pc = "release"
    BY <1>0, <1>4 DEF ReleaseMember, Ops
  <2> QED BY <2>1, CountKept
<1> QED BY <1>1, <1>2, <1>3, <1>4

LEMMA CountBegin ==
    ASSUME IInv, CountInv, NEW r \in Rules, NEW l \in Lists[r], AddFlow(r, l) \/ ModifyFlow(r, l)
    PROVE  CountInv'
<1>1. PICK mode \in {"add", "modify"} : Begin(mode, r, l)
  BY DEF AddFlow, ModifyFlow
<1> DEFINE n == [NoInfo EXCEPT !.outs = OutputCount(l), !.tuns = TunnelCount(l)]
           m == [n EXCEPT !.main = Drop]
           o == [Idle EXCEPT !.mode = mode, !.r = r, !.list = l, !.i = 1, !.new = n]
<1>2. l \in Seq(Acts)
  BY ListAssumption
<1>3. /\ n.members = <<>> /\ m.members = <<>> /\ n.outs = OutputCount(l) /\ m.outs = OutputCount(l)
      /\ n \in Infos /\ m \in Infos
  BY <1>2, Counts, Constants DEF Infos, NoInfo
<1>4. rule' = rule
  BY <1>1 DEF Begin
<1>5. \/ op' = [o EXCEPT !.pc = "install", !.new.main = Drop]
      \/ op' = [o EXCEPT !.pc = "group"]
      \/ op' = Undone(o)
  BY <1>1 DEF Begin
<1>6. [o EXCEPT !.pc = "install", !.new.main = Drop] = [o EXCEPT !.pc = "install", !.new = m]
  BY DEF Idle
<1> HIDE DEF n, m
<1>7. /\ op'.new \in {n, m} /\ op'.pc \in {"install", "group", "release"}
      /\ op'.pc = "group" => op'.list = l /\ op'.k = 0 /\ ~op'.cpu
  <2>1. CASE op' = [o EXCEPT !.pc = "install", !.new = m]
    BY <2>1 DEF Idle
  <2>2. CASE op' = [o EXCEPT !.pc = "group"]
    BY <2>2 DEF Idle
  <2>3. CASE op' = Undone(o)
    BY <2>3 DEF Idle, Undone
  <2> QED BY <1>5, <1>6, <2>1, <2>2, <2>3
<1>8. Len(op'.new.members) <= op'.new.outs /\ op'.new.outs = OutputCount(l)
  <2>1. OutputCount(l) \in Nat /\ Len(<<>>) = 0
    BY <1>2, Counts
  <2> QED BY <1>3, <1>7, <2>1
<1> QED BY <1>4, <1>7, <1>8, CountAt DEF CountInv

LEMMA CountGroup == ASSUME IInv, CountInv, AllocGroup PROVE CountInv'
<1>0. TablesOK /\ OpInv /\ MapInv /\ op.pc = "group" /\ rule' = rule /\ op.list \in Seq(Acts) /\ op.new.outs \in Nat
  BY Typed DEF IInv, AllocGroup
<1>1. /\ op'.pc = "map" /\ op'.new.members = <<>> /\ op'.new.outs = op.new.outs
      /\ op'.list = op.list /\ op'.i = op.i /\ op'.k = op.k /\ op'.cpu = op.cpu
  BY GroupIs
<1>2. op.i = 1 /\ op.k = 0 /\ ~op.cpu /\ op.new.outs = OutputCount(op.list)
  BY <1>0 DEF MapInv, CountInv
<1>3. Len(op'.new.members) = 0 /\ op'.i - 1 = 0 /\ ~(op'.k > 0)
  BY <1>1, <1>2
<1>4. Upto(op'.list, op'.i - 1) = 0
  BY <1>0, <1>1, <1>3, UptoEnds
<1>5. Len(op'.new.members) + (IF op'.cpu THEN 1 ELSE 0) <= Upto(op'.list, op'.i - 1) + op'.k
  BY <1>1, <1>2, <1>3, <1>4
<1>6. Len(op'.new.members) <= op'.new.outs
  BY <1>0, <1>1, <1>3
<1> QED BY <1>0, <1>1, <1>2, <1>3, <1>5, <1>6, CountAt DEF CountInv

LEMMA CountField == ASSUME IInv, CountInv, MapField PROVE CountInv'
<1>0. /\ TablesOK /\ Mapping /\ Act.type # "OUTPUT" /\ Combo # Null /\ op' = Advance /\ rule' = rule
  BY DEF IInv, MapField
<1>1. /\ op' \in Ops /\ op'.i = op.i + 1 /\ op'.k = 0 /\ op'.new = op.new /\ op'.pc = "map"
      /\ op'.list = op.list /\ op'.cpu = op.cpu
  BY <1>0, AtAction, AdvanceIs
<1>2. PICK n \in {0, 1} : n = 0
  OBVIOUS
<1>3. Len(op'.new.members) = Len(op.new.members) + n /\ op'.new.outs = op.new.outs
  <2>1. Len(op.new.members) \in Nat
    BY <1>0, Typed
  <2> QED BY <1>1, <1>2, <2>1
<1>4. n + n <= 1 /\ (op'.cpu <=> op.cpu \/ n = 1) /\ n + n # 1
  BY <1>1, <1>2
<1> QED BY <1>0, <1>1, <1>3, <1>4, CountMapped

LEMMA CountCpu == ASSUME IInv, CountInv, MapCpu PROVE CountInv'
<1>0. /\ TablesOK /\ Mapping /\ Act.type = "OUTPUT" /\ op' = [Advance EXCEPT !.cpu = TRUE] /\ rule' = rule
  BY DEF IInv, MapCpu, ForCpu, Is
<1>1. Combo \in SUBSET Flags
  <2>1. op.combo \in SUBSET Flags
    BY <1>0, Typed
  <2> QED BY <1>0, <2>1, AtAction
<1>2. /\ op' \in Ops /\ op'.i = op.i + 1 /\ op'.k = 0 /\ op'.new = op.new /\ op'.pc = "map"
      /\ op'.list = op.list /\ op'.cpu
  <2>1. PICK a : a = Advance
    OBVIOUS
  <2>2. /\ a \in Ops /\ a.i = op.i + 1 /\ a.k = 0 /\ a.new = op.new /\ a.pc = "map" /\ a.list = op.list
    BY <1>0, <1>1, <2>1, AdvanceIs
  <2>3. op' = [a EXCEPT !.cpu = TRUE]
    BY <1>0, <2>1
  <2> QED BY <2>2, <2>3 DEF Ops
<1>3. PICK n \in {0, 1}, c \in {0, 1} : n = 0 /\ c = 1
  OBVIOUS
<1>4. Len(op'.new.members) = Len(op.new.members) + n /\ op'.new.outs = op.new.outs
  <2>1. Len(op.new.members) \in Nat
    BY <1>0, Typed
  <2> QED BY <1>2, <1>3, <2>1
<1>5. n + c <= 1 /\ (op'.cpu <=> op.cpu \/ c = 1)
  BY <1>2, <1>3
<1> QED BY <1>0, <1>2, <1>4, <1>5, CountMapped

(* A new member for an output of the list.                                 *)
LEMMA CountMember ==
    ASSUME IInv, CountInv, Mapping, Act.type = "OUTPUT", rule' = rule,
           NEW o \in Ops, o.pc = "map", o.list = op.list, o.cpu = op.cpu,
           \/ o.i = op.i + 1 /\ o.k = 0
           \/ o.i = op.i /\ o.k = op.k + 1 /\ Is({"ALL"}) /\ op.k + 1 < NPorts,
           NEW nh \in Nh, NEW rec, NewMember(nh, rec), op' = [o EXCEPT !.new = Stored(nh)]
    PROVE  CountInv'
<1>0. TablesOK
  BY DEF IInv
<1>1. /\ op' \in Ops /\ op'["pc"] = o["pc"] /\ op'["i"] = o["i"] /\ op'["k"] = o["k"]
      /\ op'["list"] = o["list"] /\ op'["cpu"] = o["cpu"]
  BY <1>0, StoredIs
<1>2. PICK m : m = Len(op.new.members)
  OBVIOUS
<1>3. Len(op'.new.members) = m + 1 /\ op'.new.outs = op.new.outs
  BY <1>2, NewMemberHas
<1>4. PICK n \in {0, 1}, c \in {0, 1} : n = 1 /\ c = 0
  OBVIOUS
<1>5. n + c <= 1 /\ (op'.cpu <=> op.cpu \/ c = 1)
  BY <1>1, <1>4
<1> QED BY <1>1, <1>2, <1>3, <1>4, <1>5, CountMapped

(* A local output and an output to a tunnel get a member.                  *)
(* What the next hop of the output at hand does.                           *)
SendsNext(rec) ==
    /\ rec.to = IF Act.to = "TUNNEL" THEN To("TUNNEL", Act.n) ELSE LocalPort
    /\ rec.edit = IF Act.to = "TUNNEL" THEN EncapEdit(op.combo) ELSE FlexEdit(op.combo)

LEMMA LocalIs ==
    ASSUME IInv, MapLocal \/ MapTunnel
    PROVE  /\ Mapping /\ Act.type = "OUTPUT" /\ rule' = rule
           /\ \E o \in Ops, nh \in Nh :
                 /\ o.pc = "map" /\ o.list = op.list /\ o.cpu = op.cpu /\ o.mode = op.mode
                 /\ o.r = op.r /\ o.combo = op.combo
                 /\ \/ o.i = op.i + 1 /\ o.k = 0 /\ (Is({"ALL"}) => op.k + 1 >= NPorts)
                    \/ o.i = op.i /\ o.k = op.k + 1 /\ Is({"ALL"}) /\ op.k + 1 < NPorts
                 /\ op' = [o EXCEPT !.new = Stored(nh)]
                 /\ Charged(nh) /\ \E rec : NewMember(nh, rec) /\ SendsNext(rec)
<1>0. /\ TablesOK /\ Mapping /\ Act.type = "OUTPUT" /\ UNCHANGED <<rule, chip, group>>
  BY DEF IInv, MapLocal, MapTunnel, Local, Is
<1>1. op.pc = "map" /\ Act \in Acts /\ Combo = op.combo /\ op.combo \in SUBSET Flags /\ op.k \in Nat /\ op.i \in Nat
  BY <1>0, AtAction, Typed
<1>2. Act.to \in Targets /\ Act.n \in Nat
  <2>1. Act \in [type : {"OUTPUT"}, to : Targets, n : Ports \cup {0}]
    BY <1>0, <1>1 DEF Acts, Fields
  <2> QED BY <2>1 DEF Ports
<1>3. LocalPort \in Targeted /\ To("TUNNEL", Act.n) \in Targeted
  BY <1>1, <1>2 DEF LocalPort, To, Targeted, Targets
<1>4. PICK o : o = IF MapLocal /\ Act.to = "ALL" /\ op.k + 1 < NPorts THEN [op EXCEPT !.k = @ + 1] ELSE Advance
  OBVIOUS
<1>5. /\ o \in Ops /\ o.pc = "map" /\ o.list = op.list /\ o.cpu = op.cpu /\ o.mode = op.mode
      /\ o.r = op.r /\ o.combo = op.combo
      /\ \/ o.i = op.i + 1 /\ o.k = 0 /\ (Is({"ALL"}) => op.k + 1 >= NPorts)
         \/ o.i = op.i /\ o.k = op.k + 1 /\ Is({"ALL"}) /\ op.k + 1 < NPorts
  <2>0. Is({"ALL"}) => MapLocal
    BY DEF MapTunnel, Is
  <2>1. CASE o = Advance /\ ~(MapLocal /\ Act.to = "ALL" /\ op.k + 1 < NPorts)
    <3>1. Is({"ALL"}) => op.k + 1 >= NPorts
      BY <1>1, <2>0, <2>1, PoolAssumption DEF Is
    <3> QED BY <1>0, <1>1, <2>1, <3>1, AdvanceIs
  <2>2. CASE o = [op EXCEPT !.k = @ + 1] /\ Act.to = "ALL" /\ op.k + 1 < NPorts
    <3>1. op.k + 1 \in Nat
      BY <1>1
    <3> QED BY <1>0, <1>1, <2>2, <3>1, Typed DEF Ops, Is
  <2> QED BY <1>4, <2>1, <2>2
<1>6. CASE MapLocal
  <2>0. PICK c, to : c = op.combo /\ to = LocalPort
    OBVIOUS
  <2>1. AllocFlex(c, to, o)
    BY <1>1, <1>4, <1>6, <2>0 DEF MapLocal
  <2>2. Made(o, to, FlexEdit(c))
    <3>1. c \in SUBSET Flags /\ to \in Targeted /\ o \in Ops /\ o.pc = "map" /\ op.pc = "map"
      BY <1>1, <1>3, <1>5, <2>0
    <3> QED BY <1>0, <2>1, <3>1, FlexIs
  <2>3. Act.to # "TUNNEL"
    BY <1>6 DEF MapLocal, Local, Is
  <2> QED BY <1>0, <1>5, <2>0, <2>2, <2>3 DEF SendsNext, Made
<1>7. CASE MapTunnel /\ ~MapLocal
  <2>1. AllocEncap(op.combo, To("TUNNEL", Act.n), o)
    BY <1>1, <1>4, <1>7 DEF MapTunnel
  <2>2. Made(o, To("TUNNEL", Act.n), EncapEdit(op.combo))
    BY <1>0, <1>1, <1>3, <1>5, <2>1, EncapIs
  <2>3. Act.to = "TUNNEL"
    BY <1>7 DEF MapTunnel, Is
  <2> QED BY <1>0, <1>5, <2>2, <2>3 DEF SendsNext, Made
<1> QED BY <1>6, <1>7

LEMMA CountLocal == ASSUME IInv, CountInv, MapLocal \/ MapTunnel PROVE CountInv'
  BY LocalIs, CountMember

LEMMA CountToCpu == ASSUME IInv, CountInv, AllocToCpu PROVE CountInv'
<1>0. /\ TablesOK /\ op.pc = "map" /\ op.i > Len(op.list) /\ op.cpu /\ rule' = rule
  BY DEF IInv, AllocToCpu, MapDone
<1>1. PICK nh, rec : NewMember(nh, rec)
  BY ToCpuIs
<1>2. PICK m : m = Len(op.new.members)
  OBVIOUS
<1>3. m \in Nat /\ Len(op'.new.members) = m + 1 /\ op'.new.outs = op.new.outs
  BY <1>1, <1>2, NewMemberHas
<1>4. op.list \in Seq(Acts) /\ op.i \in Nat /\ op.k \in Nat /\ op.i - 1 \in Nat
  <2>1. op.list \in Seq(Acts) /\ op.i \in Nat /\ op.k \in Nat
    BY <1>0, Typed
  <2>2. Len(op.list) \in Nat
    BY <2>1
  <2> QED BY <1>0, <2>1, <2>2
<1>5. op.k = 0
  <2>1. ~(op.k > 0)
    <3>1. ~(op.i <= Len(op.list))
      <4>1. Len(op.list) \in Nat
        BY <1>4
      <4> QED BY <1>0, <1>4, <4>1
    <3> QED BY <1>0, <3>1 DEF CountInv, Mapping
  <2> QED BY <1>4, <2>1
<1>6. PICK u, w : u = Upto(op.list, op.i - 1) /\ w = OutputCount(op.list)
  OBVIOUS
<1>7. u \in Nat /\ w \in Nat /\ u <= w
  BY <1>4, <1>6, UptoEnds, Counts
<1>8. m + 1 <= u + 0 /\ op.new.outs = w
  BY <1>0, <1>2, <1>5, <1>6 DEF CountInv
<1>9. Len(op'.new.members) <= op'.new.outs
  BY <1>3, <1>7, <1>8
<1> QED BY <1>0, <1>9, ToCpuIs, CountKept

(* A release that gets to the group has been through all members.          *)
LEMMA CountRelease == ASSUME IInv, CountInv, ReleaseGroup PROVE CountInv'
<1>0. TablesOK /\ GroupInv /\ op.pc = "release" /\ ~MembersLeft /\ rule' = rule
  BY DEF IInv, ReleaseGroup
<1>1. op'.k = op.k /\ op'.pc = "end" /\ op'.rel = op.rel /\ op'.new = op.new
  BY GroupGone
<1>2. /\ Loser \in Owners /\ Holds(Loser) /\ Info(Loser) = op.rel /\ op.k \in Nat /\ op.k >= 1
      /\ op.rel.members \in Seq(Nh) /\ op.rel \in Infos
  BY <1>0, LoserIs
<1>3. PICK m, k, z : m = Len(op.rel.members) /\ k = op.k /\ z = op.rel.outs
  OBVIOUS
<1>4. m \in Nat /\ k \in Nat /\ k >= 1 /\ z \in Nat /\ m <= z
  BY <1>2, <1>3 DEF CountInv, Infos
<1>5. k > m
  <2>1. CASE op.rel.use_mcast
    <3>1. ~(k <= z) \/ ~(k <= m)
      BY <1>0, <1>3, <2>1 DEF MembersLeft
    <3> QED BY <1>4, <3>1
  <2>2. CASE ~op.rel.use_mcast
    <3>1. op.rel.members = <<>>
      BY <1>0, <1>2, <2>2 DEF GroupInv
    <3>2. m = 0
      BY <1>3, <3>1
    <3> QED BY <1>4, <3>2
  <2> QED BY <2>1, <2>2
<1> QED BY <1>0, <1>1, <1>3, <1>5, CountAt DEF CountInv

LEMMA CountEnd == ASSUME IInv, CountInv, EndAdd \/ EndModify \/ EndDel \/ EndUndo PROVE CountInv'
<1>0. TablesOK /\ OpInv /\ op' = Idle /\ op'.pc = "idle" /\ op'.new = NoInfo
  BY Constants DEF IInv, EndAdd, EndModify, EndDel, EndUndo, Ended
<1>1. PICK r : r = op.r
  OBVIOUS
<1>2. r \in Rules /\ rule \in [Rules -> Infos \cup {Null}]
  BY <1>0, <1>1 DEF OpInv, TablesOK, EndAdd, EndModify, EndDel, EndUndo
<1>3. PICK a : a \in {op.new, Null, rule[r]} /\ rule' = [rule EXCEPT ![r] = a]
  BY <1>1 DEF EndAdd, EndModify, EndDel, EndUndo, Ended
<1>4. a # Null => Len(a.members) <= a.outs
  <2>1. Len(op.new.members) <= op.new.outs
    BY DEF CountInv, Owners, Holds, Info
  <2>2. rule[r] # Null => Len(rule[r].members) <= rule[r].outs
    BY <1>2, NullAssumption DEF CountInv, Owners, Holds, Info
  <2> QED BY <1>3, <2>1, <2>2
<1>5. Len(NoInfo.members) <= NoInfo.outs
  BY DEF NoInfo
<1>6. ASSUME NEW q \in Rules, rule'[q] # Null PROVE Len(rule'[q].members) <= rule'[q].outs
  <2>1. CASE q = r
    BY <1>2, <1>3, <1>4, <1>6, <2>1
  <2>2. CASE q # r
    <3>1. rule'[q] = rule[q]
      BY <1>2, <1>3, <2>2
    <3>2. q # "op"
      BY NullAssumption
    <3> QED BY <1>6, <3>1, <3>2 DEF CountInv, Owners, Holds, Info
  <2> QED BY <2>1, <2>2
<1>7. (\A o \in Owners : Holds(o) => Len(Info(o).members) <= Info(o).outs)'
  <2> SUFFICES ASSUME NEW o \in Owners, Holds(o)' PROVE Len(Info(o)'.members) <= Info(o)'.outs
    BY DEF Owners
  <2>1. CASE o = "op"
    BY <1>0, <1>5, <2>1 DEF Info
  <2>2. CASE o # "op"
    BY <1>6, <2>2 DEF Info, Holds, Owners
  <2> QED BY <2>1, <2>2
<1> QED BY <1>0, <1>7 DEF CountInv

LEMMA CountStep == ASSUME IInv, CountInv, [Next]_vars PROVE CountInv'
<1>1. CASE \E r \in Rules : \E l \in Lists[r] : AddFlow(r, l) \/ ModifyFlow(r, l)
  BY <1>1, CountBegin
<1>2. CASE \E r \in Rules : DelFlow(r)
  <2>1. rule' = rule /\ op'.new = NoInfo /\ op'.pc \in {"delete", "release"}
    BY <1>2 DEF DelFlow, Deleting, Idle
  <2>2. Len(NoInfo.members) <= NoInfo.outs
    BY DEF NoInfo
  <2> QED BY <2>1, <2>2, CountKept
<1>3. CASE UNCHANGED vars
  <2>1. UNCHANGED <<rule, op>>
    BY <1>3 DEF vars
  <2>2. (\A o \in Owners : Holds(o) => Len(Info(o).members) <= Info(o).outs)'
    BY <2>1, CountAt
  <2> QED BY <2>1, <2>2 DEF CountInv, Mapping, Is, Act
<1> QED BY <1>1, <1>2, <1>3, CountQuiet, CountGroup, CountField, CountCpu, CountLocal, CountToCpu,
           CountRelease, CountEnd DEF Next

LEMMA CountInit == Init => CountInv
<1> SUFFICES ASSUME Init PROVE CountInv
  OBVIOUS
<1>1. op = Idle /\ op.pc = "idle" /\ op.new = NoInfo
  BY Constants DEF Init
<1>2. \A o \in Owners : Holds(o) => o = "op"
  BY DEF Init, Owners, Holds
<1>3. Len(NoInfo.members) <= NoInfo.outs
  BY DEF NoInfo
<1> QED BY <1>1, <1>2, <1>3 DEF CountInv, Info

----------------------------------------------------------------------------
(* What is leaked, in the terms of the invariant: taken, and held by none. *)
Lost(x)  == x \in Taken /\ ~\E o, j : Has(o, j, x)
LeakFact == \A x : x \in Leaked <=> Lost(x)

LEMMA HasIs ==
    ASSUME TablesOK, NEW o, NEW j, NEW x, Has(o, j, x)
    PROVE  \/ o \in Groups /\ x \in GroupRes(Info(o))
           \/ \E h \in Held : x \in NhRes(NhOf(h))
<1>1. o \in Owners /\ Holds(o) /\ HeldIn(Info(o), From(o), Gone(o), j, x)
  BY DEF Has
<1>2. CASE j = 0 /\ Info(o).use_mcast /\ ~Gone(o) /\ x \in GroupRes(Info(o))
  BY <1>1, <1>2 DEF Groups, Gone
<1>3. CASE j \in DOMAIN Info(o).members /\ From(o) <= j /\ x \in NhRes(Info(o).members[j])
  <2>1. DOMAIN Info(o).members = 1 .. Len(Info(o).members) /\ Len(Info(o).members) \in Nat /\ op.k \in Nat
    BY <1>1, InfoTyped, Typed
  <2>2. j \in Nat
    BY <1>3, <2>1
  <2>3. Releasing(o) => j >= op.k
    BY <1>3, <2>1, <2>2 DEF From
  <2>4. j \in Members(o)
    BY <1>1, <1>3, <2>3 DEF Members
  <2>5. PICK h : h = <<o, j>>
    OBVIOUS
  <2>6. h \in Held /\ h[1] = o /\ h[2] = j
    BY <1>1, <2>4, <2>5 DEF Held
  <2>7. NhOf(h) = Info(o).members[j]
    BY <2>6 DEF NhOf
  <2> QED BY <1>3, <2>6, <2>7
<1> QED BY <1>1, <1>2, <1>3 DEF HeldIn

LEMMA LeakedIs == ASSUME TablesOK PROVE LeakFact
<1>1. PICK N, W, M : /\ N = {NhOf(h).nhid : h \in Held} \cup {Info(o).main.nhid : o \in Groups}
                     /\ W = UNION {Freed(NhOf(h)) : h \in Held}
                     /\ M = {Info(o).main.offset : o \in Groups}
  OBVIOUS
<1>2. /\ \A n : n \in N <=> (\E h \in Held : n = NhOf(h).nhid) \/ (\E o \in Groups : n = Info(o).main.nhid)
      /\ \A w : w \in W <=> \E h \in Held : w \in Freed(NhOf(h))
      /\ \A m : m \in M <=> \E o \in Groups : m = Info(o).main.offset
  BY <1>1
<1>3. /\ \A h : \A n : <<"nh", n>> \in NhRes(NhOf(h)) <=> n = NhOf(h).nhid
      /\ \A h : \A w : <<"word", w>> \in NhRes(NhOf(h)) <=> w \in Freed(NhOf(h))
      /\ \A h : \A m : <<"met", m>> \notin NhRes(NhOf(h))
  BY DEF NhRes
<1>4. /\ \A o : \A n : <<"nh", n>> \in GroupRes(Info(o)) <=> n = Info(o).main.nhid
      /\ \A o : \A w : <<"word", w>> \notin GroupRes(Info(o))
      /\ \A o : \A m : <<"met", m>> \in GroupRes(Info(o)) <=> m = Info(o).main.offset
  BY DEF GroupRes
<1>5. \A x : (\E o, j : Has(o, j, x)) <=> \/ \E o \in Groups : x \in GroupRes(Info(o))
                                          \/ \E h \in Held : x \in NhRes(NhOf(h))
  BY HasIs, HeldIs, GroupsAre
<1>6. /\ \A n : n \in N <=> \E o, j : Has(o, j, <<"nh", n>>)
      /\ \A w : w \in W <=> \E o, j : Has(o, j, <<"word", w>>)
      /\ \A m : m \in M <=> \E o, j : Has(o, j, <<"met", m>>)
  <2>1. ASSUME NEW n PROVE n \in N <=> \E o, j : Has(o, j, <<"nh", n>>)
    <3>1. PICK x : x = <<"nh", n>>
      OBVIOUS
    <3>2. \A h \in Held : x \in NhRes(NhOf(h)) <=> n = NhOf(h).nhid
      BY <1>3, <3>1
    <3>3. \A o \in Groups : x \in GroupRes(Info(o)) <=> n = Info(o).main.nhid
      BY <1>4, <3>1
    <3>4. (\E o, j : Has(o, j, x)) <=> \/ \E o \in Groups : n = Info(o).main.nhid
                                       \/ \E h \in Held : n = NhOf(h).nhid
      BY <1>5, <3>2, <3>3
    <3> QED BY <1>2, <3>1, <3>4
  <2>2. ASSUME NEW n PROVE n \in W <=> \E o, j : Has(o, j, <<"word", n>>)
    <3>1. PICK x : x = <<"word", n>>
      OBVIOUS
    <3>2. \A h \in Held : x \in NhRes(NhOf(h)) <=> n \in Freed(NhOf(h))
      BY <1>3, <3>1
    <3>3. \A o \in Groups : x \notin GroupRes(Info(o))
      BY <1>4, <3>1
    <3>4. (\E o, j : Has(o, j, x)) <=> \E h \in Held : n \in Freed(NhOf(h))
      BY <1>5, <3>2, <3>3
    <3> QED BY <1>2, <3>1, <3>4
  <2>3. ASSUME NEW n PROVE n \in M <=> \E o, j : Has(o, j, <<"met", n>>)
    <3>1. PICK x : x = <<"met", n>>
      OBVIOUS
    <3>2. \A h \in Held : x \notin NhRes(NhOf(h))
      BY <1>3, <3>1
    <3>3. \A o \in Groups : x \in GroupRes(Info(o)) <=> n = Info(o).main.offset
      BY <1>4, <3>1
    <3>4. (\E o, j : Has(o, j, x)) <=> \E o \in Groups : n = Info(o).main.offset
      BY <1>5, <3>2, <3>3
    <3> QED BY <1>2, <3>1, <3>4
  <2> QED BY <2>1, <2>2, <2>3
<1>7. Leaked = ({"nh"} \X (pool.nh \ N)) \cup ({"word"} \X (pool.word \ W)) \cup ({"met"} \X (pool.met \ M))
  BY <1>1 DEF Leaked
<1>8. \A x : x \in Leaked <=> \/ \E w \in pool.nh : x = <<"nh", w>> /\ w \notin N
                              \/ \E w \in pool.word : x = <<"word", w>> /\ w \notin W
                              \/ \E w \in pool.met : x = <<"met", w>> /\ w \notin M
  BY <1>7
<1>9. \A x : x \in Taken <=> \/ \E w \in pool.nh : x = <<"nh", w>>
                             \/ \E w \in pool.word : x = <<"word", w>>
                             \/ \E w \in pool.met : x = <<"met", w>>
  BY DEF Taken
<1>10. \A x : x \in Leaked <=> Lost(x)
  <2>1. ASSUME NEW x, x \in Leaked PROVE Lost(x)
    BY <1>6, <1>8, <1>9, <2>1 DEF Lost
  <2>2. ASSUME NEW x, Lost(x) PROVE x \in Leaked
    BY <1>6, <1>8, <1>9, <2>2 DEF Lost
  <2> QED BY <2>1, <2>2
<1> QED BY <1>10 DEF LeakFact

LEMMA LeakSame ==
    ASSUME LeakFact, LeakFact', \A x : Lost(x)' <=> Lost(x)
    PROVE  Leaked' = Leaked
<1>1. \A x : x \in Leaked' <=> x \in Leaked
  BY DEF LeakFact
<1> QED BY <1>1 DEF Leaked

(* Nothing is lost where nothing is taken, held or given back,             *)
LEMMA LostQuiet ==
    ASSUME \A o \in Owners : SameHold(o), pool' = pool
    PROVE  \A x : Lost(x)' <=> Lost(x)
<1>1. \A o, j, x : Has(o, j, x)' <=> Has(o, j, x)
  <2>1. \A o, j, x : Has(o, j, x) => o \in Owners
    BY DEF Has
  <2>2. \A o, j, x : Has(o, j, x)' => o \in Owners
    BY DEF Has, Owners
  <2> QED BY <2>1, <2>2, HasSame
<1> QED BY <1>1 DEF Lost, Taken

(* where what is taken is held,                                            *)
LEMMA LostTaken ==
    ASSUME ResInv, NEW R, Taken' = Taken \cup R, \A x \in R : x \notin Taken,
           \A x : (\E o, j : Has(o, j, x)') <=> (\E o, j : Has(o, j, x)) \/ x \in R
    PROVE  \A x : Lost(x)' <=> Lost(x)
<1> SUFFICES ASSUME NEW x PROVE Lost(x)' <=> Lost(x)
  OBVIOUS
<1>1. (\E o, j : Has(o, j, x)) => x \in Taken
  BY DEF ResInv
<1> QED BY <1>1 DEF Lost

(* and where what is no longer held is given back.                         *)
LEMMA LostGiven ==
    ASSUME ResInv, NEW p, NEW i, NEW R, \A x : x \in R <=> Has(p, i, x),
           \A o, j, x : Has(o, j, x)' <=> Has(o, j, x) /\ ~(o = p /\ j = i),
           \A x : x \in Taken' <=> x \in Taken /\ x \notin R
    PROVE  \A x : Lost(x)' <=> Lost(x)
  BY DEF ResInv, Lost

(* A handler starts with nothing in its hands, and with room for its       *)
(* outputs unless it gives up at once.                                     *)
LEMMA BeginHolds ==
    ASSUME IInv, NEW r \in Rules, NEW l \in Lists[r], AddFlow(r, l) \/ ModifyFlow(r, l)
    PROVE  /\ \A o \in Owners : SameHold(o)
           /\ UNCHANGED <<rule, pool, cnt>>
           /\ \/ op'.mode = "undo" \/ (op'.new.outs = 0 /\ op'.new.tuns = 0)
              \/ op'.new.tuns \in Nat /\ Room(op'.new.outs, op'.new.tuns)
<1>1. PICK mode \in {"add", "modify"} : Begin(mode, r, l)
  BY DEF AddFlow, ModifyFlow
<1> DEFINE n == [NoInfo EXCEPT !.outs = OutputCount(l), !.tuns = TunnelCount(l)]
           m == [n EXCEPT !.main = Drop]
           o == [Idle EXCEPT !.mode = mode, !.r = r, !.list = l, !.i = 1, !.new = n]
<1>2. op.pc = "idle" /\ op = Idle /\ op.new = NoInfo /\ UNCHANGED <<rule, pool, cnt>>
  BY <1>1, Constants DEF IInv, OpInv, Begin
<1>3. Bare(n) /\ Bare(m) /\ Bare(NoInfo)
  BY Constants DEF Bare, NoInfo
<1>4. \/ op' = [o EXCEPT !.pc = "install", !.new.main = Drop]
      \/ op' = [o EXCEPT !.pc = "group"]
      \/ op' = Undone(o)
  BY <1>1 DEF Begin
<1>5. [o EXCEPT !.pc = "install", !.new.main = Drop] = [o EXCEPT !.pc = "install", !.new = m]
  BY DEF Idle
<1> HIDE DEF n, m
<1>6. /\ op'.new \in {n, m} /\ op'.pc \in {"install", "group", "release"}
      /\ op'.pc = "release" => op'.k = 1
  <2>1. CASE op' = [o EXCEPT !.pc = "install", !.new = m]
    BY <2>1 DEF Idle
  <2>2. CASE op' = [o EXCEPT !.pc = "group"]
    BY <2>2 DEF Idle
  <2>3. CASE op' = Undone(o)
    BY <2>3 DEF Idle, Undone
  <2> QED BY <1>4, <1>5, <2>1, <2>2, <2>3
<1>7. Quiet
  BY <1>2, <1>3, <1>6 DEF Quiet
<1>8. (l = <<>> => OutputCount(l) = 0) /\ (OutputCount(l) = 0 => TunnelCount(l) = 0) /\ TunnelCount(l) \in Nat
  <2>1. l \in Seq(Acts)
    BY ListAssumption
  <2>2. l = <<>> => Outputs(l) = {}
    BY DEF Outputs
  <2> QED BY <2>1, <2>2, Counts
<1>9. \/ op'.mode = "undo" \/ (op'.new.outs = 0 /\ op'.new.tuns = 0)
      \/ op'.new.tuns \in Nat /\ Room(op'.new.outs, op'.new.tuns)
  <2>1. /\ n.outs = OutputCount(l) /\ n.tuns = TunnelCount(l)
        /\ m.outs = OutputCount(l) /\ m.tuns = TunnelCount(l)
    BY DEF n, m, NoInfo
  <2>2. \/ op' = [o EXCEPT !.pc = "install", !.new = m] /\ (l = <<>> \/ n.outs = 0)
        \/ op' = [o EXCEPT !.pc = "group"] /\ Room(n.outs, n.tuns)
        \/ op' = Undone(o)
    BY <1>1, <1>5 DEF Begin, n
  <2>3. CASE op' = [o EXCEPT !.pc = "install", !.new = m] /\ (l = <<>> \/ n.outs = 0)
    <3>1. op'.new = m
      BY <2>3 DEF Idle
    <3> QED BY <1>8, <2>1, <2>3, <3>1
  <2>4. CASE op' = [o EXCEPT !.pc = "group"] /\ Room(n.outs, n.tuns)
    <3>1. op'.new = n
      BY <2>4 DEF Idle
    <3> QED BY <1>8, <2>1, <2>4, <3>1
  <2>5. CASE op' = Undone(o)
    BY <2>5 DEF Idle, Undone
  <2> QED BY <2>2, <2>3, <2>4, <2>5
<1> QED BY <1>2, <1>7, <1>9, QuietHolds

LEMMA LostBegin ==
    ASSUME IInv, NEW r \in Rules, NEW l \in Lists[r], AddFlow(r, l) \/ ModifyFlow(r, l)
    PROVE  \A x : Lost(x)' <=> Lost(x)
  BY BeginHolds, LostQuiet

(* The other steps that neither take nor give back.                        *)
LEMMA StepHolds ==
    ASSUME IInv,
           \/ \E r \in Rules : DelFlow(r)
           \/ DelExtra \/ MapField \/ MapCpu \/ NoCpu \/ AddMember \/ Install \/ InstallExtra \/ ExtraIgnored \/ ReleaseOld
    PROVE  (\A o \in Owners : SameHold(o)) /\ UNCHANGED <<rule, pool, cnt>>
<1>0. TablesOK /\ OpInv /\ op \in Ops
  BY DEF IInv, TablesOK
<1>1. UNCHANGED <<rule, pool, cnt>>
  BY DEF DelFlow, DelExtra, MapField, MapCpu, NoCpu, AddMember, Install, InstallExtra, ExtraIgnored, ReleaseOld
<1>2. CASE \E r \in Rules : DelFlow(r)
  <2>1. op.pc = "idle" /\ op = Idle /\ op.new = NoInfo
    BY <1>0, <1>2, Constants DEF DelFlow, OpInv
  <2>2. op'.new = NoInfo /\ op'.pc \in {"delete", "release"} /\ op'.k = 1
    BY <1>2 DEF DelFlow, Deleting, Idle
  <2>3. Quiet
    BY <1>1, <2>1, <2>2 DEF Quiet
  <2> QED BY <1>1, <2>3, QuietHolds
<1>3. CASE DelExtra
  <2>1. op.pc = "delete" /\ op'.new = op.new /\ op'.pc = "release" /\ op'.k = 1
    BY <1>0, <1>3 DEF DelExtra, OpInv, Ops
  <2>2. Quiet
    BY <1>1, <2>1 DEF Quiet
  <2> QED BY <1>1, <2>2, QuietHolds
<1>4. CASE MapField \/ MapCpu
  <2>1. op.pc = "map" /\ op'.new = op.new /\ op'.pc = "map"
    BY <1>0, <1>4 DEF MapField, MapCpu, Mapping, Advance, Ops
  <2>2. Quiet
    BY <1>1, <2>1 DEF Quiet
  <2> QED BY <1>1, <2>2, QuietHolds
<1>5. CASE NoCpu \/ Install \/ InstallExtra \/ ExtraIgnored
  <2>1. op.pc \in {"map", "install", "extra"} /\ op'.new = op.new /\ op'.pc \in {"member", "extra", "installed"}
    BY <1>0, <1>5 DEF NoCpu, MapDone, ToMembers, Install, InstallExtra, ExtraIgnored, Ops
  <2>2. Quiet
    BY <1>1, <2>1 DEF Quiet
  <2> QED BY <1>1, <2>2, QuietHolds
<1>6. CASE AddMember
  <2>1. op.pc = "member" /\ op'.new = op.new /\ op'.pc \in {"member", "install"}
    BY <1>0, <1>6 DEF AddMember, Ops
  <2>2. Quiet
    BY <1>1, <2>1 DEF Quiet
  <2> QED BY <1>1, <2>2, QuietHolds
<1>7. CASE ReleaseOld
  <2>1. op.pc = "installed" /\ op'.new = op.new /\ op'.pc = "release" /\ op'.k = 1
    BY <1>0, <1>7 DEF ReleaseOld, Ops
  <2>2. Quiet
    BY <1>1, <2>1 DEF Quiet
  <2> QED BY <1>1, <2>2, QuietHolds
<1> QED BY <1>2, <1>3, <1>4, <1>5, <1>6, <1>7

LEMMA LostSame ==
    ASSUME IInv,
           \/ \E r \in Rules : DelFlow(r)
           \/ DelExtra \/ MapField \/ MapCpu \/ NoCpu \/ AddMember \/ Install \/ InstallExtra \/ ExtraIgnored \/ ReleaseOld
    PROVE  \A x : Lost(x)' <=> Lost(x)
  BY StepHolds, LostQuiet

(* A successful allocation of a member is stored, and so is a group.       *)
LEMMA LostMember ==
    ASSUME IInv, NEW nh, NEW rec, NewMember(nh, rec)
    PROVE  \A x : Lost(x)' <=> Lost(x)
<1>1. PICK n : n = Len(op.new.members)
  OBVIOUS
<1>2. PICK i, R : i = n + 1 /\ R = NhRes(nh)
  OBVIOUS
<1>3. /\ \A o, j, x : Has(o, j, x)' <=> Has(o, j, x) \/ (o = "op" /\ j = i /\ x \in R)
      /\ Taken' = Taken \cup R /\ \A x \in R : x \notin Taken
  BY <1>1, <1>2, NewMemberHas
<1>4. \A x : (\E o, j : Has(o, j, x)') <=> (\E o, j : Has(o, j, x)) \/ x \in R
  BY <1>3
<1>5. ResInv
  BY DEF IInv
<1> QED BY <1>3, <1>4, <1>5, LostTaken

LEMMA LostAlloc ==
    ASSUME IInv, MapLocal \/ MapTunnel \/ AllocToCpu \/ AllocGroup
    PROVE  \A x : Lost(x)' <=> Lost(x)
<1>1. CASE AllocGroup
  <2>1. PICK i, R : i = 0 /\ R = GroupRes(op'.new)
    OBVIOUS
  <2>2. /\ \A o, j, x : Has(o, j, x)' <=> Has(o, j, x) \/ (o = "op" /\ j = i /\ x \in R)
        /\ Taken' = Taken \cup R /\ \A x \in R : x \notin Taken
    BY <1>1, <2>1, GroupHas
  <2>3. \A x : (\E o, j : Has(o, j, x)') <=> (\E o, j : Has(o, j, x)) \/ x \in R
    BY <2>2
  <2>4. ResInv
    BY DEF IInv
  <2> QED BY <2>2, <2>3, <2>4, LostTaken
<1>2. CASE AllocToCpu
  BY <1>2, ToCpuIs, LostMember
<1>3. CASE MapLocal \/ MapTunnel
  BY <1>3, LocalIs, LostMember
<1> QED BY <1>1, <1>2, <1>3

LEMMA LostReleased ==
    ASSUME IInv, ReleaseMember \/ ReleaseGroup
    PROVE  \A x : Lost(x)' <=> Lost(x)
<1>0. ResInv
  BY DEF IInv
<1>1. CASE ReleaseMember
  <2>1. PICK R, l, k : R = NhRes(op.rel.members[op.k]) /\ l = Loser /\ k = op.k
    OBVIOUS
  <2>2. /\ \A x : x \in R <=> Has(l, k, x)
        /\ \A o, j, x : Has(o, j, x)' <=> Has(o, j, x) /\ ~(o = l /\ j = k)
        /\ \A x : x \in Taken' <=> x \in Taken /\ x \notin R
    BY <1>1, <2>1, MemberGone
  <2> QED BY <1>0, <2>2, LostGiven
<1>2. CASE ReleaseGroup /\ op.rel.use_mcast
  <2>1. PICK R, l, i : R = GroupRes(op.rel) /\ l = Loser /\ i = 0
    OBVIOUS
  <2>2. /\ \A x : x \in R <=> Has(l, i, x)
        /\ \A o, j, x : Has(o, j, x)' <=> Has(o, j, x) /\ ~(o = l /\ j = i)
    BY <1>2, <2>1, GroupGone
  <2>3. \A x : x \in Taken' <=> x \in Taken /\ x \notin R
    BY <1>2, <2>1, GroupTaken
  <2> QED BY <1>0, <2>2, <2>3, LostGiven
<1>3. CASE ReleaseGroup /\ ~op.rel.use_mcast
  <2>1. PICK l : l = Loser
    OBVIOUS
  <2>2. \A o, j, x : Has(o, j, x)' <=> Has(o, j, x) /\ ~(o = l /\ j = 0)
    BY <1>3, <2>1, GroupGone
  <2>3. 0 \notin DOMAIN op.rel.members /\ Info(l) = op.rel
    BY <1>3, <2>1, LoserIs DEF ReleaseGroup
  <2>4. \A x : ~Has(l, 0, x)
    BY <1>3, <2>3 DEF Has, HeldIn
  <2>5. Taken' = Taken
    BY <1>3 DEF ReleaseGroup, Taken
  <2> QED BY <2>2, <2>4, <2>5 DEF Lost
<1> QED BY <1>1, <1>2, <1>3

(* A handler that ends hands over what it holds; the one it released for   *)
(* has nothing left.                                                       *)
LEMMA LoserEmpty ==
    ASSUME IInv, CountInv, op.pc = "end"
    PROVE  \A j, x : ~Has(Loser, j, x)
<1>1. /\ Info(Loser) = op.rel /\ Releasing(Loser) /\ op.k \in Nat /\ op.rel.members \in Seq(Nh)
  BY LoserIs
<1>2. op.k > Len(op.rel.members)
  BY DEF CountInv
<1>3. From(Loser) = op.k /\ Gone(Loser)
  BY <1>1 DEF From, Gone
<1>4. \A j \in DOMAIN op.rel.members : ~(op.k <= j)
  BY <1>1, <1>2
<1> QED BY <1>1, <1>3, <1>4 DEF Has, HeldIn

LEMMA LostEnd ==
    ASSUME IInv, CountInv, EndAdd \/ EndModify \/ EndDel \/ EndUndo
    PROVE  \A x : Lost(x)' <=> Lost(x)
<1>0. TablesOK /\ OpInv /\ Taken' = Taken
  BY DEF IInv, EndAdd, EndModify, EndDel, EndUndo, Ended, Taken
<1>1. CASE EndAdd \/ EndModify
  <2>1. /\ op.pc \in {"installed", "end"} /\ op.mode \in {"add", "modify"}
        /\ rule' = [rule EXCEPT ![op.r] = op.new] /\ op' = Idle
    BY <1>1 DEF EndAdd, EndModify, Ended
  <2>2. PICK r : r = op.r
    OBVIOUS
  <2>3. /\ r \in Rules
        /\ \A j, x : Has(r, j, x)' <=> Has("op", j, x)
        /\ \A j, x : ~Has("op", j, x)'
        /\ \A o \in Owners : \A j, x : o # "op" /\ o # r => (Has(o, j, x)' <=> Has(o, j, x))
    BY <2>1, <2>2, HandOver
  <2>4. \A j, x : ~Has(r, j, x)
    <3>1. CASE EndAdd
      <4>1. rule[r] = Null /\ r # "op"
        BY <1>0, <2>2, <2>3, <3>1, NullAssumption DEF EndAdd, OpInv
      <4> QED BY <4>1 DEF Has, Holds
    <3>2. CASE EndModify
      <4>1. op.pc = "end" /\ Loser = r
        BY <2>2, <3>2 DEF EndModify, Loser
      <4> QED BY <4>1, LoserEmpty
    <3> QED BY <1>1, <3>1, <3>2
  <2>5. \A o, j, x : Has(o, j, x) => o \in Owners
    BY DEF Has
  <2>6. \A o, j, x : Has(o, j, x)' => o \in Owners
    BY DEF Has, Owners
  <2>7. ASSUME NEW x PROVE (\E o, j : Has(o, j, x)') <=> (\E o, j : Has(o, j, x))
    <3>1. ASSUME NEW o, NEW j, Has(o, j, x)' PROVE \E p, i : Has(p, i, x)
      BY <2>3, <2>6, <3>1
    <3>2. ASSUME NEW o, NEW j, Has(o, j, x) PROVE \E p, i : Has(p, i, x)'
      BY <2>3, <2>4, <2>5, <3>2
    <3> QED BY <3>1, <3>2
  <2> QED BY <1>0, <2>7 DEF Lost
<1>2. CASE EndDel \/ EndUndo
  <2>1. /\ op.pc = "end" /\ op.mode \in {"del", "undo"} /\ op' = Idle /\ UNCHANGED <<chip, hwnh, group, pool>>
        /\ \/ op.mode = "undo" /\ rule' = rule
           \/ op.mode = "del" /\ rule' = [rule EXCEPT ![op.r] = Null]
    BY <1>0, <1>2 DEF EndDel, EndUndo, Ended, TablesOK
  <2>2. PICK l : l = Loser
    OBVIOUS
  <2>3. /\ \A o \in Owners : o # "op" /\ o # l => SameHold(o)
        /\ \A o, j, x : Has(o, j, x)' => Has(o, j, x)
        /\ \A j, x : Has("op", j, x) => l = "op"
    BY <2>1, <2>2, Dropped
  <2>4. \A j, x : ~Has(l, j, x)
    BY <2>1, <2>2, LoserEmpty
  <2>5. ASSUME NEW o, NEW j, NEW x, Has(o, j, x) PROVE Has(o, j, x)'
    <3>1. o \in Owners /\ o # l /\ o # "op"
      BY <2>3, <2>4, <2>5 DEF Has
    <3> QED BY <2>3, <2>5, <3>1, HasSame
  <2> QED BY <1>0, <2>3, <2>5 DEF Lost
<1> QED BY <1>1, <1>2

LEMMA LeakStep ==
    ASSUME IInv, CountInv, LeakFact, LeakFact', [Next]_vars, Leaked' # Leaked
    PROVE  op.mode \in {"add", "modify"} /\ op'.mode = "undo"
<1>0. ~(\A x : Lost(x)' <=> Lost(x))
  BY LeakSame
<1>1. ~(\E r \in Rules : \E l \in Lists[r] : AddFlow(r, l) \/ ModifyFlow(r, l))
  BY <1>0, LostBegin
<1>2. ~\/ \E r \in Rules : DelFlow(r)
       \/ DelExtra \/ MapField \/ MapCpu \/ NoCpu \/ AddMember \/ Install \/ InstallExtra \/ ExtraIgnored \/ ReleaseOld
  BY <1>0, LostSame
<1>3. ~(MapLocal \/ MapTunnel \/ AllocToCpu \/ AllocGroup) /\ ~(ReleaseMember \/ ReleaseGroup)
  BY <1>0, LostAlloc, LostReleased
<1>4. ~(EndAdd \/ EndModify \/ EndDel \/ EndUndo)
  BY <1>0, LostEnd
<1>5. ~UNCHANGED vars
  <2>1. ASSUME UNCHANGED vars PROVE Leaked' = Leaked
    <3>1. UNCHANGED <<rule, pool, op>>
      BY <2>1 DEF vars
    <3>2. \A o \in Owners : SameHold(o)
      BY <3>1 DEF SameHold, Holds, Info, From, Gone, Releasing
    <3> QED BY <1>0, <3>1, <3>2, LostQuiet
  <2> QED BY <2>1
<1>6. \/ AllocGroupFails \/ MapLocalFails \/ MapTunnelFails \/ MapBad \/ AllocToCpuFails
      \/ AddMemberFails \/ InstallFails \/ InstallExtraFails
  BY <1>1, <1>2, <1>3, <1>4, <1>5 DEF Next
<1>7. op' = Undone(op) /\ op.pc \in Building
  BY <1>6 DEF AllocGroupFails, MapLocalFails, MapTunnelFails, MapBad, AllocToCpuFails, Mapping, MapDone,
              AddMemberFails, InstallFails, InstallExtraFails, Building
<1>8. op \in Ops /\ OpInv
  BY DEF IInv, TablesOK
<1> QED BY <1>7, <1>8 DEF Undone, Ops, OpInv

(* Deleting, replacing and undoing give back every id and every offset of  *)
(* a flow: only an allocation of adpt_nexthop.c that fails half-way loses  *)
(* what it took.                                                           *)
THEOREM OnlyFailuresLose == Spec => OnlyFailuresLeak
<1>1. Init => CountInv
  BY CountInit
<1>2. IInv /\ CountInv /\ [Next]_vars => CountInv'
  BY CountStep
<1>3. IInv => LeakFact
  BY LeakedIs DEF IInv
<1>4. IInv /\ CountInv /\ LeakFact /\ LeakFact' /\ [Next]_vars
        => [Leaked' # Leaked => op.mode \in {"add", "modify"} /\ op'.mode = "undo"]_vars
  BY LeakStep
<1> QED BY <1>1, <1>2, <1>3, <1>4, Invariant, PTL DEF Spec, OnlyFailuresLeak


----------------------------------------------------------------------------
(* The counters.  One value of a function changes, and the number of its   *)
(* slots by as much.                                                       *)
Column(r, n) == {r} \X (1 .. n)

LEMMA ColumnCount ==
    ASSUME NEW r, NEW n \in Nat
    PROVE  IsFiniteSet(Column(r, n)) /\ Cardinality(Column(r, n)) = n
<1>1. IsFiniteSet({r}) /\ Cardinality({r}) = 1
  BY FS_Singleton
<1>2. PICK S : S = 1 .. n
  OBVIOUS
<1>3. IsFiniteSet(S) /\ Cardinality(S) = n
  <2>1. IsFiniteSet(1 .. n) /\ Cardinality(1 .. n) = IF 1 > n THEN 0 ELSE n - 1 + 1
    BY FS_Interval
  <2> QED BY <1>2, <2>1
<1>4. IsFiniteSet({r} \X S) /\ Cardinality({r} \X S) = Cardinality({r}) * Cardinality(S)
  BY <1>1, <1>3, FS_Product
<1>5. Cardinality({r} \X S) = 1 * n
  BY <1>1, <1>3, <1>4
<1>6. 1 * n = n
  OBVIOUS
<1> QED BY <1>2, <1>4, <1>5, <1>6 DEF Column

LEMMA SlotsChange ==
    ASSUME NEW f \in [Rules -> Nat], NEW g \in [Rules -> Nat], NEW r \in Rules,
           \A q \in Rules : q # r => g[q] = f[q], IsFiniteSet(Slots(f))
    PROVE  /\ IsFiniteSet(Slots(g)) /\ Cardinality(Slots(f)) \in Nat /\ f[r] <= Cardinality(Slots(f))
           /\ Cardinality(Slots(g)) = Cardinality(Slots(f)) - f[r] + g[r]
<1>0. PICK a, b : a = f[r] /\ b = g[r] /\ a \in Nat /\ b \in Nat
  OBVIOUS
<1>1. PICK A, B : A = Column(r, a) /\ B = Column(r, b)
  OBVIOUS
<1>2. IsFiniteSet(A) /\ Cardinality(A) = a /\ IsFiniteSet(B) /\ Cardinality(B) = b
  BY <1>0, <1>1, ColumnCount
<1>3. PICK R : R = Slots(f) \ A
  OBVIOUS
<1>4. \A x : x \in Slots(f) <=> \E q \in Rules : x \in Column(q, f[q])
  BY DEF Slots, Column
<1>5. \A x : x \in Slots(g) <=> \E q \in Rules : x \in Column(q, g[q])
  BY DEF Slots, Column
<1>6. \A q, n, m, x : x \in Column(q, n) /\ x \in Column(r, m) => q = r
  BY DEF Column
<1>7. \A x : x \in A => x \in Slots(f)
  BY <1>0, <1>1, <1>4
<1>8. \A x : x \in R <=> \E q \in Rules : q # r /\ x \in Column(q, f[q])
  <2>1. ASSUME NEW x, x \in R PROVE \E q \in Rules : q # r /\ x \in Column(q, f[q])
    BY <1>0, <1>1, <1>3, <1>4, <2>1
  <2>2. ASSUME NEW x, NEW q \in Rules, q # r, x \in Column(q, f[q]) PROVE x \in R
    BY <1>1, <1>3, <1>4, <1>6, <2>2
  <2> QED BY <2>1, <2>2
<1>9. Slots(g) = R \cup B /\ R \cap B = {}
  <2>1. ASSUME NEW x \in Slots(g) PROVE x \in R \cup B
    <3>1. PICK q \in Rules : x \in Column(q, g[q])
      BY <1>5
    <3>2. CASE q = r
      BY <1>0, <1>1, <3>1, <3>2
    <3>3. CASE q # r
      BY <1>8, <3>1, <3>3
    <3> QED BY <3>2, <3>3
  <2>2. ASSUME NEW x \in R PROVE x \in Slots(g)
    BY <1>5, <1>8
  <2>3. ASSUME NEW x \in B PROVE x \in Slots(g)
    BY <1>0, <1>1, <1>5
  <2>4. ASSUME NEW x, x \in R, x \in B PROVE FALSE
    BY <1>1, <1>6, <1>8, <2>4
  <2> QED BY <2>1, <2>2, <2>3, <2>4
<1>10. Slots(f) = R \cup A /\ R \cap A = {}
  BY <1>3, <1>7
<1>11. IsFiniteSet(R)
  BY <1>3, FS_Difference
<1>12. Cardinality(Slots(f)) = Cardinality(R) + Cardinality(A) - Cardinality(R \cap A)
  BY <1>2, <1>10, <1>11, FS_Union
<1>13. IsFiniteSet(Slots(g)) /\ Cardinality(Slots(g)) = Cardinality(R) + Cardinality(B) - Cardinality(R \cap B)
  BY <1>2, <1>9, <1>11, FS_Union
<1>14. PICK c : c = Cardinality(R) /\ c \in Nat
  BY <1>11, FS_CardinalityType
<1>15. Cardinality(Slots(f)) = c + a /\ Cardinality(Slots(g)) = c + b
  <2>1. Cardinality(R \cap A) = 0 /\ Cardinality(R \cap B) = 0
    BY <1>9, <1>10, FS_EmptySet
  <2>2. Cardinality(Slots(f)) = c + a - 0
    BY <1>2, <1>12, <1>14, <2>1
  <2>3. Cardinality(Slots(g)) = c + b - 0
    BY <1>2, <1>13, <1>14, <2>1
  <2> QED BY <1>0, <1>14, <2>2, <2>3
<1> QED BY <1>0, <1>13, <1>14, <1>15

(* The next hops of a type in use, by their ids, which no two share.       *)
InUse(o, j, t, n) ==
    /\ o \in Owners /\ Holds(o) /\ j \in DOMAIN Info(o).members /\ From(o) <= j
    /\ Info(o).members[j].nhid = n /\ Info(o).members[j].type = t
Used(t, n) == \E o, j : InUse(o, j, t, n)
Uses(t)    == {n \in NhIds : Used(t, n)}

(* The counters cover what is in use.  An add or a modify has found room   *)
(* for its outputs before it allocates, and no outputs or tunnels are      *)
(* counted meanwhile.                                                      *)
Finite == /\ IsFiniteSet(Uses("FLEX_IPDA")) /\ IsFiniteSet(Uses("FLEX_QINQ"))
          /\ IsFiniteSet(Slots(Outs)) /\ IsFiniteSet(Slots(Tuns))
OutsInv ==
    /\ cnt.outs = Cardinality(Slots(Outs)) /\ cnt.outs <= OutputMax
    /\ (op.pc # "idle" /\ op.mode \in {"add", "modify"}) => cnt.outs + op.new.outs <= OutputMax
DoubleInv ==
    /\ cnt.gre >= Cardinality(Uses("FLEX_IPDA")) + Cardinality(Slots(Tuns))
    /\ cnt.qinq >= Cardinality(Uses("FLEX_QINQ")) /\ cnt.qinq <= QinqMax
GreInv ==
    /\ GreNearLimit
    /\ (op.pc # "idle" /\ op.mode \in {"add", "modify"}) => op.new.tuns = 0 \/ cnt.gre <= GreMax
CoverInv == Finite /\ OutsInv /\ DoubleInv /\ GreInv

LEMMA UsesSame ==
    ASSUME \A o \in Owners : SameHold(o), NEW t
    PROVE  Uses(t)' = Uses(t)
<1>1. ASSUME NEW o, NEW j, NEW n PROVE InUse(o, j, t, n)' <=> InUse(o, j, t, n)
  <2>1. CASE o \notin Owners
    BY <2>1 DEF InUse, Owners
  <2>2. CASE o \in Owners /\ Holds(o) /\ Info(o)' = Info(o) /\ From(o)' = From(o)
    BY <2>2 DEF InUse, SameHold, Owners
  <2>3. CASE o \in Owners /\ Holds(o) /\ Bare(Info(o)) /\ Bare(Info(o))'
    <3>1. Info(o).members = <<>> /\ Info(o)'.members = <<>>
      BY <2>3 DEF Bare
    <3> QED BY <3>1 DEF InUse
  <2>4. CASE o \in Owners /\ ~Holds(o)
    BY <2>4 DEF InUse, SameHold
  <2> QED BY <2>1, <2>2, <2>3, <2>4 DEF SameHold
<1> QED BY <1>1 DEF Uses, Used


(* A step that leaves what is in use, the rules and the counters.          *)
LEMMA CoverSame ==
    ASSUME CoverInv, \A t : Uses(t)' = Uses(t), UNCHANGED <<rule, cnt>>,
           (op'.pc # "idle" /\ op'.mode \in {"add", "modify"}) =>
              cnt.outs + op'.new.outs <= OutputMax /\ (op'.new.tuns = 0 \/ cnt.gre <= GreMax)
    PROVE  CoverInv'
<1>1. Outs' = Outs /\ Tuns' = Tuns
  BY DEF Outs, Tuns
<1>2. Slots(Outs)' = Slots(Outs) /\ Slots(Tuns)' = Slots(Tuns)
  BY <1>1 DEF Slots
<1>3. Finite'
  BY <1>2 DEF CoverInv, Finite
<1>4. OutsInv'
  BY <1>2 DEF CoverInv, OutsInv
<1>5. DoubleInv'
  BY <1>2 DEF CoverInv, DoubleInv
<1>6. GreInv'
  BY <1>1 DEF CoverInv, GreInv, GreNearLimit
<1> QED BY <1>3, <1>4, <1>5, <1>6 DEF CoverInv


LEMMA CoverTyped ==
    ASSUME IInv, CoverInv
    PROVE  /\ cnt \in [outs : Nat, gre : Nat, qinq : Nat]
           /\ cnt.outs \in Nat /\ cnt.gre \in Nat /\ cnt.qinq \in Nat
           /\ Outs \in [Rules -> Nat] /\ Tuns \in [Rules -> Nat]
           /\ OutputMax \in Nat /\ QinqMax \in Nat /\ GreMax \in Nat
           /\ Cardinality(Uses("FLEX_IPDA")) \in Nat /\ Cardinality(Uses("FLEX_QINQ")) \in Nat
           /\ Cardinality(Slots(Outs)) \in Nat /\ Cardinality(Slots(Tuns)) \in Nat
<1>1. TablesOK /\ Finite
  BY DEF IInv, CoverInv
<1>2. \A r \in Rules : rule[r] # Null => rule[r].outs \in Nat /\ rule[r].tuns \in Nat
  BY <1>1 DEF TablesOK, Infos
<1>3. Outs \in [Rules -> Nat] /\ Tuns \in [Rules -> Nat]
  BY <1>2 DEF Outs, Tuns
<1>4. OutputMax \in Nat /\ QinqMax \in Nat /\ GreMax \in Nat
  BY PoolAssumption
<1> QED BY <1>1, <1>3, <1>4, FS_CardinalityType DEF TablesOK, Finite

(* The counter shared by addresses and tunnels is lowered, or raised       *)
(* within its limit.                                                       *)
LEMMA GreCalm ==
    ASSUME IInv, CoverInv, rule' = rule, cnt'.gre \in Nat, cnt'.gre <= cnt.gre \/ cnt'.gre <= GreMax,
           (op'.pc # "idle" /\ op'.mode \in {"add", "modify"}) =>
              op.pc # "idle" /\ op.mode \in {"add", "modify"} /\ op'.new.tuns = op.new.tuns
    PROVE  GreInv'
<1>1. PICK f, a, b : f = Tuns /\ f = Tuns' /\ a = cnt.gre /\ b = cnt'.gre
  BY DEF Tuns
<1>2. f \in [Rules -> Nat] /\ a \in Nat /\ b \in Nat /\ GreMax \in Nat /\ (b <= a \/ b <= GreMax)
  BY <1>1, CoverTyped
<1>3. a <= GreMax \/ \E q \in Rules : a <= GreMax + f[q]
  BY <1>1 DEF CoverInv, GreInv, GreNearLimit
<1>4. b <= GreMax \/ \E q \in Rules : b <= GreMax + f[q]
  <2>1. CASE b <= GreMax \/ a <= GreMax
    BY <1>2, <2>1
  <2>2. CASE b <= a /\ \E q \in Rules : a <= GreMax + f[q]
    <3>1. PICK q \in Rules : a <= GreMax + f[q]
      BY <2>2
    <3>2. b <= GreMax + f[q]
      BY <1>2, <2>2, <3>1
    <3> QED BY <3>2
  <2> QED BY <1>2, <1>3, <2>1, <2>2
<1>5. GreNearLimit'
  BY <1>1, <1>4 DEF GreNearLimit
<1>6. (op'.pc # "idle" /\ op'.mode \in {"add", "modify"}) => op'.new.tuns = 0 \/ a <= GreMax
  BY <1>1 DEF CoverInv, GreInv
<1>7. a <= GreMax => b <= GreMax
  BY <1>2
<1> QED BY <1>1, <1>5, <1>6, <1>7 DEF GreInv

LEMMA CoverBegin ==
    ASSUME IInv, CoverInv, NEW r \in Rules, NEW l \in Lists[r], AddFlow(r, l) \/ ModifyFlow(r, l)
    PROVE  CoverInv'
<1>1. /\ \A o \in Owners : SameHold(o)
      /\ UNCHANGED <<rule, cnt>>
      /\ \/ op'.mode = "undo" \/ (op'.new.outs = 0 /\ op'.new.tuns = 0)
         \/ op'.new.tuns \in Nat /\ Room(op'.new.outs, op'.new.tuns)
  BY BeginHolds
<1>2. \A t : Uses(t)' = Uses(t)
  BY <1>1, UsesSame
<1>3. (op'.pc # "idle" /\ op'.mode \in {"add", "modify"}) =>
        cnt.outs + op'.new.outs <= OutputMax /\ (op'.new.tuns = 0 \/ cnt.gre <= GreMax)
  BY <1>1, CoverTyped DEF Room, CoverInv, OutsInv
<1> QED BY <1>1, <1>2, <1>3, CoverSame

LEMMA CoverSteps ==
    ASSUME IInv, CoverInv,
           \/ \E r \in Rules : DelFlow(r)
           \/ DelExtra \/ MapField \/ MapCpu \/ NoCpu \/ AddMember \/ Install \/ InstallExtra \/ ExtraIgnored \/ ReleaseOld
    PROVE  CoverInv'
<1>0. op \in Ops
  BY DEF IInv, TablesOK
<1>1. (\A o \in Owners : SameHold(o)) /\ UNCHANGED <<rule, cnt>>
  BY StepHolds
<1>2. \A t : Uses(t)' = Uses(t)
  BY <1>1, UsesSame
<1>3. op'.mode = "del" \/ (op.pc # "idle" /\ op'.mode = op.mode /\ op'.new = op.new)
  <2>1. CASE \E r \in Rules : DelFlow(r)
    BY <2>1 DEF DelFlow, Deleting, Idle
  <2>2. CASE DelExtra \/ NoCpu \/ AddMember \/ Install \/ InstallExtra \/ ExtraIgnored \/ ReleaseOld
    BY <1>0, <2>2 DEF DelExtra, NoCpu, MapDone, ToMembers, AddMember, Install, InstallExtra, ExtraIgnored, ReleaseOld, Ops
  <2>3. CASE MapField \/ MapCpu
    BY <1>0, <2>3 DEF MapField, MapCpu, Mapping, Advance, Ops
  <2> QED BY <2>1, <2>2, <2>3
<1> QED BY <1>1, <1>2, <1>3, CoverSame DEF CoverInv, OutsInv, GreInv

(* A member is given up, or a new one refused: the counter may have been   *)
(* raised for it.                                                          *)
LEMMA CoverFails ==
    ASSUME IInv, CoverInv, \/ AllocGroupFails \/ MapLocalFails \/ MapTunnelFails \/ MapBad \/ AllocToCpuFails
                           \/ AddMemberFails \/ InstallFails \/ InstallExtraFails
    PROVE  CoverInv'
<1>0. op \in Ops
  BY DEF IInv, TablesOK
<1>1. op' = Undone(op) /\ rule' = rule /\ op.pc \notin {"release", "end"}
  BY DEF AllocGroupFails, MapLocalFails, MapTunnelFails, MapBad, AllocToCpuFails, Mapping, MapDone,
         AddMemberFails, InstallFails, InstallExtraFails
<1>2. op'.new = op.new /\ op'.pc = "release" /\ op'.mode = "undo" /\ op'.k = 1
  BY <1>0, <1>1 DEF Undone, Ops
<1>3. Quiet
  BY <1>1, <1>2 DEF Quiet
<1>4. \A t : Uses(t)' = Uses(t)
  BY <1>3, QuietHolds, UsesSame
<1>5. CASE cnt' = cnt
  BY <1>1, <1>2, <1>4, <1>5, CoverSame
<1>6. CASE cnt' # cnt
  <2>1. PICK c : Fits(c) /\ cnt' = Counted(TypeOf(c))
    BY <1>6 DEF AllocGroupFails, MapLocalFails, MapTunnelFails, MapBad, AllocToCpuFails, AllocFlexFails,
                AllocEncapFails, AddMemberFails, InstallFails, InstallExtraFails
  <2>2. /\ cnt'.outs = cnt.outs
        /\ cnt'.gre = cnt.gre \/ (cnt'.gre = cnt.gre + 1 /\ cnt.gre + 1 <= GreMax)
        /\ cnt'.qinq = cnt.qinq \/ (cnt'.qinq = cnt.qinq + 1 /\ cnt.qinq < QinqMax)
    BY <2>1, CoverTyped DEF Counted, Fits, Room
  <2>3. Slots(Outs)' = Slots(Outs) /\ Slots(Tuns)' = Slots(Tuns)
    BY <1>1 DEF Slots, Outs, Tuns
  <2>4. Finite'
    BY <1>4, <2>3 DEF CoverInv, Finite
  <2>5. OutsInv'
    BY <1>2, <2>2, <2>3 DEF CoverInv, OutsInv
  <2>6. DoubleInv'
    BY <1>4, <2>2, <2>3, CoverTyped DEF CoverInv, DoubleInv
  <2>7. GreInv'
    <3>1. cnt'.gre \in Nat /\ (cnt'.gre <= cnt.gre \/ cnt'.gre <= GreMax)
      BY <2>2, CoverTyped
    <3> QED BY <1>1, <1>2, <3>1, GreCalm
  <2> QED BY <2>4, <2>5, <2>6, <2>7 DEF CoverInv
<1> QED BY <1>5, <1>6


LEMMA OneMore ==
    ASSUME NEW A, IsFiniteSet(A), NEW x, NEW B, B \subseteq A \cup {x}
    PROVE  /\ IsFiniteSet(B) /\ Cardinality(A) \in Nat /\ Cardinality(B) \in Nat
           /\ Cardinality(B) <= Cardinality(A) + 1
<1>1. PICK C : C = A \cup {x}
  OBVIOUS
<1>2. IsFiniteSet(C) /\ Cardinality(C) = IF x \in A THEN Cardinality(A) ELSE Cardinality(A) + 1
  BY <1>1, FS_AddElement
<1>3. B \in SUBSET C
  BY <1>1
<1>4. IsFiniteSet(B) /\ Cardinality(B) <= Cardinality(C)
  BY <1>2, <1>3, FS_Subset
<1>5. Cardinality(A) \in Nat /\ Cardinality(B) \in Nat
  BY <1>4, FS_CardinalityType
<1> QED BY <1>2, <1>4, <1>5

LEMMA NoMore ==
    ASSUME NEW A, IsFiniteSet(A), NEW B, B \subseteq A
    PROVE  /\ IsFiniteSet(B) /\ Cardinality(A) \in Nat /\ Cardinality(B) \in Nat
           /\ Cardinality(B) <= Cardinality(A)
<1>1. IsFiniteSet(B) /\ Cardinality(B) <= Cardinality(A)
  BY FS_Subset
<1> QED BY <1>1, FS_CardinalityType

LEMMA OneLess ==
    ASSUME NEW A, IsFiniteSet(A), NEW x \in A, NEW B, B \subseteq A \ {x}
    PROVE  /\ IsFiniteSet(B) /\ Cardinality(A) \in Nat /\ Cardinality(B) \in Nat
           /\ Cardinality(B) + 1 <= Cardinality(A)
<1>1. PICK C : C = A \ {x}
  OBVIOUS
<1>2. IsFiniteSet(C) /\ Cardinality(C) = Cardinality(A) - 1
  BY <1>1, FS_RemoveElement
<1>3. B \in SUBSET C
  BY <1>1
<1>4. IsFiniteSet(B) /\ Cardinality(B) <= Cardinality(C)
  BY <1>2, <1>3, FS_Subset
<1>5. Cardinality(A) \in Nat /\ Cardinality(B) \in Nat
  BY <1>4, FS_CardinalityType
<1> QED BY <1>2, <1>4, <1>5

(* A new member is one next hop more in use, of its type only.             *)
LEMMA UsesMore ==
    ASSUME IInv, NEW nh, NEW rec, NewMember(nh, rec), NEW t
    PROVE  Uses(t)' \subseteq IF t = nh.type THEN Uses(t) \cup {nh.nhid} ELSE Uses(t)
<1>1. PICK n : n = Len(op.new.members)
  OBVIOUS
<1>2. /\ n \in Nat /\ op'.new \in Infos /\ Len(op'.new.members) = n + 1 /\ op'.new.members[n + 1] = nh
      /\ \A j \in 1 .. n : op'.new.members[j] = op.new.members[j]
      /\ \A o \in Owners : o # "op" => SameHold(o)
  BY <1>1, NewMemberHas
<1>3. DOMAIN op'.new.members = 1 .. n + 1 /\ DOMAIN op.new.members = 1 .. n
  <2>1. op'.new.members \in Seq(Nh) /\ op.new.members \in Seq(Nh)
    BY <1>2, Typed DEF IInv, Infos
  <2> QED BY <1>1, <1>2, <2>1
<1>4. From("op") = 1 /\ From("op")' = 1
  BY DEF NewMember, From, Releasing
<1>5. ASSUME NEW o, NEW j, NEW x, InUse(o, j, t, x)'
      PROVE  InUse(o, j, t, x) \/ (t = nh.type /\ x = nh.nhid)
  <2>1. o \in Owners /\ Holds(o)'
    BY <1>5 DEF InUse, Owners
  <2>2. CASE o # "op"
    <3>1. SameHold(o)
      BY <1>2, <2>1, <2>2
    <3>2. CASE Holds(o) /\ Info(o)' = Info(o) /\ From(o)' = From(o)
      BY <1>5, <2>1, <3>2 DEF InUse
    <3>3. CASE Bare(Info(o))'
      BY <1>5, <3>3 DEF InUse, Bare
    <3> QED BY <2>1, <3>1, <3>2, <3>3 DEF SameHold
  <2>3. CASE o = "op"
    <3>1. j \in 1 .. n + 1 /\ op'.new.members[j].nhid = x /\ op'.new.members[j].type = t
      BY <1>3, <1>5, <2>3 DEF InUse, Info
    <3>2. CASE j = n + 1
      BY <1>2, <3>1, <3>2
    <3>3. CASE j \in 1 .. n
      <4>1. op.new.members[j].nhid = x /\ op.new.members[j].type = t /\ j \in DOMAIN op.new.members /\ 1 <= j
        BY <1>2, <1>3, <3>1, <3>3
      <4> QED BY <1>4, <2>1, <2>3, <4>1 DEF InUse, Info, Holds
    <3>4. j = n + 1 \/ j \in 1 .. n
      BY <1>2, <3>1
    <3> QED BY <3>2, <3>3, <3>4
  <2> QED BY <2>2, <2>3
<1>6. ASSUME NEW x \in Uses(t)' PROVE x \in Uses(t) \/ (t = nh.type /\ x = nh.nhid)
  BY <1>5, <1>6 DEF Uses, Used
<1> QED BY <1>6

LEMMA CoverMember ==
    ASSUME IInv, CoverInv, NEW nh, NEW rec, NewMember(nh, rec), Charged(nh), op'.mode = op.mode
    PROVE  CoverInv'
<1>0. op.pc # "idle" /\ op'.new.outs = op.new.outs /\ op'.new.tuns = op.new.tuns /\ rule' = rule
  <2>1. PICK n : n = Len(op.new.members)
    OBVIOUS
  <2> QED BY <2>1, NewMemberHas DEF NewMember
<1>1. Slots(Outs)' = Slots(Outs) /\ Slots(Tuns)' = Slots(Tuns)
  BY <1>0 DEF Slots, Outs, Tuns
<1>2. PICK A, B, C, D : A = Uses("FLEX_IPDA") /\ B = Uses("FLEX_IPDA")' /\ C = Uses("FLEX_QINQ") /\ D = Uses("FLEX_QINQ")'
  OBVIOUS
<1>3. IsFiniteSet(A) /\ IsFiniteSet(C)
  BY <1>2 DEF CoverInv, Finite
<1>4. /\ nh.type = "FLEX_IPDA" => B \subseteq A \cup {nh.nhid}
      /\ nh.type # "FLEX_IPDA" => B \subseteq A
  BY <1>2, UsesMore
<1>5. /\ nh.type = "FLEX_QINQ" => D \subseteq C \cup {nh.nhid}
      /\ nh.type # "FLEX_QINQ" => D \subseteq C
  BY <1>2, UsesMore
<1>6. /\ IsFiniteSet(B) /\ Cardinality(A) \in Nat /\ Cardinality(B) \in Nat
      /\ nh.type = "FLEX_IPDA" => Cardinality(B) <= Cardinality(A) + 1
      /\ nh.type # "FLEX_IPDA" => Cardinality(B) <= Cardinality(A)
  BY <1>3, <1>4, OneMore, NoMore
<1>7. /\ IsFiniteSet(D) /\ Cardinality(C) \in Nat /\ Cardinality(D) \in Nat
      /\ nh.type = "FLEX_QINQ" => Cardinality(D) <= Cardinality(C) + 1
      /\ nh.type # "FLEX_QINQ" => Cardinality(D) <= Cardinality(C)
  BY <1>3, <1>5, OneMore, NoMore
<1>8. /\ cnt'.outs = cnt.outs
      /\ cnt'.gre = IF nh.type = "FLEX_IPDA" THEN cnt.gre + 1 ELSE cnt.gre
      /\ cnt'.qinq = IF nh.type = "FLEX_QINQ" THEN cnt.qinq + 1 ELSE cnt.qinq
      /\ nh.type = "FLEX_QINQ" => cnt.qinq < QinqMax
      /\ nh.type = "FLEX_IPDA" => cnt.gre + 1 <= GreMax
  BY CoverTyped DEF Charged, Counted
<1>9. Finite'
  BY <1>1, <1>2, <1>6, <1>7 DEF Finite, CoverInv
<1>10. OutsInv'
  BY <1>0, <1>1, <1>8 DEF OutsInv, CoverInv
<1>11. PICK s : s = Cardinality(Slots(Tuns)) /\ s \in Nat
  BY CoverTyped
<1>12. cnt.gre >= Cardinality(A) + s /\ cnt.qinq >= Cardinality(C) /\ cnt.qinq <= QinqMax
  BY <1>2, <1>11 DEF CoverInv, DoubleInv
<1>13. cnt'.gre >= Cardinality(B) + s
  BY <1>6, <1>8, <1>11, <1>12, CoverTyped
<1>14. cnt'.qinq >= Cardinality(D) /\ cnt'.qinq <= QinqMax
  BY <1>7, <1>8, <1>12, CoverTyped
<1>15. DoubleInv'
  BY <1>1, <1>2, <1>11, <1>13, <1>14 DEF DoubleInv
<1>16. GreInv'
  <2>1. cnt'.gre \in Nat /\ (cnt'.gre <= cnt.gre \/ cnt'.gre <= GreMax)
    BY <1>8, CoverTyped
  <2> QED BY <1>0, <2>1, GreCalm
<1> QED BY <1>9, <1>10, <1>15, <1>16 DEF CoverInv


LEMMA CoverAlloc ==
    ASSUME IInv, CoverInv, MapLocal \/ MapTunnel \/ AllocToCpu
    PROVE  CoverInv'
<1>0. TablesOK
  BY DEF IInv
<1>1. CASE AllocToCpu
  BY <1>1, ToCpuIs, CoverMember
<1>2. CASE MapLocal \/ MapTunnel
  <2>1. PICK o \in Ops, nh \in Nh : /\ o.mode = op.mode /\ op' = [o EXCEPT !.new = Stored(nh)]
                                    /\ Charged(nh) /\ \E rec : NewMember(nh, rec)
    BY <1>2, LocalIs
  <2>2. op'["mode"] = o["mode"]
    BY <1>0, <2>1, StoredIs
  <2> QED BY <2>1, <2>2, CoverMember
<1> QED BY <1>1, <1>2

LEMMA CoverGroup == ASSUME IInv, CoverInv, AllocGroup PROVE CoverInv'
<1>0. op.pc = "group" /\ UNCHANGED <<rule, cnt>>
  BY DEF AllocGroup
<1>1. /\ op'.pc = "map" /\ op'.new.members = <<>> /\ op.new.members = <<>>
      /\ op'.new.outs = op.new.outs /\ op'.new.tuns = op.new.tuns /\ op'.mode = op.mode
  BY GroupIs
<1>2. ASSUME NEW o, NEW j, NEW t, NEW n PROVE InUse(o, j, t, n)' <=> InUse(o, j, t, n)
  <2>1. CASE o = "op"
    <3>1. Info(o).members = <<>> /\ Info(o)'.members = <<>>
      BY <1>1, <2>1 DEF Info
    <3> QED BY <3>1 DEF InUse
  <2>2. CASE o # "op"
    <3>1. (Holds(o)' <=> Holds(o)) /\ Info(o)' = Info(o) /\ From(o) = 1 /\ From(o)' = 1
      BY <1>0, <1>1, <2>2 DEF Holds, Info, From, Releasing
    <3> QED BY <3>1 DEF InUse, Owners
  <2> QED BY <2>1, <2>2
<1>3. \A t : Uses(t)' = Uses(t)
  BY <1>2 DEF Uses, Used
<1> QED BY <1>0, <1>1, <1>3, CoverSame DEF CoverInv, OutsInv, GreInv

(* What is released is no longer in use: no other has its id.              *)
LEMMA UsesLess ==
    ASSUME IInv, ReleaseMember, NEW nh, nh = op.rel.members[op.k], NEW t
    PROVE  /\ t = nh.type => nh.nhid \in Uses(t)
           /\ Uses(t)' \subseteq Uses(t) \ {nh.nhid}
<1>0. ResInv /\ ChipInv /\ op.pc = "release" /\ rule' = rule
  BY DEF IInv, ReleaseMember
<1>1. PICK l, k : l = Loser /\ k = op.k
  OBVIOUS
<1>2. /\ op'.k = k + 1 /\ op'.pc = "release" /\ k \in DOMAIN op.rel.members
      /\ Holds(l)' /\ Info(l)' = op.rel /\ From(l)' = k + 1
      /\ From(l) = k /\ \A o \in Owners : o # l => SameHold(o)
      /\ \A x : x \in NhRes(nh) <=> Has(l, k, x)
  BY <1>1, MemberGone
<1>3. /\ l \in Owners /\ Holds(l) /\ Info(l) = op.rel /\ k \in Nat /\ k >= 1
      /\ op.rel.members \in Seq(Nh)
  BY <1>0, <1>1, LoserIs
<1>4. k <= k /\ nh = Info(l).members[k]
  BY <1>1, <1>3
<1>5. nh.nhid \in NhIds
  BY <1>0, <1>2, <1>3, <1>4 DEF ChipInv
<1>6. InUse(l, k, nh.type, nh.nhid)
  BY <1>2, <1>3, <1>4 DEF InUse
<1>7. ASSUME NEW o, NEW j, NEW x, InUse(o, j, t, x)' PROVE InUse(o, j, t, x) /\ ~(o = l /\ j = k)
  <2>1. o \in Owners /\ Holds(o)'
    BY <1>7 DEF InUse, Owners
  <2>2. CASE o # l
    <3>1. SameHold(o)
      BY <1>2, <2>1, <2>2
    <3>2. CASE Holds(o) /\ Info(o)' = Info(o) /\ From(o)' = From(o)
      BY <1>7, <2>1, <2>2, <3>2 DEF InUse
    <3>3. CASE Bare(Info(o))'
      BY <1>7, <3>3 DEF InUse, Bare
    <3> QED BY <2>1, <3>1, <3>2, <3>3 DEF SameHold
  <2>3. CASE o = l
    <3>1. /\ j \in DOMAIN op.rel.members /\ k + 1 <= j
          /\ op.rel.members[j].nhid = x /\ op.rel.members[j].type = t
      BY <1>2, <1>7, <2>3 DEF InUse
    <3>2. j \in Nat /\ k <= j /\ j # k
      BY <1>3, <3>1
    <3> QED BY <1>2, <1>3, <2>3, <3>1, <3>2 DEF InUse
  <2> QED BY <2>2, <2>3
<1>8. ASSUME NEW o, NEW j, InUse(o, j, t, nh.nhid) PROVE o = l /\ j = k
  <2>1. PICK x : x = <<"nh", nh.nhid>>
    OBVIOUS
  <2>2. x \in NhRes(nh) /\ x \in NhRes(Info(o).members[j])
    BY <1>8, <2>1 DEF NhRes, InUse
  <2>3. Has(o, j, x) /\ Has(l, k, x)
    BY <1>2, <1>8, <2>2 DEF Has, HeldIn, InUse
  <2> QED BY <1>0, <2>3 DEF ResInv
<1>9. ASSUME NEW x \in Uses(t)' PROVE x \in Uses(t) /\ x # nh.nhid
  <2>1. x \in NhIds /\ \E o, j : InUse(o, j, t, x)'
    BY <1>9 DEF Uses, Used
  <2>2. PICK o, j : InUse(o, j, t, x)'
    BY <2>1
  <2>3. InUse(o, j, t, x) /\ ~(o = l /\ j = k)
    BY <1>7, <2>2
  <2>4. x # nh.nhid
    BY <1>8, <2>3
  <2> QED BY <2>1, <2>3, <2>4 DEF Uses, Used
<1>10. t = nh.type => nh.nhid \in Uses(t)
  BY <1>5, <1>6 DEF Uses, Used
<1> QED BY <1>9, <1>10

LEMMA CoverReleaseMember == ASSUME IInv, CoverInv, ReleaseMember PROVE CoverInv'
<1>0. op.pc = "release" /\ rule' = rule /\ op \in Ops
  BY DEF ReleaseMember, IInv, TablesOK
<1>1. op'.mode = op.mode /\ op'.new = op.new
  BY MemberGone
<1>2. PICK nh : nh = op.rel.members[op.k]
  OBVIOUS
<1>3. Slots(Outs)' = Slots(Outs) /\ Slots(Tuns)' = Slots(Tuns)
  BY <1>0 DEF Slots, Outs, Tuns
<1>4. PICK A, B, C, D : A = Uses("FLEX_IPDA") /\ B = Uses("FLEX_IPDA")' /\ C = Uses("FLEX_QINQ") /\ D = Uses("FLEX_QINQ")'
  OBVIOUS
<1>5. IsFiniteSet(A) /\ IsFiniteSet(C)
  BY <1>4 DEF CoverInv, Finite
<1>6. (nh.type = "FLEX_IPDA" => nh.nhid \in A) /\ B \subseteq A \ {nh.nhid}
  BY <1>2, <1>4, UsesLess
<1>7. (nh.type = "FLEX_QINQ" => nh.nhid \in C) /\ D \subseteq C \ {nh.nhid}
  BY <1>2, <1>4, UsesLess
<1>8. /\ IsFiniteSet(B) /\ Cardinality(A) \in Nat /\ Cardinality(B) \in Nat
      /\ nh.type = "FLEX_IPDA" => Cardinality(B) + 1 <= Cardinality(A)
      /\ Cardinality(B) <= Cardinality(A)
  <2>1. B \subseteq A
    BY <1>6
  <2> QED BY <1>5, <1>6, <2>1, OneLess, NoMore
<1>9. /\ IsFiniteSet(D) /\ Cardinality(C) \in Nat /\ Cardinality(D) \in Nat
      /\ nh.type = "FLEX_QINQ" => Cardinality(D) + 1 <= Cardinality(C)
      /\ Cardinality(D) <= Cardinality(C)
  <2>1. D \subseteq C
    BY <1>7
  <2> QED BY <1>5, <1>7, <2>1, OneLess, NoMore
<1>10. /\ cnt'.outs = cnt.outs
       /\ cnt'.gre = IF nh.type = "FLEX_IPDA" THEN Less(cnt.gre, 1) ELSE cnt.gre
       /\ cnt'.qinq = IF nh.type = "FLEX_QINQ" THEN Less(cnt.qinq, 1) ELSE cnt.qinq
  BY <1>2, CoverTyped DEF ReleaseMember, UncountedNh
<1>11. PICK s : s = Cardinality(Slots(Tuns)) /\ s \in Nat
  BY CoverTyped
<1>12. cnt.gre >= Cardinality(A) + s /\ cnt.qinq >= Cardinality(C) /\ cnt.qinq <= QinqMax
  BY <1>4, <1>11 DEF CoverInv, DoubleInv
<1>13. cnt'.gre >= Cardinality(B) + s
  BY <1>8, <1>10, <1>11, <1>12, CoverTyped DEF Less
<1>14. cnt'.qinq >= Cardinality(D) /\ cnt'.qinq <= QinqMax
  BY <1>9, <1>10, <1>12, CoverTyped DEF Less
<1>15. DoubleInv'
  BY <1>3, <1>4, <1>11, <1>13, <1>14 DEF DoubleInv
<1>16. Finite'
  BY <1>3, <1>4, <1>8, <1>9 DEF Finite, CoverInv
<1>17. OutsInv'
  BY <1>0, <1>1, <1>3, <1>10 DEF OutsInv, CoverInv
<1>18. GreInv'
  <2>1. cnt'.gre \in Nat /\ cnt'.gre <= cnt.gre
    BY <1>10, CoverTyped DEF Less
  <2> QED BY <1>0, <1>1, <2>1, GreCalm
<1> QED BY <1>15, <1>16, <1>17, <1>18 DEF CoverInv

LEMMA CoverReleaseGroup == ASSUME IInv, CoverInv, ReleaseGroup PROVE CoverInv'
<1>0. op.pc = "release" /\ UNCHANGED <<rule, cnt>>
  BY DEF ReleaseGroup
<1>1. /\ op'.pc = "end" /\ op'.k = op.k /\ op'.r = op.r /\ op'.new = op.new /\ op'.mode = op.mode
  BY GroupGone
<1>2. ASSUME NEW o, NEW j, NEW t, NEW n PROVE InUse(o, j, t, n)' <=> InUse(o, j, t, n)
  <2>1. (Holds(o)' <=> Holds(o)) /\ Info(o)' = Info(o) /\ From(o)' = From(o)
    BY <1>0, <1>1 DEF Holds, Info, From, Releasing
  <2> QED BY <2>1 DEF InUse, Owners
<1>3. \A t : Uses(t)' = Uses(t)
  BY <1>2 DEF Uses, Used
<1> QED BY <1>0, <1>1, <1>3, CoverSame DEF CoverInv, OutsInv, GreInv


(* What a handler hands over at its end was in use before.                 *)
LEMMA UsesEnd ==
    ASSUME IInv, EndAdd \/ EndModify \/ EndDel \/ EndUndo, NEW t
    PROVE  Uses(t)' \subseteq Uses(t)
<1>0. TablesOK /\ op' = Idle /\ op'.new = NoInfo /\ NoInfo.members = <<>>
  BY Constants DEF IInv, EndAdd, EndModify, EndDel, EndUndo, Ended
<1>1. ASSUME NEW o, NEW j, NEW x, InUse(o, j, t, x)' PROVE o \in Owners /\ Holds(o)' /\ o # "op"
  <2>1. o \in Owners /\ Holds(o)' /\ j \in DOMAIN Info(o)'.members
    BY <1>1 DEF InUse, Owners
  <2> QED BY <1>0, <2>1 DEF Info
<1>2. ASSUME NEW o \in Owners, SameHold(o), NEW j, NEW x, InUse(o, j, t, x)' PROVE InUse(o, j, t, x)
  <2>1. Holds(o)' /\ Info(o)'.members # <<>>
    BY <1>2 DEF InUse
  <2>2. Holds(o) /\ Info(o)' = Info(o) /\ From(o)' = From(o)
    BY <1>2, <2>1 DEF SameHold, Bare
  <2> QED BY <1>2, <2>2 DEF InUse
<1>3. CASE EndAdd \/ EndModify
  <2>1. /\ op.pc \in {"installed", "end"} /\ op.mode \in {"add", "modify"}
        /\ rule' = [rule EXCEPT ![op.r] = op.new] /\ op' = Idle
    BY <1>3 DEF EndAdd, EndModify, Ended
  <2>2. PICK r : r = op.r
    OBVIOUS
  <2>3. /\ \A o \in Owners : o # "op" /\ o # r => SameHold(o)
        /\ Info(r)' = op.new /\ From(r)' = 1
        /\ Info("op") = op.new /\ Holds("op") /\ From("op") = 1
    BY <2>1, <2>2, HandOver
  <2>4. ASSUME NEW o, NEW j, NEW x, InUse(o, j, t, x)' PROVE InUse(o, j, t, x) \/ InUse("op", j, t, x)
    <3>1. CASE o # r
      BY <1>1, <1>2, <2>3, <2>4, <3>1
    <3>2. CASE o = r
      <4>1. j \in DOMAIN op.new.members /\ 1 <= j /\ op.new.members[j].nhid = x /\ op.new.members[j].type = t
        BY <2>3, <2>4, <3>2 DEF InUse
      <4>2. "op" \in Owners
        BY DEF Owners
      <4> QED BY <2>3, <4>1, <4>2 DEF InUse
    <3> QED BY <3>1, <3>2
  <2> QED BY <2>4 DEF Uses, Used
<1>4. CASE EndDel \/ EndUndo
  <2>1. /\ op.pc = "end" /\ op.mode \in {"del", "undo"} /\ UNCHANGED <<chip, hwnh, group, pool>>
        /\ \/ op.mode = "undo" /\ rule' = rule
           \/ op.mode = "del" /\ rule' = [rule EXCEPT ![op.r] = Null]
    BY <1>0, <1>4 DEF EndDel, EndUndo, Ended, TablesOK
  <2>2. \A o \in Owners : o # "op" /\ Holds(o)' => SameHold(o)
    BY <1>0, <2>1, Dropped
  <2>3. ASSUME NEW o, NEW j, NEW x, InUse(o, j, t, x)' PROVE InUse(o, j, t, x)
    BY <1>1, <1>2, <2>2, <2>3
  <2> QED BY <2>3 DEF Uses, Used
<1> QED BY <1>3, <1>4

(* A rule gets another record, and the counters the difference.            *)
OutsOf(a) == IF a = Null THEN 0 ELSE a.outs
TunsOf(a) == IF a = Null THEN 0 ELSE a.tuns

LEMMA RuleChange ==
    ASSUME IInv, CoverInv, NEW r \in Rules, NEW a \in Infos \cup {Null}, rule' = [rule EXCEPT ![r] = a]
    PROVE  /\ IsFiniteSet(Slots(Outs)') /\ OutsOf(rule[r]) <= Cardinality(Slots(Outs))
           /\ Cardinality(Slots(Outs)') = Cardinality(Slots(Outs)) - OutsOf(rule[r]) + OutsOf(a)
           /\ IsFiniteSet(Slots(Tuns)') /\ TunsOf(rule[r]) <= Cardinality(Slots(Tuns))
           /\ Cardinality(Slots(Tuns)') = Cardinality(Slots(Tuns)) - TunsOf(rule[r]) + TunsOf(a)
<1>1. rule \in [Rules -> Infos \cup {Null}] /\ Finite /\ Outs \in [Rules -> Nat] /\ Tuns \in [Rules -> Nat]
  BY CoverTyped DEF IInv, TablesOK, CoverInv
<1>2. PICK f, g, d, e : f = Outs /\ g = Outs' /\ d = Tuns /\ e = Tuns'
  OBVIOUS
<1>3. a # Null => a.outs \in Nat /\ a.tuns \in Nat
  BY DEF Infos
<1>4. \A q \in Rules : /\ g[q] = OutsOf(rule'[q]) /\ e[q] = TunsOf(rule'[q])
                       /\ f[q] = OutsOf(rule[q]) /\ d[q] = TunsOf(rule[q])
  BY <1>2 DEF Outs, Tuns, OutsOf, TunsOf
<1>5. rule'[r] = a /\ \A q \in Rules : q # r => rule'[q] = rule[q]
  BY <1>1
<1>6. (\A q \in Rules : q # r => g[q] = f[q] /\ e[q] = d[q]) /\ g[r] = OutsOf(a) /\ e[r] = TunsOf(a)
  BY <1>4, <1>5
<1>7. f \in [Rules -> Nat] /\ d \in [Rules -> Nat]
  BY <1>1, <1>2
<1>8. g \in [Rules -> Nat] /\ e \in [Rules -> Nat]
  <2>1. \A q \in Rules : OutsOf(rule'[q]) \in Nat /\ TunsOf(rule'[q]) \in Nat
    <3>1. OutsOf(a) \in Nat /\ TunsOf(a) \in Nat
      BY <1>3 DEF OutsOf, TunsOf
    <3>2. \A q \in Rules : q # r => g[q] \in Nat /\ e[q] \in Nat
      BY <1>6, <1>7
    <3> QED BY <1>4, <1>5, <3>1, <3>2
  <2> QED BY <1>2, <2>1 DEF Outs, Tuns, OutsOf, TunsOf
<1>9. /\ Slots(f) = Slots(Outs) /\ Slots(g) = Slots(Outs)' /\ Slots(d) = Slots(Tuns) /\ Slots(e) = Slots(Tuns)'
  BY <1>2 DEF Slots
<1>10. IsFiniteSet(Slots(f)) /\ IsFiniteSet(Slots(d))
  BY <1>1, <1>9 DEF Finite
<1>11. /\ IsFiniteSet(Slots(g)) /\ f[r] <= Cardinality(Slots(f))
       /\ Cardinality(Slots(g)) = Cardinality(Slots(f)) - f[r] + g[r]
  BY <1>6, <1>7, <1>8, <1>10, SlotsChange
<1>12. /\ IsFiniteSet(Slots(e)) /\ d[r] <= Cardinality(Slots(d))
       /\ Cardinality(Slots(e)) = Cardinality(Slots(d)) - d[r] + e[r]
  BY <1>6, <1>7, <1>8, <1>10, SlotsChange
<1> QED BY <1>4, <1>6, <1>9, <1>11, <1>12

LEMMA CoverEnded ==
    ASSUME IInv, CoverInv, EndAdd \/ EndModify \/ EndDel \/ EndUndo,
           NEW r \in Rules, NEW a \in Infos \cup {Null}, rule' = [rule EXCEPT ![r] = a],
           cnt'.outs = cnt.outs - OutsOf(rule[r]) + OutsOf(a), cnt'.outs <= OutputMax,
           cnt'.gre = cnt.gre - TunsOf(rule[r]) + TunsOf(a), cnt'.qinq = cnt.qinq,
           cnt.gre <= GreMax \/ TunsOf(a) \in {0, TunsOf(rule[r])}
    PROVE  CoverInv'
<1>1. op'.pc = "idle"
  BY Constants DEF EndAdd, EndModify, EndDel, EndUndo, Ended
<1>2. PICK A, B, C, D : A = Uses("FLEX_IPDA") /\ B = Uses("FLEX_IPDA")' /\ C = Uses("FLEX_QINQ") /\ D = Uses("FLEX_QINQ")'
  OBVIOUS
<1>3. IsFiniteSet(A) /\ IsFiniteSet(C) /\ B \subseteq A /\ D \subseteq C
  BY <1>2, UsesEnd DEF CoverInv, Finite
<1>4. /\ IsFiniteSet(B) /\ Cardinality(A) \in Nat /\ Cardinality(B) \in Nat /\ Cardinality(B) <= Cardinality(A)
      /\ IsFiniteSet(D) /\ Cardinality(C) \in Nat /\ Cardinality(D) \in Nat /\ Cardinality(D) <= Cardinality(C)
  BY <1>3, NoMore
<1>5. Finite'
  BY <1>2, <1>4, RuleChange DEF Finite
<1>6. OutsInv'
  BY <1>1, RuleChange, CoverTyped DEF OutsInv, CoverInv
<1>7. PICK s, u, x, y : /\ s = Cardinality(Slots(Tuns)) /\ u = Cardinality(Slots(Tuns)')
                        /\ x = TunsOf(rule[r]) /\ y = TunsOf(a)
  OBVIOUS
<1>8. s \in Nat /\ x \in Nat /\ y \in Nat /\ u = s - x + y
  <2>1. a # Null => a.tuns \in Nat
    BY DEF Infos
  <2>2. rule[r] # Null => rule[r].tuns \in Nat
    BY DEF IInv, TablesOK, Infos
  <2> QED BY <1>7, <2>1, <2>2, RuleChange, CoverTyped DEF TunsOf
<1>9. cnt.gre >= Cardinality(A) + s /\ cnt.qinq >= Cardinality(C) /\ cnt.qinq <= QinqMax
  BY <1>2, <1>7 DEF CoverInv, DoubleInv
<1>10. cnt'.gre >= Cardinality(B) + u
  BY <1>4, <1>7, <1>8, <1>9, CoverTyped
<1>11. cnt'.qinq >= Cardinality(D) /\ cnt'.qinq <= QinqMax
  BY <1>4, <1>9, CoverTyped
<1>12. DoubleInv'
  BY <1>2, <1>7, <1>10, <1>11 DEF DoubleInv
<1>13. PICK f, g, c, d : f = Tuns /\ g = Tuns' /\ c = cnt.gre /\ d = cnt'.gre
  OBVIOUS
<1>14. f \in [Rules -> Nat] /\ c \in Nat /\ GreMax \in Nat /\ d = c - x + y /\ (c <= GreMax \/ y \in {0, x})
  BY <1>7, <1>13, CoverTyped
<1>15. f[r] = x /\ g[r] = y /\ \A q \in Rules : q # r => g[q] = f[q]
  BY <1>7, <1>13 DEF Tuns, TunsOf, IInv, TablesOK
<1>16. c <= GreMax \/ \E q \in Rules : c <= GreMax + f[q]
  BY <1>13 DEF CoverInv, GreInv, GreNearLimit
<1>17. d <= GreMax \/ \E q \in Rules : d <= GreMax + g[q]
  <2>1. CASE c <= GreMax
    <3>1. d <= GreMax + g[r]
      BY <1>8, <1>14, <1>15, <2>1
    <3> QED BY <3>1
  <2>2. CASE y \in {0, x} /\ \E q \in Rules : c <= GreMax + f[q]
    <3>1. PICK q \in Rules : c <= GreMax + f[q]
      BY <2>2
    <3>2. CASE q = r
      <4>1. d <= GreMax + g[r]
        BY <1>8, <1>14, <1>15, <2>2, <3>1, <3>2
      <4> QED BY <4>1
    <3>3. CASE q # r
      <4>1. g[q] = f[q] /\ f[q] \in Nat /\ d <= c
        BY <1>8, <1>14, <1>15, <2>2, <3>3
      <4>2. d <= GreMax + g[q]
        BY <1>8, <1>14, <3>1, <4>1
      <4> QED BY <4>2
    <3> QED BY <3>2, <3>3
  <2> QED BY <1>14, <1>16, <2>1, <2>2
<1>18. GreInv'
  BY <1>1, <1>13, <1>17 DEF GreInv, GreNearLimit
<1> QED BY <1>5, <1>6, <1>12, <1>18 DEF CoverInv


LEMMA CoverEnd ==
    ASSUME IInv, CoverInv, EndAdd \/ EndModify \/ EndDel \/ EndUndo
    PROVE  CoverInv'
<1>0. TablesOK /\ OpInv /\ rule \in [Rules -> Infos \cup {Null}] /\ op.new \in Infos /\ op.rel \in Infos
  BY Typed DEF IInv, TablesOK
<1>1. PICK r : r = op.r
  OBVIOUS
<1>2. r \in Rules /\ op.pc # "idle" /\ op.mode \in {"add", "modify", "del", "undo"}
  BY <1>0, <1>1 DEF OpInv, EndAdd, EndModify, EndDel, EndUndo
<1>3. PICK a, b, co, cg, cq : a = op.new /\ b = rule[r] /\ co = cnt.outs /\ cg = cnt.gre /\ cq = cnt.qinq
  OBVIOUS
<1>4. /\ cnt = [outs |-> co, gre |-> cg, qinq |-> cq] /\ co \in Nat /\ cg \in Nat /\ cq \in Nat
  <2>1. cnt \in [outs : Nat, gre : Nat, qinq : Nat]
    BY CoverTyped
  <2> QED BY <1>3, <2>1
<1>5. /\ a \in Infos /\ a # Null /\ a.outs \in Nat /\ a.tuns \in Nat /\ b \in Infos \cup {Null}
      /\ b # Null => b.outs \in Nat /\ b.tuns \in Nat
  BY <1>0, <1>2, <1>3, NullAssumption DEF Infos
<1>6. /\ OutsOf(a) = a.outs /\ TunsOf(a) = a.tuns /\ OutsOf(Null) = 0 /\ TunsOf(Null) = 0
      /\ b # Null => OutsOf(b) = b.outs /\ TunsOf(b) = b.tuns
  BY <1>5 DEF OutsOf, TunsOf
<1>7. OutsOf(b) <= co /\ TunsOf(b) <= cg /\ co <= OutputMax /\ OutputMax \in Nat
  <2>1. PICK x \in Infos \cup {Null} : rule' = [rule EXCEPT ![r] = x]
    BY <1>0, <1>1, <1>2 DEF EndAdd, EndModify, EndDel, EndUndo, Ended
  <2>2. OutsOf(b) <= Cardinality(Slots(Outs)) /\ TunsOf(b) <= Cardinality(Slots(Tuns))
    BY <1>2, <1>3, <2>1, RuleChange
  <2>3. TunsOf(b) \in Nat
    BY <1>5 DEF TunsOf
  <2>4. cg >= Cardinality(Slots(Tuns))
    BY <1>3, CoverTyped DEF CoverInv, DoubleInv
  <2>5. co = Cardinality(Slots(Outs)) /\ co <= OutputMax
    BY <1>3 DEF CoverInv, OutsInv
  <2> QED BY <1>4, <2>2, <2>3, <2>4, <2>5, CoverTyped
<1>8. op.mode \in {"add", "modify"} => co + a.outs <= OutputMax /\ (a.tuns = 0 \/ cg <= GreMax)
  BY <1>2, <1>3 DEF CoverInv, OutsInv, GreInv
<1>9. CASE EndAdd
  <2>1. b = Null /\ op.mode = "add" /\ rule' = [rule EXCEPT ![r] = a]
    BY <1>0, <1>1, <1>2, <1>3, <1>9 DEF EndAdd, OpInv
  <2>2. cnt' = [outs |-> co + a.outs, gre |-> cg + a.tuns, qinq |-> cq]
    BY <1>3, <1>4, <1>9 DEF EndAdd, Count
  <2>3. cnt'.outs = co - OutsOf(b) + OutsOf(a) /\ cnt'.gre = cg - TunsOf(b) + TunsOf(a) /\ cnt'.qinq = cq
    BY <1>4, <1>5, <1>6, <2>1, <2>2
  <2>4. cnt'.outs <= OutputMax
    BY <1>8, <2>1, <2>2
  <2>5. cg <= GreMax \/ TunsOf(a) \in {0, TunsOf(b)}
    BY <1>6, <1>8, <2>1
  <2> QED BY <1>2, <1>3, <1>5, <1>9, <2>1, <2>3, <2>4, <2>5, CoverEnded
<1>10. CASE EndModify
  <2>1. b # Null /\ op.rel = b /\ op.mode = "modify" /\ rule' = [rule EXCEPT ![r] = a]
    <3>1. op.rel = Info(Loser) /\ rule[op.r] # Null /\ op.mode = "modify" /\ r # "op"
      BY <1>0, <1>2, <1>10, NullAssumption DEF EndModify, OpInv
    <3> QED BY <1>1, <1>3, <1>10, <3>1 DEF EndModify, Ended, Info, Loser
  <2>2. Count(cnt, a) = [outs |-> co + a.outs, gre |-> cg + a.tuns, qinq |-> cq]
    <3>1. cnt.outs = co /\ cnt.gre = cg /\ cnt.qinq = cq
      BY <1>3
    <3>2. PICK c : c = Count(cnt, a)
      OBVIOUS
    <3>3. c = [outs |-> co + a.outs, gre |-> cg + a.tuns, qinq |-> cq]
      BY <1>4, <3>1, <3>2 DEF Count
    <3> QED BY <3>2, <3>3
  <2>3. cnt' = Uncount([outs |-> co + a.outs, gre |-> cg + a.tuns, qinq |-> cq], b)
    BY <1>3, <1>10, <2>1, <2>2 DEF EndModify, Ended
  <2>4. cnt' = [outs |-> Less(co + a.outs, b.outs), gre |-> Less(cg + a.tuns, b.tuns), qinq |-> cq]
    BY <2>3 DEF Uncount
  <2>5. Less(co + a.outs, b.outs) = co - b.outs + a.outs /\ Less(cg + a.tuns, b.tuns) = cg - b.tuns + a.tuns
    BY <1>4, <1>5, <1>6, <1>7, <2>1 DEF Less
  <2>6. cnt'.outs = co - OutsOf(b) + OutsOf(a) /\ cnt'.gre = cg - TunsOf(b) + TunsOf(a) /\ cnt'.qinq = cq
    BY <1>6, <2>1, <2>4, <2>5
  <2>7. cnt'.outs <= OutputMax
    BY <1>4, <1>5, <1>6, <1>7, <1>8, <2>1, <2>6
  <2>8. cg <= GreMax \/ TunsOf(a) \in {0, TunsOf(b)}
    BY <1>6, <1>8, <2>1
  <2> QED BY <1>2, <1>3, <1>5, <1>10, <2>1, <2>6, <2>7, <2>8, CoverEnded
<1>11. CASE EndDel
  <2>1. b # Null /\ op.rel = b /\ rule' = [rule EXCEPT ![r] = Null]
    <3>1. op.rel = Info(Loser) /\ rule[op.r] # Null /\ op.mode = "del" /\ r # "op"
      BY <1>0, <1>2, <1>11, NullAssumption DEF EndDel, OpInv
    <3> QED BY <1>1, <1>3, <1>11, <3>1 DEF EndDel, Ended, Info, Loser
  <2>2. cnt' = Uncount([outs |-> co, gre |-> cg, qinq |-> cq], b)
    BY <1>4, <1>11, <2>1 DEF EndDel, Ended
  <2>3. cnt' = [outs |-> Less(co, b.outs), gre |-> Less(cg, b.tuns), qinq |-> cq]
    BY <2>2 DEF Uncount
  <2>4. Less(co, b.outs) = co - b.outs + 0 /\ Less(cg, b.tuns) = cg - b.tuns + 0
    BY <1>4, <1>5, <1>6, <1>7, <2>1 DEF Less
  <2>5. cnt'.outs = co - OutsOf(b) + OutsOf(Null) /\ cnt'.gre = cg - TunsOf(b) + TunsOf(Null) /\ cnt'.qinq = cq
    BY <1>6, <2>1, <2>3, <2>4
  <2>6. cnt'.outs <= OutputMax
    BY <1>4, <1>5, <1>6, <1>7, <2>1, <2>5
  <2>7. PICK n \in Infos \cup {Null} : n = Null
    OBVIOUS
  <2> QED BY <1>2, <1>3, <1>5, <1>6, <1>11, <2>1, <2>5, <2>6, <2>7, CoverEnded
<1>12. CASE EndUndo
  <2>1. rule' = [rule EXCEPT ![r] = b] /\ cnt' = cnt
    BY <1>1, <1>3, <1>12 DEF EndUndo, Ended
  <2>2. OutsOf(b) \in Nat /\ TunsOf(b) \in Nat
    BY <1>5 DEF OutsOf, TunsOf
  <2>3. cnt'.outs = co - OutsOf(b) + OutsOf(b) /\ cnt'.gre = cg - TunsOf(b) + TunsOf(b) /\ cnt'.qinq = cq
    BY <1>3, <1>4, <2>1, <2>2
  <2>4. cnt'.outs <= OutputMax
    BY <1>3, <1>7, <2>1
  <2> QED BY <1>2, <1>3, <1>5, <1>12, <2>1, <2>3, <2>4, CoverEnded
<1> QED BY <1>9, <1>10, <1>11, <1>12

LEMMA CoverStep == ASSUME IInv, CoverInv, [Next]_vars PROVE CoverInv'
<1>1. CASE \E r \in Rules : \E l \in Lists[r] : AddFlow(r, l) \/ ModifyFlow(r, l)
  BY <1>1, CoverBegin
<1>2. CASE UNCHANGED vars
  <2>1. UNCHANGED <<rule, op, cnt>>
    BY <1>2 DEF vars
  <2>2. \A o \in Owners : SameHold(o)
    BY <2>1 DEF SameHold, Holds, Info, From, Gone, Releasing
  <2> QED BY <2>1, <2>2, UsesSame, CoverSame DEF CoverInv, OutsInv, GreInv
<1> QED BY <1>1, <1>2, CoverSteps, CoverFails, CoverAlloc, CoverGroup, CoverReleaseMember, CoverReleaseGroup,
           CoverEnd DEF Next

LEMMA CoverInit == Init => CoverInv
<1> SUFFICES ASSUME Init PROVE CoverInv
  OBVIOUS
<1>1. op.pc = "idle" /\ op.new = NoInfo /\ NoInfo.members = <<>>
  BY Constants DEF Init
<1>2. \A o \in Owners : Holds(o) => o = "op"
  BY DEF Init, Owners, Holds
<1>3. \A t : Uses(t) = {}
  BY <1>1, <1>2 DEF Uses, Used, InUse, Info
<1>4. Slots(Outs) = {} /\ Slots(Tuns) = {}
  <2>1. DOMAIN Outs = Rules /\ DOMAIN Tuns = Rules /\ \A r \in Rules : Outs[r] = 0 /\ Tuns[r] = 0
    BY DEF Init, Outs, Tuns
  <2>2. 1 .. 0 = {}
    OBVIOUS
  <2>3. \A r \in Rules : {r} \X (1 .. Outs[r]) = {} /\ {r} \X (1 .. Tuns[r]) = {}
    BY <2>1, <2>2
  <2> QED BY <2>1, <2>3 DEF Slots
<1>5. cnt = [outs |-> 0, gre |-> 0, qinq |-> 0] /\ OutputMax \in Nat /\ QinqMax \in Nat
  BY PoolAssumption DEF Init
<1>6. Finite
  BY <1>3, <1>4, FS_EmptySet DEF Finite
<1>7. /\ Cardinality(Slots(Outs)) = 0 /\ Cardinality(Slots(Tuns)) = 0
      /\ Cardinality(Uses("FLEX_IPDA")) = 0 /\ Cardinality(Uses("FLEX_QINQ")) = 0
  BY <1>3, <1>4, FS_EmptySet
<1>8. OutsInv /\ DoubleInv
  BY <1>1, <1>5, <1>7 DEF OutsInv, DoubleInv
<1>9. GreInv
  BY <1>1, <1>5, PoolAssumption DEF GreInv, GreNearLimit
<1> QED BY <1>9, <1>6, <1>8 DEF CoverInv

(* What is held of a type are as many members as ids in use.               *)
LEMMA HeldCount ==
    ASSUME IInv, NEW t, IsFiniteSet(Uses(t))
    PROVE  HeldOf(t) <= Cardinality(Uses(t)) /\ HeldOf(t) \in Nat
<1> DEFINE H == {h \in Held : NhOf(h).type = t}
           f == [h \in H |-> NhOf(h).nhid]
<1>0. TablesOK /\ Exclusive /\ ChipInv
  BY InvExclusive DEF IInv
<1>1. ASSUME NEW h \in H PROVE NhOf(h).nhid \in Uses(t)
  <2>1. /\ h[1] \in Owners /\ Holds(h[1]) /\ h[2] \in DOMAIN Info(h[1]).members /\ From(h[1]) <= h[2]
    BY <1>0, <1>1, HeldIs
  <2>2. NhOf(h).nhid \in NhIds
    BY <1>0, <2>1 DEF ChipInv, NhOf
  <2>3. InUse(h[1], h[2], t, NhOf(h).nhid)
    BY <1>1, <2>1 DEF InUse, NhOf
  <2> QED BY <2>2, <2>3 DEF Uses, Used
<1>2. \A g, h \in H : g # h => NhOf(g).nhid # NhOf(h).nhid
  BY <1>0 DEF Exclusive
<1>3. f \in Injection(H, Uses(t))
  BY <1>1, <1>2 DEF Injection, IsInjective
<1>4. IsFiniteSet(H) /\ Cardinality(H) <= Cardinality(Uses(t))
  <2> HIDE DEF H, f
  <2> QED BY <1>3, FS_Injection
<1> QED BY <1>4, FS_CardinalityType DEF HeldOf

(* The output counter of adpt_flow_db.c is exact and within its limit, and *)
(* the counters of double offsets cover every next hop in use and keep     *)
(* their limits, but for the tunnels of one flow, wherever a handler is    *)
(* and whatever it has failed at before.                                   *)
THEOREM Covered == Spec => []CountersCover
<1>1. Init => CoverInv
  BY CoverInit
<1>2. IInv /\ CoverInv /\ [Next]_vars => CoverInv'
  BY CoverStep
<1>3. IInv /\ CoverInv => CountersCover
  <2> SUFFICES ASSUME IInv, CoverInv PROVE CountersCover
    OBVIOUS
  <2>1. OutputsCounted
    BY DEF CoverInv, OutsInv, OutputsCounted
  <2>2. /\ HeldOf("FLEX_IPDA") <= Cardinality(Uses("FLEX_IPDA")) /\ HeldOf("FLEX_IPDA") \in Nat
        /\ HeldOf("FLEX_QINQ") <= Cardinality(Uses("FLEX_QINQ")) /\ HeldOf("FLEX_QINQ") \in Nat
    BY HeldCount DEF CoverInv, Finite
  <2>3. NeverUndercounted
    BY <2>2, CoverTyped DEF CoverInv, DoubleInv, NeverUndercounted
  <2>4. GreNearLimit
    BY DEF CoverInv, GreInv
  <2> QED BY <2>1, <2>3, <2>4 DEF CountersCover
<1> QED BY <1>1, <1>2, <1>3, Invariant, PTL DEF Spec


----------------------------------------------------------------------------
(* What a list asks for.  Its functions are recursive, and there are such  *)
(* functions: the least length without one would follow a length with one. *)
LEMMA Least ==
    ASSUME NEW S, S \subseteq Nat, S # {}
    PROVE  \E n \in S : \A m \in S : n <= m
<1>1. PICK n \in S : \A c \in S : ~(<<c, n>> \in OpToRel(<, Nat))
  BY WFMin, NatLessThanWellFounded
<1>2. \A c \in S : ~(c < n)
  BY <1>1 DEF OpToRel
<1>3. \A c \in S : n <= c
  BY <1>2
<1> QED BY <1>3

LEMMA EditsAre ==
    ASSUME NEW l \in Seq(Acts)
    PROVE  Edits(l) = [i \in 0 .. Len(l) |-> IF i = 0 THEN {} ELSE Combine(Edits(l)[i - 1], l[i])]
<1> DEFINE Solves(n, g) == g = [i \in 0 .. n |-> IF i = 0 THEN {} ELSE Combine(g[i - 1], l[i])]
           Bad == {n \in Nat : ~\E g : Solves(n, g)}
<1>0. Len(l) \in Nat
  OBVIOUS
<1>1. ASSUME Bad # {} PROVE FALSE
  <2>1. PICK n \in Bad : \A m \in Bad : n <= m
    BY <1>1, Least
  <2>2. n # 0
    <3>1. PICK g : g = [i \in 0 .. 0 |-> IF i = 0 THEN {} ELSE Combine({}, l[i])]
      OBVIOUS
    <3>2. Solves(0, g)
      BY <3>1
    <3> QED BY <2>1, <3>2
  <2>3. n - 1 \in Nat /\ n - 1 \notin Bad
    <3>1. n \in Nat /\ n - 1 \in Nat /\ ~(n <= n - 1)
      BY <2>2
    <3> HIDE DEF Bad
    <3> QED BY <2>1, <3>1
  <2>4. PICK g : Solves(n - 1, g)
    BY <2>3
  <2>5. PICK h : h = [i \in 0 .. n |-> IF i = 0 THEN {} ELSE Combine(g[i - 1], l[i])]
    OBVIOUS
  <2>6. \A i \in 0 .. n : i # 0 => h[i - 1] = g[i - 1]
    <3> SUFFICES ASSUME NEW i \in 0 .. n, i # 0 PROVE h[i - 1] = g[i - 1]
      OBVIOUS
    <3>1. PICK k : k = i - 1
      OBVIOUS
    <3>2. k \in 0 .. n /\ k \in 0 .. n - 1
      BY <2>3, <3>1
    <3>3. h[k] = IF k = 0 THEN {} ELSE Combine(g[k - 1], l[k])
      BY <2>5, <3>2
    <3>4. g[k] = IF k = 0 THEN {} ELSE Combine(g[k - 1], l[k])
      BY <2>4, <3>2
    <3> QED BY <3>1, <3>3, <3>4
  <2>7. \A i \in 0 .. n : (IF i = 0 THEN {} ELSE Combine(g[i - 1], l[i])) = IF i = 0 THEN {} ELSE Combine(h[i - 1], l[i])
    BY <2>6
  <2>8. Solves(n, h)
    BY <2>5, <2>7
  <2> QED BY <2>1, <2>8
<1>2. PICK g : Solves(Len(l), g)
  BY <1>0, <1>1
<1>3. PICK e : e = Edits(l)
  OBVIOUS
<1>4. e = CHOOSE f : f = [i \in 0 .. Len(l) |-> IF i = 0 THEN {} ELSE Combine(f[i - 1], l[i])]
  BY <1>3 DEF Edits
<1>5. e = [i \in 0 .. Len(l) |-> IF i = 0 THEN {} ELSE Combine(e[i - 1], l[i])]
  BY <1>2, <1>4
<1> QED BY <1>3, <1>5

LEMMA UpToIs ==
    ASSUME NEW r, NEW l \in Seq(Acts)
    PROVE  AskedUpTo(r, l) = [i \in 0 .. Len(l) |->
                IF i = 0 THEN <<>> ELSE AskedUpTo(r, l)[i - 1] \o AskedBy(r, l[i], Edits(l)[i])]
<1>0. Len(l) \in Nat
  OBVIOUS
<1>9. PICK a : a = [i \in Nat |-> AskedBy(r, l[i], Edits(l)[i])]
  OBVIOUS
<1> DEFINE Solves(n, g) == g = [i \in 0 .. n |-> IF i = 0 THEN <<>> ELSE g[i - 1] \o a[i]]
           Bad == {n \in Nat : ~\E g : Solves(n, g)}
<1>1. ASSUME Bad # {} PROVE FALSE
  <2>1. PICK n \in Bad : \A m \in Bad : n <= m
    BY <1>1, Least
  <2>2. n # 0
    <3>1. PICK g : g = [i \in 0 .. 0 |-> IF i = 0 THEN <<>> ELSE <<>> \o a[i]]
      OBVIOUS
    <3>2. Solves(0, g)
      BY <3>1
    <3> QED BY <2>1, <3>2
  <2>3. n - 1 \in Nat /\ n - 1 \notin Bad
    <3>1. n \in Nat /\ n - 1 \in Nat /\ ~(n <= n - 1)
      BY <2>2
    <3> HIDE DEF Bad
    <3> QED BY <2>1, <3>1
  <2>4. PICK g : Solves(n - 1, g)
    BY <2>3
  <2>5. PICK h : h = [i \in 0 .. n |-> IF i = 0 THEN <<>> ELSE g[i - 1] \o a[i]]
    OBVIOUS
  <2>6. \A i \in 0 .. n : i # 0 => h[i - 1] = g[i - 1]
    <3> SUFFICES ASSUME NEW i \in 0 .. n, i # 0 PROVE h[i - 1] = g[i - 1]
      OBVIOUS
    <3>1. PICK k : k = i - 1
      OBVIOUS
    <3>2. k \in 0 .. n /\ k \in 0 .. n - 1
      BY <2>3, <3>1
    <3>3. h[k] = IF k = 0 THEN <<>> ELSE g[k - 1] \o a[k]
      BY <2>5, <3>2
    <3>4. g[k] = IF k = 0 THEN <<>> ELSE g[k - 1] \o a[k]
      BY <2>4, <3>2
    <3> QED BY <3>1, <3>3, <3>4
  <2>7. \A i \in 0 .. n : (IF i = 0 THEN <<>> ELSE g[i - 1] \o a[i]) = IF i = 0 THEN <<>> ELSE h[i - 1] \o a[i]
    BY <2>6
  <2>8. Solves(n, h)
    BY <2>5, <2>7
  <2> QED BY <2>1, <2>8
<1>2. PICK g : Solves(Len(l), g)
  BY <1>0, <1>1
<1>3. PICK e : e = AskedUpTo(r, l)
  OBVIOUS
<1>4. e = CHOOSE f : f = [i \in 0 .. Len(l) |-> IF i = 0 THEN <<>> ELSE f[i - 1] \o AskedBy(r, l[i], Edits(l)[i])]
  BY <1>3 DEF AskedUpTo
<1>5. g = [i \in 0 .. Len(l) |-> IF i = 0 THEN <<>> ELSE g[i - 1] \o AskedBy(r, l[i], Edits(l)[i])]
  <2>1. \A i \in 0 .. Len(l) : a[i] = AskedBy(r, l[i], Edits(l)[i])
    BY <1>0, <1>9
  <2>2. \A i \in 0 .. Len(l) : (IF i = 0 THEN <<>> ELSE g[i - 1] \o a[i])
                                  = IF i = 0 THEN <<>> ELSE g[i - 1] \o AskedBy(r, l[i], Edits(l)[i])
    BY <2>1
  <2> QED BY <1>2, <2>2
<1>6. e = [i \in 0 .. Len(l) |-> IF i = 0 THEN <<>> ELSE e[i - 1] \o AskedBy(r, l[i], Edits(l)[i])]
  BY <1>4, <1>5
<1> QED BY <1>3, <1>6


LEMMA AskedByIs ==
    ASSUME NEW r \in Rules, NEW a \in Acts, NEW e
    PROVE  /\ a.type # "OUTPUT" => AskedBy(r, a, e) = <<>>
           /\ (a.type = "OUTPUT" /\ CpuAsked(r, a)) => AskedBy(r, a, e) = <<>>
           /\ (a.type = "OUTPUT" /\ a.to \in {"PORT", "TUNNEL"}) =>
                 AskedBy(r, a, e) = <<[to |-> To(a.to, a.n), edit |-> e]>>
           /\ (a.type = "OUTPUT" /\ a.to = "IN_PORT" /\ InPort[r] = "PORT") =>
                 AskedBy(r, a, e) = <<[to |-> To(a.to, a.n), edit |-> e]>>
           /\ (a.type = "OUTPUT" /\ a.to = "ALL") =>
                 AskedBy(r, a, e) = [p \in 1 .. NPorts |-> [to |-> To("PORT", p), edit |-> e]]
           /\ AskedBy(r, a, e) \in Seq([to : Targeted, edit : {e}])
<1>0. InPort[r] \in {"PORT", "TUNNEL", "ANY"} /\ NPorts \in Nat
  BY ListAssumption, PoolAssumption
<1>1. a.type = "OUTPUT" => a.to \in Targets /\ a.n \in Nat
  BY PoolAssumption DEF Acts, Fields, Ports
<1>2. a.type # "OUTPUT" => AskedBy(r, a, e) = <<>>
  BY DEF AskedBy
<1>3. (a.type = "OUTPUT" /\ CpuAsked(r, a)) => AskedBy(r, a, e) = <<>>
  BY <1>0 DEF AskedBy, CpuAsked
<1>4. (a.type = "OUTPUT" /\ a.to \in {"PORT", "TUNNEL"}) =>
          AskedBy(r, a, e) = <<[to |-> To(a.to, a.n), edit |-> e]>>
  BY DEF AskedBy
<1>5. (a.type = "OUTPUT" /\ a.to = "IN_PORT" /\ InPort[r] = "PORT") =>
          AskedBy(r, a, e) = <<[to |-> To(a.to, a.n), edit |-> e]>>
  BY DEF AskedBy
<1>6. (a.type = "OUTPUT" /\ a.to = "ALL") =>
          AskedBy(r, a, e) = [p \in 1 .. NPorts |-> [to |-> To("PORT", p), edit |-> e]]
  BY DEF AskedBy, Ports
<1>7. (a.type = "OUTPUT" /\ (a.to = "NONE" \/ (a.to = "IN_PORT" /\ InPort[r] = "TUNNEL"))) => AskedBy(r, a, e) = <<>>
  BY DEF AskedBy
<1>8. AskedBy(r, a, e) \in Seq([to : Targeted, edit : {e}])
  <2>1. PICK W : W = [to : Targeted, edit : {e}]
    OBVIOUS
  <2>2. CASE AskedBy(r, a, e) = <<>>
    BY <2>2
  <2>3. CASE a.type = "OUTPUT" /\ AskedBy(r, a, e) = <<[to |-> To(a.to, a.n), edit |-> e]>>
    <3>1. [to |-> To(a.to, a.n), edit |-> e] \in W
      BY <1>1, <2>1, <2>3 DEF To, Targeted
    <3> QED BY <2>1, <2>3, <3>1
  <2>4. CASE AskedBy(r, a, e) = [p \in 1 .. NPorts |-> [to |-> To("PORT", p), edit |-> e]]
    <3>1. \A p \in 1 .. NPorts : [to |-> To("PORT", p), edit |-> e] \in W
      BY <1>0, <2>1 DEF To, Targeted, Targets
    <3>2. [p \in 1 .. NPorts |-> [to |-> To("PORT", p), edit |-> e]] \in Seq(W)
      BY <1>0, <3>1
    <3> QED BY <2>1, <2>4, <3>2
  <2>5. a.type = "OUTPUT" => a.to \in {"PORT", "TUNNEL", "CONTROLLER", "IN_PORT", "ALL", "NONE"}
    BY <1>1 DEF Targets
  <2> QED BY <1>0, <1>2, <1>3, <1>4, <1>5, <1>6, <1>7, <2>2, <2>3, <2>4, <2>5 DEF CpuAsked
<1> QED BY <1>2, <1>3, <1>4, <1>5, <1>6, <1>8

(* What is asked for is a sequence of outputs, empty without outputs.      *)
Wanted(l) == [to : Targeted, edit : {Edits(l)[k] : k \in 0 .. Len(l)}]

LEMMA UpToNext ==
    ASSUME NEW r \in Rules, NEW l \in Seq(Acts)
    PROVE  /\ AskedUpTo(r, l)[0] = <<>>
           /\ \A i \in 1 .. Len(l) : AskedUpTo(r, l)[i] = AskedUpTo(r, l)[i - 1] \o AskedBy(r, l[i], Edits(l)[i])
           /\ \A i \in 1 .. Len(l) : AskedBy(r, l[i], Edits(l)[i]) \in Seq(Wanted(l))
<1>0. Len(l) \in Nat
  OBVIOUS
<1>1. PICK u, e : u = AskedUpTo(r, l) /\ e = Edits(l)
  OBVIOUS
<1>2. u = [i \in 0 .. Len(l) |-> IF i = 0 THEN <<>> ELSE u[i - 1] \o AskedBy(r, l[i], e[i])]
  BY <1>1, UpToIs
<1>3. u[0] = <<>>
  BY <1>0, <1>2
<1>4. \A i \in 1 .. Len(l) : u[i] = u[i - 1] \o AskedBy(r, l[i], e[i])
  BY <1>0, <1>2
<1>5. \A i \in 1 .. Len(l) : AskedBy(r, l[i], e[i]) \in Seq(Wanted(l))
  <2> SUFFICES ASSUME NEW i \in 1 .. Len(l) PROVE AskedBy(r, l[i], e[i]) \in Seq(Wanted(l))
    OBVIOUS
  <2>1. l[i] \in Acts /\ i \in 0 .. Len(l)
    OBVIOUS
  <2>2. AskedBy(r, l[i], e[i]) \in Seq([to : Targeted, edit : {e[i]}])
    BY <2>1, AskedByIs
  <2>3. [to : Targeted, edit : {e[i]}] \subseteq Wanted(l)
    BY <1>1, <2>1 DEF Wanted
  <2>4. PICK s, A, W : s = AskedBy(r, l[i], e[i]) /\ A = [to : Targeted, edit : {e[i]}] /\ W = Wanted(l)
    OBVIOUS
  <2>5. s \in Seq(A) /\ A \subseteq W
    BY <2>2, <2>3, <2>4
  <2>6. Len(s) \in Nat /\ s = [j \in 1 .. Len(s) |-> s[j]] /\ \A j \in 1 .. Len(s) : s[j] \in W
    BY <2>5
  <2>7. s \in Seq(W)
    BY <2>6
  <2> QED BY <2>4, <2>7
<1> QED BY <1>1, <1>3, <1>4, <1>5

LEMMA UpToTyped ==
    ASSUME NEW r \in Rules, NEW l \in Seq(Acts), NEW i \in 0 .. Len(l)
    PROVE  /\ AskedUpTo(r, l)[i] \in Seq(Wanted(l))
           /\ Outputs(l) = {} => AskedUpTo(r, l)[i] = <<>>
<1>0. Len(l) \in Nat
  OBVIOUS
<1>1. PICK u, W : u = AskedUpTo(r, l) /\ W = Wanted(l)
  OBVIOUS
<1> DEFINE Bad == {n \in Nat : n \in 0 .. Len(l) /\ ~(u[n] \in Seq(W) /\ (Outputs(l) = {} => u[n] = <<>>))}
<1>2. ASSUME Bad # {} PROVE FALSE
  <2>1. PICK n \in Bad : \A m \in Bad : n <= m
    BY <1>2, Least
  <2>2. n # 0
    <3>1. u[0] = <<>>
      BY <1>1, UpToNext
    <3>2. <<>> \in Seq(W)
      OBVIOUS
    <3> QED BY <2>1, <3>1, <3>2
  <2>3. PICK k : k = n - 1
    OBVIOUS
  <2>4. k \in 0 .. Len(l) /\ k \in Nat /\ ~(n <= k) /\ n \in 1 .. Len(l)
    BY <1>0, <2>1, <2>2, <2>3
  <2>5. k \notin Bad
    <3> HIDE DEF Bad
    <3> QED BY <2>1, <2>4
  <2>6. u[k] \in Seq(W) /\ (Outputs(l) = {} => u[k] = <<>>)
    BY <2>4, <2>5
  <2>7. PICK a : a = AskedBy(r, l[n], Edits(l)[n])
    OBVIOUS
  <2>8. u[n] = u[k] \o a /\ a \in Seq(W)
    BY <1>1, <2>3, <2>4, <2>7, UpToNext
  <2>9. u[n] \in Seq(W)
    BY <2>6, <2>8
  <2>10. Outputs(l) = {} => a = <<>>
    <3>1. l[n] \in Acts /\ n \in DOMAIN l
      BY <2>4
    <3>2. Outputs(l) = {} => l[n].type # "OUTPUT"
      BY <3>1 DEF Outputs
    <3> QED BY <2>7, <3>1, <3>2, AskedByIs
  <2>11. Outputs(l) = {} => u[n] = <<>>
    BY <2>6, <2>8, <2>10
  <2> QED BY <2>1, <2>9, <2>11
<1>3. i \notin Bad /\ i \in Nat
  BY <1>0, <1>2
<1> QED BY <1>1, <1>3


----------------------------------------------------------------------------
(* Forwarding.  The members of info send what w asks for; the group of     *)
(* info has them as its members; an entry with n for its next hop that was *)
(* written for the list l of r does what the list asks for.                *)
SentBy(n, a) == hwnh[n] # Null /\ Sent(hwnh[n], a)
Matches(info, w) ==
    Len(info.members) = Len(w) /\ \A j \in 1 .. Len(w) : SentBy(info.members[j].nhid, w[j])
Grouped(info, n) == group[info.main.nhid] = [j \in 1 .. n |-> info.members[j].nhid]
Fine(info, r, l, n) ==
    /\ info.use_mcast => /\ n = info.main.nhid /\ Matches(info, Asked(r, l))
                         /\ Grouped(info, Len(info.members))
    /\ ~info.use_mcast => n = DROP /\ Asked(r, l) = <<>>

(* An entry is the handler's once the handler has written it, and until    *)
(* the rule gets its next hops.  What an entry uses is not being released. *)
Mine(e) ==
    /\ e[1] = op.r
    /\ \/ op.pc = "installed" \/ (op.pc = "extra" /\ e[2] = "main")
       \/ (op.pc \in {"release", "end"} /\ op.mode = "modify")
Owner(e) == IF Mine(e) THEN "op" ELSE e[1]
Good(e) == Holds(Owner(e)) /\ Fine(Info(Owner(e)), e[1], chip[e].list, chip[e].nhid)
OwnedInv == \A e \in Entries \ stale : chip[e] # Null => Good(e)
NullInv ==
    /\ \A r \in Rules \ AnyType : chip[<<r, "extra">>] = Null
    /\ op.pc = "extra" => op.r \in AnyType
    /\ op.pc = "delete" => chip[<<op.r, "main">>] = Null
    /\ (op.pc \in {"release", "end"} /\ op.mode = "del") =>
          chip[<<op.r, "main">>] = Null /\ chip[<<op.r, "extra">>] = Null

(* How far the handler is with the list l of r: the members it has are for *)
(* the actions before i, which edit the packet to c, and for k ports of    *)
(* output to all.                                                          *)
Progress(l, i, k, c) ==
    /\ i \in 1 .. Len(l) + 1 /\ c = Edits(l)[i - 1]
    /\ k > 0 => i <= Len(l) /\ l[i].type = "OUTPUT" /\ l[i].to = "ALL" /\ k < NPorts
CpuSeen(r, l, i) == \E q \in Outputs(l) : q < i /\ CpuAsked(r, l[q])
Begun(k, c) == [p \in 1 .. k |-> [to |-> To("PORT", p), edit |-> c]]
Sofar(r, l, i, k, c) == AskedUpTo(r, l)[i - 1] \o Begun(k, c)
PathInv ==
    /\ op.pc \in {"group", "map"} =>
          Progress(op.list, op.i, op.k, op.combo) /\ (op.cpu <=> CpuSeen(op.r, op.list, op.i))
    /\ op.pc = "group" => op.i = 1 /\ op.k = 0
    /\ op.pc = "map" => Matches(op.new, Sofar(op.r, op.list, op.i, op.k, op.combo)) /\ Grouped(op.new, 0)
    /\ op.pc = "member" => Matches(op.new, Asked(op.r, op.list)) /\ Grouped(op.new, op.k - 1)
    /\ op.pc \in {"install", "extra", "installed"} => Fine(op.new, op.r, op.list, op.new.main.nhid)

ForwardInv == OwnedInv /\ NullInv /\ PathInv

(* What an owner has is taken, and nobody else's.                          *)
LEMMA OwnTaken ==
    ASSUME IInv, NEW o \in Owners, Holds(o), ~Releasing(o)
    PROVE  /\ \A j \in DOMAIN Info(o).members :
                 Has(o, j, <<"nh", Info(o).members[j].nhid>>) /\ Info(o).members[j].nhid \in pool.nh
           /\ Info(o).use_mcast => Has(o, 0, <<"nh", Info(o).main.nhid>>) /\ Info(o).main.nhid \in pool.nh
<1>0. TablesOK /\ ResInv
  BY DEF IInv
<1>1. From(o) = 1 /\ ~Gone(o)
  BY DEF From, Gone
<1>2. DOMAIN Info(o).members = 1 .. Len(Info(o).members) /\ Len(Info(o).members) \in Nat
  BY <1>0, InfoTyped
<1>3. \A n : <<"nh", n>> \in Taken => n \in pool.nh
  BY DEF Taken
<1>4. ASSUME NEW j \in DOMAIN Info(o).members
      PROVE  Has(o, j, <<"nh", Info(o).members[j].nhid>>)
  <2>1. 1 <= j
    BY <1>2
  <2>2. <<"nh", Info(o).members[j].nhid>> \in NhRes(Info(o).members[j])
    BY DEF NhRes
  <2> QED BY <1>1, <2>1, <2>2 DEF Has, HeldIn
<1>5. Info(o).use_mcast => Has(o, 0, <<"nh", Info(o).main.nhid>>)
  <2>1. <<"nh", Info(o).main.nhid>> \in GroupRes(Info(o))
    BY DEF GroupRes
  <2> QED BY <1>1, <2>1 DEF Has, HeldIn
<1>6. \A n, j : Has(o, j, <<"nh", n>>) => n \in pool.nh
  BY <1>0, <1>3 DEF ResInv
<1> QED BY <1>4, <1>5, <1>6

LEMMA OneOwner ==
    ASSUME IInv, NEW o, NEW j, NEW q, NEW i, NEW n, Has(o, j, <<"nh", n>>), Has(q, i, <<"nh", n>>)
    PROVE  o = q /\ i = j
  BY DEF IInv, ResInv

(* What is sent depends on the next hops of info and on its group only.    *)
LEMMA FineKept ==
    ASSUME NEW info, NEW r, NEW l, NEW n, Fine(info, r, l, n), Len(info.members) \in Nat,
           \A j \in 1 .. Len(info.members) : hwnh'[info.members[j].nhid] = hwnh[info.members[j].nhid],
           info.use_mcast => group'[info.main.nhid] = group[info.main.nhid]
    PROVE  Fine(info, r, l, n)'
<1>1. info.use_mcast => Matches(info, Asked(r, l))'
  BY DEF Fine, Matches, SentBy
<1> QED BY <1>1 DEF Fine, Grouped

Lasting(o) ==
    /\ Info(o)' = Info(o) /\ Holds(o)'
    /\ \A j \in 1 .. Len(Info(o).members) : hwnh'[Info(o).members[j].nhid] = hwnh[Info(o).members[j].nhid]
    /\ Info(o).use_mcast => group'[Info(o).main.nhid] = group[Info(o).main.nhid]

LEMMA OwnerIs ==
    ASSUME IInv, OwnedInv, NullInv, NEW e \in Entries \ stale, chip[e] # Null
    PROVE  /\ Owner(e) \in Owners /\ Holds(Owner(e)) /\ e[1] \in Rules /\ e[1] # "op" /\ ~Releasing(Owner(e))
           /\ Len(Info(Owner(e)).members) \in Nat
           /\ DOMAIN Info(Owner(e)).members = 1 .. Len(Info(Owner(e)).members)
<1>1. e[1] \in Rules /\ e[2] \in {"main", "extra"} /\ e = <<e[1], e[2]>> /\ e[1] # "op"
  BY NullAssumption DEF Entries
<1>2. Owner(e) \in Owners /\ Holds(Owner(e))
  BY <1>1 DEF Owner, Owners, OwnedInv, Good
<1>3. ~Releasing(Owner(e))
  <2>1. CASE Mine(e)
    <3>1. Owner(e) = "op" /\ op.r # "op"
      BY <1>1, <2>1 DEF Owner, Mine
    <3>2. op.pc \in {"release", "end"} => op.mode = "modify"
      BY <2>1 DEF Mine
    <3> QED BY <3>1, <3>2 DEF Releasing
  <2>2. CASE ~Mine(e)
    <3>1. Owner(e) = e[1]
      BY <2>2 DEF Owner
    <3>2. SUFFICES ASSUME Releasing(e[1]) PROVE FALSE
      BY <3>1
    <3>3. op.pc \in {"release", "end"} /\ op.mode # "undo" /\ op.r = e[1]
      BY <1>1, <3>2 DEF Releasing
    <3>4. op.mode \in {"modify", "del"}
      BY <3>3, LoserIs
    <3>5. op.mode = "del"
      BY <2>2, <3>3, <3>4 DEF Mine
    <3> QED BY <1>1, <3>3, <3>5 DEF NullInv
  <2> QED BY <2>1, <2>2
<1>4. TablesOK
  BY DEF IInv
<1> QED BY <1>1, <1>2, <1>3, <1>4, InfoTyped

LEMMA OwnedBy ==
    ASSUME NEW e \in Entries, NEW o, NEW info, NEW l, NEW n,
           Owner(e)' = o, Holds(o)', Info(o)' = info, chip'[e].list = l, chip'[e].nhid = n,
           Fine(info, e[1], l, n)'
    PROVE  Good(e)'
<1>1. Holds(Owner(e))' /\ Info(Owner(e))' = info
  BY DEF Holds, Info
<1> QED BY <1>1 DEF Good, Fine, Grouped, Matches, SentBy

LEMMA OwnedKept ==
    ASSUME IInv, OwnedInv, NullInv, NEW e \in Entries \ stale, chip[e] # Null, chip'[e] = chip[e], Lasting(Owner(e)),
           Owner(e)' = Owner(e)
    PROVE  Good(e)'
<1>1. PICK o, info, r, l, n : o = Owner(e) /\ info = Info(o) /\ r = e[1] /\ l = chip[e].list /\ n = chip[e].nhid
  OBVIOUS
<1>2. Fine(info, r, l, n) /\ Len(info.members) \in Nat
  BY <1>1, OwnerIs DEF OwnedInv, Good
<1>3. Fine(info, r, l, n)'
  BY <1>1, <1>2, FineKept DEF Lasting
<1>4. Info(o)' = info /\ Holds(o)' /\ Owner(e)' = o /\ chip'[e].list = l /\ chip'[e].nhid = n
  BY <1>1 DEF Lasting
<1>5. Fine(info, e[1], l, n)'
  BY <1>1, <1>3
<1> QED BY <1>4, <1>5, OwnedBy

(* A step that changes one next hop or group only, which is free or of     *)
(* another owner, leaves an entry as it was.                               *)
Only(id) == \A n \in NhIds : n # id => hwnh'[n] = hwnh[n] /\ group'[n] = group[n]
NotOf(o, id) == id \notin pool.nh \/ \E p, j : p # o /\ Has(p, j, <<"nh", id>>)

LEMMA GoodKept ==
    ASSUME IInv, OwnedInv, NullInv, NEW e \in Entries \ stale, chip[e] # Null, chip'[e] = chip[e],
           NEW o, o = Owner(e), Owner(e)' = o, Info(o)' = Info(o),
           NEW id, NotOf(o, id), Only(id)
    PROVE  Good(e)'
<1>1. o \in Owners /\ Holds(o) /\ ~Releasing(o) /\ Len(Info(o).members) \in Nat
      /\ DOMAIN Info(o).members = 1 .. Len(Info(o).members) /\ Info(o) # Null
  <2>1. o \in Owners /\ Holds(o) /\ ~Releasing(o) /\ Len(Info(o).members) \in Nat
        /\ DOMAIN Info(o).members = 1 .. Len(Info(o).members)
    BY OwnerIs
  <2> QED BY <2>1, InfoTyped, NullAssumption DEF IInv
<1>2. Holds(o)'
  BY <1>1 DEF Holds, Info
<1>3. /\ \A j \in DOMAIN Info(o).members :
            Has(o, j, <<"nh", Info(o).members[j].nhid>>) /\ Info(o).members[j].nhid \in pool.nh
      /\ Info(o).use_mcast => Has(o, 0, <<"nh", Info(o).main.nhid>>) /\ Info(o).main.nhid \in pool.nh
  BY <1>1, OwnTaken
<1>4. \A j : ~(Has(o, j, <<"nh", id>>) /\ id \in pool.nh)
  BY OneOwner DEF NotOf
<1>5. pool.nh \subseteq NhIds
  BY DEF IInv, TablesOK
<1>6. \A j \in 1 .. Len(Info(o).members) : hwnh'[Info(o).members[j].nhid] = hwnh[Info(o).members[j].nhid]
  BY <1>1, <1>3, <1>4, <1>5 DEF Only
<1>7. Info(o).use_mcast => group'[Info(o).main.nhid] = group[Info(o).main.nhid]
  BY <1>3, <1>4, <1>5 DEF Only
<1>8. Lasting(o)
  BY <1>2, <1>6, <1>7 DEF Lasting
<1>9. Lasting(Owner(e)) /\ Owner(e)' = Owner(e)
  <2>1. PICK q : q = Owner(e)
    OBVIOUS
  <2> QED BY <1>8, OwnedKept
<1> QED BY <1>9, OwnedKept

(* An entry is the handler's only when the handler is past writing it.     *)
Busy == op.pc \in {"extra", "installed"} \/ (op.pc \in {"release", "end"} /\ op.mode = "modify")

LEMMA NotMine == ~Busy => \A e : ~Mine(e) /\ Owner(e) = e[1]
  BY DEF Busy, Mine, Owner

LEMMA NotMineNext == ~Busy' => \A e : ~Mine(e)' /\ Owner(e)' = e[1]
  BY DEF Busy, Mine, Owner

(* The steps of a handler that has no entry of its own yet.                *)
LEMMA OwnedBuilding ==
    ASSUME IInv, OwnedInv, NullInv, ~Busy, ~Busy', UNCHANGED rule, NEW id,
           \A e \in Entries : chip'[e] # Null => chip'[e] = chip[e] /\ (e \in stale => e \in stale'),
           id \notin pool.nh \/ \E j : Has("op", j, <<"nh", id>>), Only(id)
    PROVE  OwnedInv'
<1> SUFFICES ASSUME NEW e \in Entries \ stale', chip'[e] # Null PROVE Good(e)'
  BY DEF OwnedInv, Entries
<1>1. PICK o : o = Owner(e)
  OBVIOUS
<1>2. Owner(e)' = o /\ o = e[1]
  BY <1>1, NotMine, NotMineNext
<1>3. chip[e] # Null /\ chip'[e] = chip[e] /\ e \in Entries \ stale
  OBVIOUS
<1>4. o # "op"
  BY <1>2, NullAssumption DEF Entries
<1>5. Info(o)' = Info(o)
  BY <1>4 DEF Info
<1>6. NotOf(o, id)
  BY <1>4 DEF NotOf
<1> QED BY <1>1, <1>2, <1>3, <1>5, <1>6, GoodKept

LEMMA OwnedStill ==
    ASSUME IInv, OwnedInv, NullInv, ~Busy, ~Busy', UNCHANGED <<rule, hwnh, group>>,
           \A e \in Entries : chip'[e] # Null => chip'[e] = chip[e] /\ (e \in stale => e \in stale')
    PROVE  OwnedInv'
<1>1. PICK id : id = 0
  OBVIOUS
<1>2. id \notin pool.nh /\ Only(id)
  BY <1>1, PoolAssumption DEF IInv, TablesOK, Only
<1> QED BY <1>2, OwnedBuilding

(* Before an entry is written a handler changes nothing that is in use.    *)
LEMMA OwnedBegin ==
    ASSUME IInv, OwnedInv, NullInv, NEW r \in Rules, NEW l \in Lists[r], AddFlow(r, l) \/ ModifyFlow(r, l)
    PROVE  OwnedInv'
<1>1. op.pc = "idle" /\ UNCHANGED <<rule, chip, hwnh, group, stale>>
  BY DEF AddFlow, ModifyFlow, Begin
<1>2. op'.pc \in {"install", "group", "release"} /\ (op'.pc = "release" => op'.mode = "undo")
  BY DEF AddFlow, ModifyFlow, Begin, Undone, Idle
<1> QED BY <1>1, <1>2, OwnedStill DEF Busy

LEMMA OwnedDel ==
    ASSUME IInv, OwnedInv, NullInv, (\E r \in Rules : DelFlow(r)) \/ DelExtra
    PROVE  OwnedInv'
<1>0. chip \in [Entries -> Redirects \cup {Null}] /\ op \in Ops
  BY DEF IInv, TablesOK
<1>1. CASE \E r \in Rules : DelFlow(r)
  <2>1. PICK r \in Rules : DelFlow(r)
    BY <1>1
  <2>2. op.pc = "idle" /\ op'.mode = "del" /\ op'.pc \in {"delete", "release"} /\ UNCHANGED <<rule, hwnh, group>>
    BY <2>1 DEF DelFlow, Deleting, Idle
  <2>3. \A e \in Entries : chip'[e] # Null => chip'[e] = chip[e] /\ (e \in stale => e \in stale')
    BY <1>0, <2>1 DEF DelFlow
  <2> QED BY <2>2, <2>3, OwnedStill DEF Busy
<1>2. CASE DelExtra
  <2>1. op.pc = "delete" /\ op.mode = "del" /\ UNCHANGED <<rule, hwnh, group>>
    BY <1>2 DEF DelExtra, IInv, OpInv
  <2>2. op'.mode = "del" /\ op'.pc = "release"
    BY <1>0, <1>2, <2>1 DEF DelExtra, Ops
  <2>3. \A e \in Entries : chip'[e] # Null => chip'[e] = chip[e] /\ (e \in stale => e \in stale')
    BY <1>0, <1>2 DEF DelExtra
  <2> QED BY <2>1, <2>2, <2>3, OwnedStill DEF Busy
<1> QED BY <1>1, <1>2

LEMMA OwnedMaps ==
    ASSUME IInv, OwnedInv, NullInv, MapField \/ MapCpu \/ NoCpu
    PROVE  OwnedInv'
<1>0. op \in Ops
  BY DEF IInv, TablesOK
<1>1. op.pc = "map" /\ op'.pc \in {"map", "member"} /\ UNCHANGED <<rule, chip, hwnh, group, stale>>
  BY <1>0 DEF MapField, MapCpu, NoCpu, Mapping, MapDone, Advance, ToMembers, Ops, driver
<1> QED BY <1>1, OwnedStill DEF Busy

LEMMA OwnedFails ==
    ASSUME IInv, OwnedInv, NullInv,
           \/ AllocGroupFails \/ MapLocalFails \/ MapTunnelFails \/ MapBad \/ AllocToCpuFails
           \/ AddMemberFails \/ InstallFails
    PROVE  OwnedInv'
<1>0. op \in Ops
  BY DEF IInv, TablesOK
<1>1. /\ op.pc \in {"group", "map", "member", "install"} /\ op' = Undone(op)
      /\ UNCHANGED <<rule, chip, hwnh, group, stale>>
  BY DEF AllocGroupFails, MapLocalFails, MapTunnelFails, MapBad, AllocToCpuFails, AddMemberFails, InstallFails,
         Mapping, MapDone, driver
<1>2. op'.pc = "release" /\ op'.mode = "undo"
  BY <1>0, <1>1 DEF Undone, Ops
<1> QED BY <1>1, <1>2, OwnedStill DEF Busy

LEMMA OwnedNewMember ==
    ASSUME IInv, OwnedInv, NullInv, op.pc = "map", op'.pc \in {"map", "member"}, stale' = stale,
           NEW nh, NEW rec, NewMember(nh, rec)
    PROVE  OwnedInv'
<1>1. PICK id : id = nh.nhid
  OBVIOUS
<1>2. id \notin pool.nh /\ UNCHANGED <<rule, chip, group>>
  BY <1>1 DEF NewMember
<1>3. Only(id)
  <2>1. hwnh' = [hwnh EXCEPT ![id] = rec] /\ hwnh \in [NhIds -> HwNhs \cup {Null}]
    BY <1>1 DEF NewMember, IInv, TablesOK
  <2> QED BY <1>2, <2>1 DEF Only
<1> QED BY <1>2, <1>3, OwnedBuilding DEF Busy

LEMMA OwnedGroup == ASSUME IInv, OwnedInv, NullInv, AllocGroup PROVE OwnedInv'
<1>1. PICK id \in NhIds \ pool.nh : group' = [group EXCEPT ![id] = <<>>] /\ op'.pc = "map"
  BY GroupIs
<1>2. op.pc = "group" /\ UNCHANGED <<rule, chip, hwnh, stale>>
  BY DEF AllocGroup, driver
<1>3. Only(id)
  BY <1>1, <1>2 DEF Only, IInv, TablesOK
<1> QED BY <1>1, <1>2, <1>3, OwnedBuilding DEF Busy

LEMMA OwnedAddMember == ASSUME IInv, OwnedInv, NullInv, AddMember PROVE OwnedInv'
<1>1. PICK id : id = op.new.main.nhid
  OBVIOUS
<1>2. op.pc = "member" /\ UNCHANGED <<rule, chip, hwnh, stale>> /\ op.new.use_mcast /\ op \in Ops
  BY DEF AddMember, IInv, OpInv, TablesOK, driver
<1>3. "op" \in Owners /\ Holds("op") /\ ~Releasing("op") /\ Info("op") = op.new
  BY <1>2 DEF Owners, Holds, Releasing, Info
<1>4. Has("op", 0, <<"nh", id>>)
  BY <1>1, <1>2, <1>3, OwnTaken
<1>5. Only(id)
  <2>1. PICK s : group' = [group EXCEPT ![id] = s]
    BY <1>1 DEF AddMember
  <2> QED BY <1>2, <2>1 DEF Only, IInv, TablesOK
<1>6. op'.pc \in {"member", "install"}
  BY <1>2 DEF AddMember, Ops
<1>7. ~Busy /\ ~Busy'
  BY <1>2, <1>6 DEF Busy
<1> QED BY <1>2, <1>4, <1>5, <1>7, OwnedBuilding

(* What is released is of nobody an entry points at.                       *)
LEMMA OwnedReleasing ==
    ASSUME IInv, OwnedInv, NullInv, op.pc = "release", op'.pc \in {"release", "end"}, op'.mode = op.mode,
           op'.r = op.r, op'.new = op.new, UNCHANGED <<rule, chip, stale>>, NEW id,
           id \notin pool.nh \/ \E j : Has(Loser, j, <<"nh", id>>), Only(id)
    PROVE  OwnedInv'
<1> SUFFICES ASSUME NEW e \in Entries \ stale', chip'[e] # Null PROVE Good(e)'
  BY DEF OwnedInv, Entries
<1>1. PICK o, l : o = Owner(e) /\ l = Loser
  OBVIOUS
<1>2. Owner(e)' = o
  BY <1>1 DEF Owner, Mine
<1>3. chip[e] # Null /\ chip'[e] = chip[e] /\ e \in Entries \ stale
  OBVIOUS
<1>4. Info(o)' = Info(o)
  BY DEF Info
<1>5. ~Releasing(o) /\ Releasing(l)
  BY <1>1, <1>3, OwnerIs, LoserIs
<1>6. NotOf(o, id)
  BY <1>1, <1>5 DEF NotOf
<1> QED BY <1>1, <1>2, <1>3, <1>4, <1>6, GoodKept

LEMMA OwnedRelease == ASSUME IInv, OwnedInv, NullInv, ReleaseMember \/ ReleaseGroup PROVE OwnedInv'
<1>0. op \in Ops
  BY DEF IInv, TablesOK
<1>1. /\ op.pc = "release" /\ UNCHANGED <<rule, chip, stale>>
      /\ op'.pc \in {"release", "end"} /\ op'.mode = op.mode /\ op'.r = op.r /\ op'.new = op.new
  BY <1>0 DEF ReleaseMember, ReleaseGroup, Ops, driver
<1>2. CASE ReleaseMember
  <2>1. PICK nh, id : nh = op.rel.members[op.k] /\ id = nh.nhid
    OBVIOUS
  <2>2. <<"nh", id>> \in NhRes(nh)
    BY <2>1 DEF NhRes
  <2>3. Has(Loser, op.k, <<"nh", id>>)
    BY <1>2, <2>1, <2>2, MemberGone
  <2>4. hwnh' = [hwnh EXCEPT ![id] = Null] /\ group' = group
    BY <1>2, <2>1 DEF ReleaseMember
  <2>5. Only(id)
    BY <2>4 DEF Only, IInv, TablesOK
  <2> QED BY <1>1, <2>3, <2>5, OwnedReleasing
<1>3. CASE ReleaseGroup /\ op.rel.use_mcast
  <2>1. PICK id : id = op.rel.main.nhid
    OBVIOUS
  <2>2. <<"nh", id>> \in GroupRes(op.rel)
    BY <2>1 DEF GroupRes
  <2>3. Has(Loser, 0, <<"nh", id>>)
    BY <1>3, <2>2, GroupGone
  <2>4. group' = [group EXCEPT ![id] = Null] /\ hwnh' = hwnh
    BY <1>3, <2>1 DEF ReleaseGroup
  <2>5. Only(id)
    BY <2>4 DEF Only, IInv, TablesOK
  <2> QED BY <1>1, <2>3, <2>5, OwnedReleasing
<1>4. CASE ReleaseGroup /\ ~op.rel.use_mcast
  <2>1. PICK id : id = 0
    OBVIOUS
  <2>2. UNCHANGED <<group, hwnh>>
    BY <1>4 DEF ReleaseGroup
  <2>3. id \notin pool.nh /\ Only(id)
    BY <2>1, <2>2, PoolAssumption DEF IInv, TablesOK, Only
  <2> QED BY <1>1, <2>3, OwnedReleasing
<1> QED BY <1>2, <1>3, <1>4

(* An entry that nothing happens to and whose owner stays.                 *)
LEMMA GoodStill ==
    ASSUME IInv, OwnedInv, NullInv, NEW e \in Entries \ stale, chip[e] # Null, chip'[e] = chip[e],
           NEW o, o = Owner(e), Owner(e)' = o, Info(o)' = Info(o), UNCHANGED <<hwnh, group>>
    PROVE  Good(e)'
<1>1. PICK id : id = 0
  OBVIOUS
<1>2. id \notin pool.nh
  BY <1>1, PoolAssumption DEF IInv, TablesOK
<1>3. NotOf(o, id) /\ Only(id)
  BY <1>2 DEF NotOf, Only
<1> QED BY <1>3, GoodKept

(* An entry is written with what the handler has built.                    *)
LEMMA OwnedInstall == ASSUME IInv, PresentInv, ForwardInv, Install \/ InstallExtra \/ ExtraIgnored PROVE OwnedInv'
<1>0. OwnedInv /\ NullInv /\ op \in Ops /\ op.pc \in {"install", "extra"} /\ UNCHANGED <<rule, hwnh, group>>
  BY Entered DEF ForwardInv, IInv, TablesOK
<1>1. PICK r, w : r = op.r /\ w = (IF op.pc = "install" THEN "main" ELSE "extra")
  OBVIOUS
<1>2. r \in Rules /\ r # "op"
  BY <1>0, <1>1, NullAssumption DEF IInv, OpInv
<1>3. /\ op'.r = r /\ op'.new = op.new /\ op'.list = op.list
      /\ op.pc = "install" /\ r \in AnyType => op'.pc = "extra"
      /\ op.pc = "install" /\ r \notin AnyType => op'.pc = "installed"
      /\ op.pc = "extra" => op'.pc = "installed"
  BY <1>0, <1>1, Entered DEF Ops
<1>4. PICK d, n, l : d = <<r, w>> /\ n = op.new.main.nhid /\ l = op.list
  OBVIOUS
<1>5. d \in Entries /\ d[1] = r /\ d[2] = w /\ d = Spot
  BY <1>1, <1>2, <1>4 DEF Entries, Spot
<1>6. chip'[d].list = l /\ (d \in stale' \/ chip'[d].nhid = n)
  BY <1>4, <1>5, Entered
<1>7. \A e \in Entries : e # d => chip'[e] = chip[e] /\ (e \in stale' <=> e \in stale)
  BY <1>5, Entered
<1> SUFFICES ASSUME NEW e \in Entries \ stale', chip'[e] # Null PROVE Good(e)'
  BY DEF OwnedInv, Entries
<1>8. CASE e = d
  <2>1. PICK o, info : o = "op" /\ info = op.new
    OBVIOUS
  <2>2. Mine(e)'
    BY <1>0, <1>1, <1>3, <1>5, <1>8 DEF Mine
  <2>3. Owner(e)' = o /\ Holds(o)' /\ Info(o)' = info
    BY <1>3, <2>1, <2>2 DEF Owner, Holds, Info
  <2>4. chip'[e].list = l /\ chip'[e].nhid = n
    BY <1>6, <1>8
  <2>5. Fine(info, r, l, n)
    BY <1>0, <1>1, <1>4, <2>1 DEF ForwardInv, PathInv
  <2>6. Len(info.members) \in Nat
    BY <2>1, Typed DEF IInv
  <2>7. Fine(info, r, l, n)'
    BY <1>0, <2>5, <2>6, FineKept
  <2>8. Fine(info, e[1], l, n)'
    BY <1>5, <1>8, <2>7
  <2> QED BY <2>3, <2>4, <2>8, OwnedBy
<1>9. CASE e # d
  <2>1. chip'[e] = chip[e] /\ chip[e] # Null /\ e \in Entries \ stale
    BY <1>7, <1>9
  <2>2. e = <<e[1], e[2]>> /\ e[2] \in {"main", "extra"} /\ e[1] \in Rules
    BY DEF Entries
  <2>3. e[1] = r => e[2] # w
    BY <1>4, <1>9, <2>2
  <2>4. e[1] = r /\ e[2] = "extra" => r \in AnyType
    BY <1>0, <1>2, <2>1, <2>2 DEF NullInv
  <2>5. Mine(e)' <=> Mine(e)
    BY <1>0, <1>1, <1>3, <2>2, <2>3, <2>4 DEF Mine
  <2>6. PICK o : o = Owner(e)
    OBVIOUS
  <2>7. Owner(e)' = o /\ Info(o)' = Info(o)
    BY <1>0, <1>3, <2>5, <2>6 DEF Owner, Info
  <2> QED BY <1>0, <2>1, <2>6, <2>7, GoodStill
<1> QED BY <1>8, <1>9

LEMMA OwnedUninstall == ASSUME IInv, OwnedInv, NullInv, InstallExtraFails PROVE OwnedInv'
<1>0. /\ op \in Ops /\ chip \in [Entries -> Redirects \cup {Null}] /\ op.pc = "extra" /\ op' = Undone(op)
      /\ UNCHANGED <<rule, hwnh, group>> /\ chip' = [chip EXCEPT ![<<op.r, "main">>] = Null]
      /\ stale' = stale \ {<<op.r, "main">>}
  BY DEF IInv, TablesOK, InstallExtraFails
<1>1. op'.pc = "release" /\ op'.mode = "undo" /\ op'.new = op.new
  BY <1>0 DEF Undone, Ops
<1> SUFFICES ASSUME NEW e \in Entries \ stale', chip'[e] # Null PROVE Good(e)'
  BY DEF OwnedInv, Entries
<1>2. chip[e] # Null /\ chip'[e] = chip[e] /\ e # <<op.r, "main">> /\ e \in Entries \ stale
  BY <1>0
<1>3. e = <<e[1], e[2]>>
  BY DEF Entries
<1>4. ~Mine(e) /\ ~Mine(e)'
  BY <1>0, <1>1, <1>2, <1>3 DEF Mine
<1>5. PICK o : o = Owner(e)
  OBVIOUS
<1>6. Owner(e)' = o /\ Info(o)' = Info(o)
  BY <1>0, <1>1, <1>4, <1>5 DEF Owner, Info
<1> QED BY <1>0, <1>2, <1>5, <1>6, GoodStill

LEMMA OwnedOld == ASSUME IInv, OwnedInv, NullInv, ReleaseOld \/ UNCHANGED vars PROVE OwnedInv'
<1>0. op \in Ops /\ UNCHANGED <<rule, chip, hwnh, group, stale>>
  BY DEF IInv, TablesOK, ReleaseOld, vars, driver
<1>1. /\ op'.new = op.new /\ op'.r = op.r
      /\ op' = op \/ (op.pc = "installed" /\ op'.pc = "release" /\ op'.mode = "modify")
  BY <1>0 DEF ReleaseOld, vars, Ops
<1> SUFFICES ASSUME NEW e \in Entries \ stale', chip'[e] # Null PROVE Good(e)'
  BY DEF OwnedInv, Entries
<1>2. chip[e] # Null /\ chip'[e] = chip[e] /\ e \in Entries \ stale
  BY <1>0
<1>3. Mine(e)' <=> Mine(e)
  BY <1>1 DEF Mine
<1>5. PICK o : o = Owner(e)
  OBVIOUS
<1>6. Owner(e)' = o /\ Info(o)' = Info(o)
  BY <1>0, <1>1, <1>3, <1>5 DEF Owner, Info
<1> QED BY <1>0, <1>2, <1>5, <1>6, GoodStill

(* The rule takes the entries over together with the next hops.            *)
LEMMA OwnedEnd == ASSUME IInv, OwnedInv, NullInv, EndAdd \/ EndModify \/ EndDel \/ EndUndo PROVE OwnedInv'
<1>0. /\ op \in Ops /\ rule \in [Rules -> Infos \cup {Null}] /\ op' = Idle /\ UNCHANGED <<chip, hwnh, group, stale>>
      /\ op.pc \in {"installed", "end"} /\ OpInv
  BY DEF IInv, TablesOK, EndAdd, EndModify, EndDel, EndUndo, Ended, driver
<1>1. PICK r : r = op.r
  OBVIOUS
<1>2. r \in Rules /\ r # "op"
  BY <1>0, <1>1, NullAssumption DEF OpInv
<1>3. op'.pc = "idle" /\ ~Busy'
  BY <1>0, Constants DEF Busy
<1>4. \A q \in Rules : q # r => rule'[q] = rule[q]
  BY <1>0, <1>1, <1>2 DEF EndAdd, EndModify, EndDel, EndUndo, Ended
<1> SUFFICES ASSUME NEW e \in Entries \ stale', chip'[e] # Null PROVE Good(e)'
  BY DEF OwnedInv, Entries
<1>5. chip[e] # Null /\ chip'[e] = chip[e] /\ e \in Entries \ stale /\ e[1] \in Rules /\ e[1] # "op" /\ Owner(e)' = e[1]
  BY <1>0, <1>3, NotMineNext, NullAssumption DEF Entries
<1>6. CASE ~Mine(e) /\ rule'[e[1]] = rule[e[1]]
  <2>1. PICK o : o = Owner(e)
    OBVIOUS
  <2>2. Owner(e)' = o /\ Info(o)' = Info(o)
    BY <1>5, <1>6, <2>1 DEF Owner, Info
  <2> QED BY <1>0, <1>5, <2>1, <2>2, GoodStill
<1>7. CASE e[1] = r /\ (EndAdd \/ EndModify)
  <2>1. Mine(e) /\ rule' = [rule EXCEPT ![r] = op.new]
    BY <1>1, <1>7 DEF Mine, EndAdd, EndModify, Ended
  <2>2. PICK o, info, l, n : o = r /\ info = op.new /\ l = chip[e].list /\ n = chip[e].nhid
    OBVIOUS
  <2>3. info \in Infos /\ info # Null /\ Len(info.members) \in Nat
    BY <2>2, Typed, NullAssumption DEF IInv
  <2>4. Owner(e)' = o /\ Holds(o)' /\ Info(o)' = info
    BY <1>0, <1>2, <1>5, <1>7, <2>1, <2>2, <2>3 DEF Holds, Info
  <2>5. Fine(info, e[1], l, n)
    BY <1>5, <2>1, <2>2 DEF OwnedInv, Good, Owner, Info
  <2>6. Fine(info, e[1], l, n)'
    BY <1>0, <2>3, <2>5, FineKept
  <2>7. chip'[e].list = l /\ chip'[e].nhid = n
    BY <1>5, <2>2
  <2> QED BY <2>4, <2>6, <2>7, OwnedBy
<1>8. e[1] = r => ~EndDel
  <2>1. e = <<e[1], e[2]>> /\ e[2] \in {"main", "extra"}
    BY DEF Entries
  <2> QED BY <1>1, <1>5, <2>1 DEF NullInv, EndDel
<1>9. EndUndo => rule' = rule /\ ~Mine(e)
  BY <1>0, <1>1, <1>2 DEF EndUndo, Ended, Mine
<1>10. e[1] # r => ~Mine(e)
  BY <1>1 DEF Mine
<1> QED BY <1>4, <1>5, <1>6, <1>7, <1>8, <1>9, <1>10

(* Which entries are not there.                                            *)
LEMMA NullStep == ASSUME IInv, PresentInv, NullInv, [Next]_vars PROVE NullInv'
<1>0. op \in Ops /\ chip \in [Entries -> Redirects \cup {Null}] /\ OpInv
  BY DEF IInv, TablesOK
<1>1. PICK Free : Free = {"idle", "group", "map", "member", "install", "installed"}
  OBVIOUS
<1> DEFINE Harmless ==
        /\ \A e \in Entries : chip'[e] # Null => chip'[e] = chip[e]
        /\ \/ op'.pc \in Free
           \/ op'.pc \in {"release", "end"} /\ op'.mode \in {"modify", "undo"}
           \/ op.pc \in {"release", "end"} /\ op'.pc \in {"release", "end"} /\ op'.mode = op.mode /\ op'.r = op.r
           \/ op' = op
<1>2. ASSUME Harmless PROVE NullInv'
  <2>1. \A r \in Rules : <<r, "extra">> \in Entries /\ <<r, "main">> \in Entries
    BY DEF Entries
  <2>2. \A r \in Rules \ AnyType : chip'[<<r, "extra">>] = Null
    BY <1>2, <2>1 DEF NullInv
  <2>3. op.pc # "idle" => op.r \in Rules
    BY <1>0 DEF OpInv
  <2> QED BY <1>1, <1>2, <2>1, <2>2, <2>3 DEF NullInv
<1>3. CASE \E r \in Rules : \E l \in Lists[r] : AddFlow(r, l) \/ ModifyFlow(r, l)
  <2>1. chip' = chip
    BY <1>3 DEF AddFlow, ModifyFlow
  <2>2. op'.pc \in {"install", "group", "release"} /\ (op'.pc = "release" => op'.mode = "undo")
    <3>1. PICK r \in Rules, l \in Seq(Acts) : AddFlow(r, l) \/ ModifyFlow(r, l)
      BY <1>3, ListAssumption
    <3> QED BY <3>1 DEF AddFlow, ModifyFlow, Begin, Undone, Idle
  <2> QED BY <1>1, <1>2, <2>1, <2>2
<1>4. CASE \E r \in Rules : DelFlow(r)
  <2>1. PICK r \in Rules : DelFlow(r)
    BY <1>4
  <2>2. /\ op'.mode = "del" /\ op'.r = r /\ op'.pc = IF r \in AnyType THEN "delete" ELSE "release"
    BY <2>1 DEF DelFlow, Deleting, Idle
  <2>3. \A q \in Rules : <<q, "extra">> \in Entries /\ <<q, "main">> \in Entries
    BY DEF Entries
  <2>4. chip'[<<r, "main">>] = Null /\ \A e \in Entries : chip'[e] # Null => chip'[e] = chip[e]
    BY <1>0, <2>1, <2>3 DEF DelFlow
  <2>5. \A q \in Rules \ AnyType : chip'[<<q, "extra">>] = Null
    <3> SUFFICES ASSUME NEW q \in Rules \ AnyType PROVE chip'[<<q, "extra">>] = Null
      OBVIOUS
    <3>1. PICK e : e = <<q, "extra">>
      OBVIOUS
    <3>2. e \in Entries /\ chip[e] = Null
      BY <2>3, <3>1 DEF NullInv
    <3> QED BY <2>4, <3>1, <3>2
  <2> QED BY <2>2, <2>4, <2>5 DEF NullInv
<1>5. CASE DelExtra
  <2>1. PICK r : r = op.r
    OBVIOUS
  <2>2. r \in Rules /\ op.pc = "delete" /\ op.mode = "del"
    BY <1>0, <1>5, <2>1 DEF DelExtra, OpInv
  <2>3. op'.r = r /\ op'.pc = "release"
    BY <1>0, <1>5, <2>1 DEF DelExtra, Ops
  <2>4. \A q \in Rules : <<q, "extra">> \in Entries /\ <<q, "main">> \in Entries
    BY DEF Entries
  <2>5. chip'[<<r, "extra">>] = Null /\ \A e \in Entries : chip'[e] # Null => chip'[e] = chip[e]
    BY <1>0, <1>5, <2>1, <2>2, <2>4 DEF DelExtra
  <2>6. chip[<<r, "main">>] = Null
    BY <2>1, <2>2 DEF NullInv
  <2>7. chip'[<<r, "main">>] = Null
    BY <2>2, <2>4, <2>5, <2>6
  <2>8. \A q \in Rules \ AnyType : chip'[<<q, "extra">>] = Null
    <3> SUFFICES ASSUME NEW q \in Rules \ AnyType PROVE chip'[<<q, "extra">>] = Null
      OBVIOUS
    <3>1. PICK e : e = <<q, "extra">>
      OBVIOUS
    <3>2. e \in Entries /\ chip[e] = Null
      BY <2>4, <3>1 DEF NullInv
    <3> QED BY <2>5, <3>1, <3>2
  <2> QED BY <2>3, <2>5, <2>7, <2>8 DEF NullInv
<1>6. CASE Install \/ InstallExtra \/ ExtraIgnored
  <2>1. PICK r, d : r = op.r /\ d = Spot
    OBVIOUS
  <2>2. /\ op.pc \in {"install", "extra"} /\ \A e \in Entries : e # d => chip'[e] = chip[e]
        /\ op' = [op EXCEPT !.pc = IF op.pc = "install" /\ op.r \in AnyType THEN "extra" ELSE "installed"]
    BY <1>6, <2>1, Entered
  <2>3. op'.r = r /\ op'.pc = IF op.pc = "install" /\ r \in AnyType THEN "extra" ELSE "installed"
    BY <1>0, <2>1, <2>2 DEF Ops
  <2>4. \A q \in Rules \ AnyType : <<q, "extra">> \in Entries /\ <<q, "extra">> # d
    BY <2>1, <2>2 DEF Entries, Spot, NullInv
  <2>5. \A q \in Rules \ AnyType : chip'[<<q, "extra">>] = Null
    BY <2>2, <2>4 DEF NullInv
  <2> QED BY <2>3, <2>5 DEF NullInv
<1>8. CASE InstallExtraFails
  <2>1. op'.pc = "release" /\ op'.mode = "undo"
    BY <1>0, <1>8 DEF InstallExtraFails, Undone, Ops
  <2>2. \A e \in Entries : chip'[e] # Null => chip'[e] = chip[e]
    BY <1>0, <1>8 DEF InstallExtraFails
  <2> QED BY <1>2, <2>1, <2>2
<1>9. CASE \/ AllocGroupFails \/ MapLocalFails \/ MapTunnelFails \/ MapBad \/ AllocToCpuFails
           \/ AddMemberFails \/ InstallFails
  <2>1. op' = Undone(op) /\ chip' = chip
    BY <1>9 DEF AllocGroupFails, MapLocalFails, MapTunnelFails, MapBad, AllocToCpuFails, AddMemberFails,
                InstallFails
  <2>2. op'.pc = "release" /\ op'.mode = "undo"
    BY <1>0, <2>1 DEF Undone, Ops
  <2> QED BY <1>2, <2>1, <2>2
<1>10. CASE MapLocal \/ MapTunnel
  <2>1. chip' = chip
    BY <1>10 DEF MapLocal, MapTunnel
  <2>2. PICK o \in Ops, nh \in Nh : o.pc = "map" /\ op' = [o EXCEPT !.new = Stored(nh)]
    BY <1>10, LocalIs
  <2>3. op'.pc = "map"
    BY <2>2 DEF Ops
  <2> QED BY <1>1, <1>2, <2>1, <2>3
<1>11. CASE AllocGroup \/ MapField \/ MapCpu \/ AllocToCpu \/ NoCpu \/ AddMember
  <2>1. chip' = chip /\ op'.pc \in {"map", "member", "install"}
    BY <1>0, <1>11, GroupIs, ToCpuIs
       DEF AllocGroup, MapField, MapCpu, AllocToCpu, NoCpu, AddMember, Mapping, Advance, ToMembers, Ops
  <2> QED BY <1>1, <1>2, <2>1
<1>12. CASE ReleaseOld \/ ReleaseMember \/ ReleaseGroup
  <2>1. chip' = chip /\ op'.pc \in {"release", "end"} /\ op'.mode = op.mode /\ op'.r = op.r
    BY <1>0, <1>12 DEF ReleaseOld, ReleaseMember, ReleaseGroup, Ops
  <2>2. op.mode = "modify" \/ op.pc \in {"release", "end"}
    BY <1>12 DEF ReleaseOld, ReleaseMember, ReleaseGroup
  <2> QED BY <1>2, <2>1, <2>2
<1>13. CASE EndAdd \/ EndModify \/ EndDel \/ EndUndo
  <2>1. chip' = chip /\ op'.pc = "idle"
    BY <1>13, Constants DEF EndAdd, EndModify, EndDel, EndUndo, Ended
  <2> QED BY <1>1, <1>2, <2>1
<1>14. CASE UNCHANGED vars
  BY <1>2, <1>14 DEF vars
<1> QED BY <1>3, <1>4, <1>5, <1>6, <1>8, <1>9, <1>10, <1>11, <1>12, <1>13, <1>14 DEF Next

----------------------------------------------------------------------------
(* One action of the list further.                                         *)
LEMMA SofarTyped ==
    ASSUME NEW r \in Rules, NEW l \in Seq(Acts), NEW i \in 1 .. Len(l) + 1, NEW k \in Nat, NEW c, c = Edits(l)[i - 1]
    PROVE  /\ AskedUpTo(r, l)[i - 1] \in Seq(Wanted(l)) /\ Begun(k, c) \in Seq(Wanted(l))
           /\ Sofar(r, l, i, k, c) \in Seq(Wanted(l))
           /\ Sofar(r, l, i, 0, c) = AskedUpTo(r, l)[i - 1]
<1>1. PICK m : m = i - 1
  OBVIOUS
<1>2. Len(l) \in Nat /\ m \in 0 .. Len(l)
  BY <1>1
<1>3. PICK W, u : W = Wanted(l) /\ u = AskedUpTo(r, l)[m]
  OBVIOUS
<1>4. u \in Seq(W)
  BY <1>2, <1>3, UpToTyped
<1>5. \A p \in 1 .. k : [to |-> To("PORT", p), edit |-> c] \in W
  BY <1>1, <1>2, <1>3 DEF Wanted, To, Targeted, Targets
<1>6. PICK b : b = Begun(k, c)
  OBVIOUS
<1>7. b \in Seq(W)
  BY <1>5, <1>6 DEF Begun
<1>8. PICK z : z = Begun(0, c)
  OBVIOUS
<1>9. z = <<>>
  BY <1>8 DEF Begun
<1>10. u \o z = u
  BY <1>4, <1>9
<1>11. u \o b \in Seq(W)
  BY <1>4, <1>7
<1> QED BY <1>1, <1>3, <1>4, <1>6, <1>7, <1>8, <1>10, <1>11 DEF Sofar

(* The edits and the CPU after one more action.                            *)
Further(r, l, i, k, c, j) ==
    /\ i \in 1 .. Len(l) /\ i \in 1 .. Len(l) + 1 /\ j \in 1 .. Len(l) + 1 /\ l[i] \in Acts /\ j - 1 = i
    /\ Combine(c, l[i]) = Edits(l)[i] /\ c = Edits(l)[i - 1]
    /\ Progress(l, j, 0, Combine(c, l[i]))
    /\ AskedUpTo(r, l)[i] = AskedUpTo(r, l)[i - 1] \o AskedBy(r, l[i], Combine(c, l[i]))
    /\ k > 0 => l[i].type = "OUTPUT" /\ l[i].to = "ALL" /\ k < NPorts

LEMMA ProgressNext ==
    ASSUME NEW r \in Rules, NEW l \in Seq(Acts), NEW i, NEW k \in Nat, NEW c, Progress(l, i, k, c), i <= Len(l),
           NEW j, j = i + 1
    PROVE  Further(r, l, i, k, c, j)
<1>1. Len(l) \in Nat /\ i \in 1 .. Len(l) /\ i \in 0 .. Len(l) /\ i # 0 /\ i \in 1 .. Len(l) + 1
  BY DEF Progress
<1>2. PICK e, a, d : e = Edits(l) /\ a = l[i] /\ d = Combine(c, a)
  OBVIOUS
<1>3. j \in 1 .. Len(l) + 1 /\ j - 1 = i /\ a \in Acts
  BY <1>1, <1>2
<1>4. c = e[i - 1] /\ (k > 0 => a.type = "OUTPUT" /\ a.to = "ALL" /\ k < NPorts)
  BY <1>2 DEF Progress
<1>5. e = [q \in 0 .. Len(l) |-> IF q = 0 THEN {} ELSE Combine(e[q - 1], l[q])]
  BY <1>2, EditsAre
<1>6. e[i] = d
  BY <1>1, <1>2, <1>4, <1>5
<1>7. Progress(l, j, 0, d)
  BY <1>2, <1>3, <1>6 DEF Progress
<1>8. AskedUpTo(r, l)[i] = AskedUpTo(r, l)[i - 1] \o AskedBy(r, a, d)
  BY <1>1, <1>2, <1>6, UpToNext
<1> QED BY <1>1, <1>2, <1>3, <1>4, <1>6, <1>7, <1>8 DEF Further

LEMMA CpuNext ==
    ASSUME NEW r \in Rules, NEW l \in Seq(Acts), NEW i \in 1 .. Len(l), NEW j, j = i + 1
    PROVE  CpuSeen(r, l, j) <=> CpuSeen(r, l, i) \/ (l[i].type = "OUTPUT" /\ CpuAsked(r, l[i]))
<1>1. \A q \in Outputs(l) : q \in Nat /\ (q < j <=> q < i \/ q = i)
  BY DEF Outputs
<1>2. i \in Outputs(l) <=> l[i].type = "OUTPUT"
  BY DEF Outputs
<1> QED BY <1>1, <1>2 DEF CpuSeen

(* An action that asks for no member.                                      *)
LEMMA SofarSame ==
    ASSUME NEW r \in Rules, NEW l \in Seq(Acts), NEW i, NEW k \in Nat, NEW c, Progress(l, i, k, c),
           i <= Len(l), l[i].type # "OUTPUT" \/ CpuAsked(r, l[i])
    PROVE  Sofar(r, l, i + 1, 0, Combine(c, l[i])) = Sofar(r, l, i, k, c)
<1>1. PICK j, d, u : j = i + 1 /\ d = Combine(c, l[i]) /\ u = AskedUpTo(r, l)[i - 1]
  OBVIOUS
<1>2. /\ i \in 1 .. Len(l) /\ i \in 1 .. Len(l) + 1 /\ j \in 1 .. Len(l) + 1 /\ l[i] \in Acts /\ d = Edits(l)[i]
      /\ j - 1 = i /\ AskedUpTo(r, l)[i] = u \o AskedBy(r, l[i], d)
  <2>1. Further(r, l, i, k, c, j)
    BY <1>1, ProgressNext
  <2>2. AskedUpTo(r, l)[i] = AskedUpTo(r, l)[i - 1] \o AskedBy(r, l[i], Combine(c, l[i]))
    BY <2>1, Zenon DEF Further
  <2>3. /\ i \in 1 .. Len(l) /\ i \in 1 .. Len(l) + 1 /\ j \in 1 .. Len(l) + 1 /\ l[i] \in Acts /\ j - 1 = i
        /\ Combine(c, l[i]) = Edits(l)[i]
    BY <2>1, Zenon DEF Further
  <2> QED BY <1>1, <2>2, <2>3, Zenon
<1>3. AskedBy(r, l[i], d) = <<>>
  <2>1. PICK a : a = l[i]
    OBVIOUS
  <2>2. a \in Acts /\ (a.type # "OUTPUT" \/ CpuAsked(r, a))
    BY <1>2, <2>1
  <2>3. AskedBy(r, a, d) = <<>>
    BY <2>2, AskedByIs
  <2> QED BY <2>1, <2>3
<1>4. c = Edits(l)[i - 1] /\ k = 0
  <2>1. Further(r, l, i, k, c, j)
    BY <1>1, ProgressNext
  <2> QED BY <2>1 DEF Further, CpuAsked
<1>5. u \in Seq(Wanted(l)) /\ Sofar(r, l, i, 0, c) = u
  BY <1>1, <1>2, <1>4, SofarTyped
<1>6. Sofar(r, l, j, 0, d) = AskedUpTo(r, l)[i]
  <2>1. d = Edits(l)[j - 1] /\ AskedUpTo(r, l)[j - 1] = AskedUpTo(r, l)[i]
    BY <1>2
  <2> QED BY <1>2, <2>1, SofarTyped
<1>7. u \o <<>> = u
  <2>1. PICK W : W = Wanted(l)
    OBVIOUS
  <2> QED BY <1>5, <2>1
<1> QED BY <1>1, <1>2, <1>3, <1>4, <1>5, <1>6, <1>7

(* An action that asks for one member.                                     *)
OneNext(r, l, i, k, c, x) ==
    /\ Sofar(r, l, i + 1, 0, c) = Append(Sofar(r, l, i, k, c), x)
    /\ Progress(l, i + 1, 0, c) /\ ~CpuAsked(r, l[i])

LEMMA SofarOne ==
    ASSUME NEW r \in Rules, NEW l \in Seq(Acts), NEW i, NEW k \in Nat, NEW c, c \in SUBSET Flags,
           Progress(l, i, k, c), i <= Len(l), l[i].type = "OUTPUT",
           l[i].to \in {"PORT", "TUNNEL"} \/ (l[i].to = "IN_PORT" /\ InPort[r] = "PORT"),
           NEW x, x = [to |-> To(l[i].to, l[i].n), edit |-> c]
    PROVE  OneNext(r, l, i, k, c, x)
<1>1. PICK j, u : j = i + 1 /\ u = AskedUpTo(r, l)[i - 1]
  OBVIOUS
<1>2. /\ i \in 1 .. Len(l) /\ i \in 1 .. Len(l) + 1 /\ j \in 1 .. Len(l) + 1 /\ l[i] \in Acts
      /\ Combine(c, l[i]) = Edits(l)[i]
      /\ j - 1 = i /\ AskedUpTo(r, l)[i] = u \o AskedBy(r, l[i], Combine(c, l[i]))
  <2>1. Further(r, l, i, k, c, j)
    BY <1>1, ProgressNext
  <2>2. AskedUpTo(r, l)[i] = AskedUpTo(r, l)[i - 1] \o AskedBy(r, l[i], Combine(c, l[i]))
    BY <2>1, Zenon DEF Further
  <2>3. /\ i \in 1 .. Len(l) /\ i \in 1 .. Len(l) + 1 /\ j \in 1 .. Len(l) + 1 /\ l[i] \in Acts /\ j - 1 = i
        /\ Combine(c, l[i]) = Edits(l)[i]
    BY <2>1, Zenon DEF Further
  <2> QED BY <1>1, <2>2, <2>3, Zenon
<1>3. Combine(c, l[i]) = c
  BY <1>2, CombineProps
<1>4. AskedBy(r, l[i], c) = <<x>>
  BY <1>2, AskedByIs
<1>5. c = Edits(l)[i - 1] /\ k = 0
  <2>1. Further(r, l, i, k, c, j)
    BY <1>1, ProgressNext
  <2> QED BY <2>1 DEF Further
<1>6. u \in Seq(Wanted(l)) /\ Sofar(r, l, i, 0, c) = u
  BY <1>1, <1>2, <1>5, SofarTyped
<1>7. Sofar(r, l, j, 0, c) = AskedUpTo(r, l)[i] /\ AskedUpTo(r, l)[i] \in Seq(Wanted(l))
  <2>1. c = Edits(l)[j - 1] /\ AskedUpTo(r, l)[j - 1] = AskedUpTo(r, l)[i]
    BY <1>2, <1>3
  <2> QED BY <1>2, <2>1, SofarTyped
<1>8. u \o <<x>> = Append(u, x)
  <2>1. PICK W : W = Wanted(l)
    OBVIOUS
  <2>2. x \in W
    <3>1. x.to \in Targeted
      BY <1>2, PoolAssumption DEF Acts, To, Targeted, Targets, Ports, Fields
    <3>2. \E q \in 0 .. Len(l) : c = Edits(l)[q]
      <4>1. PICK q : q = i - 1
        OBVIOUS
      <4> QED BY <1>2, <1>5, <4>1
    <3> QED BY <2>1, <3>1, <3>2 DEF Wanted
  <2> QED BY <1>6, <2>1, <2>2
<1>9. ~CpuAsked(r, l[i])
  BY DEF CpuAsked
<1>10. Progress(l, j, 0, c)
  <2>1. Further(r, l, i, k, c, j)
    BY <1>1, ProgressNext
  <2> QED BY <1>3, <2>1 DEF Further
<1> QED BY <1>1, <1>2, <1>3, <1>4, <1>5, <1>6, <1>7, <1>8, <1>9, <1>10 DEF OneNext

(* One port of output to all further.                                      *)
OneMorePort(r, l, i, k, c, n, x) ==
    AskedUpTo(r, l)[i - 1] \o Begun(n, c) = Append(Sofar(r, l, i, k, c), x)

LEMMA SofarMore ==
    ASSUME NEW r \in Rules, NEW l \in Seq(Acts), NEW i \in 1 .. Len(l) + 1, NEW k \in Nat, NEW c, c = Edits(l)[i - 1],
           NEW n \in Nat, n = k + 1, NEW x, x = [to |-> To("PORT", n), edit |-> c]
    PROVE  OneMorePort(r, l, i, k, c, n, x)
<1>1. PICK W, u, b, d : W = Wanted(l) /\ u = AskedUpTo(r, l)[i - 1] /\ b = Begun(k, c) /\ d = Begun(n, c)
  OBVIOUS
<1>2. u \in Seq(W) /\ b \in Seq(W) /\ n \in Nat
  <2>1. AskedUpTo(r, l)[i - 1] \in Seq(Wanted(l)) /\ Begun(k, c) \in Seq(Wanted(l))
    BY SofarTyped
  <2>2. n \in Nat
    BY <1>1
  <2> QED BY <1>1, <2>1, <2>2, Zenon
<1>3. d \in Seq(W)
  BY <1>1, <1>2, SofarTyped
<1>4. Len(b) = k /\ \A p \in 1 .. k : b[p] = [to |-> To("PORT", p), edit |-> c]
  BY <1>1, <1>2 DEF Begun
<1>5. Len(d) = n /\ \A p \in 1 .. n : d[p] = [to |-> To("PORT", p), edit |-> c]
  BY <1>1, <1>2, <1>3 DEF Begun
<1>6. d[n] = x /\ x \in W
  <2>1. n \in 1 .. n
    BY <1>1, <1>2
  <2>2. d[n] = x
    BY <1>1, <1>5, <2>1
  <2> QED BY <1>3, <1>5, <2>1, <2>2
<1>7. d = Append(b, x)
  <2>1. Append(b, x) \in Seq(W) /\ Len(Append(b, x)) = n
    BY <1>1, <1>2, <1>4, <1>6
  <2>2. \A p \in 1 .. n : d[p] = Append(b, x)[p]
    <3> SUFFICES ASSUME NEW p \in 1 .. n PROVE d[p] = Append(b, x)[p]
      OBVIOUS
    <3>1. CASE p = n
      BY <1>1, <1>2, <1>4, <1>6, <3>1
    <3>2. CASE p # n
      <4>1. p \in 1 .. k
        BY <1>1, <3>2
      <4>2. Append(b, x)[p] = b[p]
        BY <1>2, <1>4, <1>6, <4>1
      <4> QED BY <1>4, <1>5, <4>1, <4>2
    <3> QED BY <3>1, <3>2
  <2>3. PICK y : y = Append(b, x)
    OBVIOUS
  <2>4. y = [p \in 1 .. n |-> y[p]] /\ d = [p \in 1 .. n |-> d[p]]
    BY <1>3, <1>5, <2>1, <2>3
  <2> QED BY <2>2, <2>3, <2>4
<1>8. u \o Append(b, x) = Append(u \o b, x)
  BY <1>2, <1>6
<1> QED BY <1>1, <1>7, <1>8 DEF Sofar, OneMorePort

AllNext(r, l, i, k, c, x) ==
    /\ k + 1 < NPorts => /\ Sofar(r, l, i, k + 1, c) = Append(Sofar(r, l, i, k, c), x)
                         /\ Progress(l, i, k + 1, c)
    /\ k + 1 >= NPorts => /\ Sofar(r, l, i + 1, 0, c) = Append(Sofar(r, l, i, k, c), x)
                          /\ Progress(l, i + 1, 0, c)
    /\ ~CpuAsked(r, l[i])

LEMMA SofarAll ==
    ASSUME NEW r \in Rules, NEW l \in Seq(Acts), NEW i, NEW k \in Nat, NEW c, c \in SUBSET Flags,
           Progress(l, i, k, c), i <= Len(l), l[i].type = "OUTPUT", l[i].to = "ALL",
           NEW x, x = [to |-> To("PORT", k + 1), edit |-> c]
    PROVE  AllNext(r, l, i, k, c, x)
<1>1. PICK j, n : j = i + 1 /\ n = k + 1
  OBVIOUS
<1>2. Further(r, l, i, k, c, j)
  BY <1>1, ProgressNext
<1>3. /\ i \in 1 .. Len(l) + 1 /\ j \in 1 .. Len(l) + 1 /\ l[i] \in Acts /\ j - 1 = i
      /\ Combine(c, l[i]) = Edits(l)[i] /\ c = Edits(l)[i - 1]
      /\ Progress(l, j, 0, Combine(c, l[i]))
      /\ AskedUpTo(r, l)[i] = AskedUpTo(r, l)[i - 1] \o AskedBy(r, l[i], Combine(c, l[i]))
  BY <1>2, Zenon DEF Further
<1>4. k > 0 => k < NPorts
  BY <1>2 DEF Further
<1>5. Combine(c, l[i]) = c
  BY <1>3, CombineProps
<1>6. AskedUpTo(r, l)[i - 1] \o Begun(n, c) = Append(Sofar(r, l, i, k, c), x)
  <2>1. i \in 1 .. Len(l) + 1 /\ c = Edits(l)[i - 1]
    BY <1>3, Zenon
  <2>2. n \in Nat /\ n = k + 1 /\ x = [to |-> To("PORT", n), edit |-> c]
    BY <1>1
  <2>3. OneMorePort(r, l, i, k, c, n, x)
    BY <2>1, <2>2, SofarMore
  <2> QED BY <2>3, Zenon DEF OneMorePort
<1>7. ASSUME n < NPorts
      PROVE  Sofar(r, l, i, n, c) = Append(Sofar(r, l, i, k, c), x) /\ Progress(l, i, n, c)
  <2>1. Sofar(r, l, i, n, c) = Append(Sofar(r, l, i, k, c), x)
    BY <1>6, Zenon DEF Sofar
  <2>2. Progress(l, i, n, c)
    BY <1>3, <1>7 DEF Progress
  <2> QED BY <2>1, <2>2
<1>8. ASSUME n >= NPorts
      PROVE  Sofar(r, l, j, 0, c) = Append(Sofar(r, l, i, k, c), x) /\ Progress(l, j, 0, c)
  <2>1. n = NPorts
    BY <1>1, <1>4, <1>8, PoolAssumption
  <2>2. AskedBy(r, l[i], c) = Begun(n, c)
    <3>1. PICK a : a = l[i]
      OBVIOUS
    <3>3. a \in Acts /\ a.type = "OUTPUT" /\ a.to = "ALL"
      BY <1>3, <3>1
    <3>2. AskedBy(r, a, c) = [p \in 1 .. NPorts |-> [to |-> To("PORT", p), edit |-> c]]
      BY <3>3, AskedByIs
    <3> QED BY <2>1, <3>1, <3>2 DEF Begun
  <2>3. AskedUpTo(r, l)[i] = Append(Sofar(r, l, i, k, c), x)
    BY <1>3, <1>5, <1>6, <2>2, Zenon
  <2>4. c = Edits(l)[j - 1] /\ AskedUpTo(r, l)[j - 1] = AskedUpTo(r, l)[i]
    BY <1>3, <1>5
  <2>5. Sofar(r, l, j, 0, c) = AskedUpTo(r, l)[j - 1]
    BY <1>3, <2>4, SofarTyped
  <2>6. Sofar(r, l, j, 0, c) = Append(Sofar(r, l, i, k, c), x)
    BY <2>3, <2>4, <2>5, Zenon
  <2>7. Progress(l, j, 0, c)
    BY <1>3, <1>5, Zenon
  <2> QED BY <2>6, <2>7
<1>9. ~CpuAsked(r, l[i])
  BY DEF CpuAsked
<1> QED BY <1>1, <1>7, <1>8, <1>9 DEF AllNext

----------------------------------------------------------------------------
(* The members of a handler send what the list asks for, as far as it is.  *)
LEMMA PathMap ==
    ASSUME NEW r, NEW l, NEW i, NEW k, NEW c, NEW info, NEW w,
           op'.pc = "map", op'.r = r, op'.list = l, op'.i = i, op'.k = k, op'.combo = c, op'.new = info,
           Progress(l, i, k, c), op'.cpu <=> CpuSeen(r, l, i), w = Sofar(r, l, i, k, c),
           Matches(info, w)', Grouped(info, 0)'
    PROVE  PathInv'
<1>1. Matches(op.new, Sofar(op.r, op.list, op.i, op.k, op.combo))'
  BY DEF Matches, SentBy
<1>2. Grouped(op.new, 0)'
  BY DEF Grouped
<1> QED BY <1>1, <1>2 DEF PathInv

LEMMA PathMember ==
    ASSUME NEW r, NEW l, NEW k, NEW info, NEW w, op'.pc = "member", op'.r = r, op'.list = l, op'.k = k, op'.new = info,
           w = Asked(r, l), Matches(info, w)', Grouped(info, k - 1)'
    PROVE  PathInv'
<1>1. Matches(op.new, Asked(op.r, op.list))'
  BY DEF Matches, SentBy
<1>2. Grouped(op.new, op.k - 1)'
  BY DEF Grouped
<1> QED BY <1>1, <1>2 DEF PathInv

LEMMA PathInstall ==
    ASSUME NEW r, NEW l, NEW info, NEW n, op'.pc \in {"install", "extra", "installed"}, op'.r = r, op'.list = l,
           op'.new = info, n = info.main.nhid, Fine(info, r, l, n)'
    PROVE  PathInv'
<1>1. Fine(op.new, op.r, op.list, op.new.main.nhid)'
  BY DEF Fine, Matches, SentBy, Grouped
<1> QED BY <1>1 DEF PathInv

LEMMA PathLeft == ASSUME op'.pc \in {"idle", "delete", "release", "end"} PROVE PathInv'
  BY DEF PathInv

LEMMA MatchesKept ==
    ASSUME NEW info, NEW w, Matches(info, w), hwnh' = hwnh
    PROVE  Matches(info, w)'
  BY DEF Matches, SentBy

(* What a list without outputs asks for.                                   *)
LEMMA NothingAsked ==
    ASSUME NEW r \in Rules, NEW l \in Seq(Acts), l = <<>> \/ OutputCount(l) = 0
    PROVE  Asked(r, l) = <<>>
<1>1. Outputs(l) = {}
  <2>1. CASE l = <<>>
    BY <2>1 DEF Outputs
  <2>2. CASE OutputCount(l) = 0
    <3>1. PICK a, b : a = Cardinality(Outputs(l)) /\ b = Cardinality({i \in Outputs(l) : l[i].to = "ALL"})
      OBVIOUS
    <3>2. a \in Nat /\ b \in Nat /\ NPorts \in Nat \ {0} /\ IsFiniteSet(Outputs(l))
      BY <3>1, OutputsFinite, PoolAssumption
    <3>3. OutputCount(l) = a + (NPorts - 1) * b
      BY <3>1 DEF OutputCount
    <3>4. a <= a + (NPorts - 1) * b
      BY <3>2, Products
    <3>5. a = 0
      BY <2>2, <3>2, <3>3, <3>4
    <3> QED BY <3>1, <3>2, <3>5, FS_EmptySet
  <2> QED BY <2>1, <2>2
<1>2. Len(l) \in Nat /\ Len(l) \in 0 .. Len(l)
  OBVIOUS
<1>3. AskedUpTo(r, l)[Len(l)] = <<>>
  BY <1>1, <1>2, UpToTyped
<1>4. PICK u : u = AskedUpTo(r, l)[Len(l)]
  OBVIOUS
<1>5. Asked(r, l) = u \o <<>>
  BY <1>1, <1>4 DEF Asked
<1> QED BY <1>3, <1>4, <1>5

LEMMA PathBegin ==
    ASSUME IInv, PathInv, NEW r \in Rules, NEW l \in Lists[r], AddFlow(r, l) \/ ModifyFlow(r, l)
    PROVE  PathInv'
<1>1. PICK mode \in {"add", "modify"} : Begin(mode, r, l)
  BY DEF AddFlow, ModifyFlow
<1> DEFINE n == [NoInfo EXCEPT !.outs = OutputCount(l), !.tuns = TunnelCount(l)]
           m == [n EXCEPT !.main = Drop]
           o == [Idle EXCEPT !.mode = mode, !.r = r, !.list = l, !.i = 1, !.new = n]
<1>2. l \in Seq(Acts)
  BY ListAssumption
<1>3. ~m.use_mcast /\ m.main = Drop /\ m.main.nhid = DROP /\ n.outs = OutputCount(l)
  BY Constants DEF NoInfo
<1>4. \/ op' = [o EXCEPT !.pc = "install", !.new.main = Drop] /\ (l = <<>> \/ n.outs = 0)
      \/ op' = [o EXCEPT !.pc = "group"]
      \/ op' = Undone(o)
  BY <1>1 DEF Begin
<1>5. [o EXCEPT !.pc = "install", !.new.main = Drop] = [o EXCEPT !.pc = "install", !.new = m]
  BY DEF Idle
<1> HIDE DEF n, m
<1>6. CASE op' = [o EXCEPT !.pc = "install", !.new = m] /\ (l = <<>> \/ n.outs = 0)
  <2>1. op'.pc = "install" /\ op'.r = r /\ op'.list = l /\ op'.new = m
    BY <1>6 DEF Idle
  <2>2. Asked(r, l) = <<>>
    BY <1>2, <1>3, <1>6, NothingAsked
  <2>3. Fine(m, r, l, m.main.nhid)'
    BY <1>3, <2>2 DEF Fine, m
  <2> QED BY <2>1, <2>3 DEF PathInv
<1>7. CASE op' = [o EXCEPT !.pc = "group"]
  <2>1. op'.pc = "group" /\ op'.r = r /\ op'.list = l /\ op'.i = 1 /\ op'.k = 0 /\ op'.combo = {} /\ ~op'.cpu
    BY <1>7 DEF Idle
  <2>2. PICK e : e = Edits(l)
    OBVIOUS
  <2>3. e = [q \in 0 .. Len(l) |-> IF q = 0 THEN {} ELSE Combine(e[q - 1], l[q])]
    BY <1>2, <2>2, EditsAre
  <2>4. Len(l) \in Nat /\ e[0] = {}
    BY <1>2, <2>3
  <2>5. Progress(l, 1, 0, {})
    BY <2>2, <2>4 DEF Progress
  <2>6. ~CpuSeen(r, l, 1)
    BY <1>2 DEF CpuSeen, Outputs
  <2> QED BY <2>1, <2>5, <2>6 DEF PathInv
<1>8. CASE op' = Undone(o)
  BY <1>8 DEF Undone, Idle, PathInv
<1> QED BY <1>4, <1>5, <1>6, <1>7, <1>8

LEMMA PathGroup == ASSUME IInv, PathInv, AllocGroup PROVE PathInv'
<1>0. TablesOK /\ OpInv /\ op.pc = "group" /\ group \in [NhIds -> Seq(NhIds) \cup {Null}]
  BY DEF IInv, AllocGroup, TablesOK
<1>1. PICK r, l, c, info, id : /\ r = op.r /\ l = op.list /\ c = op.combo /\ info = op'.new /\ id = info.main.nhid
  OBVIOUS
<1>2. /\ op'.pc = "map" /\ op'.r = r /\ op'.list = l /\ op'.i = op.i /\ op'.k = op.k /\ op'.combo = c /\ op'.new = info
      /\ op'.cpu = op.cpu /\ info.members = <<>> /\ id \in NhIds /\ group' = [group EXCEPT ![id] = <<>>]
  BY <1>1, GroupIs
<1>3. r \in Rules /\ l \in Seq(Acts)
  BY <1>0, <1>1, Typed DEF OpInv, Building
<1>4. op.i = 1 /\ op.k = 0 /\ Progress(l, 1, 0, c) /\ (op.cpu <=> CpuSeen(r, l, 1))
  BY <1>0, <1>1 DEF PathInv
<1>5. Len(l) \in Nat /\ 1 \in 1 .. Len(l) + 1 /\ 1 - 1 = 0 /\ c = Edits(l)[1 - 1]
  BY <1>3, <1>4 DEF Progress
<1>6. Sofar(r, l, 1, 0, c) = <<>>
  <2>1. Sofar(r, l, 1, 0, c) = AskedUpTo(r, l)[1 - 1]
    BY <1>3, <1>5, SofarTyped
  <2>2. AskedUpTo(r, l)[0] = <<>>
    BY <1>3, UpToNext
  <2> QED BY <1>5, <2>1, <2>2
<1>7. Matches(info, <<>>)'
  BY <1>2 DEF Matches
<1>8. Grouped(info, 0)'
  <2>1. group'[id] = <<>>
    BY <1>0, <1>2
  <2>2. [j \in 1 .. 0 |-> info.members[j].nhid] = <<>>
    OBVIOUS
  <2> QED BY <1>1, <2>1, <2>2 DEF Grouped
<1> QED BY <1>2, <1>4, <1>6, <1>7, <1>8, PathMap

(* Where a handler that maps the list is.                                  *)
At(r, l, i, k, c, info) ==
    /\ r = op.r /\ l = op.list /\ i = op.i /\ k = op.k /\ c = op.combo /\ info = op.new
    /\ r \in Rules /\ l \in Seq(Acts) /\ i \in Nat /\ k \in Nat /\ c \in SUBSET Flags
    /\ Len(info.members) \in Nat /\ info.use_mcast
    /\ Progress(l, i, k, c) /\ (op.cpu <=> CpuSeen(r, l, i)) /\ Grouped(info, 0)
    /\ Matches(info, Sofar(r, l, i, k, c))

LEMMA Here ==
    ASSUME IInv, PathInv, op.pc = "map"
    PROVE  \E r, l, i, k, c, info : At(r, l, i, k, c, info)
<1>1. PICK r, l, i, k, c, info :
        r = op.r /\ l = op.list /\ i = op.i /\ k = op.k /\ c = op.combo /\ info = op.new
  OBVIOUS
<1>2. /\ r \in Rules /\ l \in Seq(Acts) /\ i \in Nat /\ k \in Nat /\ c \in SUBSET Flags /\ info.use_mcast
      /\ Len(info.members) \in Nat
  <2>1. TablesOK /\ op.r \in Rules /\ op.new.use_mcast
    BY DEF IInv, OpInv
  <2> QED BY <1>1, <2>1, Typed
<1>3. /\ Progress(l, i, k, c) /\ (op.cpu <=> CpuSeen(r, l, i)) /\ Grouped(info, 0)
      /\ Matches(info, Sofar(r, l, i, k, c))
  BY <1>1 DEF PathInv
<1> QED BY <1>1, <1>2, <1>3 DEF At

LEMMA PathField == ASSUME IInv, PathInv, MapField \/ MapCpu PROVE PathInv'
<1>0. /\ TablesOK /\ op.pc = "map" /\ Mapping /\ UNCHANGED <<hwnh, group>> /\ op.i <= Len(op.list)
  BY DEF IInv, MapField, MapCpu, Mapping
<1>1. PICK r, l, i, k, c, info : At(r, l, i, k, c, info)
  BY <1>0, Here
<1>2. PICK j, d : j = i + 1 /\ d = Combine(c, l[i])
  OBVIOUS
<1>3. l[i].type # "OUTPUT" \/ CpuAsked(r, l[i])
  BY <1>1 DEF At, MapField, MapCpu, ForCpu, Is, Act, CpuAsked
<1>4. /\ op'.pc = "map" /\ op'.r = r /\ op'.list = l /\ op'.i = j /\ op'.k = 0 /\ op'.combo = d /\ op'.new = info
      /\ op'.cpu <=> op.cpu \/ MapCpu
  <2>1. Combo = d /\ Combo \in SUBSET Flags
    <3>1. Combo = d
      BY <1>1, <1>2 DEF At, Combo, Act
    <3>2. CASE MapField
      BY <1>0, <3>1, <3>2, AtAction DEF MapField
    <3>3. CASE MapCpu
      <4>1. Act.type = "OUTPUT"
        BY <3>3 DEF MapCpu, ForCpu, Is
      <4>2. Combo = op.combo /\ op.combo \in SUBSET Flags
        BY <1>0, <4>1, AtAction, Typed
      <4> QED BY <3>1, <4>2
    <3> QED BY <3>1, <3>2, <3>3
  <2>2. PICK a : a = Advance
    OBVIOUS
  <2>3. /\ a \in Ops /\ a.i = op.i + 1 /\ a.k = 0 /\ a.new = op.new /\ a.pc = "map" /\ a.r = op.r
        /\ a.mode = op.mode /\ a.list = op.list /\ a.cpu = op.cpu /\ a.combo = Combo
    BY <1>0, <2>1, <2>2, AdvanceIs
  <2>4. CASE MapCpu
    <3>1. op' = [a EXCEPT !.cpu = TRUE]
      BY <2>2, <2>4 DEF MapCpu
    <3> QED BY <1>1, <1>2, <2>1, <2>3, <2>4, <3>1 DEF At, Ops
  <2>5. CASE MapField /\ ~MapCpu
    <3>1. op' = a
      BY <2>2, <2>5 DEF MapField
    <3> QED BY <1>1, <1>2, <2>1, <2>3, <2>5, <3>1 DEF At
  <2> QED BY <2>4, <2>5
<1>5. /\ r \in Rules /\ l \in Seq(Acts) /\ i <= Len(l) /\ k \in Nat /\ Progress(l, i, k, c)
      /\ (op.cpu <=> CpuSeen(r, l, i)) /\ Grouped(info, 0) /\ Matches(info, Sofar(r, l, i, k, c))
  BY <1>0, <1>1 DEF At
<1>6. Further(r, l, i, k, c, j)
  BY <1>2, <1>5, ProgressNext
<1>7. Progress(l, j, 0, d) /\ i \in 1 .. Len(l)
  BY <1>2, <1>6, Zenon DEF Further
<1>8. op'.cpu <=> CpuSeen(r, l, j)
  <2>1. CpuSeen(r, l, j) <=> CpuSeen(r, l, i) \/ (l[i].type = "OUTPUT" /\ CpuAsked(r, l[i]))
    BY <1>2, <1>5, <1>7, CpuNext
  <2>2. MapCpu <=> l[i].type = "OUTPUT" /\ CpuAsked(r, l[i])
    <3>1. CASE MapCpu
      BY <1>1, <3>1 DEF At, MapCpu, ForCpu, Is, Act, CpuAsked
    <3>2. CASE ~MapCpu
      <4>1. MapField
        BY <3>2
      <4> QED BY <1>1, <3>2, <4>1 DEF At, MapField, Act
    <3> QED BY <3>1, <3>2
  <2> QED BY <1>4, <1>5, <2>1, <2>2
<1>9. Sofar(r, l, j, 0, d) = Sofar(r, l, i, k, c)
  <2>1. Sofar(r, l, i + 1, 0, Combine(c, l[i])) = Sofar(r, l, i, k, c)
    BY <1>3, <1>5, SofarSame
  <2> QED BY <1>2, <2>1, Zenon
<1>10. PICK w : w = Sofar(r, l, i, k, c)
  OBVIOUS
<1>11. Matches(info, w)'
  BY <1>0, <1>5, <1>10, MatchesKept
<1>12. Grouped(info, 0)'
  BY <1>0, <1>5 DEF Grouped
<1> QED BY <1>4, <1>7, <1>8, <1>9, <1>10, <1>11, <1>12, PathMap

(* A new member sends what the list asks for next.                         *)
LEMMA MatchesMore ==
    ASSUME IInv, NEW nh, NEW rec, NewMember(nh, rec), NEW info, info = op.new, NEW v, v = op'.new, NEW W,
           NEW w \in Seq(W), Matches(info, w), NEW x \in W, Sent(rec, x)
    PROVE  Matches(v, Append(w, x))' /\ (Grouped(info, 0) => Grouped(v, 0)')
<1>1. PICK n, y : n = Len(info.members) /\ y = Append(w, x)
  OBVIOUS
<1>2. /\ n \in Nat /\ Len(v.members) = n + 1 /\ v.members[n + 1] = nh
      /\ \A j \in 1 .. n : v.members[j] = info.members[j]
      /\ v.main = info.main
  BY <1>1, NewMemberHas
<1>3. n = Len(w) /\ \A j \in 1 .. n : SentBy(info.members[j].nhid, w[j])
  BY <1>1 DEF Matches
<1>4. Len(y) = n + 1 /\ y[n + 1] = x /\ \A j \in 1 .. n : y[j] = w[j]
  BY <1>1, <1>2, <1>3
<1>5. /\ op.pc = "map" /\ rec \in HwNhs /\ rec # Null /\ nh.nhid \in NhIds \ pool.nh
      /\ hwnh' = [hwnh EXCEPT ![nh.nhid] = rec] /\ hwnh \in [NhIds -> HwNhs \cup {Null}] /\ group' = group
  BY NullAssumption DEF NewMember, IInv, TablesOK
<1>6. \A j \in 1 .. n : info.members[j].nhid \in pool.nh
  <2>1. "op" \in Owners /\ Holds("op") /\ ~Releasing("op") /\ Info("op") = info
    BY <1>5 DEF Owners, Holds, Releasing, Info
  <2>2. DOMAIN info.members = 1 .. n
    BY <1>1, Typed DEF IInv
  <2> QED BY <2>1, <2>2, OwnTaken
<1>7. pool.nh \subseteq NhIds
  BY DEF IInv, TablesOK
<1>8. \A j \in 1 .. n : hwnh'[info.members[j].nhid] = hwnh[info.members[j].nhid]
  BY <1>5, <1>6, <1>7
<1>9. hwnh'[nh.nhid] = rec
  BY <1>5
<1>10. \A j \in 1 .. n + 1 : hwnh'[v.members[j].nhid] # Null /\ Sent(hwnh'[v.members[j].nhid], y[j])
  <2> SUFFICES ASSUME NEW j \in 1 .. n + 1
               PROVE  hwnh'[v.members[j].nhid] # Null /\ Sent(hwnh'[v.members[j].nhid], y[j])
    OBVIOUS
  <2>1. CASE j = n + 1
    BY <1>2, <1>4, <1>5, <1>9, <2>1
  <2>2. CASE j \in 1 .. n
    BY <1>2, <1>3, <1>4, <1>8, <2>2 DEF SentBy
  <2> QED BY <1>2, <2>1, <2>2
<1>11. Matches(v, y)'
  BY <1>2, <1>4, <1>10 DEF Matches, SentBy
<1>12. Grouped(info, 0) => Grouped(v, 0)'
  <2>1. [j \in 1 .. 0 |-> info.members[j].nhid] = <<>> /\ [j \in 1 .. 0 |-> v.members[j].nhid] = <<>>
    OBVIOUS
  <2> QED BY <1>2, <1>5, <2>1 DEF Grouped
<1> QED BY <1>1, <1>11, <1>12

LEMMA SentNext ==
    ASSUME NEW c \in SUBSET Flags, NEW rec, NEW x, x.edit = c, rec.to = x.to,
           rec.edit = IF x.to.kind = "TUNNEL" THEN EncapEdit(c) ELSE FlexEdit(c)
    PROVE  Sent(rec, x)
<1>1. PICK f : f = FlexEdit(c)
  OBVIOUS
<1>2. c \ {"TUNNEL_ID"} = IF "DEC_TTL" \in f THEN f \ (Strips \ c) ELSE f
  <2>1. CASE "DEC_TTL" \in c
    <3>1. f = (c \ {"TUNNEL_ID"}) \cup Strips /\ "TUNNEL_ID" \notin Strips
      BY <1>1, <2>1 DEF FlexEdit, Strips
    <3> QED BY <2>1, <3>1
  <2>2. CASE "DEC_TTL" \notin c
    BY <1>1, <2>2 DEF FlexEdit
  <2> QED BY <2>1, <2>2
<1>3. EncapEdit(c) \subseteq c /\ EncapEdit(c) \cap AtTunnel = c \cap AtTunnel
  BY DEF EncapEdit, AtTunnel
<1> QED BY <1>1, <1>2, <1>3 DEF Sent

LEMMA PathNewMember == ASSUME IInv, PathInv, MapLocal \/ MapTunnel PROVE PathInv'
<1>0. TablesOK /\ op.pc = "map" /\ Mapping /\ op.i <= Len(op.list) /\ Act.type = "OUTPUT"
  BY DEF IInv, MapLocal, MapTunnel, Mapping, Local, Is
<1>1. PICK r, l, i, k, c, info : At(r, l, i, k, c, info)
  BY <1>0, Here
<1>2. /\ r \in Rules /\ l \in Seq(Acts) /\ i <= Len(l) /\ k \in Nat /\ Progress(l, i, k, c) /\ c \in SUBSET Flags
      /\ (op.cpu <=> CpuSeen(r, l, i)) /\ Grouped(info, 0) /\ Matches(info, Sofar(r, l, i, k, c))
      /\ i = op.i /\ k = op.k /\ c = op.combo /\ r = op.r /\ l = op.list /\ info = op.new /\ l[i] = Act
      /\ l[i].type = "OUTPUT"
  BY <1>0, <1>1 DEF At, Act
<1>3. PICK o, nh, rec :
        /\ o \in Ops /\ nh \in Nh /\ o.pc = "map" /\ o.list = l /\ o.cpu = op.cpu /\ o.r = r /\ o.combo = c
        /\ \/ o.i = i + 1 /\ o.k = 0 /\ (l[i].to = "ALL" => k + 1 >= NPorts)
           \/ o.i = i /\ o.k = k + 1 /\ l[i].to = "ALL" /\ k + 1 < NPorts
        /\ op' = [o EXCEPT !.new = Stored(nh)] /\ NewMember(nh, rec) /\ SendsNext(rec)
  BY <1>0, <1>2, LocalIs DEF Is
<1>4. PICK v : v = op'.new
  OBVIOUS
<1>5. /\ op'.pc = "map" /\ op'.list = l /\ op'.r = r /\ op'.combo = c /\ op'.i = o.i /\ op'.k = o.k
      /\ op'.cpu <=> op.cpu
  <2>1. /\ op'["pc"] = o["pc"] /\ op'["list"] = o["list"] /\ op'["r"] = o["r"] /\ op'["combo"] = o["combo"]
        /\ op'["i"] = o["i"] /\ op'["k"] = o["k"] /\ op'["cpu"] = o["cpu"]
    BY <1>0, <1>3, StoredIs
  <2> QED BY <1>3, <2>1
<1>6. PICK x, W, w : /\ x = [to |-> IF l[i].to = "ALL" THEN To("PORT", k + 1) ELSE To(l[i].to, l[i].n), edit |-> c]
                     /\ W = Wanted(l) /\ w = Sofar(r, l, i, k, c)
  OBVIOUS
<1>7. l[i].to \in {"PORT", "TUNNEL", "ALL"} \/ (l[i].to = "IN_PORT" /\ InPort[r] = "PORT")
  BY <1>2 DEF MapLocal, MapTunnel, Local, Is
<1>8. Sent(rec, x)
  <2>1. rec.to = x.to /\ x.edit = c
    BY <1>2, <1>3, <1>6 DEF SendsNext, LocalPort
  <2>2. x.to.kind = "TUNNEL" <=> l[i].to = "TUNNEL"
    BY <1>6, <1>7 DEF To
  <2>3. rec.edit = IF x.to.kind = "TUNNEL" THEN EncapEdit(c) ELSE FlexEdit(c)
    BY <1>2, <1>3, <2>2 DEF SendsNext
  <2> QED BY <1>2, <2>1, <2>3, SentNext
<1>9. i \in 1 .. Len(l) /\ i \in 1 .. Len(l) + 1 /\ c = Edits(l)[i - 1] /\ l[i] \in Acts
  <2>1. PICK j : j = i + 1
    OBVIOUS
  <2>2. Further(r, l, i, k, c, j)
    BY <1>2, <2>1, ProgressNext
  <2> QED BY <2>2, Zenon DEF Further
<1>10. w \in Seq(W) /\ x \in W
  <2>1. w \in Seq(W)
    BY <1>2, <1>6, <1>9, SofarTyped
  <2>2. x.to \in Targeted
    BY <1>2, <1>6, <1>7, <1>9, PoolAssumption DEF Acts, To, Targeted, Targets, Ports, Fields
  <2>3. \E q \in 0 .. Len(l) : c = Edits(l)[q]
    <3>1. PICK q : q = i - 1
      OBVIOUS
    <3>2. q \in 0 .. Len(l)
      BY <1>9, <3>1
    <3> QED BY <1>9, <3>1, <3>2
  <2> QED BY <1>6, <2>1, <2>2, <2>3 DEF Wanted
<1>11. Matches(v, Append(w, x))' /\ Grouped(v, 0)'
  BY <1>2, <1>3, <1>4, <1>6, <1>8, <1>10, MatchesMore
<1>12. PICK j, m : j = o.i /\ m = o.k
  OBVIOUS
<1>13. Sofar(r, l, j, m, c) = Append(w, x) /\ Progress(l, j, m, c) /\ ~CpuAsked(r, l[i])
  <2>1. CASE l[i].to = "ALL"
    <3>1. x = [to |-> To("PORT", k + 1), edit |-> c]
      BY <1>6, <2>1
    <3>2. AllNext(r, l, i, k, c, x)
      BY <1>2, <2>1, <3>1, SofarAll
    <3> QED BY <1>3, <1>6, <1>12, <2>1, <3>2 DEF AllNext
  <2>2. CASE l[i].to # "ALL"
    <3>1. x = [to |-> To(l[i].to, l[i].n), edit |-> c] /\ j = i + 1 /\ m = 0
      BY <1>3, <1>6, <1>12, <2>2
    <3>2. l[i].to \in {"PORT", "TUNNEL"} \/ (l[i].to = "IN_PORT" /\ InPort[r] = "PORT")
      BY <1>7, <2>2
    <3>3. OneNext(r, l, i, k, c, x)
      BY <1>2, <3>1, <3>2, SofarOne
    <3> QED BY <1>6, <3>1, <3>3 DEF OneNext
  <2> QED BY <2>1, <2>2
<1>14. op'.cpu <=> CpuSeen(r, l, j)
  <2>1. CASE j = i
    BY <1>2, <1>5, <2>1
  <2>2. CASE j = i + 1
    BY <1>2, <1>5, <1>9, <1>13, <2>2, CpuNext
  <2> QED BY <1>3, <1>12, <2>1, <2>2
<1> QED BY <1>4, <1>5, <1>11, <1>12, <1>13, <1>14, PathMap

(* At the end of the list, what is missing is the copy to the CPU.         *)
AllAsked(r, l, i, k, c) ==
    Asked(r, l) = IF CpuSeen(r, l, i) THEN Append(Sofar(r, l, i, k, c), ToCpu) ELSE Sofar(r, l, i, k, c)

LEMMA SofarEnd ==
    ASSUME NEW r \in Rules, NEW l \in Seq(Acts), NEW i, NEW k \in Nat, NEW c, Progress(l, i, k, c), i > Len(l)
    PROVE  AllAsked(r, l, i, k, c) /\ Sofar(r, l, i, k, c) \in Seq(Wanted(l))
<1>0. Len(l) \in Nat
  OBVIOUS
<1>1. i \in 1 .. Len(l) + 1 /\ c = Edits(l)[i - 1] /\ ~(k > 0)
  BY <1>0 DEF Progress
<1>2. k = 0 /\ i - 1 = Len(l)
  BY <1>0, <1>1
<1>3. PICK u, w, W : u = AskedUpTo(r, l)[Len(l)] /\ w = Sofar(r, l, i, k, c) /\ W = Wanted(l)
  OBVIOUS
<1>4. w = u /\ w \in Seq(W)
  <2>1. /\ Sofar(r, l, i, k, c) \in Seq(Wanted(l))
        /\ Sofar(r, l, i, 0, c) = AskedUpTo(r, l)[i - 1]
    BY <1>1, SofarTyped
  <2> QED BY <1>2, <1>3, <2>1
<1>5. CpuSeen(r, l, i) <=> \E q \in Outputs(l) : CpuAsked(r, l[q])
  <2>1. \A q \in Outputs(l) : q < i
    BY <1>0, <1>2, <1>1 DEF Outputs
  <2> QED BY <2>1 DEF CpuSeen
<1>6. Asked(r, l) = u \o (IF CpuSeen(r, l, i) THEN <<ToCpu>> ELSE <<>>)
  BY <1>3, <1>5 DEF Asked
<1>7. PICK t : t = ToCpu
  OBVIOUS
<1>8. u \o <<t>> = Append(u, t) /\ u \o <<>> = u
  BY <1>4
<1> QED BY <1>3, <1>4, <1>6, <1>7, <1>8 DEF AllAsked

LEMMA PathToCpu == ASSUME IInv, PathInv, AllocToCpu PROVE PathInv'
<1>0. op.pc = "map" /\ op.i > Len(op.list) /\ op.cpu
  BY DEF AllocToCpu, MapDone
<1>1. PICK r, l, i, k, c, info : At(r, l, i, k, c, info)
  BY <1>0, Here
<1>2. /\ r \in Rules /\ l \in Seq(Acts) /\ i > Len(l) /\ k \in Nat /\ Progress(l, i, k, c)
      /\ CpuSeen(r, l, i) /\ Grouped(info, 0) /\ Matches(info, Sofar(r, l, i, k, c))
      /\ r = op.r /\ l = op.list /\ info = op.new
  BY <1>0, <1>1 DEF At
<1>3. PICK nh, rec : NewMember(nh, rec) /\ rec.to = To("CPU", 0) /\ rec.edit = {}
  BY ToCpuIs
<1>4. PICK v, w, x, W, V : /\ v = op'.new /\ w = Sofar(r, l, i, k, c) /\ x = ToCpu
                           /\ V = Wanted(l) /\ W = V \cup {x}
  OBVIOUS
<1>5. op'.pc = "member" /\ op'.k = 1 /\ op'.list = l /\ op'.r = r /\ op'.new = v
  BY <1>2, <1>4, ToCpuIs
<1>6. AllAsked(r, l, i, k, c) /\ w \in Seq(V)
  BY <1>2, <1>4, SofarEnd
<1>7. w \in Seq(W) /\ x \in W
  <2>1. Len(w) \in Nat /\ w = [j \in 1 .. Len(w) |-> w[j]] /\ \A j \in 1 .. Len(w) : w[j] \in W
    BY <1>4, <1>6
  <2> QED BY <1>4, <2>1
<1>8. Sent(rec, x)
  BY <1>3, <1>4 DEF Sent, ToCpu, To
<1>9. PICK y : y = Append(w, x)
  OBVIOUS
<1>10. Matches(v, y)' /\ Grouped(v, 0)'
  BY <1>2, <1>3, <1>4, <1>7, <1>8, <1>9, MatchesMore
<1>11. y = Asked(r, l)
  BY <1>2, <1>4, <1>6, <1>9 DEF AllAsked
<1>12. Grouped(v, 1 - 1)'
  BY <1>10 DEF Grouped
<1> QED BY <1>5, <1>10, <1>11, <1>12, PathMember

LEMMA PathNoCpu == ASSUME IInv, PathInv, NoCpu PROVE PathInv'
<1>0. op.pc = "map" /\ op.i > Len(op.list) /\ ~op.cpu /\ UNCHANGED <<hwnh, group>> /\ op \in Ops
  BY DEF NoCpu, MapDone, IInv, TablesOK
<1>1. PICK r, l, i, k, c, info : At(r, l, i, k, c, info)
  BY <1>0, Here
<1>2. /\ r \in Rules /\ l \in Seq(Acts) /\ i > Len(l) /\ k \in Nat /\ Progress(l, i, k, c)
      /\ ~CpuSeen(r, l, i) /\ Grouped(info, 0) /\ Matches(info, Sofar(r, l, i, k, c))
      /\ r = op.r /\ l = op.list /\ info = op.new
  BY <1>0, <1>1 DEF At
<1>3. op'.pc = "member" /\ op'.k = 1 /\ op'.list = l /\ op'.r = r /\ op'.new = info
  BY <1>0, <1>2 DEF NoCpu, ToMembers, Ops
<1>4. PICK w : w = Sofar(r, l, i, k, c)
  OBVIOUS
<1>5. AllAsked(r, l, i, k, c)
  BY <1>2, SofarEnd
<1>6. w = Asked(r, l)
  BY <1>2, <1>4, <1>5 DEF AllAsked
<1>7. Matches(info, w)'
  BY <1>0, <1>2, <1>4, MatchesKept
<1>8. Grouped(info, 1 - 1)'
  BY <1>0, <1>2 DEF Grouped
<1> QED BY <1>3, <1>6, <1>7, <1>8, PathMember

(* The group gets its members one after the other; with the last one it    *)
(* does what the list asks for.                                            *)
LEMMA PathAdd == ASSUME IInv, PathInv, AddMember PROVE PathInv'
<1>0. /\ TablesOK /\ op.pc = "member" /\ hwnh' = hwnh /\ op \in Ops /\ group \in [NhIds -> Seq(NhIds) \cup {Null}]
  BY DEF AddMember, IInv, TablesOK
<1>1. PICK r, l, k, m, info, id : /\ r = op.r /\ l = op.list /\ k = op.k /\ info = op.new /\ m = Len(info.members)
                                  /\ id = info.main.nhid
  OBVIOUS
<1>2. k \in Nat /\ m \in Nat /\ info.members \in Seq(Nh)
  BY <1>0, <1>1, Typed
<1>3. k \in 1 .. m /\ info.use_mcast
  BY <1>0, <1>1 DEF IInv, MapInv, OpInv
<1>4. PICK w : w = Asked(r, l)
  OBVIOUS
<1>5. Matches(info, w) /\ Grouped(info, k - 1)
  BY <1>0, <1>1, <1>4 DEF PathInv
<1>6. Matches(info, w)'
  BY <1>0, <1>5, MatchesKept
<1>7. /\ op'.r = r /\ op'.list = l /\ op'.k = k + 1 /\ op'.new = info
      /\ op'.pc = IF k = m THEN "install" ELSE "member"
  BY <1>0, <1>1 DEF AddMember, Ops
<1>8. PICK g, a : g = [j \in 1 .. k - 1 |-> info.members[j].nhid] /\ a = info.members[k].nhid
  OBVIOUS
<1>9. id \in NhIds /\ \A j \in 1 .. m : info.members[j].nhid \in NhIds
  <2>1. "op" \in Owners /\ Holds("op") /\ ~Releasing("op") /\ Info("op") = info
    BY <1>0, <1>1 DEF Owners, Holds, Releasing, Info
  <2>2. DOMAIN info.members = 1 .. m
    BY <1>1, <1>2
  <2>3. pool.nh \subseteq NhIds
    BY <1>0 DEF TablesOK
  <2> QED BY <1>1, <1>3, <2>1, <2>2, <2>3, OwnTaken
<1>10. group[id] = g
  BY <1>1, <1>5, <1>8 DEF Grouped
<1>11. group' = [group EXCEPT ![id] = Append(g, a)]
  BY <1>0, <1>1, <1>8, <1>9, <1>10 DEF AddMember
<1>12. group'[id] = Append(g, a)
  BY <1>0, <1>9, <1>11
<1>13. Append(g, a) = [j \in 1 .. k |-> info.members[j].nhid]
  <2>1. g \in Seq(NhIds) /\ Len(g) = k - 1
    BY <1>2, <1>3, <1>8, <1>9
  <2>2. \A j \in 1 .. k - 1 : g[j] = info.members[j].nhid
    BY <1>8
  <2>3. PICK t : t = Append(g, a)
    OBVIOUS
  <2>4. Len(t) = k /\ t = [j \in 1 .. Len(t) |-> t[j]]
    <3>1. a \in NhIds
      BY <1>3, <1>8, <1>9
    <3>2. t \in Seq(NhIds) /\ Len(t) = Len(g) + 1
      BY <2>1, <2>3, <3>1
    <3> QED BY <1>2, <1>3, <2>1, <3>2
  <2>5. \A j \in 1 .. k : t[j] = info.members[j].nhid
    BY <1>2, <1>3, <1>8, <2>1, <2>2, <2>3
  <2>6. t = [j \in 1 .. k |-> info.members[j].nhid]
    BY <2>4, <2>5
  <2> QED BY <2>3, <2>6
<1>14. Grouped(info, k)'
  BY <1>1, <1>12, <1>13 DEF Grouped
<1>15. CASE k # m
  <2>1. PICK q : q = k + 1
    OBVIOUS
  <2>2. q - 1 = k
    BY <1>2, <2>1
  <2>3. Grouped(info, q - 1)'
    BY <1>14, <2>2 DEF Grouped
  <2> QED BY <1>4, <1>6, <1>7, <1>15, <2>1, <2>3, PathMember
<1>16. CASE k = m
  <2>1. Fine(info, r, l, id)'
    BY <1>1, <1>3, <1>4, <1>6, <1>14, <1>16 DEF Fine, Matches, SentBy, Grouped
  <2> QED BY <1>1, <1>7, <1>16, <2>1, PathInstall
<1> QED BY <1>15, <1>16

LEMMA PathWritten == ASSUME IInv, PathInv, Install \/ InstallExtra \/ ExtraIgnored PROVE PathInv'
<1>0. op.pc \in {"install", "extra"} /\ UNCHANGED <<hwnh, group>> /\ op \in Ops
  BY DEF Install, InstallExtra, ExtraIgnored, IInv, TablesOK
<1>1. PICK r, l, info, n : r = op.r /\ l = op.list /\ info = op.new /\ n = info.main.nhid
  OBVIOUS
<1>2. op'.r = r /\ op'.list = l /\ op'.new = info /\ op'.pc \in {"extra", "installed"}
  BY <1>0, <1>1 DEF Install, InstallExtra, ExtraIgnored, Ops
<1>3. Fine(info, r, l, n) /\ Len(info.members) \in Nat
  <2>1. Fine(info, r, l, n)
    BY <1>0, <1>1 DEF PathInv
  <2> QED BY <1>1, <2>1, Typed DEF IInv
<1>4. Fine(info, r, l, n)'
  BY <1>0, <1>3, FineKept
<1> QED BY <1>1, <1>2, <1>4, PathInstall

LEMMA PathStep == ASSUME IInv, PathInv, [Next]_vars PROVE PathInv'
<1>0. op \in Ops
  BY DEF IInv, TablesOK
<1>1. CASE \/ AllocGroupFails \/ MapLocalFails \/ MapTunnelFails \/ MapBad \/ AllocToCpuFails
           \/ AddMemberFails \/ InstallFails \/ InstallExtraFails
  <2>1. op' = Undone(op)
    BY <1>1 DEF AllocGroupFails, MapLocalFails, MapTunnelFails, MapBad, AllocToCpuFails, AddMemberFails,
                InstallFails, InstallExtraFails
  <2>2. op'.pc = "release"
    BY <1>0, <2>1 DEF Undone, Ops
  <2> QED BY <2>2, PathLeft
<1>2. CASE (\E r \in Rules : DelFlow(r)) \/ DelExtra
  <2>1. op'.pc \in {"delete", "release"}
    BY <1>0, <1>2 DEF DelFlow, DelExtra, Deleting, Idle, Ops
  <2> QED BY <2>1, PathLeft
<1>3. CASE ReleaseOld \/ ReleaseMember \/ ReleaseGroup
  <2>1. op'.pc \in {"release", "end"}
    BY <1>0, <1>3 DEF ReleaseOld, ReleaseMember, ReleaseGroup, Ops
  <2> QED BY <2>1, PathLeft
<1>4. CASE EndAdd \/ EndModify \/ EndDel \/ EndUndo
  <2>1. op'.pc = "idle"
    BY <1>4, Constants DEF EndAdd, EndModify, EndDel, EndUndo, Ended
  <2> QED BY <2>1, PathLeft
<1>5. CASE UNCHANGED vars
  BY <1>5 DEF vars, PathInv, Matches, SentBy, Grouped, Fine
<1>6. CASE \E r \in Rules : \E l \in Lists[r] : AddFlow(r, l) \/ ModifyFlow(r, l)
  BY <1>6, PathBegin
<1> QED BY <1>1, <1>2, <1>3, <1>4, <1>5, <1>6, PathGroup, PathField, PathNewMember, PathToCpu, PathNoCpu,
           PathAdd, PathWritten DEF Next

LEMMA OwnedStep == ASSUME IInv, PresentInv, ForwardInv, [Next]_vars PROVE OwnedInv'
<1>0. OwnedInv /\ NullInv
  BY DEF ForwardInv
<1>1. CASE MapLocal \/ MapTunnel
  <2>1. PICK o, nh, rec :
          o \in Ops /\ o.pc = "map" /\ op' = [o EXCEPT !.new = Stored(nh)] /\ NewMember(nh, rec)
    BY <1>1, LocalIs
  <2>2. op.pc = "map" /\ op'.pc = "map" /\ stale' = stale
    BY <1>1, <2>1 DEF Ops, MapLocal, MapTunnel, Mapping, driver
  <2> QED BY <1>0, <2>1, <2>2, OwnedNewMember
<1>2. CASE AllocToCpu
  <2>1. PICK nh, rec : NewMember(nh, rec)
    BY <1>2, ToCpuIs
  <2>2. op.pc = "map" /\ op'.pc = "member" /\ stale' = stale
    BY <1>2, ToCpuIs DEF AllocToCpu, MapDone, driver
  <2> QED BY <1>0, <2>1, <2>2, OwnedNewMember
<1>3. CASE \E r \in Rules : \E l \in Lists[r] : AddFlow(r, l) \/ ModifyFlow(r, l)
  BY <1>0, <1>3, OwnedBegin
<1>4. CASE \/ AllocGroupFails \/ MapLocalFails \/ MapTunnelFails \/ MapBad \/ AllocToCpuFails
           \/ AddMemberFails \/ InstallFails
  BY <1>0, <1>4, OwnedFails
<1> QED BY <1>0, <1>1, <1>2, <1>3, <1>4, OwnedDel, OwnedMaps, OwnedGroup, OwnedAddMember, OwnedRelease,
           OwnedInstall, OwnedUninstall, OwnedOld, OwnedEnd DEF Next

LEMMA ForwardInit == Init => ForwardInv
<1> SUFFICES ASSUME Init PROVE ForwardInv
  OBVIOUS
<1>1. chip = [e \in Entries |-> Null] /\ op.pc = "idle"
  BY Constants DEF Init
<1>2. \A r \in Rules : <<r, "extra">> \in Entries
  BY DEF Entries
<1> QED BY <1>1, <1>2 DEF ForwardInv, OwnedInv, NullInv, PathInv

(* What an entry points at does what its list asks for.                    *)
LEMMA Forwards == ASSUME IInv, ForwardInv PROVE ForwardsAsAsked
<1>0. OwnedInv /\ NullInv /\ TablesOK /\ ChipInv
  BY DEF ForwardInv, IInv
<1> SUFFICES ASSUME NEW e \in Entries \ stale, chip[e] # Null
             PROVE  LET asked == Asked(e[1], chip[e].list)
                        g     == group[chip[e].nhid]
                    IN IF chip[e].nhid = DROP THEN asked = <<>>
                       ELSE /\ g # Null /\ DOMAIN g = DOMAIN asked
                            /\ \A j \in DOMAIN g : hwnh[g[j]] # Null /\ Sent(hwnh[g[j]], asked[j])
  BY DEF ForwardsAsAsked
<1>1. PICK o, info, r, l, n, w, g :
        /\ o = Owner(e) /\ info = Info(o) /\ r = e[1] /\ l = chip[e].list /\ n = chip[e].nhid
        /\ w = Asked(r, l) /\ g = group[n]
  OBVIOUS
<1>2. /\ o \in Owners /\ Holds(o) /\ r \in Rules /\ ~Releasing(o) /\ Len(info.members) \in Nat
  BY <1>0, <1>1, OwnerIs
<1>3. Fine(info, r, l, n)
  BY <1>0, <1>1 DEF OwnedInv, Good
<1>4. CASE ~info.use_mcast
  <2>1. n = DROP /\ w = <<>>
    BY <1>1, <1>3, <1>4 DEF Fine
  <2> QED BY <1>1, <2>1
<1>5. CASE info.use_mcast
  <2>1. n = info.main.nhid /\ Matches(info, w) /\ Grouped(info, Len(info.members))
    BY <1>1, <1>3, <1>5 DEF Fine
  <2>2. n \in NhIds /\ g # Null
    BY <1>0, <1>1, <1>2, <1>5, <2>1 DEF ChipInv, Gone
  <2>3. n # DROP
    BY <2>2, PoolAssumption DEF DROP
  <2>4. g = [j \in 1 .. Len(info.members) |-> info.members[j].nhid] /\ Len(info.members) = Len(w)
    BY <1>1, <2>1 DEF Grouped, Matches
  <2>5. DOMAIN w = 1 .. Len(w)
    <3>1. l \in Seq(Acts)
      <4>1. chip[e] \in Redirects
        BY <1>0 DEF TablesOK
      <4> QED BY <1>1, <4>1 DEF Redirects
    <3>2. PICK u, t, W, V : u = AskedUpTo(r, l)[Len(l)] /\ t = ToCpu /\ W = Wanted(l) /\ V = W \cup {t}
      OBVIOUS
    <3>3. u \in Seq(W)
      BY <1>2, <3>1, <3>2, UpToTyped
    <3>4. Len(u) \in Nat /\ u = [j \in 1 .. Len(u) |-> u[j]] /\ \A j \in 1 .. Len(u) : u[j] \in V
      BY <3>2, <3>3
    <3>5. u \in Seq(V) /\ <<t>> \in Seq(V) /\ <<>> \in Seq(V)
      BY <3>2, <3>4
    <3>6. w = u \o <<t>> \/ w = u \o <<>>
      BY <1>1, <3>2 DEF Asked
    <3>7. w \in Seq(V)
      BY <3>5, <3>6
    <3> QED BY <3>7
  <2>6. \A j \in 1 .. Len(w) : hwnh[g[j]] # Null /\ Sent(hwnh[g[j]], w[j])
    BY <2>1, <2>4 DEF Matches, SentBy
  <2>7. DOMAIN g = DOMAIN w
    BY <2>4, <2>5
  <2> QED BY <1>1, <2>2, <2>3, <2>5, <2>6, <2>7
<1> QED BY <1>4, <1>5

(* At every moment, whatever the chip refuses, every entry of the chip     *)
(* drops the packets or points at a complete group that sends them to      *)
(* exactly the outputs its list of actions asks for: to a port edited as   *)
(* asked, to a tunnel with the tags stripped and the tunnel id set as      *)
(* asked and no edit that was not.  Only entries that the driver has left  *)
(* with another next hop are excepted.  adpt_flow.c completes a group      *)
(* before it writes an entry and releases one only when no entry written   *)
(* by it points at it.                                                     *)
THEOREM Forwarded == Spec => []ForwardsAsAsked
<1>1. Init => ForwardInv
  BY ForwardInit
<1>2. IInv /\ PresentInv /\ ForwardInv /\ [Next]_vars => ForwardInv'
  BY OwnedStep, NullStep, PathStep DEF ForwardInv
<1>3. IInv /\ ForwardInv => ForwardsAsAsked
  BY Forwards
<1> QED BY <1>1, <1>2, <1>3, Invariant, PTL DEF Spec

=============================================================================
