-------------------------- MODULE PriorityDbProofs --------------------------
(***************************************************************************)
(* What the operations on a priority database and its block preserve, for  *)
(* every set of priorities and of entry ids: the facts behind              *)
(* FlowTableProofs.                                                        *)
(***************************************************************************)
EXTENDS PriorityDb, TLAPS, WellFoundedInduction

----------------------------------------------------------------------------
(* Every nonempty set of naturals has a least element: the loops of        *)
(* adpt_flowdb_priority_list_add and the allocators find what they look    *)
(* for.                                                                    *)
LEMMA LeastExists ==
    ASSUME NEW S, S \subseteq Nat, S # {}
    PROVE  \E x \in S : \A y \in S : x <= y
<1>1. PICK x \in S : \A y \in S : ~(<<y, x>> \in OpToRel(<, Nat))
  BY WFMin, NatLessThanWellFounded
<1>2. \A y \in S : ~(y < x)
  BY <1>1 DEF OpToRel
<1> QED BY <1>2

(* A nonempty set of naturals with a bound has a greatest element.         *)
LEMMA GreatestExists ==
    ASSUME NEW n \in Nat, NEW S, S \subseteq 0 .. n, S # {}
    PROVE  \E x \in S : \A y \in S : y <= x
<1> DEFINE T == {n - x : x \in S}
<1>1. \A x \in S : n - x \in Nat
  OBVIOUS
<1>a. T \subseteq Nat /\ T # {}
  BY <1>1
<1>2. PICK t \in T : \A u \in T : t <= u
  <2> HIDE DEF T
  <2> QED BY <1>a, LeastExists
<1>3. PICK x \in S : t = n - x
  BY <1>2
<1>4. \A y \in S : n - y \in T
  OBVIOUS
<1>5. \A y \in S : y <= x
  BY <1>2, <1>3, <1>4
<1> QED BY <1>5

----------------------------------------------------------------------------
(* Sequences with one element more or one less, point by point.            *)

(* t is s with e behind its first n elements.                              *)
Inserted(s, n, e, t) ==
    /\ Len(t) = Len(s) + 1
    /\ t[n + 1] = e
    /\ \A i \in 1 .. Len(t) :
          /\ i <= n => t[i] = s[i]
          /\ i > n + 1 => t[i] = s[i - 1]

(* t is s without its n-th element.                                        *)
Taken(s, n, t) ==
    /\ Len(t) = Len(s) - 1
    /\ \A i \in 1 .. Len(t) :
          /\ i < n => t[i] = s[i]
          /\ i >= n => t[i] = s[i + 1]

(* InsertBehind is the insertion of list_insert_after.                     *)
LEMMA InsertBehindProps ==
    ASSUME NEW T, NEW s \in Seq(T), NEW n \in 0 .. Len(s), NEW e \in T
    PROVE  /\ InsertBehind(s, n, e) \in Seq(T)
           /\ Inserted(s, n, e, InsertBehind(s, n, e))
<1>1. Len(s) \in Nat /\ \A i \in 1 .. Len(s) : s[i] \in T
  OBVIOUS
<1>2. InsertBehind(s, n, e) \in [1 .. Len(s) + 1 -> T]
  BY <1>1 DEF InsertBehind
<1>3. InsertBehind(s, n, e) \in Seq(T) /\ Len(InsertBehind(s, n, e)) = Len(s) + 1
  BY <1>1, <1>2
<1> QED BY <1>1, <1>3 DEF InsertBehind, Inserted

(* DeleteAt is the removal of list_remove.                                 *)
LEMMA DeleteAtProps ==
    ASSUME NEW T, NEW s \in Seq(T), NEW n \in 1 .. Len(s)
    PROVE  /\ DeleteAt(s, n) \in Seq(T)
           /\ Taken(s, n, DeleteAt(s, n))
<1>1. Len(s) \in Nat /\ \A i \in 1 .. Len(s) : s[i] \in T
  OBVIOUS
<1>2. DeleteAt(s, n) \in [1 .. Len(s) - 1 -> T]
  BY <1>1 DEF DeleteAt
<1>3. DeleteAt(s, n) \in Seq(T) /\ Len(DeleteAt(s, n)) = Len(s) - 1
  BY <1>1, <1>2
<1> QED BY <1>1, <1>3 DEF DeleteAt, Taken

(* A search for an element that is there finds it.                         *)
LEMMA IndexInProps ==
    ASSUME NEW T, NEW s \in Seq(T), NEW e \in Elems(s)
    PROVE  IndexIn(s, e) \in 1 .. Len(s) /\ s[IndexIn(s, e)] = e
BY DEF IndexIn, Elems

(* Taking out what was put in gives back the sequence.                     *)
LEMMA InsertDelete ==
    ASSUME NEW T, NEW s \in Seq(T), NEW n \in 0 .. Len(s), NEW e \in T,
           e \notin Elems(s)
    PROVE  /\ IndexIn(InsertBehind(s, n, e), e) = n + 1
           /\ DeleteAt(InsertBehind(s, n, e), n + 1) = s
<1> DEFINE t == InsertBehind(s, n, e)
<1>1. t \in Seq(T) /\ Inserted(s, n, e, t)
  BY InsertBehindProps
<1> HIDE DEF t
<1>a. n + 1 \in 1 .. Len(t) /\ Len(s) \in Nat
  BY <1>1 DEF Inserted
<1>2. \A i \in 1 .. Len(t) : t[i] = e => i = n + 1
  BY <1>1, <1>a DEF Inserted, Elems
<1>3. IndexIn(t, e) = n + 1
  BY <1>1, <1>a, <1>2 DEF IndexIn, Inserted
<1>4. DeleteAt(t, n + 1) \in Seq(T) /\ Taken(t, n + 1, DeleteAt(t, n + 1))
  BY <1>1, <1>a, DeleteAtProps
<1>5. Len(DeleteAt(t, n + 1)) = Len(s)
  BY <1>1, <1>4, <1>a DEF Inserted, Taken
<1>6. \A i \in 1 .. Len(s) : DeleteAt(t, n + 1)[i] = s[i]
  <2> SUFFICES ASSUME NEW i \in 1 .. Len(s) PROVE DeleteAt(t, n + 1)[i] = s[i]
    OBVIOUS
  <2>1. CASE i <= n
    BY <2>1, <1>1, <1>4, <1>5, <1>a DEF Inserted, Taken
  <2>2. CASE i >= n + 1
    BY <2>2, <1>1, <1>4, <1>5, <1>a DEF Inserted, Taken
  <2> QED BY <2>1, <2>2
<1>7. DeleteAt(t, n + 1) = s
  BY <1>4, <1>5, <1>6
<1> QED BY <1>3, <1>7 DEF t

----------------------------------------------------------------------------
(* The place adpt_flowdb_priority_list_add finds for a priority that is    *)
(* not in the list, whether it walks from the head or from the tail: all   *)
(* priorities in front of it are higher, all behind it lower.              *)
LEMMA PlaceOfProps ==
    ASSUME NEW s \in Seq(Prios), NEW p \in Prios, p \notin Elems(s),
           \A i, j \in 1 .. Len(s) : i < j => s[i] > s[j]
    PROVE  /\ PlaceOf(s, p) \in 0 .. Len(s)
           /\ \A i \in 1 .. Len(s) : IF i <= PlaceOf(s, p) THEN s[i] > p ELSE s[i] < p
<1>a. Len(s) \in Nat /\ \A i \in 1 .. Len(s) : s[i] \in Prios
  OBVIOUS
<1>b. \A i \in 1 .. Len(s) : s[i] # p
  BY DEF Elems
<1>1. /\ Len(s) \in Nat
      /\ p \in Nat
      /\ \A i \in 1 .. Len(s) : s[i] \in Nat /\ s[i] # p
  BY <1>a, <1>b, PriosAssumption
<1>2. CASE s = <<>>
  BY <1>1, <1>2 DEF PlaceOf
<1>3. CASE s # <<>> /\ p > s[1]
  <2>1. PlaceOf(s, p) = 0
    BY <1>1, <1>3 DEF PlaceOf
  <2>2. 1 \in 1 .. Len(s)
    BY <1>3
  <2>3. \A i \in 1 .. Len(s) : s[i] < p
    <3> SUFFICES ASSUME NEW i \in 1 .. Len(s) PROVE s[i] < p
      OBVIOUS
    <3>1. CASE i = 1
      BY <3>1, <1>3
    <3>2. CASE i > 1
      BY <3>2, <1>1, <1>3, <2>2
    <3> QED BY <3>1, <3>2
  <2> QED BY <2>1, <2>3, <1>1
<1>4. CASE s # <<>> /\ p <= s[1] /\ p < s[Len(s)]
  <2>1. PlaceOf(s, p) = Len(s)
    BY <1>1, <1>4 DEF PlaceOf
  <2>2. Len(s) \in 1 .. Len(s)
    BY <1>4, <1>1
  <2>3. \A i \in 1 .. Len(s) : s[i] > p
    <3> SUFFICES ASSUME NEW i \in 1 .. Len(s) PROVE s[i] > p
      OBVIOUS
    <3>1. CASE i = Len(s)
      BY <3>1, <1>4
    <3>2. CASE i < Len(s)
      <4>1. s[i] > s[Len(s)]
        BY <3>2, <2>2
      <4> QED BY <4>1, <1>1, <1>4, <2>2
    <3> QED BY <3>1, <3>2, <1>1
  <2> QED BY <2>1, <2>3, <1>1
<1>5. CASE s # <<>> /\ p <= s[1] /\ p >= s[Len(s)]
  <2>1. 1 \in 1 .. Len(s) /\ Len(s) \in 1 .. Len(s)
    BY <1>5, <1>1
  <2>2. s[1] > p /\ s[Len(s)] < p
    BY <1>1, <1>5, <2>1
  <2>3. PlaceOf(s, p) \in {FromHead(s, p), FromTail(s, p)}
    BY <1>1, <1>5, <2>1, <2>2 DEF PlaceOf
  <2> DEFINE Low == {i \in 1 .. Len(s) : s[i] < p}
  <2>4. PICK x \in Low : \A y \in Low : x <= y
    <3>1. Low \subseteq Nat /\ Low # {}
      BY <2>1, <2>2
    <3> HIDE DEF Low
    <3> QED BY <3>1, LeastExists
  <2> DEFINE n == x - 1
  <2>5. n \in 1 .. Len(s) - 1 /\ s[n + 1] < p /\ \A i \in 1 .. n : s[i] > p
    <3>1. x \in 1 .. Len(s) /\ s[x] < p /\ x # 1
      BY <2>4, <2>2, <1>1
    <3>2. ASSUME NEW i \in 1 .. n PROVE s[i] > p
      <4>1. i \in 1 .. Len(s) /\ ~(x <= i)
        BY <3>1, <1>1
      <4>2. i \notin Low
        BY <4>1, <2>4
      <4> QED BY <4>1, <4>2, <1>1
    <3> QED BY <3>1, <3>2, <1>1
  <2> HIDE DEF n
  <2>6. \A i \in 1 .. Len(s) : IF i <= n THEN s[i] > p ELSE s[i] < p
    <3> SUFFICES ASSUME NEW i \in 1 .. Len(s), i > n PROVE s[i] < p
      BY <2>5
    <3>1. CASE i = n + 1
      BY <3>1, <2>5
    <3>2. CASE i > n + 1
      <4>1. n + 1 \in 1 .. Len(s) /\ s[n + 1] > s[i]
        BY <3>2, <2>5, <1>1
      <4> QED BY <4>1, <2>5, <1>1
    <3> QED BY <3>1, <3>2, <2>5
  <2>7. FromHead(s, p) = n
    <3>1. n \in 0 .. Len(s) - 1 /\ s[n + 1] < p /\ \A m \in 1 .. n : s[m] >= p
      BY <2>5, <1>1
    <3>2. ASSUME NEW k \in 0 .. Len(s) - 1, s[k + 1] < p, \A m \in 1 .. k : s[m] >= p
          PROVE  k = n
      <4>1. ~(k < n)
        BY <3>2, <2>5, <1>1
      <4>2. ~(n < k)
        BY <3>2, <2>5, <1>1
      <4> QED BY <4>1, <4>2, <2>5
    <3> QED BY <3>1, <3>2 DEF FromHead
  <2>8. FromTail(s, p) = n
    <3>1. n \in 1 .. Len(s) /\ s[n] > p /\ \A m \in n + 1 .. Len(s) : s[m] <= p
      BY <2>5, <2>6, <1>1
    <3>2. ASSUME NEW k \in 1 .. Len(s), s[k] > p, \A m \in k + 1 .. Len(s) : s[m] <= p
          PROVE  k = n
      <4>1. ~(k < n)
        <5>1. k < n => n \in k + 1 .. Len(s) /\ s[n] > p
          BY <2>5, <3>1, <1>1
        <5>2. k < n => s[n] <= p
          BY <5>1, <3>2
        <5> QED BY <5>1, <5>2, <3>1, <1>1
      <4>2. ~(n < k)
        <5>1. n < k => s[k] < p
          BY <2>5, <2>6
        <5> QED BY <5>1, <3>2, <1>1
      <4> QED BY <4>1, <4>2, <2>5
    <3> QED BY <3>1, <3>2 DEF FromTail
  <2> QED BY <2>3, <2>5, <2>6, <2>7, <2>8
<1> QED BY <1>1, <1>2, <1>3, <1>4, <1>5

----------------------------------------------------------------------------
(* The database after adpt_flowdb_add_flow_priority_entry_id, for an entry *)
(* that is not in it.                                                      *)

(* What DbAdd leaves: still sorted, priority p listed, e the last of p.    *)
LEMMA DbAddProps ==
    ASSUME NEW db \in Db, NEW p \in Prios, NEW e \in Ids,
           Descending(db), ListedIffUsed(db)
    PROVE  /\ DbAdd(db, p, e) \in Db
           /\ Descending(DbAdd(db, p, e))
           /\ ListedIffUsed(DbAdd(db, p, e))
           /\ DbAdd(db, p, e).ids = [db.ids EXCEPT ![p] = Append(@, e)]
           /\ p \in Elems(DbAdd(db, p, e).prios)
<1> DEFINE d == DbAdd(db, p, e)
<1>1. db.prios \in Seq(Prios) /\ db.ids \in [Prios -> Seq(Ids)]
  BY DEF Db
<1>2. d.ids = [db.ids EXCEPT ![p] = Append(@, e)] /\ d.ids \in [Prios -> Seq(Ids)]
  BY <1>1 DEF DbAdd
<1>3. \A q \in Prios : d.ids[q] # <<>> <=> (q = p \/ db.ids[q] # <<>>)
  BY <1>1 DEF DbAdd
<1>4. CASE p \in Elems(db.prios)
  <2>1. d.prios = db.prios
    BY <1>4 DEF DbAdd
  <2>2. d \in Db
    BY <1>1, <1>2, <1>4 DEF Db, DbAdd
  <2>3. \A q \in Prios : q \in Elems(d.prios) <=> d.ids[q] # <<>>
    BY <1>3, <1>4, <2>1 DEF ListedIffUsed
  <2> HIDE DEF d
  <2> QED BY <1>2, <1>4, <2>1, <2>2, <2>3 DEF Descending, ListedIffUsed, d
<1>5. CASE p \notin Elems(db.prios)
  <2> DEFINE s == db.prios
             n == PlaceOf(s, p)
             t == InsertBehind(s, n, p)
  <2>1. d.prios = t
    BY <1>5 DEF DbAdd
  <2>2. \A i, j \in 1 .. Len(s) : i < j => s[i] > s[j]
    BY DEF Descending
  <2>3. /\ n \in 0 .. Len(s)
        /\ \A i \in 1 .. Len(s) : IF i <= n THEN s[i] > p ELSE s[i] < p
    BY <1>1, <1>5, <2>2, PlaceOfProps
  <2>4. t \in Seq(Prios) /\ Inserted(s, n, p, t)
    BY <1>1, <2>3, InsertBehindProps
  <2>5. s \in Seq(Prios) /\ Len(s) \in Nat /\ p \in Nat /\ Prios \subseteq Nat
    BY <1>1, PriosAssumption
  <2>6. \A i \in 1 .. Len(s) : s[i] \in Nat
    <3>1. \A i \in 1 .. Len(s) : s[i] \in Prios
      BY <2>5
    <3> QED BY <3>1, <2>5
  <2>a. d \in Db
    BY <1>1, <1>2, <2>1, <2>4 DEF Db, DbAdd
  <2> HIDE DEF s, n, t, d
  <2>7. \A i, j \in 1 .. Len(t) : i < j => t[i] > t[j]
    <3> SUFFICES ASSUME NEW i \in 1 .. Len(t), NEW j \in 1 .. Len(t), i < j
                 PROVE  t[i] > t[j]
      OBVIOUS
    <3>1. CASE j <= n
      <4>1. i \in 1 .. Len(s) /\ j \in 1 .. Len(s)
        BY <3>1, <2>3, <2>4, <2>5 DEF Inserted
      <4>2. t[i] = s[i] /\ t[j] = s[j]
        BY <3>1, <2>3, <2>4 DEF Inserted
      <4> QED BY <4>1, <4>2, <2>2
    <3>2. CASE i = n + 1
      <4>1. j - 1 \in 1 .. Len(s) /\ j - 1 > n
        BY <3>2, <2>3, <2>4, <2>5 DEF Inserted
      <4> QED BY <4>1, <3>2, <2>3, <2>4, <2>5, <2>6 DEF Inserted
    <3>3. CASE j = n + 1
      <4>1. i \in 1 .. Len(s) /\ i <= n
        BY <3>3, <2>3, <2>4, <2>5 DEF Inserted
      <4> QED BY <4>1, <3>3, <2>3, <2>4, <2>5, <2>6 DEF Inserted
    <3>4. CASE i <= n /\ j > n + 1
      <4>1. i \in 1 .. Len(s) /\ j - 1 \in 1 .. Len(s) /\ i < j - 1
        BY <3>4, <2>3, <2>4, <2>5 DEF Inserted
      <4>2. t[i] = s[i] /\ t[j] = s[j - 1]
        BY <3>4, <2>4 DEF Inserted
      <4> QED BY <4>1, <4>2, <2>2
    <3>5. CASE i > n + 1
      <4>1. i - 1 \in 1 .. Len(s) /\ j - 1 \in 1 .. Len(s) /\ i - 1 < j - 1
        BY <3>5, <2>3, <2>4, <2>5 DEF Inserted
      <4>2. t[i] = s[i - 1] /\ t[j] = s[j - 1]
        BY <3>5, <2>3, <2>4 DEF Inserted
      <4> QED BY <4>1, <4>2, <2>2
    <3> QED BY <3>1, <3>2, <3>3, <3>4, <3>5, <2>3, <2>4, <2>5
  <2>8. \A q \in Prios : q \in Elems(t) <=> (q = p \/ q \in Elems(s))
    <3> SUFFICES ASSUME NEW q \in Prios
                 PROVE  q \in Elems(t) <=> (q = p \/ q \in Elems(s))
      OBVIOUS
    <3>1. ASSUME q \in Elems(t) PROVE q = p \/ q \in Elems(s)
      <4>1. PICK i \in 1 .. Len(t) : t[i] = q
        BY <3>1 DEF Elems
      <4>2. CASE i <= n
        BY <4>1, <4>2, <2>3, <2>4, <2>5 DEF Inserted, Elems
      <4>3. CASE i = n + 1
        BY <4>1, <4>3, <2>4 DEF Inserted
      <4>4. CASE i > n + 1
        <5>1. i - 1 \in 1 .. Len(s) /\ q = s[i - 1]
          BY <4>1, <4>4, <2>3, <2>4, <2>5 DEF Inserted
        <5> QED BY <5>1 DEF Elems
      <4> QED BY <4>2, <4>3, <4>4, <2>3, <2>4
    <3>2. p \in Elems(t)
      <4>1. n + 1 \in 1 .. Len(t) /\ t[n + 1] = p
        BY <2>3, <2>4, <2>5 DEF Inserted
      <4> QED BY <4>1 DEF Elems
    <3>3. ASSUME q \in Elems(s) PROVE q \in Elems(t)
      <4>1. PICK i \in 1 .. Len(s) : s[i] = q
        BY <3>3 DEF Elems
      <4>2. CASE i <= n
        <5>1. i \in 1 .. Len(t) /\ t[i] = q
          BY <4>1, <4>2, <2>3, <2>4, <2>5 DEF Inserted
        <5> QED BY <5>1 DEF Elems
      <4>3. CASE i > n
        <5>1. i + 1 \in 1 .. Len(t) /\ i + 1 > n + 1
          BY <4>1, <4>3, <2>3, <2>4, <2>5 DEF Inserted
        <5>2. t[i + 1] = s[(i + 1) - 1]
          BY <5>1, <2>4 DEF Inserted
        <5>3. t[i + 1] = q
          BY <4>1, <5>2
        <5> QED BY <5>1, <5>3 DEF Elems
      <4> QED BY <4>2, <4>3, <2>3
    <3> QED BY <3>1, <3>2, <3>3
  <2>9. \A q \in Prios : q \in Elems(d.prios) <=> d.ids[q] # <<>>
    BY <1>3, <2>1, <2>8 DEF ListedIffUsed, s
  <2> QED BY <1>2, <2>1, <2>7, <2>8, <2>9, <2>a DEF Descending, ListedIffUsed, d
<1> QED BY <1>4, <1>5

----------------------------------------------------------------------------
(* The entry that adpt_flowdb_get_prev_entry_id names for a new entry.     *)

(* n entries of the block are to stay in front of a new one of priority p: *)
(* those of priority p and above, and no other.                            *)
Splits(db, hw, p, n) ==
    /\ n \in 0 .. Len(hw)
    /\ \A q \in Prios : \A k \in 1 .. Len(db.ids[q]), m \in 1 .. Len(hw) :
          hw[m] = db.ids[q][k] => (m <= n <=> q >= p)

(* Inserting behind the entry in front of the new one splits the block     *)
(* that way: first the two cases, the new entry not being the first of its *)
(* priority and being the first.                                           *)
LEMMA SplitSame ==
    ASSUME NEW db \in Db, NEW hw \in Seq(Ids), NEW p \in Prios,
           Consistent(db, hw), db.ids[p] # <<>>
    PROVE  /\ LastOf(db.ids[p]) \in Elems(hw)
           /\ Splits(db, hw, p, IndexIn(hw, LastOf(db.ids[p])))
<1> DEFINE a == LastOf(db.ids[p])
           l == Len(db.ids[p])
           n == IndexIn(hw, a)
<1>1. db.ids \in [Prios -> Seq(Ids)] /\ Prios \subseteq Nat
  BY PriosAssumption DEF Db
<1>2. l \in 1 .. Len(db.ids[p]) /\ a = db.ids[p][l]
  BY <1>1 DEF LastOf
<1>3. a \in Elems(hw)
  BY <1>2 DEF Consistent, SameEntries
<1>4. n \in 1 .. Len(hw) /\ hw[n] = a
  BY <1>3, IndexInProps
<1>5. ASSUME NEW q \in Prios, NEW k \in 1 .. Len(db.ids[q]), NEW m \in 1 .. Len(hw),
             hw[m] = db.ids[q][k]
      PROVE  m <= n <=> q >= p
  <2>1. CASE q > p
    <3>1. m < n
      BY <1>2, <1>4, <1>5, <2>1 DEF Consistent, SameOrder
    <3> QED BY <3>1, <2>1, <1>1, <1>4
  <2>2. CASE q = p /\ k < l
    <3>1. m < n
      BY <1>2, <1>4, <1>5, <2>2 DEF Consistent, SameOrder
    <3> QED BY <3>1, <2>2, <1>1, <1>4
  <2>3. CASE q = p /\ k = l
    <3>1. m = n
      BY <1>2, <1>4, <1>5, <2>3 DEF Consistent, SameEntries
    <3> QED BY <3>1, <2>3, <1>1, <1>4
  <2>4. CASE p > q
    <3>1. n < m
      BY <1>2, <1>4, <1>5, <2>4 DEF Consistent, SameOrder
    <3> QED BY <3>1, <2>4, <1>1, <1>4
  <2> QED BY <2>1, <2>2, <2>3, <2>4, <1>1
<1>6. n \in 0 .. Len(hw)
  BY <1>4
<1> QED BY <1>3, <1>5, <1>6 DEF Splits

(* If no priority above p is in use, nothing stays in front; otherwise     *)
(* what stays in front is what stays in front of the lowest such priority. *)
LEMMA SplitFirst ==
    ASSUME NEW db \in Db, NEW hw \in Seq(Ids), NEW p \in Prios,
           Consistent(db, hw), db.ids[p] = <<>>
    PROVE  /\ (\A q \in Prios : db.ids[q] # <<>> => ~(q > p)) => Splits(db, hw, p, 0)
           /\ \A q \in Prios, n \in 0 .. Len(hw) :
                 (/\ q > p
                  /\ \A o \in Prios : db.ids[o] # <<>> /\ o > p => o >= q
                  /\ Splits(db, hw, q, n))
                 => Splits(db, hw, p, n)
<1>1. db.ids \in [Prios -> Seq(Ids)] /\ Prios \subseteq Nat
  BY PriosAssumption DEF Db
<1>2. ASSUME NEW q \in Prios, NEW k \in 1 .. Len(db.ids[q])
      PROVE  db.ids[q] # <<>> /\ q # p
  BY <1>1
<1>3. ASSUME \A q \in Prios : db.ids[q] # <<>> => ~(q > p)
      PROVE  Splits(db, hw, p, 0)
  <2>1. \A q \in Prios : \A k \in 1 .. Len(db.ids[q]) : ~(q >= p)
    BY <1>1, <1>2, <1>3
  <2>2. 0 \in 0 .. Len(hw)
    OBVIOUS
  <2> QED BY <2>1, <2>2 DEF Splits
<1>4. ASSUME NEW q \in Prios, NEW n \in 0 .. Len(hw), q > p,
             \A o \in Prios : db.ids[o] # <<>> /\ o > p => o >= q,
             Splits(db, hw, q, n)
      PROVE  Splits(db, hw, p, n)
  <2>1. \A o \in Prios : \A k \in 1 .. Len(db.ids[o]) : o >= q <=> o >= p
    BY <1>1, <1>2, <1>4
  <2> QED BY <2>1, <1>4 DEF Splits
<1> QED BY <1>3, <1>4

(* The entry PrevId names is in the block, unless it is the head, and the  *)
(* place behind it is the right one.                                       *)
LEMMA PrevIdProps ==
    ASSUME NEW db \in Db, NEW hw \in Seq(Ids), NEW p \in Prios, NEW e \in Ids,
           Consistent(db, hw), e \notin Elems(hw)
    PROVE  /\ PrevId(DbAdd(db, p, e), p, e) \in Elems(hw) \cup {ID_HEAD}
           /\ Splits(db, hw, p, HwPlace(hw, PrevId(DbAdd(db, p, e), p, e)))
<1> DEFINE d == DbAdd(db, p, e)
           l == Len(db.ids[p])
<1>1. db.ids \in [Prios -> Seq(Ids)] /\ Prios \subseteq Nat
  BY PriosAssumption DEF Db
<1>2. /\ d \in Db
      /\ Descending(d)
      /\ ListedIffUsed(d)
      /\ d.ids = [db.ids EXCEPT ![p] = Append(@, e)]
      /\ p \in Elems(d.prios)
  BY DbAddProps DEF Consistent
<1>3. \A k \in 1 .. l : db.ids[p][k] # e
  BY DEF Consistent, SameEntries
<1> HIDE DEF d
<1>4. l \in Nat /\ d.ids[p] = Append(db.ids[p], e) /\ db.ids[p] \in Seq(Ids)
  BY <1>1, <1>2
<1>5. Len(d.ids[p]) = l + 1 /\ d.ids[p][l + 1] = e /\ \A k \in 1 .. l : d.ids[p][k] = db.ids[p][k]
  BY <1>4
<1>6. IndexIn(d.ids[p], e) = l + 1
  BY <1>3, <1>4, <1>5 DEF IndexIn
<1>7. \A i \in 1 .. Len(hw) : hw[i] \in Ids /\ hw[i] # ID_HEAD
  BY IdsAssumption
<1>a. \A a \in Elems(hw) : HwPlace(hw, a) = IndexIn(hw, a)
  BY <1>7 DEF HwPlace, Elems
<1>8. CASE db.ids[p] # <<>>
  <2>1. l > 0
    BY <1>4, <1>8
  <2>2. PrevId(d, p, e) = LastOf(db.ids[p])
    BY <1>4, <1>5, <1>6, <2>1 DEF PrevId, LastOf
  <2> QED BY <1>8, <1>a, <2>2, SplitSame DEF d
<1>9. CASE db.ids[p] = <<>>
  <2> DEFINE x == IndexIn(d.prios, p)
  <2>1. l = 0 /\ ~(IndexIn(d.ids[p], e) > 1)
    BY <1>9, <1>6, <1>4
  <2>2. d.prios \in Seq(Prios) /\ x \in 1 .. Len(d.prios) /\ d.prios[x] = p
    BY <1>2, IndexInProps DEF Db
  <2>3. \A j \in 1 .. Len(d.prios) : d.prios[j] \in Prios
    BY <2>2
  <2>4. \A q \in Prios : q # p => d.ids[q] = db.ids[q]
    BY <1>1, <1>2
  <2> HIDE DEF x
  <2>5. ASSUME NEW j \in Higher(d, p)
        PROVE  /\ j \in 1 .. Len(d.prios)
               /\ d.prios[j] \in Prios
               /\ d.prios[j] > p
               /\ db.ids[d.prios[j]] # <<>>
    <3>1. j \in 1 .. x - 1 /\ d.ids[d.prios[j]] # <<>>
      BY DEF Higher, x
    <3>2. j \in 1 .. Len(d.prios) /\ j < x
      BY <3>1, <2>2
    <3>3. d.prios[j] > p
      BY <3>2, <2>2, <1>2 DEF Descending
    <3>4. d.prios[j] # p
      BY <3>3, <1>1, <2>3, <3>2
    <3> QED BY <3>1, <3>2, <3>3, <3>4, <2>3, <2>4
  <2>6. ASSUME NEW q \in Prios, db.ids[q] # <<>>, q > p
        PROVE  \E j \in Higher(d, p) : d.prios[j] = q
    <3>1. q # p /\ d.ids[q] # <<>>
      BY <2>6, <2>4, <1>1
    <3>2. PICK j \in 1 .. Len(d.prios) : d.prios[j] = q
      BY <3>1, <1>2 DEF ListedIffUsed, Elems
    <3>3. ~(x < j) /\ x # j
      <4>1. x < j => d.prios[x] > d.prios[j]
        BY <1>2, <2>2, <3>2 DEF Descending
      <4> QED BY <4>1, <2>2, <3>1, <3>2, <2>6, <1>1
    <3>4. j \in 1 .. x - 1
      BY <3>3, <3>2, <2>2
    <3> QED BY <3>1, <3>2, <3>4 DEF Higher, x
  <2>7. CASE Higher(d, p) = {}
    <3>1. PrevId(d, p, e) = ID_HEAD
      BY <2>1, <2>7 DEF PrevId
    <3>2. \A q \in Prios : db.ids[q] # <<>> => ~(q > p)
      BY <2>6, <2>7
    <3>3. Splits(db, hw, p, 0)
      BY <1>9, <3>2, SplitFirst
    <3> QED BY <3>1, <3>3 DEF HwPlace, d
  <2>8. CASE Higher(d, p) # {}
    <3> DEFINE j == CHOOSE i \in Higher(d, p) : \A m \in Higher(d, p) : m <= i
               q == d.prios[j]
    <3>1. j \in Higher(d, p) /\ \A m \in Higher(d, p) : m <= j
      <4>1. Higher(d, p) \subseteq 0 .. Len(d.prios) /\ Len(d.prios) \in Nat
        BY <2>5, <2>2
      <4>2. \E i \in Higher(d, p) : \A m \in Higher(d, p) : m <= i
        BY <4>1, <2>8, GreatestExists
      <4> QED BY <4>2
    <3>2. PrevId(d, p, e) = LastOf(d.ids[q])
      BY <2>1, <2>8 DEF PrevId
    <3> HIDE DEF j
    <3>3. q \in Prios /\ q > p /\ db.ids[q] # <<>> /\ j \in 1 .. Len(d.prios)
      BY <3>1, <2>5
    <3>n. q \in Nat /\ p \in Nat
      BY <3>3, <1>1
    <3>4. PrevId(d, p, e) = LastOf(db.ids[q])
      <4>1. q # p
        BY <3>3, <3>n
      <4>2. d.ids[q] = db.ids[q]
        BY <4>1, <3>3, <2>4
      <4> QED BY <4>2, <3>2
    <3>5. ASSUME NEW o \in Prios, db.ids[o] # <<>>, o > p PROVE o >= q
      <4>1. PICK i \in Higher(d, p) : d.prios[i] = o
        BY <3>5, <2>6
      <4>2. i <= j /\ i \in 1 .. Len(d.prios)
        BY <3>1, <2>5
      <4>3. CASE i = j
        BY <4>1, <4>3, <1>1
      <4>4. CASE i < j
        <5>1. d.prios[i] > d.prios[j]
          BY <4>2, <4>4, <3>3, <1>2 DEF Descending
        <5>2. o > q /\ o \in Nat
          BY <5>1, <4>1, <1>1
        <5> HIDE DEF q
        <5> QED BY <5>2, <3>n
      <4> QED BY <4>2, <4>3, <4>4, <3>3
    <3> HIDE DEF q
    <3>6. LastOf(db.ids[q]) \in Elems(hw) /\ Splits(db, hw, q, IndexIn(hw, LastOf(db.ids[q])))
      BY <3>3, SplitSame
    <3>7. IndexIn(hw, LastOf(db.ids[q])) \in 0 .. Len(hw)
      BY <3>6 DEF Splits
    <3>8. Splits(db, hw, p, IndexIn(hw, LastOf(db.ids[q])))
      BY <1>9, <3>3, <3>5, <3>6, <3>7, SplitFirst
    <3> QED BY <3>4, <3>6, <3>8, <1>a DEF d
  <2> QED BY <2>7, <2>8
<1> QED BY <1>8, <1>9

----------------------------------------------------------------------------
(* The block after the new entry is in it.                                 *)

(* The old and the new places of an entry.                                 *)
Old(n, i) == IF i <= n THEN i ELSE i - 1

(* adpt_flowdb_add_flow_priority_entry_id, adpt_flowdb_get_prev_entry_id   *)
(* and the insertion into the block keep the two in step.                  *)
LEMMA AddConsistent ==
    ASSUME NEW db \in Db, NEW hw \in Seq(Ids), NEW p \in Prios, NEW e \in Ids,
           Consistent(db, hw), e \notin Elems(hw)
    PROVE  /\ DbAdd(db, p, e) \in Db
           /\ HwAdd(hw, PrevId(DbAdd(db, p, e), p, e), e) \in Seq(Ids)
           /\ Consistent(DbAdd(db, p, e),
                         HwAdd(hw, PrevId(DbAdd(db, p, e), p, e), e))
           /\ Elems(HwAdd(hw, PrevId(DbAdd(db, p, e), p, e), e)) \subseteq Elems(hw) \cup {e}
           /\ e \in Elems(DbAdd(db, p, e).ids[p])
           /\ \A q \in Prios : Elems(db.ids[q]) \subseteq Elems(DbAdd(db, p, e).ids[q])
<1> DEFINE d == DbAdd(db, p, e)
           n == HwPlace(hw, PrevId(d, p, e))
           h == HwAdd(hw, PrevId(d, p, e), e)
           l == Len(db.ids[p])
<1>1. db.ids \in [Prios -> Seq(Ids)] /\ Prios \subseteq Nat /\ Len(hw) \in Nat
  BY PriosAssumption DEF Db
<1>2. /\ d \in Db
      /\ Descending(d)
      /\ ListedIffUsed(d)
      /\ d.ids = [db.ids EXCEPT ![p] = Append(@, e)]
  BY DbAddProps DEF Consistent
<1>3. Splits(db, hw, p, n)
  BY PrevIdProps
<1>4. n \in 0 .. Len(hw)
  BY <1>3 DEF Splits
<1>5. h \in Seq(Ids) /\ Inserted(hw, n, e, h)
  BY <1>4, InsertBehindProps DEF HwAdd
<1> HIDE DEF d, n, h
<1>6. /\ \A q \in Prios : q # p => d.ids[q] = db.ids[q]
      /\ d.ids[p] = Append(db.ids[p], e)
      /\ db.ids[p] \in Seq(Ids)
  BY <1>1, <1>2
<1>7. /\ l \in Nat
      /\ Len(d.ids[p]) = l + 1
      /\ d.ids[p][l + 1] = e
      /\ \A k \in 1 .. l : d.ids[p][k] = db.ids[p][k]
  BY <1>6
<1>8. \A q \in Prios : \A k \in 1 .. Len(db.ids[q]) : db.ids[q][k] # e
  BY DEF Consistent, SameEntries
(* An entry of the new database is the new one or one of the old.          *)
<1>9. \A q \in Prios : \A k \in 1 .. Len(d.ids[q]) :
         \/ q = p /\ k = l + 1 /\ d.ids[q][k] = e
         \/ /\ k \in 1 .. Len(db.ids[q])
            /\ d.ids[q][k] = db.ids[q][k]
            /\ d.ids[q][k] # e
            /\ q = p => k <= l
  <2> SUFFICES ASSUME NEW q \in Prios, NEW k \in 1 .. Len(d.ids[q])
               PROVE  \/ q = p /\ k = l + 1 /\ d.ids[q][k] = e
                      \/ /\ k \in 1 .. Len(db.ids[q])
                         /\ d.ids[q][k] = db.ids[q][k]
                         /\ d.ids[q][k] # e
                         /\ q = p => k <= l
    OBVIOUS
  <2>1. CASE q # p
    <3>1. d.ids[q] = db.ids[q]
      BY <2>1, <1>6
    <3> QED BY <3>1, <2>1, <1>8
  <2>2. CASE q = p /\ k = l + 1
    BY <2>2, <1>7
  <2>3. CASE q = p /\ k <= l
    <3>1. k \in 1 .. Len(db.ids[q])
      BY <2>3, <1>7
    <3> QED BY <3>1, <2>3, <1>7, <1>8
  <2> QED BY <2>1, <2>2, <2>3, <1>7
<1>10. \A q \in Prios : \A k \in 1 .. Len(db.ids[q]) :
          k \in 1 .. Len(d.ids[q]) /\ d.ids[q][k] = db.ids[q][k]
  <2> SUFFICES ASSUME NEW q \in Prios, NEW k \in 1 .. Len(db.ids[q])
               PROVE  k \in 1 .. Len(d.ids[q]) /\ d.ids[q][k] = db.ids[q][k]
    OBVIOUS
  <2>1. CASE q # p
    BY <2>1, <1>6
  <2>2. CASE q = p
    BY <2>2, <1>7
  <2> QED BY <2>1, <2>2
(* A place of the new block is the new one or comes from an old one.       *)
<1>11. \A i \in 1 .. Len(h) :
          \/ i = n + 1 /\ h[i] = e
          \/ /\ i # n + 1
             /\ Old(n, i) \in 1 .. Len(hw)
             /\ h[i] = hw[Old(n, i)]
             /\ h[i] # e
  <2> SUFFICES ASSUME NEW i \in 1 .. Len(h), i # n + 1
               PROVE  /\ Old(n, i) \in 1 .. Len(hw)
                      /\ h[i] = hw[Old(n, i)]
                      /\ h[i] # e
    BY <1>5 DEF Inserted
  <2>1. Old(n, i) \in 1 .. Len(hw) /\ h[i] = hw[Old(n, i)]
    BY <1>1, <1>4, <1>5 DEF Inserted, Old
  <2> QED BY <2>1 DEF Elems
<1>12. \A x \in Elems(hw) \cup {e} : x \in Elems(h)
  <2>1. n + 1 \in 1 .. Len(h) /\ h[n + 1] = e
    BY <1>1, <1>4, <1>5 DEF Inserted
  <2>2. ASSUME NEW i \in 1 .. Len(hw) PROVE hw[i] \in Elems(h)
    <3>1. CASE i <= n
      <4>1. i \in 1 .. Len(h) /\ h[i] = hw[i]
        BY <3>1, <1>1, <1>4, <1>5 DEF Inserted
      <4> QED BY <4>1 DEF Elems
    <3>2. CASE i > n
      <4>1. i + 1 \in 1 .. Len(h) /\ h[i + 1] = hw[(i + 1) - 1]
        BY <3>2, <1>1, <1>4, <1>5 DEF Inserted
      <4>2. h[i + 1] = hw[i]
        BY <4>1
      <4> QED BY <4>1, <4>2 DEF Elems
    <3> QED BY <3>1, <3>2, <1>4
  <2> QED BY <2>1, <2>2 DEF Elems
<1>13. EachIdOnce(d)
  <2> SUFFICES ASSUME NEW q \in Prios, NEW o \in Prios,
                      NEW k \in 1 .. Len(d.ids[q]), NEW m \in 1 .. Len(d.ids[o]),
                      d.ids[q][k] = d.ids[o][m]
               PROVE  q = o /\ k = m
    BY DEF EachIdOnce
  <2>1. CASE d.ids[q][k] = e
    <3>1. q = p /\ k = l + 1
      BY <2>1, <1>9
    <3>2. o = p /\ m = l + 1
      BY <2>1, <1>9
    <3> QED BY <3>1, <3>2
  <2>2. CASE d.ids[q][k] # e
    <3>1. k \in 1 .. Len(db.ids[q]) /\ d.ids[q][k] = db.ids[q][k]
      BY <2>2, <1>9
    <3>2. m \in 1 .. Len(db.ids[o]) /\ d.ids[o][m] = db.ids[o][m]
      BY <2>2, <1>9
    <3>3. db.ids[q][k] = db.ids[o][m]
      BY <3>1, <3>2
    <3>4. EachIdOnce(db)
      BY DEF Consistent
    <3> QED BY <3>1, <3>2, <3>3, <3>4 DEF EachIdOnce
  <2> QED BY <2>1, <2>2
<1>14. SameEntries(d, h)
  <2>1. ASSUME NEW i \in 1 .. Len(h), NEW j \in 1 .. Len(h), h[i] = h[j]
        PROVE  i = j
    <3>1. CASE h[i] = e
      BY <2>1, <3>1, <1>11
    <3>2. CASE h[i] # e
      <4>1. /\ Old(n, i) \in 1 .. Len(hw) /\ Old(n, j) \in 1 .. Len(hw)
            /\ hw[Old(n, i)] = hw[Old(n, j)]
            /\ i # n + 1 /\ j # n + 1
        BY <2>1, <3>2, <1>11
      <4>2. Old(n, i) = Old(n, j)
        BY <4>1 DEF Consistent, SameEntries
      <4> QED BY <4>1, <4>2, <1>4 DEF Old
    <3> QED BY <3>1, <3>2
  <2>2. ASSUME NEW i \in 1 .. Len(h) PROVE \E q \in Prios : h[i] \in Elems(d.ids[q])
    <3>1. CASE h[i] = e
      <4>1. l + 1 \in 1 .. Len(d.ids[p]) /\ d.ids[p][l + 1] = e
        BY <1>7
      <4> QED BY <3>1, <4>1 DEF Elems
    <3>2. CASE h[i] # e
      <4>1. Old(n, i) \in 1 .. Len(hw) /\ h[i] = hw[Old(n, i)]
        BY <3>2, <1>11
      <4>2. PICK q \in Prios : hw[Old(n, i)] \in Elems(db.ids[q])
        BY <4>1 DEF Consistent, SameEntries
      <4>3. PICK k \in 1 .. Len(db.ids[q]) : hw[Old(n, i)] = db.ids[q][k]
        BY <4>2 DEF Elems
      <4>4. k \in 1 .. Len(d.ids[q]) /\ d.ids[q][k] = h[i]
        BY <4>1, <4>3, <1>10
      <4> QED BY <4>4 DEF Elems
    <3> QED BY <3>1, <3>2
  <2>3. ASSUME NEW q \in Prios, NEW k \in 1 .. Len(d.ids[q])
        PROVE  d.ids[q][k] \in Elems(h)
    <3>1. d.ids[q][k] \in Elems(hw) \cup {e}
      BY <1>9 DEF Consistent, SameEntries
    <3> QED BY <3>1, <1>12
  <2> QED BY <2>1, <2>2, <2>3 DEF SameEntries
<1>15. SameOrder(d, h)
  <2> SUFFICES ASSUME NEW q \in Prios, NEW o \in Prios,
                      NEW k \in 1 .. Len(d.ids[q]), NEW m \in 1 .. Len(d.ids[o]),
                      NEW i \in 1 .. Len(h), NEW j \in 1 .. Len(h),
                      h[i] = d.ids[q][k], h[j] = d.ids[o][m],
                      q > o \/ (q = o /\ k < m)
               PROVE  i < j
    BY DEF SameOrder
  <2>0. q \in Nat /\ o \in Nat /\ p \in Nat /\ k \in Nat /\ m \in Nat
    BY <1>1, <1>6, <1>7
  <2>1. CASE h[i] # e /\ h[j] # e
    <3>1. /\ k \in 1 .. Len(db.ids[q]) /\ d.ids[q][k] = db.ids[q][k]
          /\ m \in 1 .. Len(db.ids[o]) /\ d.ids[o][m] = db.ids[o][m]
      BY <2>1, <1>9
    <3>2. /\ Old(n, i) \in 1 .. Len(hw) /\ h[i] = hw[Old(n, i)] /\ i # n + 1
          /\ Old(n, j) \in 1 .. Len(hw) /\ h[j] = hw[Old(n, j)] /\ j # n + 1
      BY <2>1, <1>11
    <3>3. Old(n, i) < Old(n, j)
      BY SMTT(30), <3>1, <3>2 DEF Consistent, SameOrder
    <3> QED BY <3>2, <3>3, <1>4 DEF Old
  <2>2. CASE h[i] = e
    <3>1. q = p /\ k = l + 1 /\ i = n + 1
      BY <2>2, <1>9, <1>11
    <3>2. h[j] # e
      BY <3>1, <1>9, <2>0, <1>7
    <3>3. m \in 1 .. Len(db.ids[o]) /\ d.ids[o][m] = db.ids[o][m] /\ (o = p => m <= l)
      BY <3>2, <1>9
    <3>4. ~(o >= p)
      BY <3>1, <3>3, <2>0, <1>7
    <3>5. Old(n, j) \in 1 .. Len(hw) /\ hw[Old(n, j)] = db.ids[o][m] /\ j # n + 1
      BY <3>2, <3>3, <1>11
    <3>6. ~(Old(n, j) <= n)
      BY <3>3, <3>4, <3>5, <1>3 DEF Splits
    <3> QED BY <3>1, <3>5, <3>6, <1>4 DEF Old
  <2>3. CASE h[i] # e /\ h[j] = e
    <3>1. o = p /\ m = l + 1 /\ j = n + 1
      BY <2>3, <1>9, <1>11
    <3>2. k \in 1 .. Len(db.ids[q]) /\ d.ids[q][k] = db.ids[q][k]
      BY <2>3, <1>9
    <3>3. q >= p
      BY <3>1, <2>0
    <3>4. Old(n, i) \in 1 .. Len(hw) /\ hw[Old(n, i)] = db.ids[q][k] /\ i # n + 1
      BY <2>3, <3>2, <1>11
    <3>5. Old(n, i) <= n
      BY <3>2, <3>3, <3>4, <1>3 DEF Splits
    <3> QED BY <3>1, <3>4, <3>5, <1>4 DEF Old
  <2> QED BY <2>1, <2>2, <2>3
<1>16. Elems(h) \subseteq Elems(hw) \cup {e}
  BY <1>11 DEF Elems
<1>17. e \in Elems(d.ids[p])
  <2>1. l + 1 \in 1 .. Len(d.ids[p]) /\ d.ids[p][l + 1] = e
    BY <1>7
  <2> QED BY <2>1 DEF Elems
<1>18. ASSUME NEW q \in Prios PROVE Elems(db.ids[q]) \subseteq Elems(d.ids[q])
  <2> SUFFICES ASSUME NEW k \in 1 .. Len(db.ids[q]) PROVE db.ids[q][k] \in Elems(d.ids[q])
    BY DEF Elems
  <2>1. k \in 1 .. Len(d.ids[q]) /\ d.ids[q][k] = db.ids[q][k]
    BY <1>10
  <2> QED BY <2>1 DEF Elems
<1> QED BY <1>2, <1>5, <1>13, <1>14, <1>15, <1>16, <1>17, <1>18 DEF Consistent, d, h

----------------------------------------------------------------------------
(* The way back when an add fails (the labels Err6 .. Err3 of              *)
(* adpt_flow_add_flow).                                                    *)

(* Appending is inserting behind the last element.                         *)
LEMMA AppendInserts ==
    ASSUME NEW T, NEW s \in Seq(T), NEW e \in T
    PROVE  Append(s, e) = InsertBehind(s, Len(s), e)
<1>1. Len(s) \in Nat /\ Len(s) \in 0 .. Len(s)
  OBVIOUS
<1>2. InsertBehind(s, Len(s), e) \in Seq(T)
      /\ Inserted(s, Len(s), e, InsertBehind(s, Len(s), e))
  BY <1>1, InsertBehindProps
<1> DEFINE t == InsertBehind(s, Len(s), e)
<1> HIDE DEF t
<1>3. Len(t) = Len(s) + 1 /\ \A i \in 1 .. Len(t) : t[i] = Append(s, e)[i]
  BY <1>1, <1>2 DEF Inserted, t
<1>4. Append(s, e) \in Seq(T) /\ Len(Append(s, e)) = Len(s) + 1 /\ t \in Seq(T)
  BY <1>2 DEF t
<1>5. t = Append(s, e)
  BY <1>3, <1>4
<1> QED BY <1>5 DEF t

(* Adding an entry to the database and deleting it again changes nothing:  *)
(* neither the list of its priority nor the list of the priorities.        *)
LEMMA UndoDb ==
    ASSUME NEW db \in Db, NEW hw \in Seq(Ids), NEW p \in Prios, NEW e \in Ids,
           Consistent(db, hw), e \notin Elems(hw)
    PROVE  DbDel(DbAdd(db, p, e), p, e) = db
<1> DEFINE d == DbAdd(db, p, e)
           s == db.ids[p]
<1>1. db.ids \in [Prios -> Seq(Ids)] /\ db.prios \in Seq(Prios)
      /\ db = [prios |-> db.prios, ids |-> db.ids]
  BY DEF Db
<1>2. /\ d \in Db
      /\ d.ids = [db.ids EXCEPT ![p] = Append(@, e)]
      /\ p \in Elems(d.prios)
      /\ Descending(db) /\ ListedIffUsed(db)
  BY DbAddProps DEF Consistent
<1>3. d.prios = IF p \in Elems(db.prios) THEN db.prios
                ELSE InsertBehind(db.prios, PlaceOf(db.prios, p), p)
  BY DEF DbAdd
<1>4. e \notin Elems(s)
  <2>1. \A k \in 1 .. Len(s) : s[k] \in Elems(hw)
    BY DEF Consistent, SameEntries
  <2> QED BY <2>1 DEF Elems
<1>5. s \in Seq(Ids) /\ Len(s) \in 0 .. Len(s)
  BY <1>1
<1>6. d.ids[p] = InsertBehind(s, Len(s), e)
  BY <1>1, <1>2, <1>5, AppendInserts
<1>7. IdsWithout(d.ids[p], e) = s
  <2>1. /\ IndexIn(d.ids[p], e) = Len(s) + 1
        /\ DeleteAt(d.ids[p], Len(s) + 1) = s
    BY <1>4, <1>5, <1>6, InsertDelete
  <2>2. d.ids[p] = Append(s, e)
    BY <1>1, <1>2
  <2>3. e \in Elems(d.ids[p])
    <3>1. Len(s) + 1 \in 1 .. Len(d.ids[p]) /\ d.ids[p][Len(s) + 1] = e
      BY <2>2, <1>5
    <3> QED BY <3>1 DEF Elems
  <2> QED BY <2>1, <2>3 DEF IdsWithout
<1>8. [d.ids EXCEPT ![p] = s] = db.ids
  <2> HIDE DEF d
  <2> QED BY <1>1, <1>2
<1>9. (IF s = <<>> THEN DeleteAt(d.prios, IndexIn(d.prios, p)) ELSE d.prios) = db.prios
  <2>1. CASE p \in Elems(db.prios)
    <3>1. s # <<>>
      BY <1>2, <2>1 DEF ListedIffUsed
    <3> QED BY <3>1, <2>1, <1>3
  <2>2. CASE p \notin Elems(db.prios)
    <3>1. s = <<>>
      BY <1>2, <2>2 DEF ListedIffUsed
    <3>2. \A i, j \in 1 .. Len(db.prios) : i < j => db.prios[i] > db.prios[j]
      BY <1>2 DEF Descending
    <3>3. PlaceOf(db.prios, p) \in 0 .. Len(db.prios)
      BY <1>1, <2>2, <3>2, PlaceOfProps
    <3>4. d.prios = InsertBehind(db.prios, PlaceOf(db.prios, p), p)
      BY <1>3, <2>2
    <3>5. /\ IndexIn(d.prios, p) = PlaceOf(db.prios, p) + 1
          /\ DeleteAt(d.prios, PlaceOf(db.prios, p) + 1) = db.prios
      BY <1>1, <2>2, <3>3, <3>4, InsertDelete
    <3> QED BY <3>1, <3>5
  <2> QED BY <2>1, <2>2
<1> HIDE DEF d, s
<1>10. DbDel(d, p, e) = [prios |-> db.prios, ids |-> db.ids]
  BY <1>2, <1>7, <1>8, <1>9 DEF DbDel
<1> QED BY <1>1, <1>10 DEF d

(* The same for the block.                                                 *)
LEMMA UndoHw ==
    ASSUME NEW db \in Db, NEW hw \in Seq(Ids), NEW p \in Prios, NEW e \in Ids,
           Consistent(db, hw), e \notin Elems(hw)
    PROVE  HwDel(HwAdd(hw, PrevId(DbAdd(db, p, e), p, e), e), e) = hw
<1> DEFINE a == PrevId(DbAdd(db, p, e), p, e)
           n == HwPlace(hw, a)
           h == InsertBehind(hw, n, e)
<1>1. n \in 0 .. Len(hw)
  BY PrevIdProps DEF Splits
<1>2. Inserted(hw, n, e, h)
  BY <1>1, InsertBehindProps
<1>3. IndexIn(h, e) = n + 1 /\ DeleteAt(h, n + 1) = hw
  BY <1>1, InsertDelete
<1> HIDE DEF n, h
<1>4. n + 1 \in 1 .. Len(h) /\ h[n + 1] = e
  BY <1>1, <1>2 DEF Inserted
<1>5. e \in Elems(h)
  BY <1>4 DEF Elems
<1>6. HwDel(h, e) = hw
  BY <1>3, <1>5 DEF HwDel
<1> QED BY <1>6 DEF HwAdd, h, n

----------------------------------------------------------------------------
(* The database and the block after an entry has left both.                *)

(* Where an element was before the n-th was taken out.                     *)
Was(n, i) == IF i < n THEN i ELSE i + 1

(* Taking an element out of a sequence without duplicates, seen from the   *)
(* new and from the old sequence.                                          *)
LEMMA TakenFrom ==
    ASSUME NEW T, NEW s \in Seq(T), NEW n \in 1 .. Len(s), NEW t \in Seq(T),
           Taken(s, n, t), \A i, j \in 1 .. Len(s) : s[i] = s[j] => i = j
    PROVE  /\ \A i \in 1 .. Len(t) :
                 /\ Was(n, i) \in 1 .. Len(s)
                 /\ t[i] = s[Was(n, i)]
                 /\ t[i] # s[n]
           /\ \A i \in 1 .. Len(s) : i # n =>
                 \E j \in 1 .. Len(t) : Was(n, j) = i /\ t[j] = s[i]
           /\ \A i, j \in 1 .. Len(t) : Was(n, i) < Was(n, j) <=> i < j
           /\ \A i, j \in 1 .. Len(t) : Was(n, i) = Was(n, j) => i = j
<1>1. Len(s) \in Nat /\ Len(t) = Len(s) - 1 /\ Len(t) \in Nat
  BY DEF Taken
<1>2. ASSUME NEW i \in 1 .. Len(t)
      PROVE  Was(n, i) \in 1 .. Len(s) /\ t[i] = s[Was(n, i)] /\ t[i] # s[n]
  <2>1. Was(n, i) \in 1 .. Len(s) /\ t[i] = s[Was(n, i)] /\ Was(n, i) # n
    <3>1. CASE i < n
      BY <3>1, <1>1 DEF Taken, Was
    <3>2. CASE i >= n
      <4>1. i + 1 \in 1 .. Len(s) /\ Was(n, i) = i + 1
        BY <3>2, <1>1 DEF Was
      <4>2. t[i] = s[i + 1]
        BY <3>2 DEF Taken
      <4> QED BY <4>1, <4>2, <3>2
    <3> QED BY <3>1, <3>2
  <2> QED BY <2>1
<1>3. ASSUME NEW i \in 1 .. Len(s), i # n
      PROVE  \E j \in 1 .. Len(t) : Was(n, j) = i /\ t[j] = s[i]
  <2>1. CASE i < n
    <3>1. i \in 1 .. Len(t) /\ Was(n, i) = i
      BY <2>1, <1>1 DEF Was
    <3> QED BY <3>1, <1>2
  <2>2. CASE i > n
    <3>1. i - 1 \in 1 .. Len(t) /\ Was(n, i - 1) = i
      BY <2>2, <1>1 DEF Was
    <3> QED BY <3>1, <1>2
  <2> QED BY <1>3, <2>1, <2>2
<1>4. \A i, j \in 1 .. Len(t) : Was(n, i) < Was(n, j) <=> i < j
  BY <1>1 DEF Was
<1>5. \A i, j \in 1 .. Len(t) : Was(n, i) = Was(n, j) => i = j
  BY <1>1 DEF Was
<1> QED BY <1>2, <1>3, <1>4, <1>5

(* What DbDel leaves: still sorted, p listed if it has another entry.      *)
LEMMA DbDelProps ==
    ASSUME NEW db \in Db, NEW p \in Prios, NEW e \in Elems(db.ids[p]),
           Descending(db), ListedIffUsed(db)
    PROVE  /\ DbDel(db, p, e) \in Db
           /\ Descending(DbDel(db, p, e))
           /\ ListedIffUsed(DbDel(db, p, e))
           /\ DbDel(db, p, e).ids =
                 [db.ids EXCEPT ![p] = DeleteAt(db.ids[p], IndexIn(db.ids[p], e))]
<1> DEFINE d == DbDel(db, p, e)
           x == IndexIn(db.ids[p], e)
           left == DeleteAt(db.ids[p], x)
           y == IndexIn(db.prios, p)
           s == db.prios
           t == DeleteAt(s, y)
<1>1. db.ids \in [Prios -> Seq(Ids)] /\ s \in Seq(Prios) /\ db.ids[p] \in Seq(Ids)
  BY DEF Db
<1>2. x \in 1 .. Len(db.ids[p])
  BY <1>1, IndexInProps
<1>3. left \in Seq(Ids)
  BY <1>1, <1>2, DeleteAtProps
<1>4. p \in Elems(s)
  <2>1. db.ids[p] # <<>>
    BY <1>1, <1>2
  <2> QED BY <2>1 DEF ListedIffUsed
<1>5. y \in 1 .. Len(s) /\ s[y] = p
  BY <1>1, <1>4, IndexInProps
<1>6. t \in Seq(Prios) /\ Taken(s, y, t)
  BY <1>1, <1>5, DeleteAtProps
<1>7. IdsWithout(db.ids[p], e) = left
  BY DEF IdsWithout
<1> HIDE DEF left, t
<1>8. d = [prios |-> IF left = <<>> THEN t ELSE s,
           ids |-> [db.ids EXCEPT ![p] = left]]
  BY <1>4, <1>7 DEF DbDel, t
<1> HIDE DEF d, x, y, s
<1>9. d \in Db /\ d.ids = [db.ids EXCEPT ![p] = left]
  BY <1>1, <1>3, <1>6, <1>8 DEF Db
<1>10. /\ \A q \in Prios : q # p => d.ids[q] = db.ids[q]
       /\ d.ids[p] = left
  BY <1>1, <1>9
<1>11. \A i, j \in 1 .. Len(s) : i < j => s[i] > s[j]
  BY DEF Descending, s
<1>12. \A i, j \in 1 .. Len(s) : s[i] = s[j] => i = j
  <2> SUFFICES ASSUME NEW i \in 1 .. Len(s), NEW j \in 1 .. Len(s), i # j
               PROVE  s[i] # s[j]
    OBVIOUS
  <2>1. s[i] \in Nat /\ s[j] \in Nat
    <3>1. s[i] \in Prios /\ s[j] \in Prios
      BY <1>1
    <3> QED BY <3>1, PriosAssumption
  <2>2. CASE i < j
    BY <2>1, <2>2, <1>11
  <2>3. CASE j < i
    BY <2>1, <2>3, <1>11
  <2> QED BY <2>2, <2>3
<1>13. CASE left # <<>>
  <2>1. d.prios = s
    BY <1>8, <1>13
  <2>2. Descending(d)
    BY <2>1, <1>11 DEF Descending
  <2>3. ListedIffUsed(d)
    BY <2>1, <1>4, <1>10, <1>13 DEF ListedIffUsed, s
  <2> QED BY <2>2, <2>3, <1>9 DEF d, left, x
<1>14. CASE left = <<>>
  <2>1. d.prios = t
    BY <1>8, <1>14
  <2>2. /\ \A i \in 1 .. Len(t) :
              Was(y, i) \in 1 .. Len(s) /\ t[i] = s[Was(y, i)] /\ t[i] # s[y]
        /\ \A i \in 1 .. Len(s) : i # y =>
              \E j \in 1 .. Len(t) : Was(y, j) = i /\ t[j] = s[i]
        /\ \A i, j \in 1 .. Len(t) : Was(y, i) < Was(y, j) <=> i < j
    BY <1>1, <1>5, <1>6, <1>12, TakenFrom
  <2>3. Descending(d)
    BY <2>1, <2>2, <1>11 DEF Descending
  <2>4. \A q \in Prios : q \in Elems(t) <=> (q # p /\ q \in Elems(s))
    <3>1. ASSUME NEW q \in Elems(t) PROVE q # p /\ q \in Elems(s)
      <4>1. PICK i \in 1 .. Len(t) : q = t[i]
        BY DEF Elems
      <4> QED BY <4>1, <2>2, <1>5 DEF Elems
    <3>2. ASSUME NEW q \in Elems(s), q # p PROVE q \in Elems(t)
      <4>1. PICK i \in 1 .. Len(s) : q = s[i]
        BY DEF Elems
      <4>2. i # y
        BY <4>1, <3>2, <1>5
      <4>3. PICK j \in 1 .. Len(t) : t[j] = s[i]
        BY <4>2, <2>2
      <4> QED BY <4>1, <4>3 DEF Elems
    <3> QED BY <3>1, <3>2
  <2>5. ListedIffUsed(d)
    BY <2>1, <2>4, <1>10, <1>14 DEF ListedIffUsed, s
  <2> QED BY <2>3, <2>5, <1>9 DEF d, left, x
<1> QED BY <1>13, <1>14

(* adpt_flow_del_flow takes an entry out of both and keeps them in step.   *)
LEMMA DelConsistent ==
    ASSUME NEW db \in Db, NEW hw \in Seq(Ids), NEW p \in Prios,
           NEW e \in Elems(db.ids[p]), Consistent(db, hw)
    PROVE  /\ DbDel(db, p, e) \in Db
           /\ HwDel(hw, e) \in Seq(Ids)
           /\ Consistent(DbDel(db, p, e), HwDel(hw, e))
           /\ Elems(HwDel(hw, e)) \subseteq Elems(hw) \ {e}
           /\ \A q \in Prios : \A f \in Elems(db.ids[q]) :
                 f # e => f \in Elems(DbDel(db, p, e).ids[q])
<1> DEFINE d == DbDel(db, p, e)
           h == HwDel(hw, e)
           s == db.ids[p]
           x == IndexIn(s, e)
           y == IndexIn(hw, e)
           t == DeleteAt(s, x)
<1>1. db.ids \in [Prios -> Seq(Ids)] /\ s \in Seq(Ids) /\ Prios \subseteq Nat
  BY PriosAssumption DEF Db
<1>2. /\ d \in Db /\ Descending(d) /\ ListedIffUsed(d)
      /\ d.ids = [db.ids EXCEPT ![p] = t]
  BY DbDelProps DEF Consistent
<1>3. x \in 1 .. Len(s) /\ s[x] = e
  BY <1>1, IndexInProps
<1>4. t \in Seq(Ids) /\ Taken(s, x, t)
  BY <1>1, <1>3, DeleteAtProps
<1>5. e \in Elems(hw)
  BY <1>3 DEF Consistent, SameEntries
<1>6. y \in 1 .. Len(hw) /\ hw[y] = e
  BY <1>5, IndexInProps
<1>7. h \in Seq(Ids) /\ Taken(hw, y, h)
  BY <1>5, <1>6, DeleteAtProps DEF HwDel
<1>a. \A i, j \in 1 .. Len(s) : s[i] = s[j] => i = j
  BY DEF Consistent, EachIdOnce
<1>b. \A i, j \in 1 .. Len(hw) : hw[i] = hw[j] => i = j
  BY DEF Consistent, SameEntries
<1> HIDE DEF d, h, x, y, t
<1>8. /\ \A i \in 1 .. Len(t) :
            Was(x, i) \in 1 .. Len(s) /\ t[i] = s[Was(x, i)] /\ t[i] # e
      /\ \A i \in 1 .. Len(s) : i # x =>
            \E j \in 1 .. Len(t) : Was(x, j) = i /\ t[j] = s[i]
      /\ \A i, j \in 1 .. Len(t) : Was(x, i) < Was(x, j) <=> i < j
      /\ \A i, j \in 1 .. Len(t) : Was(x, i) = Was(x, j) => i = j
  <2> HIDE DEF s
  <2> QED BY <1>1, <1>3, <1>4, <1>a, TakenFrom
<1>9. /\ \A i \in 1 .. Len(h) :
            Was(y, i) \in 1 .. Len(hw) /\ h[i] = hw[Was(y, i)] /\ h[i] # e
      /\ \A i \in 1 .. Len(hw) : i # y =>
            \E j \in 1 .. Len(h) : Was(y, j) = i /\ h[j] = hw[i]
      /\ \A i, j \in 1 .. Len(h) : Was(y, i) < Was(y, j) <=> i < j
      /\ \A i, j \in 1 .. Len(h) : Was(y, i) = Was(y, j) => i = j
  BY <1>6, <1>7, <1>b, TakenFrom
<1>10. /\ \A q \in Prios : q # p => d.ids[q] = db.ids[q]
       /\ d.ids[p] = t
  BY <1>1, <1>2
(* Where an entry of the new database was in the old one.                  *)
<1> DEFINE K(q, k) == IF q = p THEN Was(x, k) ELSE k
<1>11. \A q \in Prios : \A k \in 1 .. Len(d.ids[q]) :
          K(q, k) \in 1 .. Len(db.ids[q]) /\ d.ids[q][k] = db.ids[q][K(q, k)]
          /\ d.ids[q][k] # e
  <2> SUFFICES ASSUME NEW q \in Prios, NEW k \in 1 .. Len(d.ids[q])
               PROVE  /\ K(q, k) \in 1 .. Len(db.ids[q])
                      /\ d.ids[q][k] = db.ids[q][K(q, k)]
                      /\ d.ids[q][k] # e
    OBVIOUS
  <2>1. CASE q = p
    BY <2>1, <1>8, <1>10
  <2>2. CASE q # p
    <3>1. d.ids[q] = db.ids[q] /\ K(q, k) = k
      BY <2>2, <1>10
    <3>2. db.ids[q][k] # e
      BY <3>1, <2>2, <1>3 DEF Consistent, EachIdOnce
    <3> QED BY <3>1, <3>2
  <2> QED BY <2>1, <2>2
<1>12. \A q \in Prios : \A k, l \in 1 .. Len(d.ids[q]) :
          /\ K(q, k) < K(q, l) <=> k < l
          /\ K(q, k) = K(q, l) => k = l
  <2> SUFFICES ASSUME NEW q \in Prios, NEW k \in 1 .. Len(d.ids[q]),
                      NEW l \in 1 .. Len(d.ids[q])
               PROVE  /\ K(q, k) < K(q, l) <=> k < l
                      /\ K(q, k) = K(q, l) => k = l
    OBVIOUS
  <2>1. CASE q = p
    BY <2>1, <1>8, <1>10
  <2>2. CASE q # p
    BY <2>2
  <2> QED BY <2>1, <2>2
<1>13. ASSUME NEW q \in Prios, NEW f \in Elems(db.ids[q]), f # e
       PROVE  f \in Elems(d.ids[q])
  <2>1. PICK k \in 1 .. Len(db.ids[q]) : f = db.ids[q][k]
    BY DEF Elems
  <2>2. CASE q # p
    BY <2>2, <1>10
  <2>3. CASE q = p
    <3>1. k \in 1 .. Len(s) /\ k # x /\ f = s[k]
      BY <2>1, <2>3, <1>3, <1>13
    <3>2. PICK j \in 1 .. Len(t) : t[j] = s[k]
      BY <3>1, <1>8
    <3> QED BY <3>1, <3>2, <2>3, <1>10 DEF Elems
  <2> QED BY <2>2, <2>3
<1>14. EachIdOnce(d)
  <2> SUFFICES ASSUME NEW q \in Prios, NEW o \in Prios,
                      NEW k \in 1 .. Len(d.ids[q]), NEW l \in 1 .. Len(d.ids[o]),
                      d.ids[q][k] = d.ids[o][l]
               PROVE  q = o /\ k = l
    BY DEF EachIdOnce
  <2>1. K(q, k) \in 1 .. Len(db.ids[q]) /\ d.ids[q][k] = db.ids[q][K(q, k)]
    BY <1>11
  <2>2. K(o, l) \in 1 .. Len(db.ids[o]) /\ d.ids[o][l] = db.ids[o][K(o, l)]
    BY <1>11
  <2> HIDE DEF K
  <2>3. q = o /\ K(q, k) = K(o, l)
    <3>1. EachIdOnce(db) /\ db.ids[q][K(q, k)] = db.ids[o][K(o, l)]
      BY <2>1, <2>2 DEF Consistent
    <3> QED BY <2>1, <2>2, <3>1 DEF EachIdOnce
  <2> QED BY <2>3, <1>12
<1>15. SameEntries(d, h)
  <2>1. ASSUME NEW i \in 1 .. Len(h), NEW j \in 1 .. Len(h), h[i] = h[j]
        PROVE  i = j
    <3>1. Was(y, i) = Was(y, j)
      BY <2>1, <1>9, <1>b
    <3> QED BY <3>1, <1>9
  <2>2. ASSUME NEW i \in 1 .. Len(h) PROVE \E q \in Prios : h[i] \in Elems(d.ids[q])
    <3>1. Was(y, i) \in 1 .. Len(hw) /\ h[i] = hw[Was(y, i)] /\ h[i] # e
      BY <1>9
    <3>2. PICK q \in Prios : hw[Was(y, i)] \in Elems(db.ids[q])
      BY <3>1 DEF Consistent, SameEntries
    <3> QED BY <3>1, <3>2, <1>13
  <2>3. ASSUME NEW q \in Prios, NEW k \in 1 .. Len(d.ids[q])
        PROVE  d.ids[q][k] \in Elems(h)
    <3>1. K(q, k) \in 1 .. Len(db.ids[q]) /\ d.ids[q][k] = db.ids[q][K(q, k)]
          /\ d.ids[q][k] # e
      BY <1>11
    <3> HIDE DEF K
    <3>2. d.ids[q][k] \in Elems(hw)
      BY <3>1 DEF Consistent, SameEntries
    <3>3. PICK i \in 1 .. Len(hw) : hw[i] = d.ids[q][k]
      BY <3>2 DEF Elems
    <3>4. i # y
      BY <3>1, <3>3, <1>6
    <3>5. PICK j \in 1 .. Len(h) : h[j] = hw[i]
      BY <3>4, <1>9
    <3> QED BY <3>3, <3>5 DEF Elems
  <2> QED BY <2>1, <2>2, <2>3 DEF SameEntries
<1>16. SameOrder(d, h)
  <2> SUFFICES ASSUME NEW q \in Prios, NEW o \in Prios,
                      NEW k \in 1 .. Len(d.ids[q]), NEW l \in 1 .. Len(d.ids[o]),
                      NEW i \in 1 .. Len(h), NEW j \in 1 .. Len(h),
                      h[i] = d.ids[q][k], h[j] = d.ids[o][l],
                      q > o \/ (q = o /\ k < l)
               PROVE  i < j
    BY DEF SameOrder
  <2>1. K(q, k) \in 1 .. Len(db.ids[q]) /\ d.ids[q][k] = db.ids[q][K(q, k)]
    BY <1>11
  <2>2. K(o, l) \in 1 .. Len(db.ids[o]) /\ d.ids[o][l] = db.ids[o][K(o, l)]
    BY <1>11
  <2> HIDE DEF K
  <2>3. q > o \/ (q = o /\ K(q, k) < K(o, l))
    BY <1>12
  <2>4. /\ Was(y, i) \in 1 .. Len(hw) /\ hw[Was(y, i)] = db.ids[q][K(q, k)]
        /\ Was(y, j) \in 1 .. Len(hw) /\ hw[Was(y, j)] = db.ids[o][K(o, l)]
    BY <2>1, <2>2, <1>9
  <2>5. Was(y, i) < Was(y, j)
    <3>1. SameOrder(db, hw)
      BY DEF Consistent
    <3> DEFINE k1 == K(q, k)
               l1 == K(o, l)
               i1 == Was(y, i)
               j1 == Was(y, j)
    <3> HIDE DEF k1, l1, i1, j1
    <3>2. /\ k1 \in 1 .. Len(db.ids[q]) /\ l1 \in 1 .. Len(db.ids[o])
          /\ i1 \in 1 .. Len(hw) /\ j1 \in 1 .. Len(hw)
          /\ hw[i1] = db.ids[q][k1] /\ hw[j1] = db.ids[o][l1]
          /\ q > o \/ (q = o /\ k1 < l1)
      BY <2>1, <2>2, <2>3, <2>4 DEF k1, l1, i1, j1
    <3>a. \A n, m \in 1 .. Len(hw) :
             hw[n] = db.ids[q][k1] /\ hw[m] = db.ids[o][l1] => n < m
      BY <3>1, <3>2, ZenonT(40) DEF SameOrder
    <3>3. i1 < j1
      BY <3>2, <3>a
    <3> QED BY <3>3 DEF i1, j1
  <2> QED BY <2>5, <1>9
<1>17. Elems(h) \subseteq Elems(hw) \ {e}
  BY <1>9 DEF Elems
<1> QED BY <1>2, <1>7, <1>13, <1>14, <1>15, <1>16, <1>17 DEF Consistent, d, h
=============================================================================
