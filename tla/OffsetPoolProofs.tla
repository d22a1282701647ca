-------------------------- MODULE OffsetPoolProofs --------------------------
(***************************************************************************)
(* What TLAPS proves about OffsetPool, for every range, every set of block *)
(* sizes and every reserved part.                                          *)
(***************************************************************************)
EXTENDS OffsetPool, TLAPS

(* A list of free blocks: in order, nowhere touching, inside the range.    *)
In(x, o, n)  == o <= x /\ x < o + n
Covers(s, x) == \E i \in 1 .. Len(s) : In(x, s[i].offset, s[i].size)
Ordered(s) ==
    /\ s \in Seq(Entries)
    /\ \A i \in 1 .. Len(s) : Stop(s[i]) <= End
    /\ \A i, j \in 1 .. Len(s) : i < j => Stop(s[i]) < s[j].offset

(* A block that was handed out, in the offsets of the list it came from.   *)
Pos(c) == IF c.dir = "pre" THEN c.offset ELSE Mirrored(c.offset, c.size)
Of(d)  == {c \in held : c.dir = d}
Exact(s, H) == \A x \in Range : Covers(s, x) <=> \A c \in H : ~In(x, Pos(c), c.size)
Disjoint(H) == \A b, c \in H : b # c => Pos(b) + b.size <= Pos(c) \/ Pos(c) + c.size <= Pos(b)

HeldInv ==
    /\ \A c \in held : c.offset + c.size <= End
    /\ Disjoint(Of("pre")) /\ Disjoint(Of("rev"))
PreInv ==
    /\ Ordered(pre) /\ \A i \in 1 .. Len(pre) : pre[i].size > 0
    /\ Exact(pre, Of("pre"))
RevInv ==
    /\ Ordered(rev) /\ \A i \in 1 .. Len(rev) - 1 : rev[i].size > 0
    /\ rev # <<>> /\ Stop(rev[Len(rev)]) = End
    /\ ~is_reserve => rev[Len(rev)].offset = End + Start - min_rev
    /\ Exact(rev, Of("rev"))

(* The marks keep the two areas apart.                                     *)
MarkInv ==
    /\ max_pre <= min_rev
    /\ \A c \in held : IF c.dir = "pre" THEN c.offset + c.size <= max_pre ELSE c.offset >= min_rev

IInv == TypeOK /\ HeldInv /\ PreInv /\ RevInv /\ MarkInv

----------------------------------------------------------------------------
(* The numbers.                                                            *)
LEMMA Numbers ==
    /\ Start \in Nat /\ End \in Nat /\ MaxSize \in Nat /\ Start < End /\ End = Start + MaxSize
    /\ Range = Start .. End - 1
    /\ \A n \in Sizes : n \in Nat /\ 1 <= n /\ n <= MaxSize
  BY RangeAssumption DEF End, Range

(* The numbers of an entry, of a block.                                    *)
LEMMA EntryNumbers ==
    ASSUME NEW e \in Entries
    PROVE  /\ e.offset \in Nat /\ e.size \in Nat /\ Stop(e) = e.offset + e.size /\ Stop(e) \in Nat
           /\ Start <= e.offset /\ e.offset <= End /\ e.size <= MaxSize
  BY Numbers DEF Entries, Stop

LEMMA MakeEntry ==
    ASSUME NEW o \in Nat, NEW n \in Nat, Start <= o, o + n <= End
    PROVE  /\ Entry(o, n) \in Entries /\ Entry(o, n).offset = o /\ Entry(o, n).size = n
           /\ Stop(Entry(o, n)) = o + n
<1>1. o \in Start .. End /\ n \in 0 .. MaxSize
  BY Numbers
<1> QED BY <1>1 DEF Entries, Entry, Stop

(* Mirrored twice, an offset is itself again.                              *)
LEMMA MirrorNumbers ==
    ASSUME NEW p \in Nat, NEW n \in Nat, Start <= p, p + n <= End
    PROVE  /\ Mirrored(p, n) \in Nat /\ Start <= Mirrored(p, n) /\ Mirrored(p, n) + n <= End
           /\ Mirrored(p, n) + p + n = End + Start
           /\ Mirrored(Mirrored(p, n), n) = p
<1>1. Start \in Nat /\ End \in Nat
  BY Numbers
<1>2. PICK m : m = End - p - n + Start
  OBVIOUS
<1>3. m \in Nat /\ Start <= m /\ m + n <= End /\ m + p + n = End + Start
  BY <1>1, <1>2
<1>4. End - m - n + Start = p
  BY <1>1, <1>3
<1>5. Mirrored(p, n) = m /\ Mirrored(m, n) = p
  BY <1>2, <1>4 DEF Mirrored
<1> QED BY <1>3, <1>5

(* Blocks that do not meet do not meet mirrored.                           *)
LEMMA TwinsApart ==
    ASSUME NEW E \in Nat, NEW o \in Nat, NEW n \in Nat, NEW r \in Nat,
           NEW m \in Nat, NEW z \in Nat, NEW y \in Nat,
           r + o + n = E, y + m + z = E, ~(o < m + z /\ m < o + n)
    PROVE  r + n <= y \/ y + z <= r
  OBVIOUS

LEMMA HeldNumbers ==
    ASSUME NEW c \in Held, c.offset + c.size <= End
    PROVE  /\ c.offset \in Nat /\ c.size \in Nat /\ c.size >= 1 /\ c.size \in Sizes
           /\ Start <= c.offset /\ c.offset < End
           /\ c.dir \in {"pre", "rev"}
           /\ Pos(c) \in Nat /\ Start <= Pos(c) /\ Pos(c) + c.size <= End
           /\ c.dir = "pre" => Pos(c) = c.offset
           /\ c.dir = "rev" => Pos(c) = End - c.offset - c.size + Start
<1>1. /\ c.offset \in Range /\ c.size \in Sizes /\ c.dir \in {"pre", "rev"}
  BY DEF Held
<1>2. /\ c.offset \in Nat /\ c.size \in Nat /\ c.size >= 1 /\ Start <= c.offset /\ c.offset < End
  BY <1>1, Numbers
<1>3. /\ c.dir = "pre" => Pos(c) = c.offset
      /\ c.dir = "rev" => Pos(c) = End - c.offset - c.size + Start
  BY DEF Pos, Mirrored
<1>4. Pos(c) \in Nat /\ Start <= Pos(c) /\ Pos(c) + c.size <= End
  BY <1>1, <1>2, <1>3, Numbers
<1> QED BY <1>1, <1>2, <1>3, <1>4

----------------------------------------------------------------------------
(* A part of a list replaced by one block.                                 *)
Splice(s, i, e, j) == Front(s, i) \o <<e>> \o Rest(s, j)

LEMMA SpliceShape ==
    ASSUME NEW S, NEW s \in Seq(S), NEW i \in 1 .. Len(s) + 1, NEW j \in i .. Len(s) + 1, NEW e \in S
    PROVE  /\ Splice(s, i, e, j) \in Seq(S) /\ Len(Splice(s, i, e, j)) = Len(s) - (j - i) + 1
           /\ \A k \in 1 .. Len(Splice(s, i, e, j)) :
                 Splice(s, i, e, j)[k] = IF k < i THEN s[k] ELSE IF k = i THEN e ELSE s[k + (j - i) - 1]
<1> DEFINE f == SubSeq(s, 1, i - 1)
           r == SubSeq(s, j, Len(s))
           g == f \o <<e>>
           t == g \o r
<1>1. Len(s) \in Nat
  OBVIOUS
<1>2. f \in Seq(S) /\ Len(f) = i - 1 /\ \A k \in 1 .. i - 1 : f[k] = s[k]
  BY <1>1
<1>3. r \in Seq(S) /\ Len(r) = Len(s) - j + 1 /\ \A k \in 1 .. Len(s) - j + 1 : r[k] = s[k + j - 1]
  BY <1>1
<1> HIDE DEF f, r
<1>4. g \in Seq(S) /\ Len(g) = i /\ \A k \in 1 .. i : g[k] = IF k < i THEN s[k] ELSE e
  BY <1>1, <1>2
<1> HIDE DEF g
<1>5. t \in Seq(S) /\ Len(t) = i + (Len(s) - j + 1)
  <2>0. g \in Seq(S) /\ r \in Seq(S)
    BY <1>3, <1>4
  <2>1. t \in Seq(S) /\ Len(t) = Len(g) + Len(r)
    BY <2>0
  <2>2. Len(g) = i /\ Len(r) = Len(s) - j + 1
    BY <1>3, <1>4
  <2>3. Len(t) = i + (Len(s) - j + 1)
    <3> HIDE DEF t
    <3> QED BY <2>1, <2>2
  <2> QED BY <2>1, <2>3
<1>6. ASSUME NEW k \in 1 .. Len(t)
      PROVE  t[k] = IF k < i THEN s[k] ELSE IF k = i THEN e ELSE s[k + (j - i) - 1]
  <2>1. CASE k <= i
    <3>1. t[k] = g[k]
      BY <1>1, <1>3, <1>4, <1>5, <2>1
    <3> QED BY <1>1, <1>4, <2>1, <3>1
  <2>2. CASE k > i
    <3>1. t[k] = r[k - i]
      BY <1>1, <1>3, <1>4, <1>5, <2>2
    <3>2. k - i \in 1 .. Len(s) - j + 1 /\ (k - i) + j - 1 = k + (j - i) - 1
      BY <1>1, <1>5, <2>2
    <3>3. r[k - i] = s[(k - i) + j - 1]
      BY <1>3, <3>2
    <3>4. ~(k < i) /\ k # i
      BY <1>1, <2>2
    <3> QED BY <3>1, <3>2, <3>3, <3>4
  <2> QED BY <1>1, <1>5, <2>1, <2>2
<1>7. Splice(s, i, e, j) = t
  BY DEF Splice, Front, Rest, f, r, g
<1> HIDE DEF t
<1> QED BY <1>1, <1>5, <1>6, <1>7

(* In order, if the block is, and it covers what the rest and the block do.*)
LEMMA SpliceProps ==
    ASSUME NEW s, Ordered(s), NEW i \in 1 .. Len(s) + 1, NEW j \in i .. Len(s) + 1,
           NEW e \in Entries, Stop(e) <= End,
           \A k \in 1 .. i - 1 : Stop(s[k]) < e.offset,
           \A k \in j .. Len(s) : Stop(e) < s[k].offset
    PROVE  /\ Ordered(Splice(s, i, e, j))
           /\ \A x : Covers(Splice(s, i, e, j), x) <=>
                 \/ In(x, e.offset, e.size)
                 \/ \E k \in 1 .. i - 1 : In(x, s[k].offset, s[k].size)
                 \/ \E k \in j .. Len(s) : In(x, s[k].offset, s[k].size)
<1> DEFINE t == Splice(s, i, e, j)
           d == j - i
           n == Len(s)
<1>1. s \in Seq(Entries) /\ n \in Nat /\ \A k \in 1 .. n : s[k] \in Entries
  BY DEF Ordered
<1>2. t \in Seq(Entries) /\ Len(t) = n - d + 1
      /\ \A k \in 1 .. Len(t) : t[k] = IF k < i THEN s[k] ELSE IF k = i THEN e ELSE s[k + d - 1]
  BY <1>1, SpliceShape
<1>3. d \in Nat /\ i \in Nat /\ i >= 1 /\ i + d = j /\ j <= n + 1
  BY <1>1
<1>4. \A k \in 1 .. n, m \in 1 .. n : k < m => Stop(s[k]) < s[m].offset
  BY DEF Ordered
<1>5. \A k \in 1 .. n : Stop(s[k]) <= End
  BY DEF Ordered
<1>a. \A k \in 1 .. i - 1 : Stop(s[k]) < e.offset
  OBVIOUS
<1>b. \A k \in j .. n : Stop(e) < s[k].offset
  OBVIOUS
<1> HIDE DEF t, d, n
<1>6. \A k \in 1 .. Len(t) : \/ k < i /\ k \in 1 .. n /\ k \in 1 .. i - 1 /\ t[k] = s[k]
                             \/ k = i /\ t[k] = e
                             \/ k > i /\ k + d - 1 \in j .. n /\ k + d - 1 \in 1 .. n /\ t[k] = s[k + d - 1]
  BY SMTT(30), <1>1, <1>2, <1>3
<1>7. \A k \in 1 .. Len(t) : Stop(t[k]) <= End
  BY <1>5, <1>6
<1>8. ASSUME NEW k \in 1 .. Len(t), NEW m \in 1 .. Len(t), k < m PROVE Stop(t[k]) < t[m].offset
  <2>1. CASE m < i
    BY <1>1, <1>3, <1>4, <1>6, <1>8, <2>1
  <2>2. CASE m = i
    BY <1>3, <1>6, <1>8, <1>a, <2>2
  <2>3. CASE m > i /\ k < i
    <3>1. k \in 1 .. n /\ m + d - 1 \in 1 .. n /\ t[k] = s[k] /\ t[m] = s[m + d - 1] /\ k < m + d - 1
      BY <1>1, <1>3, <1>6, <1>8, <2>3
    <3> QED BY <1>4, <3>1
  <2>4. CASE m > i /\ k = i
    BY <1>3, <1>6, <1>8, <1>b, <2>4
  <2>5. CASE m > i /\ k > i
    <3>1. k + d - 1 \in 1 .. n /\ m + d - 1 \in 1 .. n /\ t[k] = s[k + d - 1] /\ t[m] = s[m + d - 1]
          /\ k + d - 1 < m + d - 1
      BY <1>1, <1>3, <1>6, <1>8, <2>5
    <3> QED BY <1>4, <3>1
  <2> QED BY <1>3, <2>1, <2>2, <2>3, <2>4, <2>5
<1>9. Ordered(t)
  BY <1>2, <1>7, <1>8 DEF Ordered
<1>10. ASSUME NEW x
       PROVE  Covers(t, x) <=> \/ In(x, e.offset, e.size)
                               \/ \E k \in 1 .. i - 1 : In(x, s[k].offset, s[k].size)
                               \/ \E k \in j .. n : In(x, s[k].offset, s[k].size)
  <2>1. ASSUME NEW k \in 1 .. Len(t), In(x, t[k].offset, t[k].size)
        PROVE  \/ In(x, e.offset, e.size)
               \/ \E m \in 1 .. i - 1 : In(x, s[m].offset, s[m].size)
               \/ \E m \in j .. n : In(x, s[m].offset, s[m].size)
    BY <1>6, <2>1
  <2>2. ASSUME In(x, e.offset, e.size) PROVE Covers(t, x)
    <3>1. i \in 1 .. Len(t) /\ t[i] = e
      BY <1>1, <1>2, <1>3
    <3> QED BY <2>2, <3>1 DEF Covers
  <2>3. ASSUME NEW k \in 1 .. i - 1, In(x, s[k].offset, s[k].size) PROVE Covers(t, x)
    <3>1. k \in 1 .. Len(t) /\ t[k] = s[k]
      BY <1>1, <1>2, <1>3
    <3> QED BY <2>3, <3>1 DEF Covers
  <2>4. ASSUME NEW k \in j .. n, In(x, s[k].offset, s[k].size) PROVE Covers(t, x)
    <3>1. k - d + 1 \in 1 .. Len(t) /\ k - d + 1 > i /\ (k - d + 1) + d - 1 = k
      BY <1>1, <1>2, <1>3
    <3>2. t[k - d + 1] = s[k]
      <4>1. t[k - d + 1] = s[(k - d + 1) + d - 1]
        BY <1>3, <1>6, <3>1
      <4> QED BY <3>1, <4>1
    <3> QED BY <2>4, <3>1, <3>2 DEF Covers
  <2> QED BY <2>1, <2>2, <2>3, <2>4 DEF Covers
<1> QED BY <1>9, <1>10 DEF t, n

(* A block taken from the front of an entry: the entry shrinks or goes.    *)
LEMMA ShrinkProps ==
    ASSUME NEW s, Ordered(s), NEW i \in 1 .. Len(s), NEW n \in Nat, n <= s[i].size
    PROVE  LET t == [s EXCEPT ![i] = Taken(s[i], n)]
           IN  /\ Ordered(t) /\ Len(t) = Len(s)
               /\ \A k \in 1 .. Len(s) : t[k] = IF k = i THEN Taken(s[i], n) ELSE s[k]
               /\ t[i].offset = s[i].offset + n /\ t[i].size = s[i].size - n /\ Stop(t[i]) = Stop(s[i])
               /\ \A x \in Nat : Covers(t, x) <=> Covers(s, x) /\ ~In(x, s[i].offset, n)
<1> DEFINE t == [s EXCEPT ![i] = Taken(s[i], n)]
<1>1. s \in Seq(Entries) /\ Len(s) \in Nat /\ \A k \in 1 .. Len(s) : s[k] \in Entries
  BY DEF Ordered
<1>2. \A k, m \in 1 .. Len(s) : k < m => Stop(s[k]) < s[m].offset
  BY DEF Ordered
<1>3. \A k \in 1 .. Len(s) : Stop(s[k]) <= End
  BY DEF Ordered
<1>4. /\ s[i].offset \in Nat /\ s[i].size \in Nat /\ Stop(s[i]) = s[i].offset + s[i].size
      /\ Start <= s[i].offset /\ s[i].offset <= End
  BY <1>1, EntryNumbers
<1>5. /\ Taken(s[i], n) \in Entries /\ Taken(s[i], n).offset = s[i].offset + n
      /\ Taken(s[i], n).size = s[i].size - n /\ Stop(Taken(s[i], n)) = Stop(s[i])
  <2>0. PICK o, z : o = s[i].offset /\ z = s[i].size
    OBVIOUS
  <2>a. o \in Nat /\ z \in Nat /\ n \in Nat /\ n <= z /\ Start <= o /\ Start \in Nat /\ Stop(s[i]) = o + z
    BY <1>4, <2>0, Numbers
  <2>b. o + n \in Nat /\ z - n \in Nat /\ Start <= o + n /\ (o + n) + (z - n) = o + z
    BY <2>a
  <2>1. s[i].offset + n \in Nat /\ s[i].size - n \in Nat /\ Start <= s[i].offset + n
        /\ (s[i].offset + n) + (s[i].size - n) = Stop(s[i])
    BY <2>0, <2>a, <2>b
  <2>2. (s[i].offset + n) + (s[i].size - n) <= End
    BY <1>3, <2>1
  <2> QED BY <2>1, <2>2, MakeEntry DEF Taken
<1>6. t \in Seq(Entries) /\ Len(t) = Len(s)
      /\ \A k \in 1 .. Len(s) : t[k] = IF k = i THEN Taken(s[i], n) ELSE s[k]
  BY <1>1, <1>5
<1> HIDE DEF t
<1>7. \A k, m \in 1 .. Len(t) : k < m => Stop(t[k]) < t[m].offset
  <2> SUFFICES ASSUME NEW k \in 1 .. Len(t), NEW m \in 1 .. Len(t), k < m
               PROVE  Stop(t[k]) < t[m].offset
    OBVIOUS
  <2>1. Stop(t[k]) = Stop(s[k]) /\ Stop(s[k]) < s[m].offset /\ Stop(s[k]) \in Nat /\ s[m].offset \in Nat
    BY <1>1, <1>2, <1>5, <1>6, EntryNumbers
  <2>2. t[m].offset \in Nat /\ s[m].offset <= t[m].offset
    BY SMTT(30), <1>1, <1>4, <1>5, <1>6, <2>1
  <2> QED BY <2>1, <2>2
<1>8. Ordered(t)
  BY <1>3, <1>5, <1>6, <1>7 DEF Ordered
<1>9. ASSUME NEW x \in Nat PROVE Covers(t, x) <=> Covers(s, x) /\ ~In(x, s[i].offset, n)
  <2>0. In(x, t[i].offset, t[i].size) <=> In(x, s[i].offset, s[i].size) /\ ~In(x, s[i].offset, n)
    BY SMTT(30), <1>4, <1>5, <1>6 DEF In
  <2>1. ASSUME NEW k \in 1 .. Len(s), k # i, In(x, s[k].offset, s[k].size)
        PROVE  ~In(x, s[i].offset, n)
    <3>1. s[k].offset \in Nat /\ s[k].size \in Nat /\ Stop(s[k]) = s[k].offset + s[k].size
      BY <1>1, EntryNumbers
    <3>2. Stop(s[k]) < s[i].offset \/ Stop(s[i]) < s[k].offset
      BY <1>2, <2>1
    <3> QED BY SMTT(30), <1>4, <2>1, <3>1, <3>2 DEF In
  <2>2. ASSUME Covers(t, x) PROVE Covers(s, x) /\ ~In(x, s[i].offset, n)
    <3>1. PICK k \in 1 .. Len(s) : In(x, t[k].offset, t[k].size)
      BY <1>6, <2>2 DEF Covers
    <3>2. CASE k = i
      BY <2>0, <3>1, <3>2 DEF Covers
    <3>3. CASE k # i
      <4>1. In(x, s[k].offset, s[k].size)
        BY <1>6, <3>1, <3>3
      <4> QED BY <2>1, <3>3, <4>1 DEF Covers
    <3> QED BY <3>2, <3>3
  <2>3. ASSUME Covers(s, x), ~In(x, s[i].offset, n) PROVE Covers(t, x)
    <3>1. PICK k \in 1 .. Len(s) : In(x, s[k].offset, s[k].size)
      BY <2>3 DEF Covers
    <3>2. In(x, t[k].offset, t[k].size)
      BY <1>6, <2>0, <2>3, <3>1
    <3> QED BY <1>6, <3>2 DEF Covers
  <2> QED BY <2>2, <2>3
<1> QED BY <1>4, <1>5, <1>6, <1>8, <1>9 DEF t

LEMMA RemovedShape ==
    ASSUME NEW S, NEW s \in Seq(S), NEW i \in 1 .. Len(s)
    PROVE  /\ Removed(s, i) \in Seq(S) /\ Len(Removed(s, i)) = Len(s) - 1
           /\ \A k \in 1 .. Len(s) - 1 : Removed(s, i)[k] = IF k < i THEN s[k] ELSE s[k + 1]
<1> DEFINE f == SubSeq(s, 1, i - 1)
           r == SubSeq(s, i + 1, Len(s))
           t == f \o r
<1>1. Len(s) \in Nat
  OBVIOUS
<1>2. f \in Seq(S) /\ Len(f) = i - 1 /\ \A k \in 1 .. i - 1 : f[k] = s[k]
  BY <1>1
<1>3. r \in Seq(S) /\ Len(r) = Len(s) - i /\ \A k \in 1 .. Len(s) - i : r[k] = s[k + i]
  BY <1>1
<1> HIDE DEF f, r
<1>4. f \in Seq(S) /\ r \in Seq(S) /\ Len(f) = i - 1 /\ Len(r) = Len(s) - i
  BY <1>2, <1>3
<1>5. t \in Seq(S) /\ Len(t) = Len(f) + Len(r)
  BY <1>4
<1>6. Len(f) + Len(r) = Len(s) - 1
  BY <1>1, <1>4
<1>7. ASSUME NEW k \in 1 .. Len(s) - 1
      PROVE  t[k] = IF k < i THEN s[k] ELSE s[k + 1]
  <2>1. CASE k < i
    <3>1. t[k] = f[k]
      BY <1>1, <1>4, <2>1
    <3> QED BY <1>1, <1>2, <2>1, <3>1
  <2>2. CASE ~(k < i)
    <3>1. t[k] = r[k - (i - 1)]
      BY <1>1, <1>4, <2>2
    <3>2. k - (i - 1) \in 1 .. Len(s) - i /\ (k - (i - 1)) + i = k + 1
      BY <1>1, <2>2
    <3>3. r[k - (i - 1)] = s[(k - (i - 1)) + i]
      BY <1>3, <3>2
    <3> QED BY <2>2, <3>1, <3>2, <3>3
  <2> QED BY <2>1, <2>2
<1>8. Removed(s, i) = t
  BY DEF Removed, f, r
<1> HIDE DEF t
<1> QED BY <1>5, <1>6, <1>7, <1>8

LEMMA RemoveProps ==
    ASSUME NEW s, Ordered(s), NEW i \in 1 .. Len(s)
    PROVE  LET t == Removed(s, i)
           IN  /\ Ordered(t) /\ Len(t) = Len(s) - 1
               /\ \A k \in 1 .. Len(s) - 1 : t[k] = IF k < i THEN s[k] ELSE s[k + 1]
               /\ \A x \in Nat : Covers(t, x) <=> Covers(s, x) /\ ~In(x, s[i].offset, s[i].size)
<1> DEFINE t == Removed(s, i)
<1>1. s \in Seq(Entries) /\ Len(s) \in Nat /\ \A k \in 1 .. Len(s) : s[k] \in Entries
  BY DEF Ordered
<1>2. \A k, m \in 1 .. Len(s) : k < m => Stop(s[k]) < s[m].offset
  BY DEF Ordered
<1>3. \A k \in 1 .. Len(s) : Stop(s[k]) <= End
  BY DEF Ordered
<1>4. t \in Seq(Entries) /\ Len(t) = Len(s) - 1
      /\ \A k \in 1 .. Len(s) - 1 : t[k] = IF k < i THEN s[k] ELSE s[k + 1]
  BY <1>1, RemovedShape
<1> HIDE DEF t
<1>5. \A k \in 1 .. Len(t) : \/ k < i /\ k \in 1 .. Len(s) /\ t[k] = s[k]
                             \/ k >= i /\ k + 1 \in 1 .. Len(s) /\ t[k] = s[k + 1]
  BY <1>1, <1>4
<1>6. ASSUME NEW k \in 1 .. Len(t), NEW m \in 1 .. Len(t), k < m
      PROVE  Stop(t[k]) < t[m].offset
  <2>1. CASE m < i
    <3>1. k \in 1 .. Len(s) /\ m \in 1 .. Len(s) /\ t[k] = s[k] /\ t[m] = s[m]
      BY <1>1, <1>4, <1>5, <1>6, <2>1
    <3> QED BY <1>2, <1>6, <3>1
  <2>2. CASE m >= i /\ k < i
    <3>1. k \in 1 .. Len(s) /\ m + 1 \in 1 .. Len(s) /\ k < m + 1 /\ t[k] = s[k] /\ t[m] = s[m + 1]
      BY <1>1, <1>4, <1>5, <1>6, <2>2
    <3> QED BY <1>2, <3>1
  <2>3. CASE m >= i /\ k >= i
    <3>1. k + 1 \in 1 .. Len(s) /\ m + 1 \in 1 .. Len(s) /\ k + 1 < m + 1 /\ t[k] = s[k + 1] /\ t[m] = s[m + 1]
      BY <1>1, <1>4, <1>5, <1>6, <2>3
    <3> QED BY <1>2, <3>1
  <2> QED BY <1>1, <1>4, <2>1, <2>2, <2>3
<1>7. \A k \in 1 .. Len(t) : Stop(t[k]) <= End
  BY <1>3, <1>5
<1>8. Ordered(t)
  BY <1>4, <1>6, <1>7 DEF Ordered
<1>9. ASSUME NEW x \in Nat PROVE Covers(t, x) <=> Covers(s, x) /\ ~In(x, s[i].offset, s[i].size)
  <2>1. ASSUME NEW k \in 1 .. Len(s), k # i, In(x, s[k].offset, s[k].size)
        PROVE  ~In(x, s[i].offset, s[i].size)
    <3>1. /\ s[k].offset \in Nat /\ s[k].size \in Nat /\ Stop(s[k]) = s[k].offset + s[k].size
          /\ s[i].offset \in Nat /\ s[i].size \in Nat /\ Stop(s[i]) = s[i].offset + s[i].size
      BY <1>1, EntryNumbers
    <3>2. Stop(s[k]) < s[i].offset \/ Stop(s[i]) < s[k].offset
      BY <1>2, <2>1
    <3> QED BY <2>1, <3>1, <3>2 DEF In
  <2>2. ASSUME Covers(t, x) PROVE Covers(s, x) /\ ~In(x, s[i].offset, s[i].size)
    <3>1. PICK k \in 1 .. Len(t) : In(x, t[k].offset, t[k].size)
      BY <2>2 DEF Covers
    <3>2. PICK m \in 1 .. Len(s) : m # i /\ t[k] = s[m]
      BY <1>1, <1>5
    <3>3. In(x, s[m].offset, s[m].size)
      BY <3>1, <3>2
    <3> QED BY <2>1, <3>2, <3>3 DEF Covers
  <2>3. ASSUME Covers(s, x), ~In(x, s[i].offset, s[i].size) PROVE Covers(t, x)
    <3>1. PICK k \in 1 .. Len(s) : In(x, s[k].offset, s[k].size)
      BY <2>3 DEF Covers
    <3>2. k # i
      BY <2>3, <3>1
    <3>3. CASE k < i
      <4>1. k \in 1 .. Len(t) /\ t[k] = s[k]
        BY <1>1, <1>4, <3>3
      <4> QED BY <3>1, <4>1 DEF Covers
    <3>4. CASE k > i
      <4>1. k - 1 \in 1 .. Len(t) /\ (k - 1) + 1 = k /\ ~(k - 1 < i)
        BY <1>1, <1>4, <3>4
      <4>2. t[k - 1] = s[k]
        BY <1>4, <4>1
      <4> QED BY <3>1, <4>1, <4>2 DEF Covers
    <3> QED BY <3>2, <3>3, <3>4
  <2> QED BY <2>2, <2>3
<1> QED BY <1>4, <1>8, <1>9 DEF t

(* A free place of the range lies in one entry of the list: the entries    *)
(* do not touch.                                                           *)
LEMMA OneEntry ==
    ASSUME NEW s, Ordered(s), NEW o \in Nat, NEW n \in Nat, n >= 1,
           \A x \in Nat : In(x, o, n) => Covers(s, x)
    PROVE  \E j \in 1 .. Len(s) : s[j].offset <= o /\ o + n <= Stop(s[j])
<1>1. \A k \in 1 .. Len(s) : /\ s[k].offset \in Nat /\ s[k].size \in Nat
                             /\ Stop(s[k]) = s[k].offset + s[k].size /\ Stop(s[k]) \in Nat
  BY EntryNumbers DEF Ordered
<1>2. \A k, m \in 1 .. Len(s) : k < m => Stop(s[k]) < s[m].offset
  BY DEF Ordered
<1>3. In(o, o, n)
  BY DEF In
<1>4. PICK j \in 1 .. Len(s) : In(o, s[j].offset, s[j].size)
  BY <1>3 DEF Covers
<1>5. s[j].offset <= o /\ o < Stop(s[j])
  BY <1>1, <1>4 DEF In
<1>6. ASSUME Stop(s[j]) < o + n PROVE FALSE
  <2>1. In(Stop(s[j]), o, n) /\ Stop(s[j]) \in Nat
    BY <1>1, <1>5, <1>6 DEF In
  <2>2. PICK k \in 1 .. Len(s) : In(Stop(s[j]), s[k].offset, s[k].size)
    BY <2>1 DEF Covers
  <2>3. s[k].offset <= Stop(s[j]) /\ Stop(s[j]) < Stop(s[k])
    BY <1>1, <2>2 DEF In
  <2>4. k # j
    BY <1>1, <2>3
  <2>5. CASE j < k
    BY <1>1, <1>2, <2>3, <2>5
  <2>6. CASE k < j
    <3>1. Stop(s[k]) < s[j].offset
      BY <1>2, <2>6
    <3> QED BY <1>1, <1>5, <2>3, <3>1
  <2> QED BY <2>4, <2>5, <2>6
<1> QED BY <1>1, <1>5, <1>6

----------------------------------------------------------------------------
(* A set of blocks inside the range.                                       *)
Good(H) == H \subseteq Held /\ \A c \in H : c.offset + c.size <= End

(* No entry of an exact list meets a block that is handed out.             *)
LEMMA EntryApart ==
    ASSUME NEW s, Ordered(s), NEW H, Good(H), Exact(s, H),
           NEW c \in H, NEW k \in 1 .. Len(s), s[k].size > 0 \/ s[k].offset = End
    PROVE  Stop(s[k]) <= Pos(c) \/ Pos(c) + c.size <= s[k].offset
<1>1. /\ s[k].offset \in Nat /\ s[k].size \in Nat /\ Stop(s[k]) = s[k].offset + s[k].size
      /\ Start <= s[k].offset /\ Stop(s[k]) <= End
  BY EntryNumbers DEF Ordered
<1>2. Pos(c) \in Nat /\ c.size \in Nat /\ c.size >= 1 /\ Start <= Pos(c) /\ Pos(c) + c.size <= End
  BY HeldNumbers DEF Good
<1>3. CASE s[k].offset = End
  BY <1>2, <1>3
<1>4. CASE s[k].size > 0
  <2> SUFFICES ASSUME Pos(c) < Stop(s[k]), s[k].offset < Pos(c) + c.size PROVE FALSE
    BY <1>1, <1>2
  <2>1. PICK x : x = IF Pos(c) < s[k].offset THEN s[k].offset ELSE Pos(c)
    OBVIOUS
  <2>2. x \in Nat /\ Start <= x /\ x < End /\ In(x, s[k].offset, s[k].size) /\ In(x, Pos(c), c.size)
    <3>1. PICK o, z, p, n : o = s[k].offset /\ z = s[k].size /\ p = Pos(c) /\ n = c.size
      OBVIOUS
    <3>2. o \in Nat /\ z \in Nat /\ p \in Nat /\ n \in Nat /\ z > 0 /\ n >= 1
      BY <1>1, <1>2, <1>4, <3>1
    <3>3. Start <= o /\ o + z <= End /\ Start <= p /\ p + n <= End /\ p < o + z /\ o < p + n
      BY <1>1, <1>2, <3>1
    <3>4. x = IF p < o THEN o ELSE p
      BY <2>1, <3>1
    <3>5. x \in Nat /\ Start <= x /\ x < End /\ In(x, o, z) /\ In(x, p, n)
      BY <3>2, <3>3, <3>4, Numbers DEF In
    <3> QED BY <3>1, <3>5
  <2>3. x \in Range
    BY <2>2, Numbers
  <2>4. Covers(s, x)
    BY <2>2 DEF Covers
  <2> QED BY <2>2, <2>3, <2>4 DEF Exact
<1> QED BY <1>3, <1>4

(* A place that meets no block is covered.                                 *)
LEMMA FreeCovered ==
    ASSUME NEW s, Ordered(s), NEW H, Good(H), Exact(s, H), NEW o \in Nat, NEW n \in Nat, n >= 1,
           Start <= o, o + n <= End,
           \A c \in H : o + n <= Pos(c) \/ Pos(c) + c.size <= o
    PROVE  \E j \in 1 .. Len(s) : s[j].offset <= o /\ o + n <= Stop(s[j])
<1>1. ASSUME NEW x \in Nat, In(x, o, n) PROVE Covers(s, x)
  <2>1. o <= x /\ x < o + n
    BY <1>1 DEF In
  <2>2. x \in Range
    BY <2>1, Numbers
  <2>3. ASSUME NEW c \in H PROVE ~In(x, Pos(c), c.size)
    <3>1. Pos(c) \in Nat /\ c.size \in Nat
      BY HeldNumbers DEF Good
    <3> QED BY <2>1, <3>1 DEF In
  <2> QED BY <2>2, <2>3 DEF Exact
<1> QED BY <1>1, OneEntry

(* The list stays exact when a block is taken or given back.               *)
LEMMA ExactAdd ==
    ASSUME NEW s, NEW t, NEW H, NEW b, Exact(s, H),
           \A x \in Nat : Covers(t, x) <=> Covers(s, x) /\ ~In(x, Pos(b), b.size)
    PROVE  Exact(t, H \cup {b})
<1>1. \A x \in Range : x \in Nat
  BY Numbers
<1> QED BY <1>1 DEF Exact

LEMMA ExactDrop ==
    ASSUME NEW s, NEW t, NEW H, Good(H), Disjoint(H), NEW b \in H, Exact(s, H),
           \A x \in Nat : Covers(t, x) <=> Covers(s, x) \/ In(x, Pos(b), b.size)
    PROVE  Exact(t, H \ {b})
<1> SUFFICES ASSUME NEW x \in Range
             PROVE  Covers(t, x) <=> \A c \in H \ {b} : ~In(x, Pos(c), c.size)
  BY DEF Exact
<1>1. x \in Nat
  BY Numbers
<1>2. Covers(s, x) <=> \A c \in H : ~In(x, Pos(c), c.size)
  BY DEF Exact
<1>3. ASSUME NEW c \in H \ {b}, In(x, Pos(b), b.size) PROVE ~In(x, Pos(c), c.size)
  <2>1. Pos(c) \in Nat /\ c.size \in Nat /\ Pos(b) \in Nat /\ b.size \in Nat
    BY HeldNumbers DEF Good
  <2>2. Pos(b) + b.size <= Pos(c) \/ Pos(c) + c.size <= Pos(b)
    BY DEF Disjoint
  <2> QED BY <1>1, <1>3, <2>1, <2>2 DEF In
<1> QED BY <1>1, <1>2, <1>3

----------------------------------------------------------------------------
(* A request at a list: the entry it is taken from shrinks or goes; the    *)
(* block met no other.                                                     *)
LEMMA ListTake ==
    ASSUME NEW s, Ordered(s), NEW H, Good(H), Disjoint(H), Exact(s, H),
           NEW i \in 1 .. Len(s),
           NEW b \in Held, b.offset + b.size <= End, Pos(b) = s[i].offset, b.size <= s[i].size,
           NEW t, \/ t = Removed(s, i) /\ s[i].size = b.size
                  \/ t = [s EXCEPT ![i] = Taken(s[i], b.size)]
    PROVE  /\ Ordered(t) /\ Good(H \cup {b}) /\ Disjoint(H \cup {b}) /\ Exact(t, H \cup {b})
           /\ \A c \in H : Pos(b) + b.size <= Pos(c) \/ Pos(c) + c.size <= Pos(b)
<1>1. /\ s[i].offset \in Nat /\ s[i].size \in Nat /\ Stop(s[i]) = s[i].offset + s[i].size
  BY EntryNumbers DEF Ordered
<1>0. b.size \in Nat /\ b.size >= 1
  BY HeldNumbers
<1>2. ASSUME NEW c \in H PROVE Pos(b) + b.size <= Pos(c) \/ Pos(c) + c.size <= Pos(b)
  <2>1. Pos(c) \in Nat /\ c.size \in Nat
    BY HeldNumbers DEF Good
  <2>2. Stop(s[i]) <= Pos(c) \/ Pos(c) + c.size <= s[i].offset
    <3>1. s[i].size > 0
      BY <1>0, <1>1
    <3> QED BY <3>1, EntryApart
  <2> QED BY <1>0, <1>1, <2>1, <2>2
<1>3. Good(H \cup {b})
  BY DEF Good
<1>4. Disjoint(H \cup {b})
  BY <1>2 DEF Disjoint
<1>5. Ordered(t) /\ \A x \in Nat : Covers(t, x) <=> Covers(s, x) /\ ~In(x, s[i].offset, b.size)
  <2>1. CASE t = Removed(s, i) /\ s[i].size = b.size
    BY <2>1, RemoveProps
  <2>2. CASE t = [s EXCEPT ![i] = Taken(s[i], b.size)]
    BY <1>0, <2>2, ShrinkProps
  <2> QED BY <2>1, <2>2
<1>6. Exact(t, H \cup {b})
  BY <1>5, ExactAdd
<1> QED BY <1>2, <1>3, <1>4, <1>5, <1>6

(* A block given back to a list, joined with the entries i .. j - 1.       *)
LEMMA ListGive ==
    ASSUME NEW s, Ordered(s), NEW H, Good(H), Disjoint(H), Exact(s, H), NEW b \in H,
           NEW i \in 1 .. Len(s) + 1, NEW j \in i .. Len(s) + 1,
           NEW e \in Entries, Stop(e) <= End,
           \A k \in 1 .. i - 1 : Stop(s[k]) < e.offset,
           \A k \in j .. Len(s) : Stop(e) < s[k].offset,
           \A x \in Nat : In(x, e.offset, e.size) <=>
               In(x, Pos(b), b.size) \/ \E k \in i .. j - 1 : In(x, s[k].offset, s[k].size)
    PROVE  /\ Ordered(Splice(s, i, e, j)) /\ Good(H \ {b}) /\ Disjoint(H \ {b})
           /\ Exact(Splice(s, i, e, j), H \ {b})
<1>0. Len(s) \in Nat
  BY DEF Ordered
<1>1. Good(H \ {b}) /\ Disjoint(H \ {b})
  BY DEF Good, Disjoint
<1> DEFINE t == Splice(s, i, e, j)
<1>2. /\ Ordered(t)
      /\ \A x : Covers(t, x) <=>
                 \/ In(x, e.offset, e.size)
                 \/ \E k \in 1 .. i - 1 : In(x, s[k].offset, s[k].size)
                 \/ \E k \in j .. Len(s) : In(x, s[k].offset, s[k].size)
  BY SpliceProps
<1> HIDE DEF t
<1>3. \A k \in 1 .. Len(s) : k \in 1 .. i - 1 \/ k \in i .. j - 1 \/ k \in j .. Len(s)
  BY <1>0
<1>4. /\ \A k \in 1 .. i - 1 : k \in 1 .. Len(s)
      /\ \A k \in i .. j - 1 : k \in 1 .. Len(s)
      /\ \A k \in j .. Len(s) : k \in 1 .. Len(s)
  BY <1>0
<1>5. ASSUME NEW x \in Nat PROVE Covers(t, x) <=> Covers(s, x) \/ In(x, Pos(b), b.size)
  <2>1. Covers(s, x) <=> \/ \E k \in 1 .. i - 1 : In(x, s[k].offset, s[k].size)
                         \/ \E k \in i .. j - 1 : In(x, s[k].offset, s[k].size)
                         \/ \E k \in j .. Len(s) : In(x, s[k].offset, s[k].size)
    BY <1>3, <1>4 DEF Covers
  <2> QED BY <1>2, <2>1
<1>6. Exact(t, H \ {b})
  BY <1>5, ExactDrop
<1> QED BY <1>1, <1>2, <1>6 DEF t

(* Nothing behind the last entry: a splice is an append.                   *)
LEMMA AppendSplice ==
    ASSUME NEW S, NEW s \in Seq(S), NEW e \in S
    PROVE  Append(s, e) = Splice(s, Len(s) + 1, e, Len(s) + 1)
<1>1. PICK L : L = Len(s) /\ L \in Nat
  OBVIOUS
<1>2. PICK f : f = Front(s, L + 1)
  OBVIOUS
<1>3. f = s
  <2>1. (L + 1) - 1 = L
    BY <1>1
  <2>2. f = SubSeq(s, 1, L)
    BY <1>2, <2>1 DEF Front
  <2>3. f \in Seq(S) /\ Len(f) = L /\ \A k \in 1 .. L : f[k] = s[k]
    BY <1>1, <2>2
  <2>4. f = [k \in 1 .. L |-> f[k]] /\ s = [k \in 1 .. L |-> s[k]]
    BY <1>1, <2>3
  <2> QED BY <2>3, <2>4
<1>4. PICK r : r = Rest(s, L + 1)
  OBVIOUS
<1>5. r = <<>>
  BY <1>1, <1>4 DEF Rest
<1>6. Splice(s, L + 1, e, L + 1) = s \o <<e>> \o <<>>
  BY <1>2, <1>3, <1>4, <1>5 DEF Splice
<1>7. PICK a, b : a = s \o <<e>> \o <<>> /\ b = Append(s, e)
  OBVIOUS
<1>8. /\ a \in Seq(S) /\ Len(a) = L + 1
      /\ \A k \in 1 .. L + 1 : a[k] = IF k <= L THEN s[k] ELSE e
  BY <1>1, <1>7
<1>9. /\ b \in Seq(S) /\ Len(b) = L + 1
      /\ \A k \in 1 .. L + 1 : b[k] = IF k <= L THEN s[k] ELSE e
  BY <1>1, <1>7
<1>10. a = [k \in 1 .. L + 1 |-> a[k]] /\ b = [k \in 1 .. L + 1 |-> b[k]]
  BY <1>8, <1>9
<1>11. a = b
  BY <1>8, <1>9, <1>10
<1> QED BY <1>1, <1>6, <1>7, <1>11

----------------------------------------------------------------------------
(* The numbers of a state.                                                 *)
LEMMA StateNumbers ==
    ASSUME IInv
    PROVE  /\ Good(Of("pre")) /\ Good(Of("rev"))
           /\ max_pre \in Nat /\ min_rev \in Nat
           /\ \A c \in held : /\ c \in Held /\ c.offset \in Nat /\ c.size \in Nat /\ c.size >= 1
                              /\ c.dir \in {"pre", "rev"} /\ c.offset + c.size <= End
                              /\ Pos(c) \in Nat
                              /\ c.dir = "pre" => Pos(c) = c.offset
                              /\ c.dir = "rev" => Pos(c) = End - c.offset - c.size + Start
<1>1. held \subseteq Held /\ \A c \in held : c.offset + c.size <= End
  BY DEF IInv, TypeOK, HeldInv
<1>2. Good(Of("pre")) /\ Good(Of("rev"))
  BY <1>1 DEF Good, Of
<1>3. max_pre \in Nat /\ min_rev \in Nat
  BY Numbers DEF IInv, TypeOK
<1> QED BY <1>1, <1>2, <1>3, HeldNumbers

LEMMA AllocStep ==
    ASSUME IInv, NEW n \in Sizes, AllocOffset(n)
    PROVE  IInv'
<1>1. PICK i \in 1 .. Len(pre) :
        /\ Fits(pre[i], n)
        /\ pre' = IF pre[i].size = n THEN Removed(pre, i) ELSE [pre EXCEPT ![i] = Taken(@, n)]
        /\ max_pre' = Larger(max_pre, pre[i].offset + n)
        /\ held' = held \cup {[offset |-> pre[i].offset, size |-> n, dir |-> "pre"]}
        /\ rev' = rev /\ min_rev' = min_rev /\ is_reserve' = is_reserve
  BY DEF AllocOffset, First
<1>2. PICK b : b = [offset |-> pre[i].offset, size |-> n, dir |-> "pre"]
  OBVIOUS
<1>3. n \in Nat /\ n >= 1
  BY Numbers
<1>4. /\ Ordered(pre) /\ Exact(pre, Of("pre")) /\ Disjoint(Of("pre")) /\ Disjoint(Of("rev"))
      /\ \A k \in 1 .. Len(pre) : pre[k].size > 0
  BY DEF IInv, PreInv, HeldInv
<1>5. /\ pre[i].offset \in Nat /\ pre[i].size \in Nat /\ Start <= pre[i].offset
      /\ Stop(pre[i]) = pre[i].offset + pre[i].size /\ Stop(pre[i]) <= End
  BY <1>4, EntryNumbers DEF Ordered
<1>6. n <= pre[i].size /\ pre[i].offset + n <= min_rev /\ pre[i].offset + n <= End
  BY SMTT(30), <1>1, <1>3, <1>5, StateNumbers, Numbers DEF Fits
<1>7. b.offset = pre[i].offset /\ b.size = n /\ b.dir = "pre" /\ Pos(b) = pre[i].offset
  BY <1>2 DEF Pos
<1>8. b \in Held /\ b.offset + b.size <= End
  <2>1. pre[i].offset \in Range
    BY <1>3, <1>5, <1>6, Numbers
  <2> QED BY <1>2, <1>6, <1>7, <2>1 DEF Held
<1>9. \/ pre' = Removed(pre, i) /\ pre[i].size = n
      \/ pre' = [pre EXCEPT ![i] = Taken(pre[i], n)] /\ pre[i].size # n
  BY <1>1
<1>10. /\ Ordered(pre') /\ Disjoint(Of("pre") \cup {b}) /\ Exact(pre', Of("pre") \cup {b})
  <2>1. PICK s, H, t : s = pre /\ H = Of("pre") /\ t = pre'
    OBVIOUS
  <2>2. /\ Ordered(s) /\ Good(H) /\ Disjoint(H) /\ Exact(s, H) /\ i \in 1 .. Len(s)
        /\ b.size <= s[i].size /\ Pos(b) = s[i].offset
        /\ \/ t = Removed(s, i) /\ s[i].size = b.size
           \/ t = [s EXCEPT ![i] = Taken(s[i], b.size)]
    BY <1>4, <1>6, <1>7, <1>9, <2>1, StateNumbers
  <2>3. Ordered(t) /\ Disjoint(H \cup {b}) /\ Exact(t, H \cup {b})
    BY <1>8, <2>2, ListTake
  <2> QED BY <2>1, <2>3
<1>11. Of("pre")' = Of("pre") \cup {b} /\ Of("rev")' = Of("rev") /\ held' = held \cup {b}
  BY <1>1, <1>2, <1>7 DEF Of
<1>12. \A k \in 1 .. Len(pre') : pre'[k].size > 0
  <2>1. CASE pre' = Removed(pre, i) /\ pre[i].size = n
    <3>1. Len(pre') = Len(pre) - 1 /\ \A k \in 1 .. Len(pre) - 1 : pre'[k] = IF k < i THEN pre[k] ELSE pre[k + 1]
      BY <1>4, <2>1, RemoveProps
    <3>2. Len(pre) \in Nat
      BY <1>4 DEF Ordered
    <3> QED BY <1>4, <3>1, <3>2
  <2>2. CASE pre' = [pre EXCEPT ![i] = Taken(pre[i], n)] /\ pre[i].size # n
    <3>1. /\ Len(pre') = Len(pre) /\ pre'[i].size = pre[i].size - n
          /\ \A k \in 1 .. Len(pre) : pre'[k] = IF k = i THEN Taken(pre[i], n) ELSE pre[k]
      BY <1>3, <1>4, <1>6, <2>2, ShrinkProps
    <3> QED BY <1>3, <1>4, <1>5, <1>6, <2>2, <3>1
  <2> QED BY <1>9, <2>1, <2>2
<1>13. max_pre <= max_pre' /\ pre[i].offset + n <= max_pre' /\ max_pre' <= min_rev /\ max_pre' \in Start .. End
  <2>1. max_pre <= min_rev /\ max_pre \in Start .. End /\ pre[i].offset + n \in Start .. End
    BY SMTT(30), <1>3, <1>5, <1>6, Numbers DEF IInv, MarkInv, TypeOK
  <2> QED BY <1>1, <1>3, <1>5, <1>6, <2>1, StateNumbers DEF Larger
<1>14. TypeOK'
  BY <1>1, <1>8, <1>10, <1>11, <1>13 DEF IInv, TypeOK, Ordered
<1>15. HeldInv'
  BY <1>4, <1>8, <1>10, <1>11 DEF IInv, HeldInv
<1>16. PreInv'
  BY <1>10, <1>11, <1>12 DEF PreInv
<1>17. RevInv'
  BY <1>1, <1>11 DEF IInv, RevInv
<1>18. MarkInv'
  <2>1. ASSUME NEW c \in held PROVE IF c.dir = "pre" THEN c.offset + c.size <= max_pre' ELSE c.offset >= min_rev
    <3>1. IF c.dir = "pre" THEN c.offset + c.size <= max_pre ELSE c.offset >= min_rev
      BY DEF IInv, MarkInv
    <3>2. max_pre' \in Nat /\ max_pre \in Nat /\ c.offset \in Nat /\ c.size \in Nat
      BY <1>13, StateNumbers, Numbers
    <3> QED BY <1>13, <3>1, <3>2
  <2> QED BY <1>1, <1>7, <1>11, <1>13, <2>1 DEF MarkInv
<1> QED BY <1>14, <1>15, <1>16, <1>17, <1>18 DEF IInv

LEMMA ReverseAllocStep ==
    ASSUME IInv, NEW n \in Sizes, ReverseAllocOffset(n)
    PROVE  IInv'
<1>1. PICK i \in 1 .. Len(rev) :
        /\ RevFits(rev[i], n)
        /\ rev' = RevTaken(i, n)
        /\ min_rev' = Smaller(min_rev, Mirrored(rev[i].offset, n))
        /\ held' = held \cup {[offset |-> Mirrored(rev[i].offset, n), size |-> n, dir |-> "rev"]}
        /\ pre' = pre /\ max_pre' = max_pre /\ is_reserve' = is_reserve
  BY DEF ReverseAllocOffset, First
<1>2. PICK o, b : o = Mirrored(rev[i].offset, n) /\ b = [offset |-> o, size |-> n, dir |-> "rev"]
  OBVIOUS
<1>3. n \in Nat /\ n >= 1
  BY Numbers
<1>4. /\ Ordered(rev) /\ Exact(rev, Of("rev")) /\ Disjoint(Of("pre")) /\ Disjoint(Of("rev"))
      /\ \A k \in 1 .. Len(rev) - 1 : rev[k].size > 0
      /\ Len(rev) \in Nat /\ Stop(rev[Len(rev)]) = End
      /\ ~is_reserve => rev[Len(rev)].offset = End + Start - min_rev
  BY DEF IInv, RevInv, HeldInv, Ordered
<1>5. /\ rev[i].offset \in Nat /\ rev[i].size \in Nat /\ Start <= rev[i].offset
      /\ Stop(rev[i]) = rev[i].offset + rev[i].size /\ Stop(rev[i]) <= End
  BY <1>4, EntryNumbers DEF Ordered
<1>6. n <= rev[i].size /\ max_pre <= o /\ rev[i].offset + n <= End
  BY SMTT(30), <1>1, <1>2, <1>3, <1>5, StateNumbers, Numbers DEF RevFits
<1>a. PICK p : p = rev[i].offset
  OBVIOUS
<1>b. /\ p \in Nat /\ n \in Nat /\ Start <= p /\ p + n <= End /\ o = Mirrored(p, n)
      /\ Start \in Nat /\ End \in Nat /\ n >= 1 /\ p + n <= Stop(rev[i]) /\ Stop(rev[i]) \in Nat
  BY <1>2, <1>3, <1>5, <1>6, <1>a, Numbers
<1>7. /\ o \in Nat /\ Start <= o /\ o + n <= End /\ o + p + n = End + Start /\ Mirrored(o, n) = p
  BY <1>b, MirrorNumbers
<1>c. p \in Nat /\ n \in Nat /\ n >= 1 /\ o \in Nat /\ Start \in Nat /\ End \in Nat /\ o + p + n = End + Start
  BY <1>7, <1>b
<1>8. b.offset = o /\ b.size = n /\ b.dir = "rev" /\ Pos(b) = rev[i].offset
  <2>1. b.offset = o /\ b.size = n /\ b.dir = "rev"
    BY <1>2
  <2>2. Pos(b) = Mirrored(o, n)
    BY <2>1 DEF Pos
  <2> QED BY <1>7, <1>a, <2>1, <2>2
<1>9. b \in Held /\ b.offset + b.size <= End
  <2>1. o \in Range
    BY <1>3, <1>7, Numbers
  <2> QED BY <1>2, <1>7, <1>8, <2>1 DEF Held
<1>10. \/ rev' = Removed(rev, i) /\ rev[i].size = n /\ i < Len(rev)
       \/ rev' = [rev EXCEPT ![i] = Taken(rev[i], n)] /\ ~(rev[i].size = n /\ i < Len(rev))
  BY <1>1 DEF RevTaken
<1>11. /\ Ordered(rev') /\ Disjoint(Of("rev") \cup {b}) /\ Exact(rev', Of("rev") \cup {b})
  <2>1. PICK s, H, t : s = rev /\ H = Of("rev") /\ t = rev'
    OBVIOUS
  <2>2. /\ Ordered(s) /\ Good(H) /\ Disjoint(H) /\ Exact(s, H) /\ i \in 1 .. Len(s)
        /\ b.size <= s[i].size /\ Pos(b) = s[i].offset
        /\ \/ t = Removed(s, i) /\ s[i].size = b.size
           \/ t = [s EXCEPT ![i] = Taken(s[i], b.size)]
    BY <1>4, <1>6, <1>8, <1>10, <2>1, StateNumbers
  <2>3. Ordered(t) /\ Disjoint(H \cup {b}) /\ Exact(t, H \cup {b})
    BY <1>9, <2>2, ListTake
  <2> QED BY <2>1, <2>3
<1>12. Of("rev")' = Of("rev") \cup {b} /\ Of("pre")' = Of("pre") /\ held' = held \cup {b}
  BY <1>1, <1>2, <1>8 DEF Of
<1>13. /\ min_rev' <= min_rev /\ min_rev' <= o /\ max_pre <= min_rev' /\ min_rev' \in Start .. End
       /\ min_rev' = Smaller(min_rev, o)
  <2>1. max_pre <= min_rev /\ min_rev \in Start .. End /\ o \in Start .. End
    BY <1>3, <1>7, Numbers DEF IInv, MarkInv, TypeOK
  <2> QED BY <1>1, <1>2, <1>6, <2>1, StateNumbers DEF Smaller
<1>14. /\ \A k \in 1 .. Len(rev') - 1 : rev'[k].size > 0
       /\ rev' # <<>> /\ Stop(rev'[Len(rev')]) = End
       /\ ~is_reserve => rev'[Len(rev')].offset = End + Start - min_rev'
  <2>1. CASE rev' = Removed(rev, i) /\ rev[i].size = n /\ i < Len(rev)
    <3>1. Len(rev') = Len(rev) - 1 /\ \A k \in 1 .. Len(rev) - 1 : rev'[k] = IF k < i THEN rev[k] ELSE rev[k + 1]
      BY <1>4, <2>1, RemoveProps
    <3>2. \A k \in 1 .. Len(rev') - 1 : rev'[k].size > 0
      BY <1>4, <3>1
    <3>3. Len(rev') \in 1 .. Len(rev) - 1 /\ ~(Len(rev') < i) /\ Len(rev') + 1 = Len(rev)
      BY <1>4, <2>1, <3>1
    <3>4. rev'[Len(rev')] = rev[Len(rev)]
      BY <3>1, <3>3
    <3>5. rev' # <<>>
      BY <1>4, <3>3
    <3>6. ASSUME ~is_reserve PROVE min_rev' = min_rev
      <4>1. Stop(rev[i]) < rev[Len(rev)].offset
        BY <1>4, <2>1 DEF Ordered
      <4>2. min_rev < o
        <5>1. PICK q : q = rev[Len(rev)].offset
          OBVIOUS
        <5>2. q = End + Start - min_rev /\ p + n < q /\ q \in Nat /\ min_rev \in Nat
          BY <1>4, <1>b, <3>6, <4>1, <5>1, StateNumbers, EntryNumbers DEF Ordered
        <5> QED BY SMTT(30), <1>7, <1>b, <5>2
      <4> QED BY <1>7, <1>13, <4>2, StateNumbers DEF Smaller
    <3> QED BY <1>4, <3>2, <3>4, <3>5, <3>6
  <2>2. CASE rev' = [rev EXCEPT ![i] = Taken(rev[i], n)] /\ ~(rev[i].size = n /\ i < Len(rev))
    <3>1. /\ Len(rev') = Len(rev) /\ rev'[i].size = rev[i].size - n /\ rev'[i].offset = rev[i].offset + n
          /\ Stop(rev'[i]) = Stop(rev[i])
          /\ \A k \in 1 .. Len(rev) : rev'[k] = IF k = i THEN Taken(rev[i], n) ELSE rev[k]
      BY <1>3, <1>4, <1>6, <2>2, ShrinkProps
    <3>2. ASSUME NEW k \in 1 .. Len(rev') - 1 PROVE rev'[k].size > 0
      <4>1. CASE k = i
        BY <1>3, <1>4, <1>5, <1>6, <2>2, <3>1, <4>1
      <4>2. CASE k # i
        BY <1>4, <3>1, <4>2
      <4> QED BY <4>1, <4>2
    <3>3. rev' # <<>> /\ Stop(rev'[Len(rev')]) = End
      BY <1>4, <3>1
    <3>4. ASSUME ~is_reserve PROVE rev'[Len(rev')].offset = End + Start - min_rev'
      <4>1. CASE i = Len(rev)
        <5>1. rev[i].offset = End + Start - min_rev
          BY <1>4, <3>4, <4>1
        <5>2. o < min_rev
          <6>1. p = End + Start - min_rev /\ min_rev \in Nat
            BY <1>a, <5>1, StateNumbers
          <6> QED BY <1>c, <6>1
        <5>3. min_rev' = o
          BY <1>7, <1>13, <5>2, StateNumbers DEF Smaller
        <5>4. rev'[Len(rev')].offset = rev[i].offset + n
          BY <3>1, <4>1
        <5>5. p + n = End + Start - o
          BY <1>c
        <5> QED BY <1>a, <5>3, <5>4, <5>5
      <4>2. CASE i # Len(rev)
        <5>1. Stop(rev[i]) < rev[Len(rev)].offset
          BY <1>4, <4>2 DEF Ordered
        <5>2. rev[Len(rev)].offset = End + Start - min_rev
          BY <1>4, <3>4
        <5>3. min_rev < o
          <6>1. PICK q : q = rev[Len(rev)].offset
            OBVIOUS
          <6>2. q = End + Start - min_rev /\ p + n < q /\ q \in Nat /\ min_rev \in Nat
            BY SMTT(30), <1>4, <1>b, <5>1, <5>2, <6>1, StateNumbers, EntryNumbers DEF Ordered
          <6> QED BY SMTT(30), <1>7, <1>b, <6>2
        <5>4. min_rev' = min_rev
          BY <1>7, <1>13, <5>3, StateNumbers DEF Smaller
        <5>5. rev'[Len(rev')] = rev[Len(rev)]
          BY <1>4, <3>1, <4>2
        <5> QED BY <5>2, <5>4, <5>5
      <4> QED BY <4>1, <4>2
    <3> QED BY <3>2, <3>3, <3>4
  <2> QED BY <1>10, <2>1, <2>2
<1>15. TypeOK'
  BY <1>1, <1>9, <1>11, <1>12, <1>13, <1>14 DEF IInv, TypeOK, Ordered
<1>16. HeldInv'
  BY <1>4, <1>9, <1>11, <1>12 DEF IInv, HeldInv
<1>17. PreInv'
  BY <1>1, <1>12 DEF IInv, PreInv
<1>18. RevInv'
  BY <1>1, <1>11, <1>12, <1>14 DEF RevInv
<1>19. MarkInv'
  <2>1. ASSUME NEW c \in held PROVE IF c.dir = "pre" THEN c.offset + c.size <= max_pre ELSE c.offset >= min_rev'
    <3>1. IF c.dir = "pre" THEN c.offset + c.size <= max_pre ELSE c.offset >= min_rev
      BY DEF IInv, MarkInv
    <3>2. min_rev' \in Nat /\ min_rev \in Nat /\ c.offset \in Nat /\ c.size \in Nat
      BY <1>13, StateNumbers, Numbers
    <3> QED BY <1>13, <3>1, <3>2
  <2>2. b.offset >= min_rev'
    BY <1>7, <1>8, <1>13, Numbers
  <2> QED BY <1>1, <1>8, <1>12, <1>13, <2>1, <2>2 DEF MarkInv
<1> QED BY <1>15, <1>16, <1>17, <1>18, <1>19 DEF IInv

----------------------------------------------------------------------------
(* The entries i .. j - 1 of a list and the block [o, o + n) make up the   *)
(* one entry e, which touches nothing else.                                *)
Joined(s, i, e, j, o, n) ==
    /\ i \in 1 .. Len(s) + 1 /\ j \in i .. Len(s) + 1
    /\ e \in Entries /\ Stop(e) <= End /\ e.offset <= o /\ e.size >= n
    /\ \A k \in 1 .. i - 1 : Stop(s[k]) < e.offset
    /\ \A k \in j .. Len(s) : Stop(e) < s[k].offset
    /\ \A x \in Nat : In(x, e.offset, e.size) <=>
           In(x, o, n) \/ \E k \in i .. j - 1 : In(x, s[k].offset, s[k].size)

(* The three ways to join, and the one to put in.                          *)
LEMMA JoinNone ==
    ASSUME NEW s, Ordered(s), NEW o \in Nat, NEW n \in Nat, n >= 1, Start <= o, o + n <= End,
           NEW i \in 1 .. Len(s) + 1,
           \A k \in 1 .. i - 1 : Stop(s[k]) < o,
           \A k \in i .. Len(s) : o + n < s[k].offset
    PROVE  Joined(s, i, Entry(o, n), i, o, n)
<1>1. Len(s) \in Nat
  BY DEF Ordered
<1>2. /\ Entry(o, n) \in Entries /\ Entry(o, n).offset = o /\ Entry(o, n).size = n
      /\ Stop(Entry(o, n)) = o + n
  BY MakeEntry
<1>3. i \in i .. Len(s) + 1 /\ i .. i - 1 = {} /\ o <= o /\ n >= n
  BY <1>1
<1> QED BY <1>2, <1>3 DEF Joined

LEMMA JoinBehind ==
    ASSUME NEW s, Ordered(s), NEW o \in Nat, NEW n \in Nat, n >= 1, Start <= o, o + n <= End,
           NEW i \in 1 .. Len(s), o + n = s[i].offset,
           \A k \in 1 .. i - 1 : Stop(s[k]) < o
    PROVE  Joined(s, i, Entry(o, s[i].size + n), i + 1, o, n)
<1>1. Len(s) \in Nat
  BY DEF Ordered
<1>2. PICK p, z : p = s[i].offset /\ z = s[i].size
  OBVIOUS
<1>3. p \in Nat /\ z \in Nat /\ p + z <= End /\ Stop(s[i]) = p + z /\ o + n = p
  BY <1>2, EntryNumbers DEF Ordered
<1>4. z + n \in Nat /\ o + (z + n) = p + z /\ o + (z + n) <= End /\ z + n >= n
  BY <1>3
<1>5. /\ Entry(o, z + n) \in Entries /\ Entry(o, z + n).offset = o /\ Entry(o, z + n).size = z + n
      /\ Stop(Entry(o, z + n)) = o + (z + n)
  BY <1>4, MakeEntry
<1>6. \A k \in i + 1 .. Len(s) : Stop(s[i]) < s[k].offset
  BY <1>1 DEF Ordered
<1>7. i \in 1 .. Len(s) + 1 /\ i + 1 \in i .. Len(s) + 1 /\ i .. (i + 1) - 1 = {i} /\ o <= o
  BY <1>1
<1>8. \A x \in Nat : In(x, o, z + n) <=> In(x, o, n) \/ In(x, p, z)
  BY <1>3 DEF In
<1>9. \A k \in i + 1 .. Len(s) : Stop(Entry(o, z + n)) < s[k].offset
  BY <1>3, <1>4, <1>5, <1>6
<1> QED BY <1>2, <1>3, <1>4, <1>5, <1>7, <1>8, <1>9 DEF Joined

LEMMA JoinFront ==
    ASSUME NEW s, Ordered(s), NEW o \in Nat, NEW n \in Nat, n >= 1, Start <= o, o + n <= End,
           NEW i \in 1 .. Len(s), Stop(s[i]) = o,
           \A k \in i + 1 .. Len(s) : o + n < s[k].offset
    PROVE  Joined(s, i, Entry(s[i].offset, s[i].size + n), i + 1, o, n)
<1>1. Len(s) \in Nat
  BY DEF Ordered
<1>2. PICK p, z : p = s[i].offset /\ z = s[i].size
  OBVIOUS
<1>3. p \in Nat /\ z \in Nat /\ Start <= p /\ p + z = o
  BY <1>2, EntryNumbers DEF Ordered
<1>4. z + n \in Nat /\ p + (z + n) = o + n /\ p + (z + n) <= End /\ z + n >= n /\ p <= o
  BY <1>3
<1>5. /\ Entry(p, z + n) \in Entries /\ Entry(p, z + n).offset = p /\ Entry(p, z + n).size = z + n
      /\ Stop(Entry(p, z + n)) = p + (z + n)
  BY <1>3, <1>4, MakeEntry
<1>6. \A k \in 1 .. i - 1 : Stop(s[k]) < p
  BY <1>1, <1>2 DEF Ordered
<1>7. i \in 1 .. Len(s) + 1 /\ i + 1 \in i .. Len(s) + 1 /\ i .. (i + 1) - 1 = {i}
  BY <1>1
<1>8. \A x \in Nat : In(x, p, z + n) <=> In(x, o, n) \/ In(x, p, z)
  BY <1>3 DEF In
<1>9. \A k \in i + 1 .. Len(s) : Stop(Entry(p, z + n)) < s[k].offset
  BY <1>4, <1>5
<1> QED BY <1>2, <1>3, <1>4, <1>5, <1>6, <1>7, <1>8, <1>9 DEF Joined

LEMMA JoinBoth ==
    ASSUME NEW s, Ordered(s), NEW o \in Nat, NEW n \in Nat, n >= 1, Start <= o, o + n <= End,
           NEW i \in 1 .. Len(s), i + 1 \in 1 .. Len(s), Stop(s[i]) = o, o + n = s[i + 1].offset
    PROVE  Joined(s, i, Entry(s[i].offset, s[i].size + n + s[i + 1].size), i + 2, o, n)
<1>1. Len(s) \in Nat
  BY DEF Ordered
<1>2. PICK p, z, y : p = s[i].offset /\ z = s[i].size /\ y = s[i + 1].size
  OBVIOUS
<1>3. /\ p \in Nat /\ z \in Nat /\ Start <= p /\ p + z = o /\ y \in Nat
      /\ (o + n) + y <= End /\ Stop(s[i + 1]) = (o + n) + y
  BY SMTT(30), <1>2, EntryNumbers DEF Ordered
<1>4. /\ z + n + y \in Nat /\ p + (z + n + y) = (o + n) + y /\ p + (z + n + y) <= End
      /\ z + n + y >= n /\ p <= o
  BY <1>3
<1> DEFINE e == Entry(p, z + n + y)
<1>5. e \in Entries /\ e.offset = p /\ e.size = z + n + y /\ Stop(e) = p + (z + n + y)
  BY <1>3, <1>4, MakeEntry
<1> HIDE DEF e
<1>6. \A k \in 1 .. i - 1 : Stop(s[k]) < p
  BY <1>1, <1>2 DEF Ordered
<1>7. i \in 1 .. Len(s) + 1 /\ i + 2 \in i .. Len(s) + 1 /\ i .. (i + 2) - 1 = {i, i + 1}
  BY <1>1
<1>8. \A x \in Nat : In(x, p, z + n + y) <=> In(x, o, n) \/ In(x, p, z) \/ In(x, o + n, y)
  BY <1>3 DEF In
<1>9. \A k \in i + 2 .. Len(s) : Stop(s[i + 1]) < s[k].offset
  BY <1>1 DEF Ordered
<1>10. \A k \in i + 2 .. Len(s) : Stop(e) < s[k].offset
  BY <1>3, <1>4, <1>5, <1>9
<1>11. Joined(s, i, e, i + 2, o, n)
  BY <1>2, <1>3, <1>4, <1>5, <1>6, <1>7, <1>8, <1>10 DEF Joined
<1> QED BY <1>2, <1>11 DEF e

(* What either free does to its list.                                      *)
LEMMA PreFreeJoins ==
    ASSUME IInv, NEW b \in held, b.dir = "pre", PreFree(b.offset, b.size)
    PROVE  \E i, j, e : /\ Joined(pre, i, e, j, b.offset, b.size)
                        /\ pre' = Splice(pre, i, e, j)
                        /\ max_pre' = max_pre \/ max_pre' = MarkBack(e)
<1>1. PICK s, o, n, m : s = pre /\ o = b.offset /\ n = b.size /\ m = max_pre
  OBVIOUS
<1>2. /\ Ordered(s) /\ Good(Of("pre")) /\ Exact(s, Of("pre")) /\ b \in Of("pre")
      /\ \A k \in 1 .. Len(s) : s[k].size > 0
  BY <1>1, StateNumbers DEF IInv, PreInv, Of
<1>3. o \in Nat /\ n \in Nat /\ n >= 1 /\ Start <= o /\ o + n <= End /\ Pos(b) = o
  BY <1>1, HeldNumbers, StateNumbers
<1>4. \A k \in 1 .. Len(s) : Stop(s[k]) <= o \/ o + n <= s[k].offset
  BY <1>1, <1>2, <1>3, EntryApart
<1>5. \A k \in 1 .. Len(s) : /\ s[k] \in Entries /\ s[k].offset \in Nat /\ s[k].size \in Nat
                             /\ Stop(s[k]) = s[k].offset + s[k].size /\ Stop(s[k]) \in Nat
  BY <1>2, EntryNumbers DEF Ordered
<1>6. Len(s) \in Nat /\ s \in Seq(Entries) /\ \A k, l \in 1 .. Len(s) : k < l => Stop(s[k]) < s[l].offset
  BY <1>2 DEF Ordered
<1> DEFINE here == {i \in 1 .. Len(s) : o <= Stop(s[i])}
           At(i, e, behind) == /\ pre' = Front(s, i) \o <<e>> \o Rest(s, behind)
                               /\ max_pre' = MarkBack(e)
           joins(i) == i < Len(s) /\ s[i + 1].offset = o + n
           Step(i, e, j) == /\ Joined(s, i, e, j, o, n)
                            /\ pre' = Splice(s, i, e, j)
                            /\ max_pre' = max_pre \/ max_pre' = MarkBack(e)
<1>7. CASE here = {} /\ pre' = Append(s, Entry(o, n)) /\ max_pre' = max_pre
  <2>1. \A k \in 1 .. Len(s) : Stop(s[k]) < o
    BY <1>3, <1>5, <1>7
  <2>2. Len(s) + 1 \in 1 .. Len(s) + 1 /\ (Len(s) + 1) - 1 = Len(s) /\ Len(s) + 1 .. Len(s) = {}
    BY <1>6
  <2>3. Joined(s, Len(s) + 1, Entry(o, n), Len(s) + 1, o, n)
    BY <1>2, <1>3, <2>1, <2>2, JoinNone
  <2>4. Append(s, Entry(o, n)) = Splice(s, Len(s) + 1, Entry(o, n), Len(s) + 1)
    BY <1>3, <1>6, MakeEntry, AppendSplice
  <2> QED BY <1>1, <1>7, <2>3, <2>4
<1>8. ASSUME NEW i \in here, First(i, here),
             CASE o + n = s[i].offset -> At(i, Entry(o, s[i].size + n), i + 1)
               [] Stop(s[i]) = o /\ joins(i) -> At(i, Entry(s[i].offset, s[i].size + n + s[i + 1].size), i + 2)
               [] Stop(s[i]) = o /\ ~joins(i) -> At(i, Entry(s[i].offset, s[i].size + n), i + 1)
               [] o + n < s[i].offset ->
                    /\ pre' = Front(s, i) \o <<Entry(o, n)>> \o Rest(s, i)
                    /\ max_pre' = max_pre
               [] OTHER -> pre' = pre /\ max_pre' = max_pre
      PROVE  \E j, e : Step(i, e, j)
  <2>1. i \in 1 .. Len(s) /\ o <= Stop(s[i])
    OBVIOUS
  <2>2. \A k \in 1 .. i - 1 : Stop(s[k]) < o
    <3> SUFFICES ASSUME NEW k \in 1 .. i - 1 PROVE Stop(s[k]) < o
      OBVIOUS
    <3>1. k \in 1 .. Len(s) /\ k < i
      BY <1>6, <2>1
    <3>2. k \notin here
      BY <1>8, <2>1, <3>1 DEF First
    <3> QED BY <1>3, <1>5, <3>1, <3>2
  <2>3. \A k \in i + 1 .. Len(s) : o + n <= s[k].offset
    <3> SUFFICES ASSUME NEW k \in i + 1 .. Len(s) PROVE o + n <= s[k].offset
      OBVIOUS
    <3>1. k \in 1 .. Len(s) /\ i < k
      BY <1>6, <2>1
    <3>2. Stop(s[i]) < s[k].offset
      BY <1>6, <2>1, <3>1
    <3> QED BY <1>3, <1>4, <1>5, <2>1, <3>1, <3>2
  <2>4. s[i].offset \in Nat /\ s[i].size \in Nat /\ s[i].size > 0 /\ Stop(s[i]) = s[i].offset + s[i].size
    BY <1>2, <1>5, <2>1
  <2>5. ~(o + n = s[i].offset /\ Stop(s[i]) = o) /\ ~(Stop(s[i]) = o /\ o + n < s[i].offset)
    BY <1>3, <2>4
  <2>6. Stop(s[i]) = o \/ o + n = s[i].offset \/ o + n < s[i].offset
    BY <1>3, <1>4, <2>1, <2>4
  <2> HIDE DEF here
  <2>7. CASE o + n = s[i].offset
    <3>1. At(i, Entry(o, s[i].size + n), i + 1)
      BY <1>3, <1>8, <2>4, <2>5, <2>7
    <3>2. Joined(s, i, Entry(o, s[i].size + n), i + 1, o, n)
      BY <1>2, <1>3, <2>1, <2>2, <2>7, JoinBehind
    <3> QED BY <3>1, <3>2 DEF Splice
  <2>8. CASE Stop(s[i]) = o /\ joins(i)
    <3>1. At(i, Entry(s[i].offset, s[i].size + n + s[i + 1].size), i + 2)
      BY <1>8, <2>5, <2>8
    <3>2. Joined(s, i, Entry(s[i].offset, s[i].size + n + s[i + 1].size), i + 2, o, n)
      <4>1. i + 1 \in 1 .. Len(s)
        BY <1>6, <2>1, <2>8
      <4> QED BY <1>2, <1>3, <2>1, <2>8, <4>1, JoinBoth
    <3> QED BY <3>1, <3>2 DEF Splice
  <2>9. CASE Stop(s[i]) = o /\ ~joins(i)
    <3>1. At(i, Entry(s[i].offset, s[i].size + n), i + 1)
      BY <1>8, <2>5, <2>9
    <3>2. ASSUME NEW k \in i + 1 .. Len(s) PROVE o + n < s[k].offset
      <4>1. CASE k = i + 1
        <5>1. k \in 1 .. Len(s) /\ i < Len(s)
          BY <1>6, <2>1, <4>1
        <5>2. o + n <= s[k].offset /\ s[k].offset \in Nat
          BY <1>5, <2>3, <5>1
        <5>3. s[k].offset # o + n
          BY <2>9, <4>1, <5>1
        <5> QED BY <1>3, <5>2, <5>3
      <4>2. CASE k # i + 1
        <5>1. i + 1 \in 1 .. Len(s) /\ k \in 1 .. Len(s) /\ i + 1 < k /\ i + 1 \in i + 1 .. Len(s)
          BY <1>6, <2>1, <4>2
        <5>2. Stop(s[i + 1]) < s[k].offset /\ o + n <= s[i + 1].offset
          BY <1>6, <2>3, <5>1
        <5>3. /\ Stop(s[i + 1]) = s[i + 1].offset + s[i + 1].size
              /\ s[i + 1].offset \in Nat /\ s[i + 1].size \in Nat /\ s[k].offset \in Nat
          BY <1>5, <5>1
        <5>4. PICK u, v, w : u = s[i + 1].offset /\ v = s[i + 1].size /\ w = s[k].offset
          OBVIOUS
        <5>5. u \in Nat /\ v \in Nat /\ w \in Nat /\ u + v < w /\ o + n <= u
          BY <5>2, <5>3, <5>4
        <5> QED BY SMTT(30), <1>3, <5>4, <5>5
      <4> QED BY <4>1, <4>2
    <3>3. Joined(s, i, Entry(s[i].offset, s[i].size + n), i + 1, o, n)
      BY <1>2, <1>3, <2>1, <2>9, <3>2, JoinFront
    <3> QED BY <3>1, <3>3 DEF Splice
  <2>10. CASE o + n < s[i].offset
    <3>1. pre' = Front(s, i) \o <<Entry(o, n)>> \o Rest(s, i) /\ max_pre' = max_pre
      BY SMTT(30), <1>3, <1>8, <2>4, <2>5, <2>10
    <3>2. ASSUME NEW k \in i .. Len(s) PROVE o + n < s[k].offset
      <4>1. k \in 1 .. Len(s) /\ (k = i \/ i < k)
        BY <1>6, <2>1
      <4>2. CASE i < k
        <5>1. Stop(s[i]) < s[k].offset
          BY <1>6, <2>1, <4>1, <4>2
        <5> QED BY <1>3, <1>5, <2>4, <2>10, <4>1, <5>1
      <4> QED BY <2>10, <4>1, <4>2
    <3>3. i \in 1 .. Len(s) + 1
      BY <1>6, <2>1
    <3>4. Joined(s, i, Entry(o, n), i, o, n)
      BY <1>2, <1>3, <2>2, <3>2, <3>3, JoinNone
    <3> QED BY <3>1, <3>4 DEF Splice
  <2> QED BY <2>6, <2>7, <2>8, <2>9, <2>10
<1>9. \/ here = {} /\ pre' = Append(s, Entry(o, n)) /\ max_pre' = max_pre
      \/ \E i \in here :
            /\ First(i, here)
            /\ CASE o + n = s[i].offset -> At(i, Entry(o, s[i].size + n), i + 1)
               [] Stop(s[i]) = o /\ joins(i) -> At(i, Entry(s[i].offset, s[i].size + n + s[i + 1].size), i + 2)
               [] Stop(s[i]) = o /\ ~joins(i) -> At(i, Entry(s[i].offset, s[i].size + n), i + 1)
               [] o + n < s[i].offset ->
                    /\ pre' = Front(s, i) \o <<Entry(o, n)>> \o Rest(s, i)
                    /\ max_pre' = max_pre
               [] OTHER -> pre' = pre /\ max_pre' = max_pre
  BY <1>1 DEF PreFree
<1> HIDE DEF here, At, joins
<1> QED BY <1>1, <1>7, <1>8, <1>9

(* A list t to which the block b went back as part of the entry e: in      *)
(* order and exact, the other entries the old ones, the last one included. *)
GivenBack(s, H, b, i, e, t) ==
    /\ Ordered(t) /\ Good(H \ {b}) /\ Disjoint(H \ {b}) /\ Exact(t, H \ {b})
    /\ Len(t) \in Nat /\ i \in 1 .. Len(t) /\ t[i] = e
    /\ \A k \in 1 .. Len(t) : k # i => \E m \in 1 .. Len(s) :
          t[k] = s[m] /\ (k < Len(t) /\ i <= Len(s) => m < Len(s)) /\ (k = Len(t) => m = Len(s))
    /\ e.size > 0
    /\ \A c \in H \ {b} : Stop(e) <= Pos(c) \/ Pos(c) + c.size <= e.offset

LEMMA JoinedList ==
    ASSUME NEW s, Ordered(s), NEW H, Good(H), Disjoint(H), Exact(s, H), NEW b \in H,
           NEW i, NEW j, NEW e, Joined(s, i, e, j, Pos(b), b.size)
    PROVE  /\ GivenBack(s, H, b, i, e, Splice(s, i, e, j))
           /\ i = Len(Splice(s, i, e, j)) <=> j > Len(s)
<1> DEFINE t == Splice(s, i, e, j)
<1>1. /\ i \in 1 .. Len(s) + 1 /\ j \in i .. Len(s) + 1
      /\ e \in Entries /\ Stop(e) <= End /\ e.size >= b.size
      /\ \A k \in 1 .. i - 1 : Stop(s[k]) < e.offset
      /\ \A k \in j .. Len(s) : Stop(e) < s[k].offset
      /\ \A x \in Nat : In(x, e.offset, e.size) <=>
            In(x, Pos(b), b.size) \/ \E k \in i .. j - 1 : In(x, s[k].offset, s[k].size)
  BY DEF Joined
<1>2. Ordered(t) /\ Good(H \ {b}) /\ Disjoint(H \ {b}) /\ Exact(t, H \ {b})
  BY <1>1, ListGive
<1>3. s \in Seq(Entries) /\ Len(s) \in Nat
  BY DEF Ordered
<1>4. /\ Len(t) = Len(s) - (j - i) + 1
      /\ \A k \in 1 .. Len(t) : t[k] = IF k < i THEN s[k] ELSE IF k = i THEN e ELSE s[k + (j - i) - 1]
  <2>1. i \in 1 .. Len(s) + 1 /\ j \in i .. Len(s) + 1 /\ e \in Entries
    BY <1>1
  <2>2. PICK S : S = Entries
    OBVIOUS
  <2>3. s \in Seq(S) /\ i \in 1 .. Len(s) + 1 /\ j \in i .. Len(s) + 1 /\ e \in S
    BY <1>3, <2>1, <2>2
  <2>4. /\ Len(Splice(s, i, e, j)) = Len(s) - (j - i) + 1
        /\ \A k \in 1 .. Len(Splice(s, i, e, j)) :
              Splice(s, i, e, j)[k] = IF k < i THEN s[k] ELSE IF k = i THEN e ELSE s[k + (j - i) - 1]
    BY <2>3, SpliceShape
  <2> QED BY <2>4
<1> HIDE DEF t
<1>5. Len(t) \in Nat /\ i \in 1 .. Len(t)
  BY <1>1, <1>3, <1>4
<1>6. t[i] = e
  BY <1>1, <1>4, <1>5
<1>7. ASSUME NEW k \in 1 .. Len(t), k # i
      PROVE  \E m \in 1 .. Len(s) : t[k] = s[m] /\ (k < Len(t) /\ i <= Len(s) => m < Len(s)) /\ (k = Len(t) => m = Len(s))
  <2>1. CASE k < i
    <3>1. t[k] = s[k] /\ k \in 1 .. Len(s) /\ k < Len(t)
      BY <1>1, <1>3, <1>4, <1>5, <2>1
    <3>2. (k < Len(t) /\ i <= Len(s) => k < Len(s)) /\ ~(k = Len(t))
      BY <1>1, <1>3, <2>1, <3>1
    <3> QED BY <3>1, <3>2
  <2>2. CASE k > i
    <3>1. k + (j - i) - 1 \in 1 .. Len(s)
      BY <1>1, <1>3, <1>4, <2>2
    <3>2. t[k] = s[k + (j - i) - 1]
      BY <1>1, <1>4, <2>2
    <3>3. /\ k < Len(t) => k + (j - i) - 1 < Len(s)
          /\ k = Len(t) => k + (j - i) - 1 = Len(s)
      BY <1>1, <1>3, <1>4, <2>2
    <3> QED BY <3>1, <3>2, <3>3
  <2> QED BY <1>1, <1>7, <2>1, <2>2
<1>8. e.size > 0
  BY <1>1, EntryNumbers, HeldNumbers DEF Good
<1>9. \A c \in H \ {b} : Stop(e) <= Pos(c) \/ Pos(c) + c.size <= e.offset
  BY <1>2, <1>5, <1>6, <1>8, EntryApart
<1>10. i = Len(t) <=> j > Len(s)
  <2>1. PICK L, n : L = Len(t) /\ n = Len(s)
    OBVIOUS
  <2>2. i \in Nat /\ j \in Nat /\ n \in Nat /\ j <= n + 1 /\ L = n - (j - i) + 1
    BY <1>1, <1>3, <1>4, <2>1
  <2>3. i = L <=> j > n
    BY <2>2
  <2> QED BY <2>1, <2>3
<1>11. GivenBack(s, H, b, i, e, t)
  BY <1>2, <1>5, <1>6, <1>7, <1>8, <1>9 DEF GivenBack
<1> QED BY <1>10, <1>11 DEF t

LEMMA PreFreeStep ==
    ASSUME IInv, NEW b \in held, b.dir = "pre", PreFree(b.offset, b.size), held' = held \ {b},
           rev' = rev, min_rev' = min_rev, is_reserve' = is_reserve
    PROVE  IInv'
<1>1. PICK i, j, e : /\ Joined(pre, i, e, j, b.offset, b.size)
                     /\ pre' = Splice(pre, i, e, j)
                     /\ max_pre' = max_pre \/ max_pre' = MarkBack(e)
  BY PreFreeJoins
<1>2. /\ Ordered(pre) /\ Exact(pre, Of("pre")) /\ Disjoint(Of("pre")) /\ Disjoint(Of("rev")) /\ b \in Of("pre")
      /\ \A k \in 1 .. Len(pre) : pre[k].size > 0
      /\ \A c \in held : IF c.dir = "pre" THEN c.offset + c.size <= max_pre ELSE c.offset >= min_rev
  BY DEF IInv, PreInv, HeldInv, MarkInv, Of
<1>3. Of("pre")' = Of("pre") \ {b} /\ Of("rev")' = Of("rev")
  BY DEF Of
<1>4. Joined(pre, i, e, j, Pos(b), b.size)
  BY <1>1, StateNumbers
<1>5. /\ Ordered(pre') /\ Disjoint(Of("pre") \ {b}) /\ Exact(pre', Of("pre") \ {b})
      /\ i \in 1 .. Len(pre') /\ pre'[i] = e
      /\ \A k \in 1 .. Len(pre') : k # i => \E m \in 1 .. Len(pre) : pre'[k] = pre[m]
      /\ e.size > 0
      /\ \A c \in Of("pre") \ {b} : Stop(e) <= Pos(c) \/ Pos(c) + c.size <= e.offset
  <2>1. PICK s, H : s = pre /\ H = Of("pre")
    OBVIOUS
  <2>2. Ordered(s) /\ Good(H) /\ Disjoint(H) /\ Exact(s, H) /\ b \in H /\ Joined(s, i, e, j, Pos(b), b.size)
    BY <1>2, <1>4, <2>1, StateNumbers
  <2>3. GivenBack(s, H, b, i, e, Splice(s, i, e, j))
    BY <2>2, JoinedList
  <2>4. GivenBack(pre, Of("pre"), b, i, e, pre')
    BY <1>1, <2>1, <2>3
  <2> QED BY <2>4 DEF GivenBack
<1>6. /\ e.offset \in Nat /\ e.size \in Nat /\ Start <= e.offset /\ e.offset <= b.offset /\ Stop(e) = e.offset + e.size
  BY <1>1, EntryNumbers DEF Joined
<1>7. b.offset \in Nat /\ b.size \in Nat /\ b.offset + b.size <= max_pre
  BY <1>2, StateNumbers
<1>8. max_pre' \in Nat /\ Start <= max_pre' /\ max_pre' <= max_pre
  <2>1. max_pre \in Nat /\ Start <= max_pre
    BY StateNumbers, Numbers DEF IInv, TypeOK
  <2> QED BY <1>1, <1>6, <1>7, <2>1 DEF MarkBack
<1>9. ASSUME NEW c \in held, c # b PROVE IF c.dir = "pre" THEN c.offset + c.size <= max_pre' ELSE c.offset >= min_rev
  <2>1. CASE c.dir = "pre" /\ max_pre' # max_pre
    <3>1. max_pre <= Stop(e) /\ max_pre' = e.offset
      BY <1>1, <2>1 DEF MarkBack
    <3>2. c.offset \in Nat /\ c.size \in Nat /\ c.size >= 1 /\ Pos(c) = c.offset /\ max_pre \in Nat
      BY <2>1, StateNumbers
    <3>3. Stop(e) <= c.offset \/ c.offset + c.size <= e.offset
      BY <1>5, <1>9, <2>1, <3>2 DEF Of
    <3>4. c.offset + c.size <= max_pre
      BY <1>2, <2>1
    <3> QED BY <1>6, <2>1, <3>1, <3>2, <3>3, <3>4
  <2>2. CASE ~(c.dir = "pre" /\ max_pre' # max_pre)
    BY <1>2, <2>2
  <2> QED BY <2>1, <2>2
<1>10. TypeOK'
  <2>1. max_pre' \in Start .. End
    BY <1>8, StateNumbers, Numbers DEF IInv, TypeOK
  <2> QED BY <1>5, <2>1 DEF IInv, TypeOK, Ordered
<1>11. HeldInv'
  BY <1>2, <1>3, <1>5 DEF IInv, HeldInv
<1>12. PreInv'
  BY <1>2, <1>3, <1>5 DEF PreInv
<1>13. RevInv'
  BY <1>3 DEF IInv, RevInv
<1>14. MarkInv'
  <2>1. max_pre' <= min_rev
    BY <1>8, StateNumbers DEF IInv, MarkInv
  <2> QED BY <1>9, <2>1 DEF MarkInv
<1> QED BY <1>10, <1>11, <1>12, <1>13, <1>14 DEF IInv

LEMMA RevFreeJoins ==
    ASSUME IInv, NEW b \in held, b.dir = "rev", RevFree(b.offset, b.size)
    PROVE  \E i, j, e : /\ Joined(rev, i, e, j, Pos(b), b.size)
                        /\ i <= Len(rev)
                        /\ j > Len(rev) => Stop(e) = End
                        /\ rev' = Splice(rev, i, e, j)
                        /\ min_rev' = RevMark(e, j > Len(rev))
<1>1. PICK s, o, n, r, H : s = rev /\ o = b.offset /\ n = b.size /\ r = Pos(b) /\ H = Of("rev")
  OBVIOUS
<1>2. /\ Ordered(s) /\ Good(H) /\ Exact(s, H) /\ b \in H
      /\ \A k \in 1 .. Len(s) - 1 : s[k].size > 0
      /\ s # <<>> /\ Stop(s[Len(s)]) = End
  BY <1>1, StateNumbers DEF IInv, RevInv, Of
<1>3. n \in Nat /\ n >= 1 /\ r \in Nat /\ Start <= r /\ r + n <= End /\ r = Mirrored(o, n)
  BY <1>1, HeldNumbers, StateNumbers DEF Pos
<1>4. \A k \in 1 .. Len(s) : /\ s[k] \in Entries /\ s[k].offset \in Nat /\ s[k].size \in Nat
                             /\ Stop(s[k]) = s[k].offset + s[k].size /\ Stop(s[k]) \in Nat
  BY <1>2, EntryNumbers DEF Ordered
<1>5. /\ Len(s) \in Nat /\ Len(s) >= 1 /\ s \in Seq(Entries)
      /\ \A k, l \in 1 .. Len(s) : k < l => Stop(s[k]) < s[l].offset
  BY <1>2 DEF Ordered
<1>6. \A k \in 1 .. Len(s) : Stop(s[k]) <= r \/ r + n <= s[k].offset
  <2> SUFFICES ASSUME NEW k \in 1 .. Len(s) PROVE Stop(s[k]) <= r \/ r + n <= s[k].offset
    OBVIOUS
  <2>1. s[k].size > 0 \/ s[k].offset = End
    <3>1. CASE k = Len(s)
      BY <1>2, <1>4, <3>1, Numbers
    <3>2. CASE k # Len(s)
      BY <1>2, <1>5, <3>2
    <3> QED BY <3>1, <3>2
  <2> QED BY <1>1, <1>2, <2>1, EntryApart
<1> DEFINE here == {i \in 1 .. Len(s) : r + n <= s[i].offset}
           joined(i) == r + n = s[i].offset
           node(i)   == IF joined(i) THEN Entry(r, n + s[i].size) ELSE Entry(r, n)
           behind(i) == IF joined(i) THEN i + 1 ELSE i
           prior(i)  == i > 1 /\ Stop(s[i - 1]) = r
           whole(i)  == IF prior(i) THEN Entry(s[i - 1].offset, s[i - 1].size + node(i).size) ELSE node(i)
           at(i)     == IF prior(i) THEN i - 1 ELSE i
<1>7. here # {}
  <2>1. Len(s) \in 1 .. Len(s) /\ End \in Nat
    BY <1>5, Numbers
  <2>2. r + n <= s[Len(s)].offset
    BY <1>2, <1>3, <1>6, <2>1
  <2> QED BY <2>1, <2>2
<1>8. PICK i \in here :
         /\ First(i, here)
         /\ IF ~joined(i) /\ i > 1 /\ r < Stop(s[i - 1])
            THEN rev' = rev /\ min_rev' = min_rev
            ELSE /\ rev' = Front(s, at(i)) \o <<whole(i)>> \o Rest(s, behind(i))
                 /\ min_rev' = RevMark(whole(i), behind(i) > Len(s))
  BY <1>1, <1>3, <1>7 DEF RevFree
<1>9. i \in 1 .. Len(s) /\ r + n <= s[i].offset
  OBVIOUS
<1>10. \A k \in 1 .. i - 1 : k \in 1 .. Len(s) /\ k < i /\ Stop(s[k]) <= r
  <2> SUFFICES ASSUME NEW k \in 1 .. i - 1 PROVE k \in 1 .. Len(s) /\ k < i /\ Stop(s[k]) <= r
    OBVIOUS
  <2>1. k \in 1 .. Len(s) /\ k < i
    BY <1>5, <1>9
  <2>2. k \notin here
    BY <1>8, <1>9, <2>1 DEF First
  <2> QED BY <1>6, <2>1, <2>2
<1> HIDE DEF here
<1>11. rev' = Splice(s, at(i), whole(i), behind(i)) /\ min_rev' = RevMark(whole(i), behind(i) > Len(s))
  <2>1. ~(i > 1 /\ r < Stop(s[i - 1]))
    <3> SUFFICES ASSUME i > 1 PROVE ~(r < Stop(s[i - 1]))
      OBVIOUS
    <3>1. i - 1 \in 1 .. i - 1
      BY <1>9
    <3> QED BY <1>3, <1>4, <1>10, <3>1
  <2> QED BY <1>8, <2>1 DEF Splice
<1>12. prior(i) => i - 1 \in 1 .. Len(s) /\ i - 1 < i /\ (i - 1) + 1 = i /\ (i - 1) + 2 = i + 1
  BY <1>5, <1>9
<1>13. \A k \in 1 .. Len(s) : k >= i /\ ~joined(i) => r + n < s[k].offset
  <2> SUFFICES ASSUME NEW k \in 1 .. Len(s), k >= i, ~joined(i) PROVE r + n < s[k].offset
    OBVIOUS
  <2>1. r + n < s[i].offset
    BY <1>3, <1>4, <1>9
  <2>2. CASE i < k
    <3>1. Stop(s[i]) < s[k].offset
      BY <1>5, <1>9, <2>2
    <3> QED BY SMTT(30), <1>3, <1>4, <1>9, <2>1, <3>1
  <2> QED BY <1>5, <1>9, <2>1, <2>2
<1>14. ~prior(i) => \A k \in 1 .. i - 1 : Stop(s[k]) < r
  <2> SUFFICES ASSUME ~prior(i), NEW k \in 1 .. i - 1 PROVE Stop(s[k]) < r
    OBVIOUS
  <2>1. k \in 1 .. Len(s) /\ k < i /\ Stop(s[k]) <= r
    BY <1>10
  <2>2. CASE k = i - 1
    <3>1. Stop(s[k]) # r
      BY <1>9, <2>1, <2>2
    <3> QED BY <1>3, <1>4, <2>1, <3>1
  <2>3. CASE k # i - 1
    <3>1. i - 1 \in 1 .. Len(s) /\ k < i - 1 /\ i - 1 \in 1 .. i - 1
      BY <1>5, <1>9, <2>1, <2>3
    <3>2. Stop(s[k]) < s[i - 1].offset /\ Stop(s[i - 1]) <= r
      BY <1>5, <1>10, <2>1, <3>1
    <3>3. Stop(s[k]) \in Nat /\ s[i - 1].offset \in Nat /\ Stop(s[i - 1]) \in Nat /\ s[i - 1].offset <= Stop(s[i - 1])
      BY <1>4, <2>1, <3>1
    <3> QED BY <1>3, <3>2, <3>3
  <2> QED BY <2>2, <2>3
<1>15. Joined(s, at(i), whole(i), behind(i), r, n)
  <2>1. CASE ~prior(i) /\ joined(i)
    <3>1. Joined(s, i, Entry(r, s[i].size + n), i + 1, r, n)
      BY <1>2, <1>3, <1>9, <1>14, <2>1, JoinBehind
    <3>2. s[i].size + n = n + s[i].size
      BY <1>3, <1>4, <1>9
    <3> QED BY <2>1, <3>1, <3>2
  <2>2. CASE ~prior(i) /\ ~joined(i)
    <3>1. \A k \in i .. Len(s) : r + n < s[k].offset
      BY <1>5, <1>9, <1>13, <2>2
    <3>2. i \in 1 .. Len(s) + 1
      BY <1>5, <1>9
    <3>3. Joined(s, i, Entry(r, n), i, r, n)
      BY <1>2, <1>3, <1>14, <2>2, <3>1, <3>2, JoinNone
    <3> QED BY <2>2, <3>3
  <2>3. CASE prior(i) /\ joined(i)
    <3>1. PICK l : l = i - 1 /\ l \in 1 .. Len(s) /\ l + 1 \in 1 .. Len(s) /\ l + 1 = i /\ l + 2 = i + 1
      BY <1>9, <1>12, <2>3
    <3>2. Stop(s[l]) = r /\ r + n = s[l + 1].offset
      BY <2>3, <3>1
    <3>3. Joined(s, l, Entry(s[l].offset, s[l].size + n + s[l + 1].size), l + 2, r, n)
      BY <1>2, <1>3, <3>1, <3>2, JoinBoth
    <3>4. s[l].size + n + s[l + 1].size = s[l].size + (n + s[i].size)
      <4>1. s[l].size \in Nat /\ s[i].size \in Nat /\ s[l + 1] = s[i]
        BY <1>4, <1>9, <3>1
      <4> QED BY <1>3, <4>1
    <3>5. node(i).size = n + s[i].size
      BY <2>3 DEF Entry
    <3> QED BY <2>3, <3>1, <3>3, <3>4, <3>5
  <2>4. CASE prior(i) /\ ~joined(i)
    <3>1. PICK l : l = i - 1 /\ l \in 1 .. Len(s) /\ l + 1 = i
      BY <1>12, <2>4
    <3>2. \A k \in l + 1 .. Len(s) : r + n < s[k].offset
      BY <1>5, <1>9, <1>13, <2>4, <3>1
    <3>3. Joined(s, l, Entry(s[l].offset, s[l].size + n), l + 1, r, n)
      BY <1>2, <1>3, <2>4, <3>1, <3>2, JoinFront
    <3>4. node(i).size = n
      BY <2>4 DEF Entry
    <3> QED BY <2>4, <3>1, <3>3, <3>4
  <2> QED BY <2>1, <2>2, <2>3, <2>4
<1>16. at(i) <= Len(s)
  BY <1>5, <1>9
<1>17. behind(i) > Len(s) => Stop(whole(i)) = End
  <2> SUFFICES ASSUME behind(i) > Len(s) PROVE Stop(whole(i)) = End
    OBVIOUS
  <2>1. joined(i) /\ i = Len(s)
    BY <1>5, <1>9
  <2>2. s[i].offset \in Nat /\ s[i].size \in Nat /\ (r + n) + s[i].size = End /\ End \in Nat
    BY <1>2, <1>4, <1>9, <2>1, Numbers
  <2>3. node(i).size = n + s[i].size
    BY <2>1 DEF Entry
  <2>4. CASE ~prior(i)
    BY <1>3, <2>1, <2>2, <2>4 DEF Stop, Entry
  <2>5. CASE prior(i)
    <3>1. PICK p, z : p = s[i - 1].offset /\ z = s[i - 1].size
      OBVIOUS
    <3>2. p \in Nat /\ z \in Nat /\ p + z = r
      BY <1>4, <1>12, <2>5, <3>1
    <3>3. Stop(whole(i)) = p + (z + (n + s[i].size))
      BY <2>3, <2>5, <3>1 DEF Stop, Entry
    <3> QED BY SMTT(30), <1>3, <2>2, <3>2, <3>3
  <2> QED BY <2>4, <2>5
<1> HIDE DEF at, whole, behind
<1> QED BY <1>1, <1>11, <1>15, <1>16, <1>17

LEMMA RevFreeStep ==
    ASSUME IInv, NEW b \in held, b.dir = "rev", RevFree(b.offset, b.size), held' = held \ {b},
           pre' = pre, max_pre' = max_pre, is_reserve' = is_reserve
    PROVE  IInv'
<1>1. PICK i, j, e : /\ Joined(rev, i, e, j, Pos(b), b.size)
                     /\ i <= Len(rev)
                     /\ j > Len(rev) => Stop(e) = End
                     /\ rev' = Splice(rev, i, e, j)
                     /\ min_rev' = RevMark(e, j > Len(rev))
  BY RevFreeJoins
<1>2. /\ Ordered(rev) /\ Exact(rev, Of("rev")) /\ Disjoint(Of("pre")) /\ Disjoint(Of("rev")) /\ b \in Of("rev")
      /\ \A k \in 1 .. Len(rev) - 1 : rev[k].size > 0
      /\ Stop(rev[Len(rev)]) = End
      /\ ~is_reserve => rev[Len(rev)].offset = End + Start - min_rev
      /\ \A c \in held : IF c.dir = "pre" THEN c.offset + c.size <= max_pre ELSE c.offset >= min_rev
  BY DEF IInv, RevInv, HeldInv, MarkInv, Of
<1>3. Of("rev")' = Of("rev") \ {b} /\ Of("pre")' = Of("pre")
  BY DEF Of
<1>4. GivenBack(rev, Of("rev"), b, i, e, rev') /\ (i = Len(rev') <=> j > Len(rev))
  <2>1. PICK s, H : s = rev /\ H = Of("rev")
    OBVIOUS
  <2>2. Ordered(s) /\ Good(H) /\ Disjoint(H) /\ Exact(s, H) /\ b \in H /\ Joined(s, i, e, j, Pos(b), b.size)
    BY <1>1, <1>2, <2>1, StateNumbers
  <2>3. GivenBack(s, H, b, i, e, Splice(s, i, e, j)) /\ (i = Len(Splice(s, i, e, j)) <=> j > Len(s))
    BY <2>2, JoinedList
  <2> QED BY <1>1, <2>1, <2>3
<1>5. /\ Ordered(rev') /\ Disjoint(Of("rev") \ {b}) /\ Exact(rev', Of("rev") \ {b})
      /\ Len(rev') \in Nat /\ i \in 1 .. Len(rev') /\ rev'[i] = e
      /\ \A k \in 1 .. Len(rev') : k # i => \E m \in 1 .. Len(rev) :
            rev'[k] = rev[m] /\ (k < Len(rev') /\ i <= Len(rev) => m < Len(rev)) /\ (k = Len(rev') => m = Len(rev))
      /\ e.size > 0
      /\ \A c \in Of("rev") \ {b} : Stop(e) <= Pos(c) \/ Pos(c) + c.size <= e.offset
  BY <1>4 DEF GivenBack
<1>6. Len(rev) \in Nat /\ Start \in Nat /\ End \in Nat
  BY <1>2, Numbers DEF Ordered
<1>7. ASSUME NEW k \in 1 .. Len(rev') - 1 PROVE rev'[k].size > 0
  <2>1. CASE k = i
    BY <1>5, <2>1
  <2>2. CASE k # i
    <3>1. PICK m \in 1 .. Len(rev) : rev'[k] = rev[m] /\ m < Len(rev)
      BY <1>1, <1>5, <2>2
    <3> QED BY <1>2, <1>6, <3>1
  <2> QED BY <2>1, <2>2
<1>8. rev' # <<>>
  BY <1>5
<1>9. /\ j > Len(rev) => rev'[Len(rev')] = e
      /\ ~(j > Len(rev)) => rev'[Len(rev')] = rev[Len(rev)]
  BY <1>4, <1>5
<1>10. /\ e.offset \in Nat /\ e.size \in Nat /\ Start <= e.offset /\ e.offset <= Pos(b) /\ Stop(e) = e.offset + e.size
       /\ e.offset <= End
  BY <1>1, EntryNumbers DEF Joined
<1>11. /\ b.offset \in Nat /\ b.size \in Nat /\ Pos(b) \in Nat /\ b.size >= 1 /\ b.offset >= min_rev
       /\ Pos(b) + b.offset + b.size = End + Start
  <2>1. /\ b.offset \in Nat /\ b.size \in Nat /\ Pos(b) \in Nat /\ b.size >= 1 /\ b.offset >= min_rev
        /\ Start <= b.offset /\ b.offset + b.size <= End
    BY <1>2, HeldNumbers, StateNumbers
  <2>2. Pos(b) = Mirrored(b.offset, b.size)
    BY DEF Pos
  <2>3. Mirrored(b.offset, b.size) + b.offset + b.size = End + Start
    BY <2>1, MirrorNumbers
  <2> QED BY <2>1, <2>2, <2>3
<1>12. CASE j > Len(rev) /\ ~is_reserve
  <2>1. min_rev' = End - e.offset + Start /\ Stop(e) = End
    BY <1>1, <1>12 DEF RevMark
  <2>2. /\ min_rev' \in Nat /\ Start <= min_rev' /\ min_rev' <= End /\ min_rev < min_rev'
        /\ e.offset = End + Start - min_rev'
    <3>1. PICK q, m, p, o, z : q = e.offset /\ m = min_rev' /\ p = Pos(b) /\ o = b.offset /\ z = b.size
      OBVIOUS
    <3>2. /\ q \in Nat /\ Start <= q /\ q <= p /\ q <= End /\ p \in Nat /\ o \in Nat /\ z \in Nat /\ z >= 1
          /\ o >= min_rev /\ min_rev \in Nat /\ p + o + z = End + Start
      BY <1>10, <1>11, <3>1, StateNumbers
    <3>3. m = End - q + Start
      BY <2>1, <3>1
    <3>4. m \in Nat /\ Start <= m /\ m <= End /\ q = End + Start - m /\ min_rev < m
      BY <1>6, <3>2, <3>3
    <3> QED BY <3>1, <3>4
  <2>3. ASSUME NEW c \in held, c # b, c.dir # "pre" PROVE c.offset >= min_rev'
    <3>1. /\ c.dir = "rev" /\ c.offset \in Nat /\ c.size \in Nat /\ c.size >= 1 /\ Start <= c.offset
          /\ c.offset + c.size <= End /\ Pos(c) \in Nat
      BY <2>3, HeldNumbers, StateNumbers
    <3>2. Stop(e) <= Pos(c) \/ Pos(c) + c.size <= e.offset
      BY <1>5, <2>3, <3>1 DEF Of
    <3>3. Pos(c) + c.offset + c.size = End + Start
      <4>1. Pos(c) = Mirrored(c.offset, c.size)
        BY <3>1 DEF Pos
      <4>2. Mirrored(c.offset, c.size) + c.offset + c.size = End + Start
        BY <3>1, MirrorNumbers
      <4> QED BY <4>1, <4>2
    <3>4. PICK p, o, z : p = Pos(c) /\ o = c.offset /\ z = c.size
      OBVIOUS
    <3>5. /\ p \in Nat /\ o \in Nat /\ z \in Nat /\ z >= 1 /\ Start <= o /\ o + z <= End
          /\ p + o + z = End + Start /\ (End <= p \/ p + z <= e.offset)
      BY <2>1, <3>1, <3>2, <3>3, <3>4
    <3>6. p + z <= e.offset
      BY <1>6, <3>5
    <3>7. o >= End - e.offset + Start
      BY <1>6, <1>10, <3>5, <3>6
    <3> QED BY <2>1, <3>4, <3>7
  <2>4. TypeOK'
    <3>1. min_rev' \in Start .. End
      BY <1>6, <2>2
    <3> QED BY <1>5, <1>8, <3>1 DEF IInv, TypeOK, Ordered
  <2>5. HeldInv'
    BY <1>2, <1>3, <1>5 DEF IInv, HeldInv
  <2>6. PreInv'
    BY <1>3 DEF IInv, PreInv
  <2>7. RevInv'
    BY <1>3, <1>5, <1>7, <1>8, <1>9, <1>12, <2>1, <2>2 DEF RevInv
  <2>8. MarkInv'
    <3>1. max_pre <= min_rev'
      BY <2>2, StateNumbers DEF IInv, MarkInv
    <3> QED BY <1>2, <2>3, <3>1 DEF MarkInv
  <2> QED BY <2>4, <2>5, <2>6, <2>7, <2>8 DEF IInv
<1>13. CASE ~(j > Len(rev) /\ ~is_reserve)
  <2>1. min_rev' = min_rev
    BY <1>1, <1>13 DEF RevMark
  <2>2. Stop(rev'[Len(rev')]) = End
    BY <1>1, <1>2, <1>9
  <2>3. ~is_reserve => rev'[Len(rev')].offset = End + Start - min_rev
    BY <1>2, <1>9, <1>13
  <2>4. TypeOK'
    BY <1>5, <1>8, <2>1 DEF IInv, TypeOK, Ordered
  <2>5. HeldInv'
    BY <1>2, <1>3, <1>5 DEF IInv, HeldInv
  <2>6. PreInv'
    BY <1>3 DEF IInv, PreInv
  <2>7. RevInv'
    BY <1>3, <1>5, <1>7, <1>8, <2>1, <2>2, <2>3 DEF RevInv
  <2>8. MarkInv'
    BY <1>2, <2>1 DEF IInv, MarkInv
  <2> QED BY <2>4, <2>5, <2>6, <2>7, <2>8 DEF IInv
<1> QED BY <1>12, <1>13

(* A free reaches the list the block came from.                            *)
LEMMA DirOfMark ==
    ASSUME IInv, NEW b \in held
    PROVE  (b.dir = "rev") <=> (b.offset >= max_pre)
<1>1. /\ b.offset \in Nat /\ b.size \in Nat /\ b.size >= 1 /\ b.dir \in {"pre", "rev"}
      /\ max_pre \in Nat /\ min_rev \in Nat
  BY StateNumbers
<1>2. /\ max_pre <= min_rev
      /\ IF b.dir = "pre" THEN b.offset + b.size <= max_pre ELSE b.offset >= min_rev
  BY DEF IInv, MarkInv
<1> QED BY <1>1, <1>2

LEMMA FreeStep ==
    ASSUME IInv, NEW b \in Held, FreeOffset(b)
    PROVE  IInv'
<1>1. /\ b \in held /\ held' = held \ {b} /\ is_reserve' = is_reserve
      /\ IF b.offset >= max_pre
         THEN RevFree(b.offset, b.size) /\ pre' = pre /\ max_pre' = max_pre
         ELSE PreFree(b.offset, b.size) /\ rev' = rev /\ min_rev' = min_rev
  BY DEF FreeOffset
<1>2. CASE b.offset >= max_pre
  BY <1>1, <1>2, DirOfMark, RevFreeStep
<1>3. CASE ~(b.offset >= max_pre)
  <2>1. b.dir = "pre"
    BY <1>1, <1>3, DirOfMark, StateNumbers
  <2> QED BY <1>1, <1>3, <2>1, PreFreeStep
<1> QED BY <1>2, <1>3

LEMMA InitGood == Init => IInv
<1> SUFFICES ASSUME Init PROVE IInv
  OBVIOUS
<1>1. PICK n \in Reserves : /\ is_reserve = (n # 0)
                            /\ max_pre = IF n = 0 THEN Start ELSE End - n
                            /\ min_rev = End - n
  BY DEF Init
<1>2. n \in Nat /\ n <= MaxSize
  BY <1>1, RangeAssumption
<1>3. max_pre \in Start .. End /\ min_rev \in Start .. End /\ max_pre <= min_rev /\ (~is_reserve => min_rev = End)
  <2>1. End - n \in Start .. End /\ Start \in Start .. End /\ Start <= End - n /\ End - n <= End - n /\ End - 0 = End
    BY <1>2, Numbers
  <2>2. ~is_reserve => n = 0
    BY <1>1
  <2>3. CASE n = 0
    BY <1>1, <2>1, <2>3
  <2>4. CASE n # 0
    BY <1>1, <2>1, <2>2, <2>4
  <2> QED BY <2>3, <2>4
<1>4. PICK e : e = Entry(Start, MaxSize)
  OBVIOUS
<1>5. e \in Entries /\ e.offset = Start /\ e.size = MaxSize /\ Stop(e) = End /\ e.size > 0
  BY <1>4, Numbers, MakeEntry
<1>6. pre = <<e>> /\ rev = <<e>> /\ held = {}
  BY <1>4 DEF Init
<1>7. Len(<<e>>) = 1 /\ <<e>>[1] = e /\ <<e>> \in Seq(Entries) /\ <<e>> # <<>>
  BY <1>5
<1>8. Ordered(<<e>>)
  BY <1>5, <1>7, Numbers DEF Ordered
<1>9. Exact(<<e>>, {})
  <2>1. ASSUME NEW x \in Range PROVE Covers(<<e>>, x)
    BY <1>5, <1>7, Numbers DEF Covers, In
  <2> QED BY <2>1 DEF Exact
<1>10. Of("pre") = {} /\ Of("rev") = {}
  BY <1>6 DEF Of
<1>11. TypeOK
  BY <1>1, <1>3, <1>6, <1>7 DEF TypeOK
<1>12. HeldInv
  BY <1>6, <1>10 DEF HeldInv, Disjoint
<1>13. PreInv
  BY <1>5, <1>6, <1>7, <1>8, <1>9, <1>10 DEF PreInv
<1>14. RevInv
  <2>1. ~is_reserve => rev[Len(rev)].offset = End + Start - min_rev
    BY <1>3, <1>5, <1>6, <1>7, Numbers
  <2>2. \A i \in 1 .. Len(rev) - 1 : rev[i].size > 0
    BY <1>6, <1>7
  <2> QED BY <1>5, <1>6, <1>7, <1>8, <1>9, <1>10, <2>1, <2>2 DEF RevInv
<1>15. MarkInv
  BY <1>3, <1>6 DEF MarkInv
<1> QED BY <1>11, <1>12, <1>13, <1>14, <1>15 DEF IInv

(* The inductive invariant.                                                *)
THEOREM Invariant == Spec => []IInv
<1>1. IInv /\ [Next]_vars => IInv'
  <2> SUFFICES ASSUME IInv, [Next]_vars PROVE IInv'
    OBVIOUS
  <2>1. CASE Next
    <3>1. ASSUME NEW n \in Sizes, AllocOffset(n) PROVE IInv'
      BY <3>1, AllocStep
    <3>2. ASSUME NEW n \in Sizes, ReverseAllocOffset(n) PROVE IInv'
      BY <3>2, ReverseAllocStep
    <3>3. ASSUME NEW b \in Held, FreeOffset(b) PROVE IInv'
      BY <3>3, FreeStep
    <3> QED BY <2>1, <3>1, <3>2, <3>3 DEF Next
  <2>2. CASE UNCHANGED vars
    BY <2>2 DEF vars, IInv, TypeOK, HeldInv, PreInv, RevInv, MarkInv, Of
  <2> QED BY <2>1, <2>2
<1> QED BY <1>1, InitGood, PTL DEF Spec

----------------------------------------------------------------------------
(* Types, for all constants.                                               *)
THEOREM TypeCorrect == Spec => []TypeOK
<1>1. IInv => TypeOK
  BY DEF IInv
<1> QED BY <1>1, Invariant, PTL

(* The mark sends every block that is freed back to the list it came from. *)
THEOREM RightListFound == Spec => []RightList
<1>1. IInv => RightList
  BY DirOfMark DEF RightList
<1> QED BY <1>1, Invariant, PTL

(* Neighbours do not touch.                                                *)
LEMMA OrderedApart ==
    ASSUME NEW s, Ordered(s)
    PROVE  Apart(s)
<1> SUFFICES ASSUME NEW i \in 2 .. Len(s) PROVE Stop(s[i - 1]) < s[i].offset
  BY DEF Apart
<1>1. i - 1 \in 1 .. Len(s) /\ i \in 1 .. Len(s) /\ i - 1 < i
  BY DEF Ordered
<1> QED BY <1>1 DEF Ordered

(* What the list of the bottom covers.                                     *)
LEMMA PreExact ==
    ASSUME IInv
    PROVE  UNION {Offsets(pre[i]) : i \in 1 .. Len(pre)} = Range \ Owned("pre")
<1>1. Ordered(pre) /\ Exact(pre, Of("pre"))
  BY DEF IInv, PreInv
<1>2. \A i \in 1 .. Len(pre) : /\ pre[i].offset \in Nat /\ pre[i].size \in Nat /\ Start <= pre[i].offset
                               /\ Stop(pre[i]) = pre[i].offset + pre[i].size /\ Stop(pre[i]) <= End
  BY <1>1, EntryNumbers DEF Ordered
<1>3. \A i \in 1 .. Len(pre) : \A x : x \in Offsets(pre[i]) <=> x \in Range /\ In(x, pre[i].offset, pre[i].size)
  <2> SUFFICES ASSUME NEW i \in 1 .. Len(pre), NEW x
               PROVE  x \in Offsets(pre[i]) <=> x \in Range /\ In(x, pre[i].offset, pre[i].size)
    OBVIOUS
  <2>1. PICK o, z : o = pre[i].offset /\ z = pre[i].size
    OBVIOUS
  <2>2. o \in Nat /\ z \in Nat /\ Start <= o /\ o + z <= End
    BY <1>2, <2>1
  <2>3. x \in o .. (o + z) - 1 <=> x \in Start .. End - 1 /\ In(x, o, z)
    BY <2>2, Numbers DEF In
  <2>4. Offsets(pre[i]) = o .. (o + z) - 1
    BY <1>2, <2>1 DEF Offsets
  <2> QED BY <2>1, <2>3, <2>4 DEF Range
<1>4. \A c \in Of("pre"), x \in Range : x \in Offsets(c) <=> In(x, Pos(c), c.size)
  <2> SUFFICES ASSUME NEW c \in Of("pre"), NEW x \in Range
               PROVE  x \in Offsets(c) <=> In(x, Pos(c), c.size)
    OBVIOUS
  <2>1. c.offset \in Nat /\ c.size \in Nat /\ Pos(c) = c.offset
    BY StateNumbers DEF Of
  <2>2. x \in Int
    BY Numbers
  <2> QED BY <2>1, <2>2 DEF Offsets, In, Stop
<1>5. Owned("pre") = UNION {Offsets(c) : c \in Of("pre")}
  BY DEF Owned, Of
<1>6. \A x : x \in UNION {Offsets(pre[i]) : i \in 1 .. Len(pre)} <=> x \in Range /\ Covers(pre, x)
  BY <1>3 DEF Covers
<1>7. \A x \in Range : x \in Owned("pre") <=> ~Covers(pre, x)
  BY <1>1, <1>4, <1>5 DEF Exact
<1> QED BY <1>6, <1>7

(* What the list of the top covers, mirrored.                              *)
LEMMA RevExact ==
    ASSUME IInv
    PROVE  UNION {Offsets(Entry(Mirrored(rev[i].offset, rev[i].size), rev[i].size)) : i \in 1 .. Len(rev)}
             = Range \ Owned("rev")
<1>1. Ordered(rev) /\ Exact(rev, Of("rev"))
  BY DEF IInv, RevInv
<1>2. \A i \in 1 .. Len(rev) : /\ rev[i].offset \in Nat /\ rev[i].size \in Nat /\ Start <= rev[i].offset
                               /\ rev[i].offset + rev[i].size <= End
  BY <1>1, EntryNumbers DEF Ordered
<1> DEFINE Block(i) == Entry(Mirrored(rev[i].offset, rev[i].size), rev[i].size)
           Twin(x)  == End + Start - 1 - x
<1>3. \A x \in Range : Twin(x) \in Range /\ Twin(x) \in Nat
  BY Numbers
<1>4. ASSUME NEW o \in Nat, NEW z \in Nat, NEW m \in Nat, m + o + z = End + Start, Start <= m, m + z <= End, NEW x
      PROVE  x \in m .. (m + z) - 1 <=> x \in Range /\ In(Twin(x), o, z)
  <2>1. x \in m .. (m + z) - 1 <=> x \in Start .. End - 1 /\ m <= x /\ x < m + z
    BY <1>4, Numbers
  <2>2. ASSUME x \in Start .. End - 1
        PROVE  (m <= x /\ x < m + z) <=> In(Twin(x), o, z)
    <3>1. x \in Int /\ Start \in Nat /\ End \in Nat
      BY <2>2, Numbers
    <3>2. m <= x <=> End + Start - 1 - x < o + z
      BY <1>4, <3>1
    <3>3. x < m + z <=> o <= End + Start - 1 - x
      BY <1>4, <3>1
    <3> QED BY <3>2, <3>3 DEF In
  <2> QED BY <2>1, <2>2 DEF Range
<1>5. \A i \in 1 .. Len(rev) : \A x : x \in Offsets(Block(i)) <=> x \in Range /\ In(Twin(x), rev[i].offset, rev[i].size)
  <2> SUFFICES ASSUME NEW i \in 1 .. Len(rev), NEW x
               PROVE  x \in Offsets(Block(i)) <=> x \in Range /\ In(Twin(x), rev[i].offset, rev[i].size)
    OBVIOUS
  <2>1. PICK o, z, m : o = rev[i].offset /\ z = rev[i].size /\ m = Mirrored(o, z)
    OBVIOUS
  <2>2. o \in Nat /\ z \in Nat /\ Start <= o /\ o + z <= End
    BY <1>2, <2>1
  <2>3. m \in Nat /\ Start <= m /\ m + z <= End /\ m + o + z = End + Start
    BY <2>1, <2>2, MirrorNumbers
  <2>4. x \in m .. (m + z) - 1 <=> x \in Range /\ In(Twin(x), o, z)
    BY <1>4, <2>2, <2>3
  <2>5. Offsets(Block(i)) = m .. (m + z) - 1
    BY <2>1 DEF Offsets, Stop, Entry
  <2> QED BY <2>1, <2>4, <2>5
<1>6. \A c \in Of("rev"), x \in Range : x \in Offsets(c) <=> In(Twin(x), Pos(c), c.size)
  <2> SUFFICES ASSUME NEW c \in Of("rev"), NEW x \in Range
               PROVE  x \in Offsets(c) <=> In(Twin(x), Pos(c), c.size)
    OBVIOUS
  <2>1. PICK m, z, o : m = c.offset /\ z = c.size /\ o = Pos(c)
    OBVIOUS
  <2>2. m \in Nat /\ z \in Nat /\ o \in Nat /\ Start <= m /\ m + z <= End /\ o = Mirrored(m, z)
    BY <2>1, StateNumbers, HeldNumbers DEF Of, Pos
  <2>3. o + m + z = End + Start
    BY <2>2, MirrorNumbers
  <2>4. m + o + z = End + Start
    BY <2>2, <2>3
  <2>5. x \in m .. (m + z) - 1 <=> In(Twin(x), o, z)
    BY <1>4, <2>2, <2>4
  <2>6. Offsets(c) = m .. (m + z) - 1
    BY <2>1 DEF Offsets, Stop
  <2> QED BY <2>1, <2>5, <2>6
<1> HIDE DEF Block, Twin
<1>7. Owned("rev") = UNION {Offsets(c) : c \in Of("rev")}
  BY DEF Owned, Of
<1>8. \A x : x \in UNION {Offsets(Block(i)) : i \in 1 .. Len(rev)} <=> x \in Range /\ Covers(rev, Twin(x))
  BY <1>5 DEF Covers
<1>9. \A x \in Range : x \in Owned("rev") <=> ~Covers(rev, Twin(x))
  BY <1>1, <1>3, <1>6, <1>7 DEF Exact
<1>10. UNION {Offsets(Block(i)) : i \in 1 .. Len(rev)} = Range \ Owned("rev")
  BY <1>8, <1>9
<1> QED BY <1>10 DEF Block

(* Each list holds exactly what its end has not handed out, in blocks as   *)
(* large as can be: no offset is lost to sys_humber_opf_free_offset.       *)
THEOREM ListsAreExact == Spec => []ListsExact
<1>1. ASSUME IInv PROVE ListsExact
  <2>1. Apart(pre) /\ Apart(rev)
    BY <1>1, OrderedApart DEF IInv, PreInv, RevInv
  <2> QED BY <1>1, <2>1, PreExact, RevExact DEF ListsExact
<1> QED BY <1>1, Invariant, PTL

(* Without a reserved part the mark of the top is where a block of the top *)
(* begins, if it is not at the end of the range.                           *)
LEMMA MarkIsBegin ==
    ASSUME IInv, ~is_reserve, min_rev # End
    PROVE  \E c \in held : c.dir = "rev" /\ c.offset = min_rev
<1>1. PICK s, H, q : s = rev /\ H = Of("rev") /\ q = rev[Len(rev)].offset
  OBVIOUS
<1>2. /\ Ordered(s) /\ Good(H) /\ Exact(s, H) /\ s # <<>> /\ Stop(s[Len(s)]) = End
      /\ q = End + Start - min_rev
  BY <1>1, StateNumbers DEF IInv, RevInv
<1>3. Len(s) \in Nat /\ Len(s) >= 1 /\ Len(s) \in 1 .. Len(s)
  BY <1>2 DEF Ordered
<1>4. \A k \in 1 .. Len(s) : /\ s[k].offset \in Nat /\ s[k].size \in Nat
                             /\ Stop(s[k]) = s[k].offset + s[k].size /\ Stop(s[k]) \in Nat
  BY <1>2, EntryNumbers DEF Ordered
<1>5. min_rev \in Nat /\ Start <= min_rev /\ min_rev < End /\ Start \in Nat /\ End \in Nat
  BY Numbers DEF IInv, TypeOK
<1>6. q \in Nat /\ Start < q /\ q <= End /\ q - 1 \in Range
  BY <1>2, <1>5, Numbers
<1>7. ~Covers(s, q - 1)
  <2> SUFFICES ASSUME NEW k \in 1 .. Len(s), In(q - 1, s[k].offset, s[k].size) PROVE FALSE
    BY DEF Covers
  <2>1. q - 1 < Stop(s[k]) /\ s[k].offset <= q - 1
    BY <1>4, <1>6 DEF In
  <2>2. CASE k = Len(s)
    BY <1>1, <1>4, <1>6, <2>1, <2>2
  <2>3. CASE k # Len(s)
    <3>1. Stop(s[k]) < s[Len(s)].offset
      BY <1>2, <1>3, <2>3 DEF Ordered
    <3>2. Stop(s[k]) < q
      BY <1>1, <3>1
    <3> QED BY <1>4, <1>6, <2>1, <3>2
  <2> QED BY <2>2, <2>3
<1>8. PICK c \in H : In(q - 1, Pos(c), c.size)
  BY <1>2, <1>6, <1>7 DEF Exact
<1>9. PICK p, o, z : p = Pos(c) /\ o = c.offset /\ z = c.size
  OBVIOUS
<1>10. /\ p \in Nat /\ o \in Nat /\ z \in Nat /\ z >= 1 /\ Start <= o /\ o + z <= End /\ p + z <= End
       /\ c.dir = "rev" /\ c \in held
  BY <1>1, <1>2, <1>8, <1>9, HeldNumbers DEF Good, Of
<1>11. p + o + z = End + Start
  <2>1. p = Mirrored(o, z)
    BY <1>9, <1>10 DEF Pos
  <2> QED BY <1>10, <2>1, MirrorNumbers
<1>12. p <= q - 1 /\ q - 1 < p + z
  BY <1>8, <1>9 DEF In
<1>13. End <= p \/ p + z <= q
  <2>1. s[Len(s)].size > 0 \/ s[Len(s)].offset = End
    BY SMTT(30), <1>2, <1>3, <1>4, <1>5
  <2>2. Stop(s[Len(s)]) <= Pos(c) \/ Pos(c) + c.size <= s[Len(s)].offset
    BY <1>2, <1>3, <2>1, EntryApart
  <2> QED BY <1>1, <1>2, <1>9, <2>2
<1>14. p + z = q
  BY <1>5, <1>6, <1>10, <1>12, <1>13
<1>15. o = min_rev
  BY <1>2, <1>5, <1>10, <1>11, <1>14
<1> QED BY <1>9, <1>10, <1>15

(* A request from the bottom is refused only for want of a place: what     *)
(* sys_humber_opf_alloc_offset refuses, no order of the calls would have   *)
(* left room for.                                                          *)
THEOREM RequestsAreServed == Spec => []Served
<1>1. ASSUME IInv PROVE Served
  <2> SUFFICES ASSUME NEW n \in Sizes, NEW o \in Range,
                      Stop(Entry(o, n)) <= (IF is_reserve THEN min_rev ELSE End),
                      \A c \in held : IF c.dir = "rev" THEN Stop(Entry(o, n)) <= c.offset
                                      ELSE Stop(Entry(o, n)) <= c.offset \/ Stop(c) <= o
               PROVE  \E i \in 1 .. Len(pre) : Fits(pre[i], n)
    BY DEF Served
  <2>1. o \in Nat /\ n \in Nat /\ n >= 1 /\ Start <= o /\ Stop(Entry(o, n)) = o + n
    BY Numbers DEF Stop, Entry
  <2>2. min_rev \in Nat /\ min_rev <= End /\ End \in Nat
    BY <1>1, Numbers DEF IInv, TypeOK
  <2>3. o + n <= min_rev
    <3>1. CASE is_reserve
      BY <2>1, <3>1
    <3>2. CASE ~is_reserve /\ min_rev = End
      BY <2>1, <3>2
    <3>3. CASE ~is_reserve /\ min_rev # End
      BY <1>1, <2>1, <3>3, MarkIsBegin
    <3> QED BY <3>1, <3>2, <3>3
  <2>4. o + n <= End
    BY <2>1, <2>2, <2>3
  <2>5. PICK s, H : s = pre /\ H = Of("pre")
    OBVIOUS
  <2>6. Ordered(s) /\ Good(H) /\ Exact(s, H)
    BY <1>1, <2>5, StateNumbers DEF IInv, PreInv
  <2>7. ASSUME NEW c \in H PROVE o + n <= Pos(c) \/ Pos(c) + c.size <= o
    <3>1. c \in held /\ c.dir = "pre" /\ Pos(c) = c.offset
      BY <1>1, <2>5, StateNumbers DEF Of
    <3> QED BY <2>1, <3>1 DEF Stop
  <2>8. PICK j \in 1 .. Len(s) : s[j].offset <= o /\ o + n <= Stop(s[j])
    BY <2>1, <2>4, <2>6, <2>7, FreeCovered
  <2>9. s[j].offset \in Nat /\ s[j].size \in Nat /\ Stop(s[j]) = s[j].offset + s[j].size
    BY <2>6, EntryNumbers DEF Ordered
  <2>10. s[j].size >= n /\ s[j].offset + n - 1 < min_rev
    BY <2>1, <2>2, <2>3, <2>8, <2>9
  <2> QED BY <2>5, <2>8, <2>10 DEF Fits
<1> QED BY <1>1, Invariant, PTL

----------------------------------------------------------------------------
(* A request from the bottom takes a place that is free of both ends, and  *)
(* no lower one would do.                                                  *)
LEMMA AllocRefines ==
    ASSUME IInv, NEW n \in Sizes, AllocOffset(n)
    PROVE  Pool!Next
<1>1. PICK i \in 1 .. Len(pre) :
        /\ First(i, {j \in 1 .. Len(pre) : Fits(pre[j], n)})
        /\ held' = held \cup {[offset |-> pre[i].offset, size |-> n, dir |-> "pre"]}
  BY DEF AllocOffset
<1>2. PICK s, H, q, b : s = pre /\ H = Of("pre") /\ q = pre[i].offset /\ b = [offset |-> q, size |-> n, dir |-> "pre"]
  OBVIOUS
<1>3. Ordered(s) /\ Good(H) /\ Exact(s, H)
  BY <1>2, StateNumbers DEF IInv, PreInv
<1>4. \A k \in 1 .. Len(s) : /\ s[k].offset \in Nat /\ s[k].size \in Nat
                             /\ Stop(s[k]) = s[k].offset + s[k].size /\ Stop(s[k]) <= End
  BY <1>3, EntryNumbers DEF Ordered
<1>5. n \in Nat /\ n >= 1 /\ Start \in Nat /\ End \in Nat /\ min_rev \in Nat /\ min_rev <= End
  BY Numbers DEF IInv, TypeOK
<1>6. /\ i \in 1 .. Len(s) /\ s[i].size >= n /\ q + n - 1 < min_rev /\ q \in Nat /\ s[i].offset = q
      /\ \A k \in 1 .. Len(s) : s[k].size >= n /\ s[k].offset + n - 1 < min_rev => i <= k
  BY <1>1, <1>2, <1>4 DEF First, Fits
<1>7. q + n <= min_rev /\ Start <= q /\ q + n <= End
  BY SMTT(30), <1>3, <1>5, <1>6, EntryNumbers DEF Ordered
<1>8. b.offset = q /\ b.size = n /\ b.dir = "pre"
  BY <1>2
<1>9. b \in Pool!Blocks
  <2>1. q \in Start .. End - 1
    BY <1>5, <1>6, <1>7
  <2> QED BY <1>2, <2>1 DEF Pool!Blocks, Pool!End, End
<1>10. ASSUME NEW c \in held
       PROVE  ~Pool!Meet(b, c) /\ (c.dir # "pre" => b.offset < c.offset)
  <2>1. c.offset \in Nat /\ c.size \in Nat /\ c.size >= 1 /\ c.dir \in {"pre", "rev"} /\ (c.dir = "pre" => Pos(c) = c.offset)
    BY StateNumbers
  <2>2. CASE c.dir = "pre"
    <3>1. Stop(s[i]) <= Pos(c) \/ Pos(c) + c.size <= s[i].offset
      <4>1. s[i].size > 0 /\ c \in H
        BY <1>2, <1>4, <1>5, <1>6, <2>2 DEF Of
      <4> QED BY <1>3, <1>6, <4>1, EntryApart
    <3>2. q + n <= c.offset \/ c.offset + c.size <= q
      BY SMTT(30), <1>4, <1>5, <1>6, <2>1, <2>2, <3>1
    <3> QED BY <1>5, <1>6, <1>8, <2>1, <2>2, <3>2 DEF Pool!Meet
  <2>3. CASE c.dir = "rev"
    <3>1. min_rev <= c.offset
      BY <2>3 DEF IInv, MarkInv
    <3> QED BY <1>5, <1>6, <1>7, <1>8, <2>1, <3>1 DEF Pool!Meet
  <2> QED BY <2>1, <2>2, <2>3
<1>11. Pool!Fits(b)
  BY <1>7, <1>8, <1>10 DEF Pool!Fits, Pool!End, End
<1>12. Pool!Nearest(b)
  <2> SUFFICES ASSUME NEW o \in Start .. End - 1, o < q, Pool!Fits([b EXCEPT !.offset = o]) PROVE FALSE
    BY <1>8 DEF Pool!Nearest, Pool!End, End
  <2>1. PICK a : a = [b EXCEPT !.offset = o]
    OBVIOUS
  <2>2. a.offset = o /\ a.size = n /\ a.dir = "pre"
    BY <1>2, <2>1
  <2>3. o \in Nat /\ Start <= o /\ o + n <= End
    BY <1>5, <1>6, <1>7
  <2>4. ASSUME NEW c \in H PROVE o + n <= Pos(c) \/ Pos(c) + c.size <= o
    <3>1. c \in held /\ Pos(c) = c.offset /\ c.offset \in Nat /\ c.size \in Nat
      BY <1>2, StateNumbers DEF Of
    <3>2. ~Pool!Meet(a, c)
      BY <2>1, <3>1 DEF Pool!Fits
    <3> QED BY <1>5, <2>2, <2>3, <3>1, <3>2 DEF Pool!Meet
  <2>5. PICK j \in 1 .. Len(s) : s[j].offset <= o /\ o + n <= Stop(s[j])
    BY <1>3, <1>5, <2>3, <2>4, FreeCovered
  <2>6. s[j].offset \in Nat /\ s[j].size \in Nat /\ Stop(s[j]) = s[j].offset + s[j].size
    BY <1>4
  <2>7. s[j].size >= n /\ s[j].offset + n - 1 < min_rev
    <3>1. PICK y, z : y = s[j].offset /\ z = s[j].size
      OBVIOUS
    <3>2. y \in Nat /\ z \in Nat /\ y <= o /\ o + n <= y + z
      BY <2>5, <2>6, <3>1
    <3>3. o \in Nat /\ o < q /\ q \in Nat /\ q + n - 1 < min_rev
      BY <1>6, <2>3
    <3>4. z >= n /\ y + n - 1 < min_rev
      BY SMTT(30), <1>5, <3>2, <3>3
    <3> QED BY <3>1, <3>4
  <2>8. i <= j /\ i # j
    BY <1>6, <2>3, <2>5, <2>6, <2>7
  <2>9. Stop(s[i]) < s[j].offset
    BY <1>3, <1>6, <2>8 DEF Ordered
  <2> QED BY <1>4, <1>6, <2>3, <2>5, <2>6, <2>9
<1>13. Pool!Alloc(b)
  BY <1>1, <1>2, <1>11, <1>12 DEF Pool!Alloc
<1> QED BY <1>9, <1>13 DEF Pool!Next

(* A request from the top takes a place that is free of both ends, and no  *)
(* higher one would do.                                                    *)
LEMMA ReverseAllocRefines ==
    ASSUME IInv, NEW n \in Sizes, ReverseAllocOffset(n)
    PROVE  Pool!Next
<1>1. PICK i \in 1 .. Len(rev) :
        /\ First(i, {j \in 1 .. Len(rev) : RevFits(rev[j], n)})
        /\ held' = held \cup {[offset |-> Mirrored(rev[i].offset, n), size |-> n, dir |-> "rev"]}
  BY DEF ReverseAllocOffset
<1>2. PICK s, H, p, q, b : /\ s = rev /\ H = Of("rev") /\ p = rev[i].offset /\ q = Mirrored(p, n)
                           /\ b = [offset |-> q, size |-> n, dir |-> "rev"]
  OBVIOUS
<1>3. Ordered(s) /\ Good(H) /\ Exact(s, H)
  BY <1>2, StateNumbers DEF IInv, RevInv
<1>4. \A k \in 1 .. Len(s) : /\ s[k].offset \in Nat /\ s[k].size \in Nat /\ Start <= s[k].offset
                             /\ Stop(s[k]) = s[k].offset + s[k].size /\ Stop(s[k]) <= End
  BY <1>3, EntryNumbers DEF Ordered
<1>5. n \in Nat /\ n >= 1 /\ Start \in Nat /\ End \in Nat /\ max_pre \in Nat
  BY Numbers, StateNumbers
<1>6. /\ i \in 1 .. Len(s) /\ s[i].size >= n /\ q >= max_pre /\ p \in Nat /\ s[i].offset = p
      /\ \A k \in 1 .. Len(s) : s[k].size >= n /\ Mirrored(s[k].offset, n) >= max_pre => i <= k
  BY <1>1, <1>2, <1>4 DEF First, RevFits
<1>7. Start <= p /\ p + n <= End
  BY <1>4, <1>5, <1>6
<1>8. q \in Nat /\ Start <= q /\ q + n <= End /\ q + p + n = End + Start
  BY <1>2, <1>5, <1>6, <1>7, MirrorNumbers
<1>9. b.offset = q /\ b.size = n /\ b.dir = "rev"
  BY <1>2
<1>10. b \in Pool!Blocks
  <2>1. q \in Start .. End - 1
    BY <1>5, <1>8
  <2> QED BY <1>2, <2>1 DEF Pool!Blocks, Pool!End, End
<1>a. ASSUME NEW c \in held, c.dir = "rev"
      PROVE  /\ Pos(c) \in Nat /\ Pos(c) + c.offset + c.size = End + Start
             /\ c.offset \in Nat /\ c.size \in Nat /\ c.size >= 1
  <2>1. /\ c.offset \in Nat /\ c.size \in Nat /\ c.size >= 1 /\ Start <= c.offset
        /\ c.offset + c.size <= End /\ Pos(c) \in Nat
    BY HeldNumbers, StateNumbers
  <2>2. Pos(c) = Mirrored(c.offset, c.size)
    BY <1>a DEF Pos
  <2>3. Mirrored(c.offset, c.size) + c.offset + c.size = End + Start
    BY <2>1, MirrorNumbers
  <2> QED BY <2>1, <2>2, <2>3
<1>11. ASSUME NEW c \in held
       PROVE  ~Pool!Meet(b, c) /\ (c.dir # "rev" => c.offset < b.offset)
  <2>1. c.offset \in Nat /\ c.size \in Nat /\ c.size >= 1 /\ c.dir \in {"pre", "rev"}
    BY StateNumbers
  <2>2. CASE c.dir = "rev"
    <3>1. Stop(s[i]) <= Pos(c) \/ Pos(c) + c.size <= s[i].offset
      <4>1. s[i].size > 0 /\ c \in H
        BY <1>2, <1>4, <1>5, <1>6, <2>2 DEF Of
      <4> QED BY <1>3, <1>6, <4>1, EntryApart
    <3>2. PICK r, o, z : r = Pos(c) /\ o = c.offset /\ z = c.size
      OBVIOUS
    <3>3. r \in Nat /\ o \in Nat /\ z \in Nat /\ r + o + z = End + Start
      BY <1>a, <2>2, <3>2
    <3>4. p + n <= r \/ r + z <= p
      <4>1. Stop(s[i]) \in Nat /\ p + n <= Stop(s[i])
        BY <1>4, <1>5, <1>6
      <4>2. Stop(s[i]) <= r \/ r + z <= p
        BY <1>6, <3>1, <3>2
      <4>3. p \in Nat
        BY <1>6
      <4> QED BY <1>5, <3>3, <4>1, <4>2, <4>3
    <3>5. o + z <= q \/ q + n <= o
      BY <1>5, <1>6, <1>8, <3>3, <3>4
    <3> QED BY <1>5, <1>8, <1>9, <2>2, <3>2, <3>3, <3>5 DEF Pool!Meet
  <2>3. CASE c.dir = "pre"
    <3>1. c.offset + c.size <= max_pre
      BY <2>3 DEF IInv, MarkInv
    <3> QED BY <1>5, <1>6, <1>8, <1>9, <2>1, <3>1 DEF Pool!Meet
  <2> QED BY <2>1, <2>2, <2>3
<1>12. Pool!Fits(b)
  BY <1>8, <1>9, <1>11 DEF Pool!Fits, Pool!End, End
<1>13. Pool!Nearest(b)
  <2> SUFFICES ASSUME NEW o \in Start .. End - 1, o > q, Pool!Fits([b EXCEPT !.offset = o]) PROVE FALSE
    BY <1>9 DEF Pool!Nearest, Pool!End, End
  <2>1. PICK a, r : a = [b EXCEPT !.offset = o] /\ r = Mirrored(o, n)
    OBVIOUS
  <2>2. a.offset = o /\ a.size = n /\ a.dir = "rev"
    BY <1>2, <2>1
  <2>3. o \in Nat /\ Start <= o /\ o + n <= End
    <3>1. a.offset + a.size <= End
      BY <2>1 DEF Pool!Fits, Pool!End, End
    <3> QED BY <1>5, <2>2, <3>1
  <2>4. r \in Nat /\ Start <= r /\ r + n <= End /\ r + o + n = End + Start /\ Mirrored(r, n) = o
    BY <1>5, <2>1, <2>3, MirrorNumbers
  <2>5. ASSUME NEW c \in H PROVE r + n <= Pos(c) \/ Pos(c) + c.size <= r
    <3>1. c \in held /\ c.dir = "rev"
      BY <1>2 DEF Of
    <3>2. PICK y, m, z : y = Pos(c) /\ m = c.offset /\ z = c.size
      OBVIOUS
    <3>3. y \in Nat /\ m \in Nat /\ z \in Nat /\ y + m + z = End + Start
      BY <1>a, <3>1, <3>2
    <3>4. ~(o < m + z /\ m < o + n)
      BY <2>1, <2>2, <3>1, <3>2 DEF Pool!Fits, Pool!Meet
    <3>5. r + n <= y \/ y + z <= r
      <4>1. o \in Nat /\ r \in Nat /\ r + o + n = End + Start
        BY <2>3, <2>4
      <4>2. PICK E : E = End + Start /\ E \in Nat
        BY <1>5
      <4>3. y + m + z = E /\ r + o + n = E
        BY <3>3, <4>1, <4>2
      <4> QED BY <1>5, <3>3, <3>4, <4>1, <4>2, <4>3, TwinsApart
    <3> QED BY <3>2, <3>5
  <2>6. PICK j \in 1 .. Len(s) : s[j].offset <= r /\ r + n <= Stop(s[j])
    BY <1>3, <1>5, <2>4, <2>5, FreeCovered
  <2>7. PICK y : y = s[j].offset
    OBVIOUS
  <2>8. y \in Nat /\ Start <= y /\ s[j].size \in Nat /\ Stop(s[j]) = y + s[j].size /\ y <= r /\ y + n <= End
    <3>1. y \in Nat /\ Start <= y /\ s[j].size \in Nat /\ Stop(s[j]) = y + s[j].size /\ y <= r
      BY <1>4, <2>6, <2>7
    <3>2. r \in Nat /\ r + n <= End
      BY <2>4
    <3>3. y + n <= End
      BY <1>5, <3>1, <3>2
    <3> QED BY <3>1, <3>3
  <2>9. s[j].size >= n
    <3>1. PICK z : z = s[j].size
      OBVIOUS
    <3>2. z \in Nat /\ y \in Nat /\ r \in Nat /\ y <= r /\ r + n <= y + z
      BY <2>4, <2>6, <2>8, <3>1
    <3> QED BY SMTT(30), <1>5, <3>1, <3>2
  <2>10. Mirrored(y, n) >= max_pre
    <3>1. PICK m : m = Mirrored(y, n)
      OBVIOUS
    <3>2. m \in Nat /\ m + y + n = End + Start
      BY <1>5, <2>8, <3>1, MirrorNumbers
    <3>a. r \in Nat /\ o \in Nat /\ y \in Nat /\ y <= r /\ r + o + n = End + Start
      BY <2>3, <2>4, <2>8
    <3>b. m >= o
      BY SMTT(30), <1>5, <3>2, <3>a
    <3>3. m >= o /\ o > q /\ q >= max_pre
      BY <1>6, <3>b
    <3> QED BY <1>5, <1>8, <2>3, <3>1, <3>2, <3>3
  <2>11. r < p
    <3>1. r \in Nat /\ o \in Nat /\ p \in Nat /\ q \in Nat /\ o > q
      BY <1>6, <1>8, <2>3, <2>4
    <3>2. r + o + n = End + Start /\ q + p + n = End + Start
      BY <1>8, <2>4
    <3> QED BY SMTT(30), <1>5, <3>1, <3>2
  <2>12. i <= j /\ i # j
    BY <1>6, <2>4, <2>7, <2>8, <2>9, <2>10, <2>11
  <2>13. Stop(s[i]) < s[j].offset
    BY <1>3, <1>6, <2>12 DEF Ordered
  <2> QED BY <1>4, <1>6, <2>4, <2>7, <2>8, <2>11, <2>13
<1>14. Pool!Alloc(b)
  BY <1>1, <1>2, <1>12, <1>13 DEF Pool!Alloc
<1> QED BY <1>10, <1>14 DEF Pool!Next

(* The pool is the pool its users count on: it implements RangePool.       *)
THEOREM PoolIsARangePool == Spec => IsRangePool
<1>1. Init => Pool!Init
  BY DEF Init, Pool!Init
<1>2. IInv /\ [Next]_vars => [Pool!Next]_held
  <2> SUFFICES ASSUME IInv, Next PROVE Pool!Next
    BY DEF vars
  <2>1. ASSUME NEW n \in Sizes, AllocOffset(n) PROVE Pool!Next
    BY <2>1, AllocRefines
  <2>2. ASSUME NEW n \in Sizes, ReverseAllocOffset(n) PROVE Pool!Next
    BY <2>2, ReverseAllocRefines
  <2>3. ASSUME NEW b \in Held, FreeOffset(b) PROVE Pool!Next
    <3>1. b \in Pool!Blocks
      BY DEF Held, Range, End, Pool!Blocks, Pool!End
    <3>2. Pool!Free(b)
      BY <2>3 DEF FreeOffset, Pool!Free
    <3> QED BY <3>1, <3>2 DEF Pool!Next
  <2> QED BY <2>1, <2>2, <2>3 DEF Next
<1> QED BY <1>1, <1>2, Invariant, PTL DEF Spec, IsRangePool, Pool!Spec

=============================================================================
