----------------------------- MODULE OffsetPool -----------------------------
(***************************************************************************)
(* A pool of sys_humber_opf.c.  Two lists of free blocks cover the same    *)
(* range: one for allocation from the bottom, one, in mirrored offsets,    *)
(* for allocation from the top.  Neither list knows what the other handed  *)
(* out; two marks, the end of the one area and the begin of the other,     *)
(* keep them apart and tell which list a freed block came from.  The marks *)
(* move with every call, unless a part of the range is reserved.           *)
(*                                                                         *)
(* The next-hop tables allocate from both ends, with reserved parts; user  *)
(* ids from both ends without; the pools of adpt_opf.c from the bottom     *)
(* only.  A call that is refused changes nothing and is no step.           *)
(***************************************************************************)
EXTENDS Integers, Sequences, FiniteSets

CONSTANTS Start, MaxSize,   \* start_offset and max_size
          Sizes,            \* the block sizes the users ask for
          Reserves          \* sizes that may be reserved for the top, 0: none

ASSUME RangeAssumption ==
    /\ Start \in Nat
    /\ MaxSize \in Nat \ {0}
    /\ Sizes \subseteq 1 .. MaxSize
    /\ Reserves \subseteq 0 .. MaxSize

VARIABLES
    pre,         \* ppp_opf_pre: free blocks by offset
    rev,         \* ppp_opf_rev: free blocks by mirrored offset
    max_pre,     \* max_offset_for_pre_alloc
    min_rev,     \* min_offset_for_rev_alloc
    is_reserve,  \* is_reserve
    held         \* history: the blocks handed out, and by which function

vars == <<pre, rev, max_pre, min_rev, is_reserve, held>>

End   == Start + MaxSize
Range == Start .. End - 1
Entry(o, n) == [offset |-> o, size |-> n]
Stop(e) == e.offset + e.size
Mirrored(o, n) == End - o - n + Start

Entries == [offset : Start .. End, size : 0 .. MaxSize]
Held    == [offset : Range, size : Sizes, dir : {"pre", "rev"}]

TypeOK ==
    /\ pre \in Seq(Entries)
    /\ rev \in Seq(Entries) /\ rev # <<>>
    /\ max_pre \in Start .. End
    /\ min_rev \in Start .. End
    /\ is_reserve \in BOOLEAN
    /\ held \in SUBSET Held

(* sys_humber_opf_init_offset and, for some of the pools,                  *)
(* sys_humber_opf_reserve_size_for_reverse_alloc.                          *)
Init ==
    /\ pre = <<Entry(Start, MaxSize)>>
    /\ rev = <<Entry(Start, MaxSize)>>
    /\ held = {}
    /\ \E n \in Reserves :
          /\ is_reserve = (n # 0)
          /\ max_pre = IF n = 0 THEN Start ELSE End - n
          /\ min_rev = End - n

----------------------------------------------------------------------------
Removed(s, i) == SubSeq(s, 1, i - 1) \o SubSeq(s, i + 1, Len(s))
Front(s, i)   == SubSeq(s, 1, i - 1)
Rest(s, i)    == SubSeq(s, i, Len(s))
First(i, S)   == i \in S /\ \A j \in S : i <= j
Larger(m, n)  == IF m < n THEN n ELSE m
Smaller(m, n) == IF m < n THEN m ELSE n

Taken(e, n) == Entry(e.offset + n, e.size - n)

(* sys_humber_opf_alloc_offset: the first block that is large enough and   *)
(* ends below the area of the top.                                         *)
FitsUnbounded(e, n) == e.size >= n   \* mutant: the other area is not looked at

Fits(e, n) == e.size >= n /\ e.offset + n - 1 < min_rev

AllocOffset(n) ==
    \E i \in 1 .. Len(pre) :
        /\ First(i, {j \in 1 .. Len(pre) : Fits(pre[j], n)})
        /\ pre' = IF pre[i].size = n THEN Removed(pre, i)
                  ELSE [pre EXCEPT ![i] = Taken(@, n)]
        /\ max_pre' = Larger(max_pre, pre[i].offset + n)
        /\ held' = held \cup {[offset |-> pre[i].offset, size |-> n, dir |-> "pre"]}
        /\ UNCHANGED <<rev, min_rev, is_reserve>>

(* sys_humber_opf_reverse_alloc_offset: the same from the top; the last    *)
(* node of the list stays even when it is empty.                           *)
RevFits(e, n) == e.size >= n /\ Mirrored(e.offset, n) >= max_pre

DropsLastNode(i, n) ==   \* mutant: an empty last node is freed as well
    IF rev[i].size = n THEN Removed(rev, i) ELSE [rev EXCEPT ![i] = Taken(@, n)]

RevTaken(i, n) ==
    IF rev[i].size = n /\ i < Len(rev) THEN Removed(rev, i)
    ELSE [rev EXCEPT ![i] = Taken(@, n)]

ReverseAllocOffset(n) ==
    \E i \in 1 .. Len(rev) :
        LET o == Mirrored(rev[i].offset, n)
        IN /\ First(i, {j \in 1 .. Len(rev) : RevFits(rev[j], n)})
           /\ rev' = RevTaken(i, n)
           /\ min_rev' = Smaller(min_rev, o)
           /\ held' = held \cup {[offset |-> o, size |-> n, dir |-> "rev"]}
           /\ UNCHANGED <<pre, max_pre, is_reserve>>

----------------------------------------------------------------------------
(***************************************************************************)
(* _sys_humber_opf_pre_free_offset.  The loop stops at the first block     *)
(* that does not end before the offset: the freed one is joined with it in *)
(* front or behind (and then perhaps with the next), put before it, or     *)
(* refused if the two overlap.  The mark goes back only when a block was   *)
(* joined that reaches up to it.                                           *)
(***************************************************************************)
MarkBackAlways(e) == IF is_reserve THEN max_pre ELSE e.offset   \* mutant: not compared

MarkBack(e) == IF max_pre <= Stop(e) /\ ~is_reserve THEN e.offset ELSE max_pre

PreFree(o, n) ==
    LET here == {i \in 1 .. Len(pre) : o <= Stop(pre[i])}
        At(i, e, behind) ==
            /\ pre' = Front(pre, i) \o <<e>> \o Rest(pre, behind)
            /\ max_pre' = MarkBack(e)
    IN \/ /\ here = {}
          /\ pre' = Append(pre, Entry(o, n))
          /\ UNCHANGED max_pre
       \/ \E i \in here :
             LET e == pre[i]
                 joins == i < Len(pre) /\ pre[i + 1].offset = o + n
             IN /\ First(i, here)
                /\ CASE o + n = e.offset -> At(i, Entry(o, e.size + n), i + 1)
                     [] Stop(e) = o /\ joins ->
                          At(i, Entry(e.offset, e.size + n + pre[i + 1].size), i + 2)
                     [] Stop(e) = o /\ ~joins -> At(i, Entry(e.offset, e.size + n), i + 1)
                     [] o + n < e.offset ->
                          /\ pre' = Front(pre, i) \o <<Entry(o, n)>> \o Rest(pre, i)
                          /\ UNCHANGED max_pre
                     [] OTHER -> UNCHANGED <<pre, max_pre>>

(* _sys_humber_opf_reverse_free_offset: the same in mirrored offsets.  The *)
(* mark goes back when the joined block is the last one of the list.       *)
RevMarkStays(e, last) == min_rev   \* mutant: the mark of the top never goes back

RevMark(e, last) ==
    IF last /\ ~is_reserve THEN End - e.offset + Start ELSE min_rev

RevFreeUnjoined(o, n) ==   \* mutant: not joined with the block in front
    LET r    == Mirrored(o, n)
        here == {i \in 1 .. Len(rev) : r + n <= rev[i].offset}
    IN \E i \in here :
          LET joined == r + n = rev[i].offset
              node   == IF joined THEN Entry(r, n + rev[i].size) ELSE Entry(r, n)
              behind == IF joined THEN i + 1 ELSE i
          IN /\ First(i, here)
             /\ rev' = Front(rev, i) \o <<node>> \o Rest(rev, behind)
             /\ min_rev' = RevMark(node, behind > Len(rev))

RevFree(o, n) ==
    LET r    == Mirrored(o, n)
        here == {i \in 1 .. Len(rev) : r + n <= rev[i].offset}
    IN IF here = {} THEN UNCHANGED <<rev, min_rev>>
       ELSE \E i \in here :
          LET joined == r + n = rev[i].offset
              node   == IF joined THEN Entry(r, n + rev[i].size) ELSE Entry(r, n)
              behind == IF joined THEN i + 1 ELSE i
              prior  == i > 1 /\ Stop(rev[i - 1]) = r
              whole  == IF prior THEN Entry(rev[i - 1].offset, rev[i - 1].size + node.size)
                        ELSE node
          IN /\ First(i, here)
             /\ IF ~joined /\ i > 1 /\ r < Stop(rev[i - 1])
                THEN UNCHANGED <<rev, min_rev>>
                ELSE /\ rev' = Front(rev, IF prior THEN i - 1 ELSE i)
                               \o <<whole>> \o Rest(rev, behind)
                     /\ min_rev' = RevMark(whole, behind > Len(rev))

(* sys_humber_opf_free_offset: the mark tells which list the block came    *)
(* from.  A free that is refused leaves the lists alone; the caller has    *)
(* forgotten the block all the same.                                       *)
FreeOffset(b) ==
    /\ b \in held
    /\ held' = held \ {b}
    /\ IF b.offset >= max_pre
       THEN RevFree(b.offset, b.size) /\ UNCHANGED <<pre, max_pre>>
       ELSE PreFree(b.offset, b.size) /\ UNCHANGED <<rev, min_rev>>
    /\ UNCHANGED is_reserve

Next ==
    \/ \E n \in Sizes : AllocOffset(n) \/ ReverseAllocOffset(n)
    \/ \E b \in Held : FreeOffset(b)

Spec == Init /\ [][Next]_vars

----------------------------------------------------------------------------
(* The mark that free looks at sends every block to the list it came from. *)
RightList == \A b \in held : (b.dir = "rev") <=> (b.offset >= max_pre)

(* Each list holds exactly the offsets its own end has not handed out, in  *)
(* order and in blocks as large as can be: no sequence of calls loses an   *)
(* offset or leaves two blocks apart that a larger request would need as   *)
(* one.                                                                    *)
Offsets(e) == e.offset .. Stop(e) - 1
Owned(d)   == UNION {Offsets(b) : b \in {c \in held : c.dir = d}}
Apart(s)   == \A i \in 2 .. Len(s) : Stop(s[i - 1]) < s[i].offset
ListsExact ==
    /\ Apart(pre) /\ Apart(rev)
    /\ UNION {Offsets(pre[i]) : i \in 1 .. Len(pre)} = Range \ Owned("pre")
    /\ UNION {Offsets(Entry(Mirrored(rev[i].offset, rev[i].size), rev[i].size)) :
                 i \in 1 .. Len(rev)} = Range \ Owned("rev")

(* A request from the bottom is refused only if no place for it is free    *)
(* below the blocks of the top (below the reserved part, if there is one). *)
Served ==
    \A n \in Sizes : \A o \in Range :
        LET b == Entry(o, n)
        IN (/\ Stop(b) <= (IF is_reserve THEN min_rev ELSE End)
            /\ \A c \in held : IF c.dir = "rev" THEN Stop(b) <= c.offset
                               ELSE Stop(b) <= c.offset \/ Stop(c) <= o)
           => \E i \in 1 .. Len(pre) : Fits(pre[i], n)

Pool == INSTANCE RangePool

(* The pool is the pool its users count on: no offset is handed out twice, *)
(* although each list would hand out what the other one has; the lowest    *)
(* place goes first from the bottom, the highest from the top.             *)
IsRangePool == Pool!Spec
=============================================================================
