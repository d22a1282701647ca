----------------------------- MODULE RangePool -----------------------------
(***************************************************************************)
(* What a pool of offsets promises to its users (entry ids, flow ids, next *)
(* hops, table words): a block that is handed out overlaps no other, the   *)
(* one end grows from the bottom and takes the lowest place, the other end *)
(* grows from the top and takes the highest.  The modules that allocate    *)
(* use it as a set with lowest-free allocation.                            *)
(***************************************************************************)
EXTENDS Integers

CONSTANTS Start, MaxSize,   \* the range of the pool
          Sizes             \* the sizes of blocks that are asked for

VARIABLE held   \* the blocks that are handed out

End == Start + MaxSize
Blocks == [offset : Start .. End - 1, size : Sizes, dir : {"pre", "rev"}]

Meet(b, c) == b.offset < c.offset + c.size /\ c.offset < b.offset + b.size

(* b is inside the range, and below or above all blocks of the other end.  *)
Fits(b) ==
    /\ b.offset + b.size <= End
    /\ \A c \in held : ~Meet(b, c)
    /\ \A c \in held : c.dir # b.dir =>
          IF b.dir = "pre" THEN b.offset < c.offset ELSE c.offset < b.offset

(* No place nearer to its own end could have been taken.                   *)
Nearest(b) ==
    \A o \in Start .. End - 1 :
        (IF b.dir = "pre" THEN o < b.offset ELSE o > b.offset) =>
            ~Fits([b EXCEPT !.offset = o])

Init == held = {}
Alloc(b) == Fits(b) /\ Nearest(b) /\ held' = held \cup {b}
Free(b) == b \in held /\ held' = held \ {b}

Next == \E b \in Blocks : Alloc(b) \/ Free(b)
Spec == Init /\ [][Next]_held
=============================================================================
