-------------------------- MODULE ExtentAllocator --------------------------
(***************************************************************************)
(* What an extent allocator promises, whatever its free list looks like:   *)
(* a region of Size bytes is carved into blocks, each block is either used *)
(* or free, and no byte below the bump pointer belongs to two blocks or to *)
(* none.  ExtentRegion (src/engine/extent.rs) implements it.               *)
(***************************************************************************)
EXTENDS Integers

CONSTANTS
    Size,       \* capacity of the region in bytes
    Needs       \* footprints that may be asked for (header and padding included)

\* What the proofs assume of the constants.
AllocatorAssumption ==
    /\ Size \in Nat
    /\ Needs \subseteq Nat \ {0}

VARIABLES
    used,       \* blocks handed out
    free,       \* blocks returned and not handed out again
    top         \* everything from here on was never handed out

avars == <<used, free, top>>

Block == [off : Nat, len : Nat \ {0}]
Blk(off, len) == [off |-> off, len |-> len]

AInit == used = {} /\ free = {} /\ top = 0

\* Reuse a free block; the tail that is not needed stays free.
Reuse(need) ==
    \E b \in free :
        /\ b.len >= need
        /\ used' = used \cup {Blk(b.off, need)}
        /\ free' = (free \ {b}) \cup
                   (IF b.len > need THEN {Blk(b.off + need, b.len - need)} ELSE {})
        /\ top' = top

\* Take the block from the untouched tail of the region.
Bump(need) ==
    /\ top + need <= Size
    /\ used' = used \cup {Blk(top, need)}
    /\ top' = top + need
    /\ free' = free

\* Give a set of used blocks back.
Release ==
    \E S \in SUBSET used :
        /\ used' = used \ S
        /\ free' = free \cup S
        /\ top' = top

ANext == (\E need \in Needs : Reuse(need) \/ Bump(need)) \/ Release

ASpec == AInit /\ [][ANext]_avars

-----------------------------------------------------------------------------
Disjoint(b, c) == b.off + b.len <= c.off \/ c.off + c.len <= b.off

\* Every variable has its type.
ATypeOK == used \subseteq Block /\ free \subseteq Block /\ top \in 0 .. Size

\* No two blocks share a byte, and no block reaches past the bump pointer.
NoOverlap ==
    /\ \A b, c \in used \cup free : b # c => Disjoint(b, c)
    /\ used \cap free = {}
    /\ \A b \in used \cup free : b.off + b.len <= top

\* No byte below the bump pointer is lost: it is in a used or in a free block.
NothingLost ==
    \A x \in 0 .. top - 1 : \E b \in used \cup free : b.off <= x /\ x < b.off + b.len
=============================================================================
