---------------------------- MODULE Extent_proofs ----------------------------
(***************************************************************************)
(* Proofs about the large object region and the collector above it.        *)
(*   ExtentRegion, for any region size and lengths: it implements the      *)
(*   abstract allocator, so that extents and free blocks never overlap.    *)
(*   EpochGc, for any keys, clients and clock as well: it takes no extent  *)
(*   away from a reader or a live key.                                     *)
(***************************************************************************)
EXTENDS EpochGc, WellFoundedInduction, TLAPS

(***************************************************************************)
(* Sequences.                                                              *)
(***************************************************************************)
LEMMA Cut ==
    ASSUME NEW S, NEW s \in Seq(S), NEW m \in 1 .. Len(s) + 1, NEW n \in 0 .. Len(s)
    PROVE  /\ SubSeq(s, m, n) \in Seq(S) /\ Len(SubSeq(s, m, n)) = IF m <= n THEN n - m + 1 ELSE 0
           /\ \A i \in 1 .. n - m + 1 : SubSeq(s, m, n)[i] = s[m + i - 1]
OBVIOUS

LEMMA SeqType ==
    ASSUME NEW S, NEW s \in Seq(S)
    PROVE  /\ Len(s) \in Nat /\ s \in [1 .. Len(s) -> S] /\ DOMAIN s = 1 .. Len(s)
           /\ \A i \in 1 .. Len(s) : s[i] \in S
OBVIOUS

LEMMA FunSeq == ASSUME NEW S, NEW n \in Nat, NEW f \in [1 .. n -> S] PROVE f \in Seq(S)
OBVIOUS

LEMMA SeqIncl == ASSUME NEW S, NEW T, S \subseteq T PROVE Seq(S) \subseteq Seq(T)
<1> SUFFICES ASSUME NEW s \in Seq(S) PROVE s \in Seq(T)
  BY Zenon
<1>1. Len(s) \in Nat /\ s \in [1 .. Len(s) -> S]
  BY SeqType
<1>2. s \in [1 .. Len(s) -> T]
  BY <1>1, Zenon
<1> QED
  BY <1>1, <1>2, FunSeq, Zenon

LEMMA Joined ==
    ASSUME NEW S, NEW s \in Seq(S), NEW t \in Seq(S)
    PROVE  /\ s \o t \in Seq(S) /\ Len(s \o t) = Len(s) + Len(t)
           /\ \A i \in 1 .. Len(s) + Len(t) : (s \o t)[i] = IF i <= Len(s) THEN s[i] ELSE t[i - Len(s)]
OBVIOUS

LEMMA JoinedEmpty == ASSUME NEW S, NEW s \in Seq(S) PROVE s \o <<>> = s
OBVIOUS

LEMMA RangeConcat ==
    ASSUME NEW S, NEW s \in Seq(S), NEW t \in Seq(S)
    PROVE  Range(s \o t) = Range(s) \cup Range(t)
<1> DEFINE q == s \o t
           m == Len(s)
           n == Len(t)
<1>1. /\ m \in Nat /\ n \in Nat /\ DOMAIN s = 1 .. m /\ DOMAIN t = 1 .. n /\ DOMAIN q = 1 .. m + n
      /\ \A i \in 1 .. m + n : q[i] = IF i <= m THEN s[i] ELSE t[i - m]
  BY Joined, SeqType
<1> HIDE DEF q, m, n
<1>2. /\ \A i \in 1 .. m : i \in 1 .. m + n /\ q[i] = s[i]
      /\ \A i \in 1 .. n : i + m \in 1 .. m + n /\ q[i + m] = t[i]
      /\ \A i \in 1 .. m + n : (q[i] = s[i] /\ i \in 1 .. m) \/ (q[i] = t[i - m] /\ i - m \in 1 .. n)
  BY <1>1
<1>3. ASSUME NEW x \in Range(q) PROVE x \in Range(s) \cup Range(t)
  BY <1>1, <1>2, <1>3, SMTT(30) DEF Range
<1>4. ASSUME NEW x \in Range(s) \cup Range(t) PROVE x \in Range(q)
  BY <1>1, <1>2, <1>4, SMTT(30) DEF Range
<1> QED
  BY <1>3, <1>4, Zenon DEF q

LEMMA Appended ==
    ASSUME NEW S, NEW s \in Seq(S), NEW x \in S
    PROVE  /\ Append(s, x) \in Seq(S) /\ Len(Append(s, x)) = Len(s) + 1
           /\ Append(s, x)[Len(s) + 1] = x /\ \A i \in 1 .. Len(s) : Append(s, x)[i] = s[i]
OBVIOUS

(***************************************************************************)
(* The region.                                                             *)
(***************************************************************************)
Blk(off, len) == [off |-> off, len |-> len]
Block == [off : Nat, len : Nat \ {0}]

(***************************************************************************)
(* The abstract allocator, of the blocks of the region.                    *)
(***************************************************************************)
AInv == Allocator!ATypeOK /\ Allocator!NoOverlap

\* Reusing a free block keeps blocks apart.
LEMMA ReuseSafe ==
    ASSUME Allocator!AllocatorAssumption, AInv, NEW need \in Footprints, Allocator!Reuse(need)
    PROVE  AInv' /\ (Allocator!NothingLost => Allocator!NothingLost')
<1> USE DEF Allocator!AllocatorAssumption, AInv, Allocator!ATypeOK, Allocator!Block, Allocator!Blk,
            Block, Blk
<1>1. PICK b \in FreeBlocks :
          /\ b.len >= need
          /\ Blocks' = Blocks \cup {Blk(b.off, need)}
          /\ FreeBlocks' = (FreeBlocks \ {b}) \cup
                     (IF b.len > need THEN {Blk(b.off + need, b.len - need)} ELSE {})
          /\ next_offset' = next_offset
  BY Zenon DEF Allocator!Reuse
<1>2. b.off \in Nat /\ b.len \in Nat \ {0} /\ need \in Nat \ {0}
  BY Zenon
<1>3. Allocator!ATypeOK'
  BY <1>1, <1>2
<1>4. \A c \in (Blocks \cup FreeBlocks) \ {b} : Allocator!Disjoint(b, c)
  BY <1>1, Zenon DEF Allocator!NoOverlap, Allocator!Disjoint
<1>5. b \notin Blocks /\ b.off + b.len <= next_offset
  BY <1>1, Zenon DEF Allocator!NoOverlap
<1>6. Allocator!NoOverlap'
  <2>1. CASE b.len > need
    BY <1>1, <1>2, <1>4, <1>5, <2>1 DEF Allocator!NoOverlap, Allocator!Disjoint
  <2>2. CASE b.len = need
    BY <1>1, <1>2, <1>4, <1>5, <2>2 DEF Allocator!NoOverlap, Allocator!Disjoint
  <2> QED BY <1>1, <1>2, <2>1, <2>2
<1>7. ASSUME Allocator!NothingLost PROVE Allocator!NothingLost'
  <2> SUFFICES ASSUME NEW x \in 0 .. next_offset - 1
               PROVE  \E c \in Blocks' \cup FreeBlocks' : c.off <= x /\ x < c.off + c.len
    BY <1>1, Zenon DEF Allocator!NothingLost
  <2>1. PICK c \in Blocks \cup FreeBlocks : c.off <= x /\ x < c.off + c.len
    BY <1>7, Zenon DEF Allocator!NothingLost
  <2>2. CASE c # b
    BY <1>1, <2>1, <2>2, Zenon
  <2>3. CASE c = b /\ x < b.off + need
    <3>1. Blk(b.off, need) \in Blocks' \cup FreeBlocks'
      BY <1>1, Zenon
    <3> QED BY <1>2, <2>1, <2>3, <3>1, Zenon
  <2>4. CASE c = b /\ x >= b.off + need
    <3>1. b.len > need
      BY <1>2, <2>1, <2>4
    <3>2. Blk(b.off + need, b.len - need) \in Blocks' \cup FreeBlocks'
      BY <1>1, <3>1, Zenon
    <3> QED BY <1>2, <2>1, <2>4, <3>2
  <2> QED BY <1>2, <2>2, <2>3, <2>4
<1> QED BY <1>3, <1>6, <1>7

\* So does taking a block from the tail.
LEMMA BumpSafe ==
    ASSUME Allocator!AllocatorAssumption, AInv, NEW need \in Footprints, Allocator!Bump(need)
    PROVE  AInv' /\ (Allocator!NothingLost => Allocator!NothingLost')
<1> USE DEF Allocator!AllocatorAssumption, AInv, Allocator!ATypeOK, Allocator!Block, Allocator!Blk,
            Block, Blk, Allocator!Bump
<1>1. need \in Nat \ {0} /\ next_offset \in Nat
  OBVIOUS
<1>2. Allocator!ATypeOK'
  BY <1>1
<1>3. Allocator!NoOverlap'
  BY <1>1 DEF Allocator!NoOverlap, Allocator!Disjoint
<1>4. ASSUME Allocator!NothingLost PROVE Allocator!NothingLost'
  <2> SUFFICES ASSUME NEW x \in 0 .. next_offset + need - 1
               PROVE  \E c \in Blocks' \cup FreeBlocks' : c.off <= x /\ x < c.off + c.len
    BY DEF Allocator!NothingLost
  <2>1. CASE x < next_offset
    BY <1>4, <2>1 DEF Allocator!NothingLost
  <2>2. CASE x >= next_offset
    <3>1. Blk(next_offset, need) \in Blocks' \cup FreeBlocks'
      BY Zenon
    <3>2. Blk(next_offset, need).off <= x /\ x < Blk(next_offset, need).off + Blk(next_offset, need).len
      BY <1>1, <2>2
    <3> QED BY <3>1, <3>2, Zenon
  <2> QED BY <1>1, <2>1, <2>2
<1> QED BY <1>2, <1>3, <1>4, Zenon

\* And giving blocks back.
LEMMA ReleaseSafe ==
    ASSUME AInv, Allocator!Release
    PROVE  AInv' /\ (Allocator!NothingLost => Allocator!NothingLost')
<1>1. PICK S \in SUBSET Blocks :
          Blocks' = Blocks \ S /\ FreeBlocks' = FreeBlocks \cup S /\ next_offset' = next_offset
  BY Zenon DEF Allocator!Release
<1>2. /\ Blocks' \cup FreeBlocks' = Blocks \cup FreeBlocks
      /\ Blocks' \cap FreeBlocks' = Blocks \cap FreeBlocks \cap Blocks'
  BY <1>1, Zenon DEF AInv, Allocator!NoOverlap
<1>3. Allocator!ATypeOK'
  BY <1>1, Zenon DEF AInv, Allocator!ATypeOK
<1>4. Allocator!NoOverlap'
  BY <1>1, <1>2, Zenon DEF AInv, Allocator!NoOverlap
<1>5. Allocator!NothingLost => Allocator!NothingLost'
  BY <1>1, <1>2, Zenon DEF Allocator!NothingLost
<1> QED BY <1>3, <1>4, <1>5, Zenon DEF AInv

\* An allocator that follows the abstract specification never hands out a byte
\* twice and never loses one, however blocks are split, freed and reused
\* (LargeObjectRegion::allocate, free, sweep).
THEOREM AllocatorSound ==
    ASSUME Allocator!AllocatorAssumption
    PROVE  Allocator!ASpec => [](Allocator!ATypeOK /\ Allocator!NoOverlap /\ Allocator!NothingLost)
<1> DEFINE Inv == AInv /\ Allocator!NothingLost
<1>1. Allocator!AInit => Inv
  BY DEF Allocator!AllocatorAssumption, Allocator!AInit, AInv, Allocator!ATypeOK,
         Allocator!NoOverlap, Allocator!NothingLost
<1>2. Inv /\ [Allocator!ANext]_Allocator!avars => Inv'
  <2> SUFFICES ASSUME AInv, Allocator!NothingLost, [Allocator!ANext]_Allocator!avars
               PROVE  AInv' /\ Allocator!NothingLost'
    BY Zenon
  <2>1. CASE \E need \in Footprints : Allocator!Reuse(need)
    BY <2>1, ReuseSafe, Zenon
  <2>2. CASE \E need \in Footprints : Allocator!Bump(need)
    BY <2>2, BumpSafe, Zenon
  <2>3. CASE Allocator!Release
    BY <2>3, ReleaseSafe, Zenon
  <2>4. CASE UNCHANGED Allocator!avars
    BY <2>4, Zenon DEF Allocator!avars, AInv, Allocator!ATypeOK, Allocator!NoOverlap, Allocator!NothingLost
  <2> QED BY <2>1, <2>2, <2>3, <2>4, Zenon DEF Allocator!ANext
<1>3. Inv => Allocator!ATypeOK /\ Allocator!NoOverlap /\ Allocator!NothingLost
  BY Zenon DEF AInv
<1> QED BY <1>1, <1>2, <1>3, PTL DEF Allocator!ASpec

(***************************************************************************)
(* Numbers, functions and sequences.                                       *)
(***************************************************************************)

\* A footprint is a positive number that covers the header and the payload.
LEMMA FootprintCovers ==
    /\ \A len \in Nat : ExtentTotal(len) \in Nat \ {0} /\ HeaderV2 + len <= ExtentTotal(len)
    /\ \A n \in Footprints : n \in Nat \ {0}
<1>1. \A len \in Nat : ExtentTotal(len) \in Nat \ {0} /\ HeaderV2 + len <= ExtentTotal(len)
  BY DEF ExtentTotal, AlignUp, HeaderV2, Align
<1>2. \A n \in Footprints : n \in Nat \ {0}
  BY <1>1, RegionAssumption DEF Footprints, HeaderV1
<1> QED BY <1>1, <1>2, Zenon

\* The assumption the abstract allocator makes.
LEMMA AllocatorAssumed == Allocator!AllocatorAssumption
BY FootprintCovers, RegionAssumption, Zenon DEF Allocator!AllocatorAssumption

\* Equal ranges have equal ends.
LEMMA SameRange ==
    ASSUME NEW a \in Nat, NEW b \in Nat, 1 .. a = 1 .. b
    PROVE  a = b
<1>1. CASE a < b
  <2>1. b \in 1 .. b /\ b \notin 1 .. a
    BY <1>1
  <2> QED BY <2>1, Zenon
<1>2. CASE b < a
  <2>1. a \in 1 .. a /\ a \notin 1 .. b
    BY <1>2
  <2> QED BY <2>1, Zenon
<1> QED BY <1>1, <1>2

\* A sequence without its i-th element.
LEMMA RemoveAtProperties ==
    ASSUME NEW S, NEW s \in Seq(S), NEW i \in 1 .. Len(s)
    PROVE  /\ RemoveAt(s, i) \in Seq(S)
           /\ Len(RemoveAt(s, i)) = Len(s) - 1
           /\ \A j \in 1 .. Len(s) - 1 : RemoveAt(s, i)[j] = IF j < i THEN s[j] ELSE s[j + 1]
<1> DEFINE a == SubSeq(s, 1, i - 1)
           b == SubSeq(s, i + 1, Len(s))
           q == a \o b
<1>1. Len(s) \in Nat /\ i \in Nat /\ \A j \in 1 .. Len(s) : s[j] \in S
  BY SeqType
<1>2. /\ a \in Seq(S) /\ Len(a) = i - 1 /\ \A j \in 1 .. i - 1 : a[j] = s[j]
  BY <1>1, Cut
<1>3. /\ b \in Seq(S) /\ Len(b) = Len(s) - i /\ \A j \in 1 .. Len(s) - i : b[j] = s[i + j]
  BY <1>1, Cut
<1>4. RemoveAt(s, i) = q
  BY Zenon DEF RemoveAt
<1> HIDE DEF a, b
<1>5. /\ q \in Seq(S) /\ Len(q) = Len(a) + Len(b)
      /\ \A j \in 1 .. Len(a) + Len(b) : q[j] = IF j <= Len(a) THEN a[j] ELSE b[j - Len(a)]
  BY <1>2, <1>3, Joined, Zenon
<1> HIDE DEF q
<1>6. Len(q) = Len(s) - 1
  BY <1>1, <1>2, <1>3, <1>5
<1>7. ASSUME NEW j \in 1 .. Len(s) - 1 PROVE q[j] = IF j < i THEN s[j] ELSE s[j + 1]
  <2>1. CASE j < i
    <3>1. j \in 1 .. Len(a) + Len(b) /\ j <= Len(a) /\ j \in 1 .. i - 1
      BY <1>1, <1>2, <1>3, <2>1
    <3> QED BY <1>2, <1>5, <2>1, <3>1, Zenon
  <2>2. CASE ~(j < i)
    <3>1. /\ j \in 1 .. Len(a) + Len(b) /\ ~(j <= Len(a)) /\ j - Len(a) \in 1 .. Len(s) - i
          /\ i + (j - Len(a)) = j + 1
      BY <1>1, <1>2, <1>3, <2>2
    <3> QED BY <1>3, <1>5, <2>2, <3>1, Zenon
  <2> QED BY <2>1, <2>2
<1> QED BY <1>4, <1>5, <1>6, <1>7, Zenon

\* A non-empty set of naturals has a least element, and Min is it.
LEMMA MinOfNaturals ==
    ASSUME NEW S \in SUBSET Nat, S # {}
    PROVE  Min(S) \in S /\ \A x \in S : Min(S) <= x
<1>1. \E x \in S : \A y \in S : ~(<<y, x>> \in OpToRel(<, Nat))
  BY NatLessThanWellFounded, WFMin, Zenon
<1>2. PICK x \in S : \A y \in S : ~(<<y, x>> \in OpToRel(<, Nat))
  BY <1>1, Zenon
<1>3. ASSUME NEW y \in S PROVE x <= y
  <2>1. y \in Nat /\ x \in Nat /\ <<y, x>> \in Nat \X Nat
    BY Zenon
  <2>2. ~(y < x)
    BY <1>2, <2>1, Zenon DEF OpToRel
  <2> QED BY <2>1, <2>2
<1> QED BY <1>3, Zenon DEF Min

\* A non-empty set of naturals up to n has a greatest element, and Max is in the set.
LEMMA MaxOfBounded ==
    ASSUME NEW n \in Nat, NEW S \in SUBSET (1 .. n), S # {}
    PROVE  Max(S) \in S
<1> DEFINE T == {m \in Nat : n - m \in S}
<1>1. PICK x \in S : TRUE
  BY Zenon
<1>2. n - x \in T
  <2>1. n - x \in Nat /\ n - (n - x) = x
    BY <1>1
  <2> QED BY <1>1, <2>1, Zenon
<1>3. T \in SUBSET Nat /\ T # {}
  BY <1>2, Zenon
<1>4. Min(T) \in T /\ \A m \in T : Min(T) <= m
  BY <1>3, MinOfNaturals, Zenon
<1>5. n - Min(T) \in S /\ Min(T) \in Nat
  BY <1>4, Zenon
<1>6. ASSUME NEW y \in S PROVE n - Min(T) >= y
  <2>1. n - y \in Nat /\ n - (n - y) = y
    OBVIOUS
  <2>2. n - y \in T
    BY <2>1, Zenon
  <2>3. Min(T) <= n - y
    BY <1>4, <2>2, Zenon
  <2> HIDE DEF T
  <2> QED BY <1>5, <2>1, <2>3
<1>7. \E m \in S : \A y \in S : m >= y
  BY <1>5, <1>6, Zenon
<1> QED BY <1>7, Zenon DEF Max

(***************************************************************************)
(* The region.                                                             *)
(***************************************************************************)

\* The header h says what the allocation of n bytes behind it took: a V2 header that is
\* in use is whole, a V1 header never carries an epoch.
Sound(h, n) ==
    /\ h = [fmt |-> h.fmt, magic |-> h.magic, len |-> h.len, epoch |-> h.epoch, data |-> h.data]
    /\ h.len \in Nat
    /\ \/ /\ h.fmt = "V2" /\ h.magic = TRUE /\ h.epoch \in Nat /\ h.epoch # MagicEpoch
          /\ n = ExtentTotal(h.len)
       \/ h.fmt = "V1" /\ h.magic \in BOOLEAN /\ h.epoch = 0 /\ (h.magic => n = HeaderV1 + h.len)

HeadersSound(hs) == allocated \subseteq DOMAIN hs /\ \A o \in allocated : Sound(hs[o], foot[o])

RTyped ==
    /\ free_list \in Seq(Block)
    /\ allocated \subseteq Nat
    /\ next_offset \in Nat
    /\ DOMAIN foot = allocated

\* No block is in the free list twice.
NoTwice == \A i, j \in 1 .. Len(free_list) : i # j => free_list[i] # free_list[j]

RegionInv == RTyped /\ NoTwice /\ HeadersSound(hdr) /\ AInv

\* free and sweep compute from a header that can be decoded what was allocated.
LEMMA FootprintFound ==
    ASSUME NEW h, NEW n, Sound(h, n), DecodeHeader(h).magic
    PROVE  FootprintOf(DecodeHeader(h)) = n
<1>1. CASE h.fmt = "V2"
  <2>1. DecodeHeader(h) = Decoded(TRUE, h.len, h.epoch, TRUE)
    BY <1>1, Zenon DEF Sound, DecodeHeader
  <2> QED BY <1>1, <2>1 DEF Sound, Decoded, FootprintOf
<1>2. CASE h.fmt = "V1"
  <2>1. DecodeHeader(h) = IF h.magic THEN Decoded(TRUE, h.len, h.epoch, FALSE) ELSE NoMagic
    BY <1>2, Zenon DEF DecodeHeader
  <2>2. h.magic
    BY <2>1 DEF NoMagic, Decoded
  <2> QED BY <1>2, <2>1, <2>2 DEF Sound, Decoded, FootprintOf
<1> QED BY <1>1, <1>2, Zenon DEF Sound

\* The epoch a sweep sees is the header's, and only a V2 header has one.
LEMMA EpochSeen ==
    ASSUME NEW h, NEW n, Sound(h, n)
    PROVE  /\ DecodeHeader(h).epoch = h.epoch /\ h.epoch \in Nat
           /\ h.epoch > 0 => h.fmt = "V2" /\ DecodeHeader(h).magic
<1>1. CASE h.fmt = "V2"
  <2>1. DecodeHeader(h) = Decoded(TRUE, h.len, h.epoch, TRUE)
    BY <1>1, Zenon DEF Sound, DecodeHeader
  <2> QED BY <1>1, <2>1 DEF Sound, Decoded
<1>2. CASE h.fmt = "V1"
  <2>1. DecodeHeader(h) = IF h.magic THEN Decoded(TRUE, h.len, h.epoch, FALSE) ELSE NoMagic
    BY <1>2, Zenon DEF DecodeHeader
  <2>2. h.epoch = 0
    BY <1>2, Zenon DEF Sound
  <2>3. DecodeHeader(h).epoch = 0
    BY <2>1, <2>2 DEF NoMagic, Decoded
  <2> QED BY <2>2, <2>3
<1> QED BY <1>1, <1>2, Zenon DEF Sound

\* The extents in use are blocks of the abstract allocator.
LEMMA UsedBlock ==
    ASSUME RegionInv, NEW o \in allocated
    PROVE  /\ Blk(o, foot[o]) \in Blocks /\ o \in Nat /\ foot[o] \in Nat \ {0}
           /\ o + foot[o] <= next_offset
<1>1. Blk(o, foot[o]) \in Blocks
  BY Zenon DEF Blocks, Blk
<1>2. Blocks \subseteq [off : Nat, len : Nat \ {0}]
  BY Zenon DEF FreeBlocks, RegionInv, AInv, Allocator!ATypeOK, Allocator!Block
<1>3. Blk(o, foot[o]).off + Blk(o, foot[o]).len <= next_offset
  BY <1>1, Zenon DEF FreeBlocks, RegionInv, AInv, Allocator!NoOverlap
<1>4. Blk(o, foot[o]).off = o /\ Blk(o, foot[o]).len = foot[o]
  BY Zenon DEF Blk
<1>5. o \in Nat /\ foot[o] \in Nat \ {0}
  BY <1>1, <1>2, <1>4, Zenon
<1> QED BY <1>1, <1>3, <1>4, <1>5, Zenon

\* write_extent at a place that is not in use adds one block with a sound header.
LEMMA InstallAdds ==
    ASSUME RTyped, HeadersSound(hdr), NEW off \in Nat, off \notin allocated,
           NEW h, NEW total, Sound(h, total), Install(off, h, total)
    PROVE  /\ Blocks' = Blocks \cup {Blk(off, total)}
           /\ HeadersSound(hdr)'
           /\ allocated' \subseteq Nat /\ DOMAIN foot' = allocated'
<1>1. allocated' = allocated \cup {off} /\ hdr' = With(hdr, off, h) /\ foot' = With(foot, off, total)
  BY Zenon DEF Install
<1>2. /\ DOMAIN foot' = allocated' /\ foot'[off] = total
      /\ \A o \in allocated : foot'[o] = foot[o]
  BY <1>1, Zenon DEF RTyped, With
<1>3. /\ DOMAIN hdr' = DOMAIN hdr \cup {off} /\ hdr'[off] = h
      /\ \A o \in allocated : hdr'[o] = hdr[o]
  BY <1>1, Zenon DEF HeadersSound, With
<1>4. Blocks' = Blocks \cup {Blk(off, total)}
  BY <1>1, <1>2 DEF Blocks, Blk
<1>5. allocated' \subseteq DOMAIN hdr'
  BY <1>1, <1>3, Zenon DEF HeadersSound
<1>6. ASSUME NEW o \in allocated' PROVE Sound(hdr'[o], foot'[o])
  BY <1>1, <1>2, <1>3, Zenon DEF HeadersSound
<1>7. allocated' \subseteq Nat
  BY <1>1, Zenon DEF RTyped
<1>8. HeadersSound(hdr)'
  BY <1>5, <1>6, Zenon DEF HeadersSound
<1> QED BY <1>2, <1>4, <1>7, <1>8, Zenon

\* Taking a block from the tail is a step of the abstract allocator.
LEMMA BumpAllocateStep ==
    ASSUME RegionInv, NEW total \in Footprints, NEW h, Sound(h, total), BumpAllocate(total, h)
    PROVE  Allocator!Bump(total) /\ RegionInv' /\ next_offset \notin allocated
<1>1. /\ next_offset + total <= Size /\ Install(next_offset, h, total)
      /\ next_offset' = next_offset + total /\ free_list' = free_list
  BY Zenon DEF BumpAllocate
<1>2. next_offset \in Nat /\ total \in Nat \ {0}
  BY FootprintCovers, Zenon DEF RegionInv, RTyped
<1>3. next_offset \notin allocated
  BY <1>2, UsedBlock
<1>4. /\ Blocks' = Blocks \cup {Blk(next_offset, total)} /\ HeadersSound(hdr)'
      /\ allocated' \subseteq Nat /\ DOMAIN foot' = allocated'
  BY <1>1, <1>2, <1>3, InstallAdds, Zenon DEF RegionInv
<1>5. Allocator!Bump(total)
  BY <1>1, <1>4, Zenon DEF FreeBlocks, Allocator!Bump, Allocator!Blk, Blk, Range
<1>6. AInv'
  BY <1>5, BumpSafe, AllocatorAssumed, Zenon DEF RegionInv
<1>7. RTyped' /\ NoTwice'
  BY <1>1, <1>2, <1>4 DEF RegionInv, RTyped, NoTwice
<1> QED BY <1>3, <1>4, <1>5, <1>6, <1>7, Zenon DEF RegionInv

\* Two sequences without repetition and without common elements, one after the other.
LEMMA ConcatDistinct ==
    ASSUME NEW S, NEW s \in Seq(S), NEW t \in Seq(S),
           \A i, j \in 1 .. Len(s) : i # j => s[i] # s[j],
           \A i, j \in 1 .. Len(t) : i # j => t[i] # t[j],
           \A i \in 1 .. Len(s), j \in 1 .. Len(t) : s[i] # t[j]
    PROVE  \A i, j \in 1 .. Len(s \o t) : i # j => (s \o t)[i] # (s \o t)[j]
<1>1. /\ Len(s) \in Nat /\ Len(t) \in Nat /\ Len(s \o t) = Len(s) + Len(t)
      /\ \A i \in 1 .. Len(s) + Len(t) : (s \o t)[i] = IF i <= Len(s) THEN s[i] ELSE t[i - Len(s)]
  BY Joined, SeqType
<1> SUFFICES ASSUME NEW i \in 1 .. Len(s) + Len(t), NEW j \in 1 .. Len(s) + Len(t), i # j
             PROVE  (s \o t)[i] # (s \o t)[j]
  BY <1>1, Zenon
<1>2. CASE i <= Len(s) /\ j <= Len(s)
  BY <1>1, <1>2
<1>3. CASE i <= Len(s) /\ ~(j <= Len(s))
  <2>1. j - Len(s) \in 1 .. Len(t) /\ i \in 1 .. Len(s)
    BY <1>1, <1>3
  <2> QED BY <1>1, <1>3, <2>1
<1>4. CASE ~(i <= Len(s)) /\ j <= Len(s)
  <2>1. i - Len(s) \in 1 .. Len(t) /\ j \in 1 .. Len(s)
    BY <1>1, <1>4
  <2> QED BY <1>1, <1>4, <2>1
<1>5. CASE ~(i <= Len(s)) /\ ~(j <= Len(s))
  <2>1. i - Len(s) \in 1 .. Len(t) /\ j - Len(s) \in 1 .. Len(t) /\ i - Len(s) # j - Len(s)
    BY <1>1, <1>5
  <2> QED BY <1>1, <1>5, <2>1, SMTT(30)
<1> QED BY <1>2, <1>3, <1>4, <1>5, Zenon

\* The free list without the block that is reused.
LEMMA FreeListWithout ==
    ASSUME RTyped, NoTwice, NEW i \in 1 .. Len(free_list)
    PROVE  LET r == RemoveAt(free_list, i)
           IN  /\ r \in Seq(Block) /\ Range(r) = Range(free_list) \ {free_list[i]}
               /\ \A j, k \in 1 .. Len(r) : j # k => r[j] # r[k]
<1> DEFINE r == RemoveAt(free_list, i)
           n == Len(free_list)
<1>1. n \in Nat /\ DOMAIN free_list = 1 .. n
  BY SeqType, Zenon DEF RTyped
<1>2. /\ r \in Seq(Block) /\ Len(r) = n - 1
      /\ \A j \in 1 .. n - 1 : r[j] = IF j < i THEN free_list[j] ELSE free_list[j + 1]
  BY RemoveAtProperties, Zenon DEF RTyped
<1>3. DOMAIN r = 1 .. n - 1
  BY <1>2, SeqType, Zenon
<1> HIDE DEF r
<1>4. ASSUME NEW j \in 1 .. n - 1, NEW k \in 1 .. n - 1, j # k PROVE r[j] # r[k]
  <2> DEFINE at(x) == IF x < i THEN x ELSE x + 1
  <2>1. at(j) \in 1 .. n /\ at(k) \in 1 .. n /\ at(j) # at(k)
    BY <1>1, <1>4
  <2>2. r[j] = free_list[at(j)] /\ r[k] = free_list[at(k)]
    BY <1>2, Zenon
  <2> HIDE DEF at
  <2> QED BY <2>1, <2>2, Zenon DEF NoTwice
<1>5. ASSUME NEW x \in Range(r) PROVE x \in Range(free_list) \ {free_list[i]}
  <2>1. PICK j \in 1 .. n - 1 : x = r[j]
    BY <1>3, Zenon DEF Range
  <2>2. PICK k \in 1 .. n : k # i /\ x = free_list[k]
    BY <1>1, <1>2, <2>1
  <2> QED BY <1>1, <2>2, Zenon DEF Range, NoTwice
<1>6. ASSUME NEW x \in Range(free_list) \ {free_list[i]} PROVE x \in Range(r)
  <2>1. PICK k \in 1 .. n : x = free_list[k] /\ k # i
    BY <1>1, Zenon DEF Range
  <2>2. CASE k < i
    <3>1. k \in 1 .. n - 1 /\ r[k] = x
      BY <1>1, <1>2, <2>1, <2>2
    <3> QED BY <1>3, <3>1, Zenon DEF Range
  <2>3. CASE k > i
    <3>1. k - 1 \in 1 .. n - 1 /\ (k - 1) + 1 = k /\ ~(k - 1 < i)
      BY <1>1, <2>3
    <3>2. r[k - 1] = x
      BY <1>2, <2>1, <3>1, Zenon
    <3> QED BY <1>3, <3>1, <3>2, Zenon DEF Range
  <2> QED BY <2>1, <2>2, <2>3
<1> QED BY <1>2, <1>4, <1>5, <1>6, Zenon DEF r

\* A new header describes the footprint: a length that is allocated fits the field of a
\* V2 header.
LEMMA NewHeaderSound ==
    ASSUME MagicEpoch # 0, NEW data
    PROVE  /\ \A len \in Lens : Sound(Header("V2", len, data), ExtentTotal(len))
           /\ \A len \in LegacyLens : Sound(Header("V1", len, data), HeaderV1 + len)
<1>1. \A len \in Lens : len \in Nat /\ len % LenWrap = len
  BY RegionAssumption
<1> QED BY <1>1, RegionAssumption, Zenon DEF Sound, Header

\* Reusing a free block, and putting back what is left of it, is a step of the abstract
\* allocator.
LEMMA AllocateFromFreeListStep ==
    ASSUME RegionInv, MagicEpoch # 0, NEW len \in Lens, NEW data, AllocateFromFreeList(len, data)
    PROVE  /\ Allocator!Reuse(ExtentTotal(len)) /\ RegionInv'
           /\ \E off \in Nat \ allocated :
                  Install(off, Header("V2", len, data), ExtentTotal(len))
<1> DEFINE need == ExtentTotal(len)
           i == Min(Fits(need))
           block == free_list[i]
           r == RemoveAt(free_list, i)
           left == Remainder(block, need)
           h == Header("V2", len, data)
<1>1. /\ Fits(need) # {} /\ free_list' = r \o left
      /\ Install(block.off, h, need) /\ next_offset' = next_offset
  BY SMTT(30) DEF AllocateFromFreeList
<1>2. len \in Nat /\ need \in Footprints /\ need \in Nat \ {0}
  BY FootprintCovers, RegionAssumption, Zenon DEF Footprints
<1>3. Len(free_list) \in Nat /\ DOMAIN free_list = 1 .. Len(free_list)
  BY SeqType, Zenon DEF RegionInv, RTyped
<1>4. i \in 1 .. Len(free_list) /\ block.len >= need
  <2>1. Fits(need) \in SUBSET Nat
    BY <1>3 DEF Fits
  <2>2. i \in Fits(need)
    BY <1>1, <2>1, MinOfNaturals, Zenon
  <2> QED BY <1>3, <2>2, Zenon DEF Fits
<1>5. block \in Block /\ block \in Range(free_list)
  BY <1>3, <1>4, SeqType, Zenon DEF RegionInv, RTyped, Range
<1>6. block.off \in Nat /\ block.len \in Nat \ {0}
  BY <1>5, Zenon DEF Block
<1>7. Sound(h, need)
  BY NewHeaderSound, Zenon
<1>8. block.off \notin allocated
  <2> SUFFICES ASSUME block.off \in allocated PROVE FALSE
    BY Zenon
  <2> DEFINE b == Blk(block.off, foot[block.off])
  <2>1. b \in Blocks /\ foot[block.off] \in Nat \ {0}
    BY UsedBlock, Zenon
  <2>2. b # block
    BY <1>5, <2>1, Zenon DEF FreeBlocks, RegionInv, AInv, Allocator!NoOverlap
  <2>3. Allocator!Disjoint(b, block)
    BY <1>5, <2>1, <2>2, Zenon DEF FreeBlocks, RegionInv, AInv, Allocator!NoOverlap
  <2> QED BY <1>6, <2>1, <2>3, SMTT(30) DEF Allocator!Disjoint, Blk
<1>9. /\ Blocks' = Blocks \cup {Blk(block.off, need)} /\ HeadersSound(hdr)'
      /\ allocated' \subseteq Nat /\ DOMAIN foot' = allocated'
  BY <1>1, <1>6, <1>7, <1>8, InstallAdds, Zenon DEF RegionInv
<1>10. /\ r \in Seq(Block) /\ Range(r) = Range(free_list) \ {block}
       /\ \A j, k \in 1 .. Len(r) : j # k => r[j] # r[k]
  BY <1>4, FreeListWithout, Zenon DEF RegionInv
<1> DEFINE rest == Blk(block.off + need, block.len - need)
<1>11. /\ block.len > need => left = <<rest>> /\ rest \in Block
       /\ block.len = need => left = <<>>
  BY <1>2, <1>6, SMTT(30) DEF Remainder, Blk, Block
<1>12. left \in Seq(Block) /\ Range(left) = IF block.len > need THEN {rest} ELSE {}
  <2>1. CASE block.len > need
    <3>1. left = <<rest>> /\ rest \in Block
      BY <1>11, <2>1, Zenon
    <3> HIDE DEF left, rest
    <3> QED BY <2>1, <3>1 DEF Range
  <2>2. CASE block.len = need
    <3>1. left = <<>>
      BY <1>11, <2>2, Zenon
    <3> HIDE DEF left
    <3> QED BY <1>2, <2>2, <3>1 DEF Range
  <2> QED BY <1>2, <1>4, <1>6, <2>1, <2>2, SMTT(30)
<1>13. ASSUME block.len > need, rest \in Range(r) PROVE FALSE
  <2>1. rest \in Range(free_list) /\ rest # block
    BY <1>10, <1>13, SMTT(30)
  <2>2. Allocator!Disjoint(rest, block)
    BY <1>5, <2>1, Zenon DEF FreeBlocks, RegionInv, AInv, Allocator!NoOverlap
  <2> QED BY <1>2, <1>6, <1>13, <2>2, SMTT(30) DEF Allocator!Disjoint, Blk
<1> HIDE DEF r, left, rest, block
<1>14. /\ free_list' \in Seq(Block)
       /\ Range(free_list') = (Range(free_list) \ {block}) \cup
                              (IF block.len > need THEN {rest} ELSE {})
  BY <1>1, <1>10, <1>12, Joined, RangeConcat, SMTT(30)
<1>15. NoTwice'
  <2>1. CASE block.len > need
    <3>1. left = <<rest>>
      BY <1>11, <2>1, Zenon
    <3>2. Len(left) = 1 /\ left[1] = rest
      BY <3>1, Zenon
    <3>a. DOMAIN r = 1 .. Len(r)
      BY <1>10, SeqType
    <3>3. \A j \in 1 .. Len(r) : r[j] \in Range(r)
      BY <3>a, Zenon DEF Range
    <3>4. /\ \A j, k \in 1 .. Len(left) : j # k => left[j] # left[k]
          /\ \A j \in 1 .. Len(r), k \in 1 .. Len(left) : r[j] # left[k]
      BY <1>13, <2>1, <3>2, <3>3
    <3>5. \A j, k \in 1 .. Len(r \o left) : j # k => (r \o left)[j] # (r \o left)[k]
      BY <1>10, <1>12, <3>4, ConcatDistinct, Zenon
    <3> QED BY <1>1, <3>5, SMTT(30) DEF NoTwice
  <2>2. CASE block.len = need
    <3>1. left = <<>>
      BY <1>11, <2>2, Zenon
    <3>2. free_list' = r
      BY <1>1, <1>10, <3>1, JoinedEmpty
    <3> QED BY <1>10, <3>2, Zenon DEF NoTwice
  <2> QED BY <1>2, <1>4, <1>6, <2>1, <2>2
<1>16. Allocator!Reuse(need)
  <2> SUFFICES \E b \in Range(free_list) :
                  /\ b.len >= need
                  /\ Blocks' = Blocks \cup {Blk(b.off, need)}
                  /\ Range(free_list') = (Range(free_list) \ {b}) \cup
                        (IF b.len > need THEN {Blk(b.off + need, b.len - need)} ELSE {})
                  /\ next_offset' = next_offset
    BY Zenon DEF FreeBlocks, Allocator!Reuse, Allocator!Blk, Blk, Range
  <2> QED BY <1>1, <1>4, <1>5, <1>9, <1>14, SMTT(30) DEF rest
<1>17. AInv'
  BY <1>2, <1>16, ReuseSafe, AllocatorAssumed, Zenon DEF RegionInv
<1>18. RTyped'
  BY <1>1, <1>9, <1>14, Zenon DEF RegionInv, RTyped
<1> QED BY <1>1, <1>6, <1>8, <1>9, <1>15, <1>16, <1>17, <1>18, Zenon DEF RegionInv

\* Giving extents back, with the lengths their headers say, is a step of the abstract
\* allocator, and leaves the other extents as they are.
LEMMA ReclaimStep ==
    ASSUME RegionInv, NEW order \in Seq(allocated), NEW hs, NEW ms,
           \A i, j \in 1 .. Len(order) : i # j => order[i] # order[j],
           HeadersSound(hs), \A o \in Range(order) : DecodeHeader(hs[o]).magic,
           Reclaim(order, hs, ms)
    PROVE  /\ Allocator!Release /\ RegionInv'
           /\ allocated' = allocated \ Range(order)
           /\ \A o \in allocated' : o \in DOMAIN hdr' /\ hdr'[o] = hs[o]
<1> DEFINE dead == Range(order)
           n == Len(order)
           back == [i \in DOMAIN order |-> [off |-> order[i], len |-> FootprintOf(Decode(hs, order[i]))]]
<1>1. /\ free_list' = free_list \o back /\ allocated' = allocated \ dead
      /\ hdr' = [o \in DOMAIN hs |-> IF o \in dead THEN ZeroMagic(hs[o]) ELSE hs[o]]
      /\ foot' = Restrict(foot, DOMAIN foot \ dead) /\ next_offset' = next_offset
  BY Zenon DEF Reclaim
<1>2. n \in Nat /\ DOMAIN order = 1 .. n /\ \A i \in 1 .. n : order[i] \in allocated
  BY SeqType, Zenon
<1>3. dead \subseteq allocated
  BY <1>2, Zenon DEF Range
<1>4. \A i \in 1 .. n : FootprintOf(Decode(hs, order[i])) = foot[order[i]]
  <2> SUFFICES ASSUME NEW i \in 1 .. n PROVE FootprintOf(Decode(hs, order[i])) = foot[order[i]]
    BY Zenon
  <2>1. order[i] \in allocated /\ order[i] \in Range(order)
    BY <1>2, Zenon DEF Range
  <2>2. Sound(hs[order[i]], foot[order[i]]) /\ DecodeHeader(hs[order[i]]).magic
    BY <2>1, Zenon DEF HeadersSound
  <2>3. Decode(hs, order[i]) = DecodeHeader(hs[order[i]])
    BY <2>1, Zenon DEF HeadersSound, Decode
  <2> QED BY <2>2, <2>3, FootprintFound, Zenon
<1>5. /\ back \in [1 .. n -> Block]
      /\ \A i \in 1 .. n : back[i] = Blk(order[i], foot[order[i]])
  <2>1. \A i \in 1 .. n : back[i] = Blk(order[i], foot[order[i]])
    BY <1>2, <1>4, Zenon DEF Blk
  <2>2. \A i \in 1 .. n : Blk(order[i], foot[order[i]]) \in Block
    BY <1>2, UsedBlock, Zenon DEF Blk, Block
  <2>3. back = [i \in 1 .. n |-> back[i]]
    BY <1>2, Zenon
  <2> HIDE DEF back
  <2> QED BY <2>1, <2>2, <2>3, Zenon
<1> HIDE DEF back
<1>6. back \in Seq(Block) /\ Len(back) = n /\ DOMAIN back = 1 .. n
  <2>1. back \in Seq(Block)
    BY <1>2, <1>5, FunSeq, Zenon
  <2>2. Len(back) \in Nat /\ DOMAIN back = 1 .. Len(back) /\ DOMAIN back = 1 .. n
    BY <1>5, <2>1, SeqType, Zenon
  <2> QED BY <1>2, <2>1, <2>2, SameRange, Zenon
<1> DEFINE S == {Blk(o, foot[o]) : o \in dead}
<1>7. Range(back) = S
  BY <1>2, <1>5, <1>6, SMTT(30) DEF Range
<1>8. S \subseteq Blocks
  BY <1>3, Zenon DEF Blocks, Blk
<1>9. free_list' \in Seq(Block) /\ Range(free_list') = Range(free_list) \cup S
  BY <1>1, <1>6, <1>7, Joined, RangeConcat, SMTT(30) DEF RegionInv, RTyped
<1>10. /\ DOMAIN foot' = allocated' /\ \A o \in allocated' : foot'[o] = foot[o]
  BY <1>1, Zenon DEF Restrict, RegionInv, RTyped
<1>11. Blocks' = Blocks \ S
  <2>1. ASSUME NEW b \in Blocks' PROVE b \in Blocks \ S
    <3>1. PICK o \in allocated' : b = [off |-> o, len |-> foot'[o]]
      BY Zenon DEF Blocks
    <3>2. o \in allocated /\ o \notin dead /\ b = [off |-> o, len |-> foot[o]] /\ b.off = o
      BY <1>1, <1>10, <3>1, Zenon
    <3>3. b \in Blocks
      BY <3>2, Zenon DEF Blocks
    <3>4. \A x \in S : x.off \in dead
      BY DEF Blk
    <3> QED BY <3>2, <3>3, <3>4, Zenon
  <2>2. ASSUME NEW b \in Blocks, b \notin S PROVE b \in Blocks'
    <3>1. PICK o \in allocated : b = [off |-> o, len |-> foot[o]]
      BY Zenon DEF Blocks
    <3>2. o \notin dead
      BY <2>2, <3>1, Zenon DEF Blk
    <3>3. o \in allocated' /\ foot'[o] = foot[o]
      BY <1>1, <1>10, <3>2, Zenon
    <3> QED BY <3>1, <3>3, Zenon DEF Blocks
  <2> QED BY <2>1, <2>2, Zenon
<1> HIDE DEF S
<1>12. Allocator!Release
  <2> SUFFICES /\ S \in SUBSET Blocks /\ Blocks' = Blocks \ S
               /\ Range(free_list') = Range(free_list) \cup S /\ next_offset' = next_offset
    BY Zenon DEF FreeBlocks, Allocator!Release, Range
  <2> QED BY <1>1, <1>8, <1>9, <1>11, Zenon
<1>13. AInv'
  BY <1>12, ReleaseSafe, Zenon DEF RegionInv
<1>14. NoTwice'
  <2>1. \A i, j \in 1 .. Len(back) : i # j => back[i] # back[j]
    BY <1>5, <1>6 DEF Blk
  <2>2. ASSUME NEW i \in 1 .. Len(free_list), NEW j \in 1 .. Len(back) PROVE free_list[i] # back[j]
    <3>1. free_list[i] \in Range(free_list)
      BY SeqType, Zenon DEF RegionInv, RTyped, Range
    <3>2. back[j] \in Blocks
      BY <1>2, <1>5, <1>6, UsedBlock, ZenonT(40)
    <3> QED BY <3>1, <3>2, Zenon DEF FreeBlocks, RegionInv, AInv, Allocator!NoOverlap, Range
  <2>3. \A i, j \in 1 .. Len(free_list) : i # j => free_list[i] # free_list[j]
    BY Zenon DEF RegionInv, NoTwice
  <2>4. \A i, j \in 1 .. Len(free_list \o back) : i # j => (free_list \o back)[i] # (free_list \o back)[j]
    <3>1. free_list \in Seq(Block)
      BY DEF RegionInv, RTyped
    <3> QED BY <1>6, <2>1, <2>2, <2>3, <3>1, ConcatDistinct, Zenon
  <2> QED BY <1>1, <2>4, Zenon DEF NoTwice
<1>15. \A o \in allocated' : o \in DOMAIN hdr' /\ hdr'[o] = hs[o]
  BY <1>1, Zenon DEF HeadersSound
<1>16. HeadersSound(hdr)'
  BY <1>1, <1>10, <1>15, Zenon DEF HeadersSound
<1>17. RTyped'
  BY <1>1, <1>9, <1>10, Zenon DEF RegionInv, RTyped
<1> QED BY <1>1, <1>12, <1>13, <1>14, <1>15, <1>16, <1>17, Zenon DEF RegionInv

\* An order of a set lists elements of it once, as sweep iterates over its HashSet.
LEMMA Listed ==
    ASSUME NEW S, NEW order \in Orders(S)
    PROVE  /\ order \in Seq(S) /\ Range(order) \subseteq S
           /\ \A i, j \in 1 .. Len(order) : i # j => order[i] # order[j]
<1>1. PICK n \in 0 .. Cardinality(S) : order \in Bijection(1 .. n, S)
  BY Zenon DEF Orders
<1>2. /\ n \in Nat /\ order \in [1 .. n -> S]
      /\ \A i, j \in 1 .. n : i # j => order[i] # order[j]
  BY <1>1 DEF Bijection, Injection, IsInjective
<1>3. order \in Seq(S)
  BY <1>1, <1>2, FunSeq
<1>4. Len(order) \in Nat /\ 1 .. Len(order) = 1 .. n
  BY <1>2, <1>3, SeqType, Zenon
<1>5. Len(order) = n
  BY <1>1, <1>4, SameRange
<1>6. Range(order) \subseteq S
  BY <1>2, Zenon DEF Range
<1> QED BY <1>2, <1>3, <1>5, <1>6, Zenon

\* A sweep takes marked extents only, and leaves the others as they are.
LEMMA SweepStep ==
    ASSUME RegionInv, NEW min \in Nat, NEW hs, NEW ms, HeadersSound(hs), Sweep(min, hs, ms)
    PROVE  /\ Allocator!Release /\ RegionInv' /\ allocated' \subseteq allocated
           /\ \A o \in allocated' : o \in DOMAIN hdr' /\ hdr'[o] = hs[o]
           /\ \A o \in allocated \ allocated' : hs[o].epoch > 0 /\ hs[o].epoch < min
           /\ marked' = Restrict(ms, DOMAIN ms \ (allocated \ allocated'))
<1> DEFINE D == Dead(hs, min)
<1>1. PICK order \in Orders(D) : Reclaim(order, hs, ms)
  BY DEF Sweep
<1>2. D \subseteq allocated
  BY Zenon DEF Dead
<1>3. ASSUME NEW o \in D
      PROVE  DecodeHeader(hs[o]).magic /\ hs[o].epoch > 0 /\ hs[o].epoch < min
  <2>1. o \in allocated /\ Sound(hs[o], foot[o]) /\ Decode(hs, o) = DecodeHeader(hs[o])
    BY <1>2, <1>3, Zenon DEF HeadersSound, Decode
  <2>2. Decode(hs, o).epoch > 0 /\ Decode(hs, o).epoch < min
    BY <1>3, Zenon DEF Dead
  <2> QED BY <2>1, <2>2, EpochSeen, Zenon
<1> HIDE DEF D
<1>4. /\ order \in Seq(D) /\ Range(order) \subseteq D
      /\ \A i, j \in 1 .. Len(order) : i # j => order[i] # order[j]
  BY <1>1, Listed, Zenon
<1>5. order \in Seq(allocated)
  BY <1>2, <1>4, SeqIncl, Zenon
<1>6. \A o \in Range(order) : DecodeHeader(hs[o]).magic
  BY <1>3, <1>4, Zenon
<1>7. /\ Allocator!Release /\ RegionInv' /\ allocated' = allocated \ Range(order)
      /\ \A o \in allocated' : o \in DOMAIN hdr' /\ hdr'[o] = hs[o]
  BY <1>1, <1>4, <1>5, <1>6, ReclaimStep, Zenon
<1>8. allocated \ allocated' = Range(order)
  BY <1>2, <1>4, <1>7, Zenon
<1>9. marked' = Restrict(ms, DOMAIN ms \ Range(order))
  BY <1>1, Zenon DEF Reclaim
<1> QED BY <1>3, <1>4, <1>7, <1>8, <1>9, Zenon

\* free is such a step too.
LEMMA FreeStep ==
    ASSUME RegionInv, NEW off \in allocated, Free(off)
    PROVE  /\ Allocator!Release /\ RegionInv' /\ allocated' = allocated \ {off}
           /\ \A o \in allocated' : hdr'[o] = hdr[o]
<1>1. Reclaim(<<off>>, hdr, marked) /\ Decode(hdr, off).magic
  BY DEF Free
<1> DEFINE order == <<off>>
<1>2. order \in Seq(allocated) /\ Len(order) = 1 /\ Range(order) = {off}
  BY DEF Range
<1>3. DecodeHeader(hdr[off]).magic
  BY <1>1, Zenon DEF Decode, RegionInv, HeadersSound
<1>4. HeadersSound(hdr)
  BY Zenon DEF RegionInv
<1>5. \A i, j \in 1 .. Len(order) : i # j => order[i] # order[j]
  BY <1>2
<1>6. Reclaim(order, hdr, marked)
  BY <1>1, SMTT(30)
<1> HIDE DEF order
<1> QED BY <1>2, <1>3, <1>4, <1>5, <1>6, ReclaimStep

\* A mark leaves the header sound.
LEMMA StampSound ==
    ASSUME NEW h, NEW n, Sound(h, n), NEW epoch \in Nat, epoch # MagicEpoch
    PROVE  /\ Sound(Stamp(h, epoch), n) /\ Stamp(h, epoch).data = h.data
           /\ Stamp(h, epoch).fmt = h.fmt
           /\ Stamp(h, epoch).epoch = IF h.fmt = "V2" THEN epoch ELSE 0
<1>1. CASE h.fmt = "V2"
  <2>1. Stamp(h, epoch) = [fmt |-> "V2", magic |-> TRUE, len |-> h.len, epoch |-> epoch, data |-> h.data]
    BY <1>1, Zenon DEF Stamp, Sound
  <2> QED BY <1>1, <2>1 DEF Sound
<1>2. CASE h.fmt = "V1"
  <2>1. Stamp(h, epoch) = [fmt |-> "V1", magic |-> FALSE, len |-> h.len, epoch |-> 0, data |-> h.data]
    BY <1>2, Zenon DEF Stamp, Sound
  <2> QED BY <1>2, <2>1 DEF Sound
<1> QED BY <1>1, <1>2, Zenon DEF Sound

\* mark_for_gc changes no block.
LEMMA MarkForGcStep ==
    ASSUME RegionInv, NEW off \in DOMAIN hdr, NEW epoch \in Nat, epoch # MagicEpoch, MarkForGc(off, epoch)
    PROVE  RegionInv' /\ UNCHANGED <<free_list, allocated, next_offset, foot>>
<1>1. UNCHANGED <<free_list, allocated, next_offset, foot>> /\ hdr' = [hdr EXCEPT ![off] = Stamp(@, epoch)]
  BY Zenon DEF MarkForGc
<1>2. HeadersSound(hdr)'
  <2>1. DOMAIN hdr' = DOMAIN hdr
    BY <1>1, Zenon
  <2>2. ASSUME NEW o \in allocated PROVE Sound(hdr'[o], foot[o])
    <3>1. Sound(hdr[o], foot[o]) /\ o \in DOMAIN hdr
      BY Zenon DEF RegionInv, HeadersSound
    <3>2. hdr'[o] = IF o = off THEN Stamp(hdr[o], epoch) ELSE hdr[o]
      BY <1>1, <3>1, Zenon
    <3> QED BY <3>1, <3>2, StampSound, Zenon
  <2> QED BY <1>1, <2>1, <2>2, Zenon DEF RegionInv, HeadersSound
<1>3. RTyped' /\ NoTwice'
  BY <1>1 DEF RegionInv, RTyped, NoTwice
<1>4. Blocks' = Blocks /\ Range(free_list)' = Range(free_list)
  BY <1>1, Zenon DEF Blocks, Range
<1>5. AInv'
  BY <1>1, <1>4, Zenon DEF FreeBlocks, RegionInv, AInv, Allocator!ATypeOK, Allocator!NoOverlap, Allocator!Disjoint
<1> QED BY <1>1, <1>2, <1>3, <1>5, Zenon DEF RegionInv

\* A new extent, from the free list or from the tail.
LEMMA AllocateStep ==
    ASSUME RegionInv, MagicEpoch # 0, NEW len \in Lens, NEW data, Allocate(len, data)
    PROVE  /\ RegionInv'
           /\ Allocator!Reuse(ExtentTotal(len)) \/ Allocator!Bump(ExtentTotal(len))
           /\ \E off \in Nat \ allocated :
                  Install(off, Header("V2", len, data), ExtentTotal(len))
<1>1. CASE AllocateFromFreeList(len, data)
  BY <1>1, AllocateFromFreeListStep, Zenon
<1>2. CASE AllocateFromTail(len, data)
  <2> DEFINE h == Header("V2", len, data)
             need == ExtentTotal(len)
  <2>1. need \in Footprints /\ BumpAllocate(need, h)
    BY <1>2, Zenon DEF AllocateFromTail, Footprints
  <2>2. Sound(h, need)
    BY NewHeaderSound, Zenon
  <2>3. next_offset \in Nat /\ Install(next_offset, h, need)
    BY <2>1, Zenon DEF BumpAllocate, RegionInv, RTyped
  <2> HIDE DEF h, need
  <2>4. RegionInv' /\ Allocator!Bump(need) /\ next_offset \notin allocated
    BY <2>1, <2>2, BumpAllocateStep, Zenon
  <2> QED BY <2>3, <2>4, Zenon DEF h, need
<1> QED BY <1>1, <1>2, Zenon DEF Allocate

\* Every method of the region is a step of the abstract allocator, or none.
LEMMA RegionStep ==
    ASSUME RegionInv, MagicEpoch \notin Epochs \cup {0}, RNext
    PROVE  /\ RegionInv'
           /\ \/ \E need \in Footprints : Allocator!Reuse(need) \/ Allocator!Bump(need)
              \/ Allocator!Release
              \/ UNCHANGED <<free_list, allocated, next_offset, foot>>
<1>1. ASSUME NEW len \in Lens, NEW data \in Data, Allocate(len, data)
      PROVE  RegionInv' /\ \E need \in Footprints : Allocator!Reuse(need) \/ Allocator!Bump(need)
  BY <1>1, AllocateStep, Zenon DEF Footprints
<1>2. ASSUME NEW len \in Lens, NEW data \in Data, WriteExtentV2Checksummed(len, data)
      PROVE  RegionInv' /\ \E need \in Footprints : Allocator!Bump(need)
  <2>1. Sound(Header("V2", len, data), ExtentTotal(len)) /\ ExtentTotal(len) \in Footprints
    BY NewHeaderSound, Zenon DEF Footprints
  <2> QED BY <1>2, <2>1, BumpAllocateStep, Zenon DEF WriteExtentV2Checksummed
<1>3. ASSUME NEW len \in LegacyLens, NEW data \in Data, WriteExtentV1(len, data)
      PROVE  RegionInv' /\ \E need \in Footprints : Allocator!Bump(need)
  <2>1. Sound(Header("V1", len, data), HeaderV1 + len) /\ HeaderV1 + len \in Footprints
    BY NewHeaderSound, Zenon DEF Footprints
  <2> QED BY <1>3, <2>1, BumpAllocateStep, Zenon DEF WriteExtentV1
<1>4. ASSUME NEW off \in allocated, Free(off) PROVE RegionInv' /\ Allocator!Release
  BY <1>4, FreeStep, Zenon
<1>5. ASSUME NEW off \in DOMAIN hdr, NEW epoch \in Epochs, MarkForGc(off, epoch)
      PROVE  RegionInv' /\ UNCHANGED <<free_list, allocated, next_offset, foot>>
  <2>1. epoch \in Nat /\ epoch # MagicEpoch
    BY RegionAssumption, Zenon
  <2> QED BY <1>5, <2>1, MarkForGcStep, Zenon
<1>6. ASSUME NEW min \in Epochs, Sweep(min, hdr, marked) PROVE RegionInv' /\ Allocator!Release
  <2>1. min \in Nat /\ HeadersSound(hdr)
    BY RegionAssumption, Zenon DEF RegionInv
  <2> QED BY <1>6, <2>1, SweepStep, Zenon
<1> QED BY <1>1, <1>2, <1>3, <1>4, <1>5, <1>6 DEF RNext

\* The region starts empty.
LEMMA RegionStart == RInit => RegionInv /\ Allocator!AInit
<1> SUFFICES ASSUME RInit PROVE RegionInv /\ Allocator!AInit
  BY Zenon
<1>1. /\ free_list = <<>> /\ allocated = {} /\ next_offset = 0 /\ hdr = <<>> /\ foot = <<>>
  BY Zenon DEF RInit
<1>2. Blocks = {} /\ FreeBlocks = {}
  BY <1>1 DEF Blocks, FreeBlocks, Range
<1>3. RTyped /\ NoTwice
  BY <1>1 DEF RTyped, NoTwice
<1>4. HeadersSound(hdr)
  BY <1>1, Zenon DEF HeadersSound
<1>5. AInv
  BY <1>1, <1>2, RegionAssumption DEF AInv, Allocator!ATypeOK, Allocator!NoOverlap
<1> QED BY <1>1, <1>2, <1>3, <1>4, <1>5, Zenon DEF RegionInv, Allocator!AInit

\* A step that leaves the region alone keeps its invariant.
LEMMA RegionStutter ==
    ASSUME RegionInv, UNCHANGED rvars PROVE RegionInv'
<1>1. UNCHANGED <<free_list, allocated, next_offset, hdr, foot>>
  BY Zenon DEF rvars
<1>2. RTyped' /\ NoTwice' /\ HeadersSound(hdr)'
  BY <1>1, Zenon DEF RegionInv, RTyped, NoTwice, HeadersSound
<1>3. Blocks' = Blocks /\ FreeBlocks' = FreeBlocks
  BY <1>1, Zenon DEF Blocks, FreeBlocks, Range
<1>4. AInv'
  BY <1>1, <1>3, Zenon DEF RegionInv, AInv, Allocator!ATypeOK, Allocator!NoOverlap
<1> QED BY <1>2, <1>4, Zenon DEF RegionInv

\* The invariant of the region holds always, whatever its callers do.
LEMMA RegionAlways ==
    ASSUME MagicEpoch \notin Epochs \cup {0}
    PROVE  RSpec => []RegionInv
<1>1. RInit => RegionInv
  BY RegionStart, Zenon
<1>2. RegionInv /\ [RNext]_rvars => RegionInv'
  BY RegionStep, RegionStutter
<1> QED BY <1>1, <1>2, PTL DEF RSpec

\* LargeObjectRegion implements the abstract allocator: allocate, free, sweep and the
\* writers of whole extents, with headers of both formats, never hand out a byte twice
\* and give back exactly what was taken.
THEOREM RegionIsAllocator ==
    ASSUME MagicEpoch \notin Epochs \cup {0}
    PROVE  RSpec => ImplementsAllocator
<1>1. RInit => Allocator!AInit
  BY RegionStart
<1>2. RegionInv /\ [RNext]_rvars => [Allocator!ANext]_(Allocator!avars)
  <2> SUFFICES ASSUME RegionInv, [RNext]_rvars PROVE Allocator!ANext \/ UNCHANGED Allocator!avars
    BY Zenon
  <2>1. CASE UNCHANGED <<free_list, allocated, next_offset, foot>>
    BY <2>1, Zenon DEF FreeBlocks, Allocator!avars, Blocks, Range
  <2>2. ASSUME NEW need \in Footprints, Allocator!Reuse(need) \/ Allocator!Bump(need)
        PROVE  Allocator!ANext
    BY <2>2, Zenon DEF Allocator!ANext
  <2>3. CASE Allocator!Release
    BY <2>3, Zenon DEF Allocator!ANext
  <2>4. CASE UNCHANGED rvars
    BY <2>1, <2>4, Zenon DEF rvars
  <2> QED BY <2>1, <2>2, <2>3, <2>4, RegionStep, Zenon
<1> QED BY <1>1, <1>2, RegionAlways, PTL DEF RSpec, ImplementsAllocator, Allocator!ASpec

\* So no two extents or free blocks of the region ever share a byte, and no byte below
\* next_offset is in none of them.
THEOREM RegionNeverOverlaps ==
    ASSUME MagicEpoch \notin Epochs \cup {0}
    PROVE  RSpec => [](Allocator!NoOverlap /\ Allocator!NothingLost)
<1>1. RSpec => Allocator!ASpec
  BY RegionIsAllocator, Zenon DEF ImplementsAllocator
<1>2. Allocator!ASpec => [](Allocator!ATypeOK /\ Allocator!NoOverlap /\ Allocator!NothingLost)
  BY AllocatorSound, AllocatorAssumed, Zenon
<1> QED BY <1>1, <1>2, PTL

\* The free list never holds a byte twice, nor one that an extent still uses.
THEOREM FreeListAlwaysDisjoint ==
    ASSUME MagicEpoch \notin Epochs \cup {0}
    PROVE  RSpec => []FreeListDisjoint
<1>1. RegionInv => FreeListDisjoint
  <2> SUFFICES ASSUME RegionInv PROVE FreeListDisjoint
    BY Zenon
  <2>1. DOMAIN free_list = 1 .. Len(free_list)
    BY SeqType, Zenon DEF RegionInv, RTyped
  <2>2. \A i \in DOMAIN free_list : free_list[i] \in Range(free_list)
    BY Zenon DEF Range
  <2>3. ASSUME NEW i \in DOMAIN free_list, NEW j \in DOMAIN free_list, i # j
        PROVE  Allocator!Disjoint(free_list[i], free_list[j])
    BY <2>1, <2>2, <2>3, Zenon DEF FreeBlocks, RegionInv, NoTwice, AInv, Allocator!NoOverlap
  <2>4. ASSUME NEW i \in DOMAIN free_list, NEW b \in Blocks
        PROVE  Allocator!Disjoint(free_list[i], b)
    BY <2>2, <2>4, Zenon DEF FreeBlocks, RegionInv, AInv, Allocator!NoOverlap
  <2> QED BY <2>3, <2>4, Zenon DEF FreeListDisjoint, Allocator!Disjoint
<1> QED BY <1>1, RegionAlways, PTL

(***************************************************************************)
(* Marks.                                                                  *)
(***************************************************************************)

\* An epoch in the header of an extent in use was put there by the last mark_for_gc of it.
MarksKnown ==
    \A o \in allocated : hdr[o].epoch # 0 => o \in DOMAIN marked /\ marked[o] = hdr[o].epoch

\* A new extent is not marked, whatever was at its place.
LEMMA InstallMarks ==
    ASSUME RegionInv, MarksKnown, NEW off, NEW h, h.epoch = 0, NEW total, Install(off, h, total)
    PROVE  MarksKnown'
<1>1. /\ hdr' = With(hdr, off, h) /\ allocated' = allocated \cup {off}
      /\ marked' = Restrict(marked, DOMAIN marked \ {off}) /\ allocated \subseteq DOMAIN hdr
  BY Zenon DEF Install, RegionInv, HeadersSound
<1>2. ASSUME NEW o \in allocated', hdr'[o].epoch # 0
      PROVE  o \in DOMAIN marked' /\ marked'[o] = hdr'[o].epoch
  <2>1. hdr'[o] = IF o = off THEN h ELSE hdr[o]
    BY <1>1, Zenon DEF With
  <2>2. o # off /\ o \in allocated /\ hdr'[o] = hdr[o]
    BY <1>1, <1>2, <2>1, Zenon
  <2>3. o \in DOMAIN marked /\ marked[o] = hdr[o].epoch
    BY <1>2, <2>2, Zenon DEF MarksKnown
  <2> QED
    BY <1>1, <2>2, <2>3 DEF Restrict
<1> QED
  BY <1>2, Zenon DEF MarksKnown

\* free and sweep leave the extents they do not reclaim alone.
LEMMA ReclaimMarks ==
    ASSUME RegionInv, MarksKnown, NEW order, Reclaim(order, hdr, marked)
    PROVE  MarksKnown'
<1> DEFINE dead == Range(order)
<1>1. /\ hdr' = [o \in DOMAIN hdr |-> IF o \in dead THEN ZeroMagic(hdr[o]) ELSE hdr[o]]
      /\ allocated' = allocated \ dead
      /\ marked' = Restrict(marked, DOMAIN marked \ dead) /\ allocated \subseteq DOMAIN hdr
  BY Zenon DEF Reclaim, RegionInv, HeadersSound
<1> HIDE DEF dead
<1>2. ASSUME NEW o \in allocated', hdr'[o].epoch # 0
      PROVE  o \in DOMAIN marked' /\ marked'[o] = hdr'[o].epoch
  <2>1. o \in allocated /\ o \notin dead /\ hdr'[o] = hdr[o]
    BY <1>1, Zenon
  <2>2. o \in DOMAIN marked /\ marked[o] = hdr[o].epoch
    BY <1>2, <2>1, Zenon DEF MarksKnown
  <2> QED
    BY <1>1, <2>1, <2>2, Zenon DEF Restrict
<1> QED
  BY <1>2, Zenon DEF MarksKnown

\* mark_for_gc writes its epoch, or, in a V1 header, none.
LEMMA MarkMarks ==
    ASSUME RegionInv, MarksKnown, NEW off \in DOMAIN hdr, NEW epoch \in Nat, epoch # MagicEpoch,
           MarkForGc(off, epoch)
    PROVE  MarksKnown'
<1>1. /\ hdr' = [hdr EXCEPT ![off] = Stamp(@, epoch)] /\ allocated' = allocated
      /\ marked' = With(marked, off, epoch)
  BY Zenon DEF MarkForGc
<1>2. ASSUME NEW o \in allocated, hdr'[o].epoch # 0
      PROVE  o \in DOMAIN marked' /\ marked'[o] = hdr'[o].epoch
  <2>1. Sound(hdr[o], foot[o]) /\ o \in DOMAIN hdr
    BY Zenon DEF RegionInv, HeadersSound
  <2>2. o \in DOMAIN marked' <=> o \in DOMAIN marked \/ o = off
    BY <1>1, Zenon DEF With
  <2>3. CASE o = off
    <3>1. hdr'[o] = Stamp(hdr[o], epoch)
      BY <1>1, <2>1, <2>3, Zenon
    <3>2. hdr'[o].epoch = epoch
      BY <1>2, <2>1, <3>1, StampSound, SMTT(30)
    <3> QED
      BY <1>1, <2>2, <2>3, <3>2, Zenon DEF With
  <2>4. CASE o # off
    <3>1. hdr'[o] = hdr[o]
      BY <1>1, <2>1, <2>4, SMTT(30)
    <3>2. o \in DOMAIN marked /\ marked[o] = hdr[o].epoch
      BY <1>2, <3>1 DEF MarksKnown
    <3> QED
      BY <1>1, <2>2, <2>4, <3>1, <3>2, Zenon DEF With
  <2> QED
    BY <2>3, <2>4, Zenon
<1> QED
  BY <1>1, <1>2, Zenon DEF MarksKnown

LEMMA MarksStep ==
    ASSUME RegionInv, MarksKnown, MagicEpoch \notin Epochs \cup {0}, [RNext]_rvars
    PROVE  MarksKnown'
<1>1. \A fmt, len, data : Header(fmt, len, data).epoch = 0
  BY SMTT(30) DEF Header
<1>2. ASSUME NEW len, NEW data, Allocate(len, data) PROVE MarksKnown'
  BY <1>1, <1>2, InstallMarks, Zenon DEF Allocate, AllocateFromFreeList, AllocateFromTail, BumpAllocate
<1>3. ASSUME NEW len, NEW data, WriteExtentV1(len, data) \/ WriteExtentV2Checksummed(len, data)
      PROVE  MarksKnown'
  BY <1>1, <1>3, InstallMarks, Zenon DEF WriteExtentV1, WriteExtentV2Checksummed, BumpAllocate
<1>4. ASSUME NEW off \in allocated, Free(off) PROVE MarksKnown'
  BY <1>4, ReclaimMarks, Zenon DEF Free
<1>5. ASSUME NEW off \in DOMAIN hdr, NEW epoch \in Epochs, MarkForGc(off, epoch) PROVE MarksKnown'
  <2>1. epoch \in Nat /\ epoch # MagicEpoch
    BY RegionAssumption, Zenon
  <2> QED
    BY <1>5, <2>1, MarkMarks, Zenon
<1>6. ASSUME NEW min \in Epochs, Sweep(min, hdr, marked) PROVE MarksKnown'
  BY <1>6, ReclaimMarks, Zenon DEF Sweep
<1>7. CASE UNCHANGED rvars
  BY <1>7, Zenon DEF rvars, MarksKnown
<1> QED
  BY <1>2, <1>3, <1>4, <1>5, <1>6, <1>7, Zenon DEF RNext

\* For any region and any epochs but the one that reads as EXTENT_MAGIC, sweep
\* (extent.rs) collects only extents that mark_for_gc marked below its epoch since they
\* were allocated: reused places, V1 headers and marks overwritten by later ones included.
THEOREM OnlyMarkedEverCollected ==
    ASSUME MagicEpoch \notin Epochs \cup {0}
    PROVE  RSpec => []OnlyMarkedCollected
<1>1. RInit => MarksKnown
  BY Zenon DEF RInit, MarksKnown
<1>2. RegionInv /\ MarksKnown /\ [RNext]_rvars => MarksKnown'
  BY MarksStep, Zenon
<1>3. RegionInv /\ MarksKnown => OnlyMarkedCollected
  <2> SUFFICES ASSUME RegionInv, MarksKnown, NEW min \in Epochs, NEW off \in Dead(hdr, min)
               PROVE  off \in DOMAIN marked /\ marked[off] < min
    BY Zenon DEF OnlyMarkedCollected
  <2>1. off \in allocated /\ off \in DOMAIN hdr /\ Sound(hdr[off], foot[off])
    BY Zenon DEF Dead, RegionInv, HeadersSound
  <2>2. Decode(hdr, off).epoch = hdr[off].epoch /\ hdr[off].epoch \in Nat
    BY <2>1, EpochSeen, Zenon DEF Decode
  <2>3. hdr[off].epoch > 0 /\ hdr[off].epoch < min
    BY <2>2, Zenon DEF Dead
  <2>4. off \in DOMAIN marked /\ marked[off] = hdr[off].epoch
    BY <2>1, <2>2, <2>3 DEF MarksKnown
  <2> QED
    BY <2>3, <2>4, Zenon
<1> QED
  BY <1>1, <1>2, <1>3, RegionAlways, PTL DEF RSpec

(***************************************************************************)
(* The collector.                                                          *)
(***************************************************************************)
\* The clock has not wrapped, nor reached the epoch that reads as the magic of a V1 header.
ClockInRange ==
    /\ MaxClock \in Nat \ {0} /\ MagicEpoch \notin 0 .. MaxClock
    /\ ClockWrap \in Nat /\ MaxClock < ClockWrap

Refs == [off : Nat, data : Nat]

GcTyped ==
    /\ clock \in 1 .. MaxClock /\ puts \in Nat
    /\ active \in [Clients -> Nat] /\ \A c \in Clients : active[c] <= clock
    /\ DOMAIN registry \subseteq Clients
    /\ \A c \in DOMAIN registry : registry[c] \in Nat /\ registry[c] <= active[c]
    /\ pending \in Seq([off : Nat, epoch : 1 .. MaxClock])
    /\ bucket \in [Keys -> SUBSET Refs]
    /\ reading \in [Clients -> SUBSET Refs]

\* The extent at o holds the value d.
Stored(o, d) == o \in allocated /\ hdr[o].fmt = "V2" /\ hdr[o].data = d

\* Nothing was done to collect the extent at o.
Unmarked(o) == hdr[o].epoch = 0 /\ \A i \in DOMAIN pending : pending[i].off # o

\* A live value is stored, unmarked, and no other key's.
Live ==
    \A k \in Keys : \A r \in bucket[k] :
        /\ Stored(r.off, r.data) /\ Unmarked(r.off) /\ r.off \notin unscheduled
        /\ \A l \in Keys \ {k} : \A q \in bucket[l] : q.off # r.off

\* What waits to be collected is still allocated.
Waiting ==
    /\ \A o \in unscheduled : o \in allocated /\ Unmarked(o)
    /\ \A i \in DOMAIN pending : pending[i].off \in allocated

\* What a client reads was not marked before its operation began.
Protected ==
    \A c \in Clients : \A r \in reading[c] :
        /\ c \in DOMAIN registry /\ Stored(r.off, r.data)
        /\ hdr[r.off].epoch > 0 => hdr[r.off].epoch >= active[c]
        /\ \A i \in DOMAIN pending : pending[i].off = r.off => pending[i].epoch >= active[c]

GcInv == RegionInv /\ GcTyped /\ Live /\ Waiting /\ Protected

\* Below the wrap now_ms is the time itself.
LEMMA NowIsClock == ASSUME GcInv, ClockInRange PROVE Now = clock
<1>1. clock \in Nat /\ ClockWrap \in Nat /\ clock < ClockWrap
  BY DEF GcInv, GcTyped, ClockInRange
<1> QED BY <1>1 DEF Now

\* A stored value is what a read returns.
LEMMA StoredIsRead ==
    ASSUME RegionInv, NEW o, NEW d, Stored(o, d)
    PROVE  ReadExtent(o) = {d}
<1>1. o \in allocated /\ o \in DOMAIN hdr /\ Sound(hdr[o], foot[o]) /\ hdr[o].fmt = "V2" /\ hdr[o].data = d
  BY Zenon DEF Stored, RegionInv, HeadersSound
<1>2. Decode(hdr, o) = Decoded(TRUE, hdr[o].len, hdr[o].epoch, TRUE)
  BY <1>1, Zenon DEF Sound, Decode, DecodeHeader
<1>3. o \in Nat /\ o + foot[o] <= next_offset /\ foot[o] = ExtentTotal(hdr[o].len) /\ hdr[o].len \in Nat
  BY <1>1, UsedBlock, Zenon DEF Sound
<1>4. HeaderV2 + hdr[o].len <= foot[o] /\ foot[o] \in Nat
  BY <1>3, FootprintCovers, Zenon
<1>5. next_offset \in Nat /\ next_offset <= Size /\ Size \in Nat
  BY RegionAssumption DEF RegionInv, RTyped, AInv, Allocator!ATypeOK
<1>6. o + HeaderV2 + hdr[o].len <= Size
  BY <1>3, <1>4, <1>5, SMTT(30) DEF HeaderV2
<1> QED BY <1>1, <1>2, <1>6, SMTT(30) DEF ReadExtent, Decoded

\* The invariant says that no reader loses its extent and no live key its value.
LEMMA InvariantSuffices == GcInv => NoUseAfterFree /\ LiveValuesKept
BY StoredIsRead, Zenon DEF GcInv, Live, Protected, NoUseAfterFree, LiveValuesKept, Stored

\* It holds at the start.
LEMMA GcStart == ClockInRange /\ Init => GcInv
<1> SUFFICES ASSUME ClockInRange, Init PROVE GcInv
  BY Zenon
<1>1. RegionInv
  BY RegionStart, Zenon DEF Init
<1>2. GcTyped
  BY DEF Init, GcTyped, ClockInRange
<1>3. DOMAIN pending = {}
  BY DEF Init
<1>4. Live /\ Waiting /\ Protected
  BY <1>3, Zenon DEF Init, Live, Waiting, Protected
<1> QED BY <1>1, <1>2, <1>4, Zenon DEF GcInv

\* What an action that leaves the region alone leaves of the invariant.
LEMMA RegionUntouched ==
    ASSUME RegionInv, UNCHANGED rvars
    PROVE  /\ RegionInv' /\ UNCHANGED <<allocated, hdr>>
           /\ \A o, d : Stored(o, d)' = Stored(o, d)
<1>1. UNCHANGED <<allocated, hdr>>
  BY Zenon DEF rvars
<1> QED BY <1>1, RegionStutter, Zenon DEF Stored

\* Time passes.
LEMMA TickKeeps ==
    ASSUME GcInv, ClockInRange, Tick PROVE GcInv'
<1>1. /\ UNCHANGED rvars /\ clock < MaxClock /\ clock' = clock + 1
      /\ UNCHANGED <<pending, registry, active, bucket, unscheduled, reading, puts>>
  BY Zenon DEF Tick
<1>2. RegionInv' /\ UNCHANGED <<allocated, hdr>> /\ \A o, d : Stored(o, d)' = Stored(o, d)
  BY <1>1, RegionUntouched, Zenon DEF GcInv
<1>3. GcTyped'
  BY <1>1 DEF GcInv, GcTyped, ClockInRange
<1>4. Live' /\ Waiting' /\ Protected'
  BY <1>1, <1>2, SMTT(30) DEF GcInv, Live, Waiting, Protected, Unmarked
<1> QED BY <1>2, <1>3, <1>4, Zenon DEF GcInv

\* A delete takes the value of one key out of the table.
LEMMA TombstoneKeeps ==
    ASSUME GcInv, NEW k \in Keys, Tombstone(k) PROVE GcInv'
<1>1. /\ UNCHANGED rvars /\ unscheduled' = unscheduled \cup {r.off : r \in bucket[k]}
      /\ bucket' = [bucket EXCEPT ![k] = {}]
      /\ UNCHANGED <<clock, pending, registry, active, reading, puts>>
  BY Zenon DEF Tombstone
<1>2. RegionInv' /\ UNCHANGED <<allocated, hdr>> /\ \A o, d : Stored(o, d)' = Stored(o, d)
  BY <1>1, RegionUntouched, SMTT(30) DEF GcInv
<1>3. GcTyped'
  BY <1>1, Zenon DEF GcInv, GcTyped
<1>4. \A o : Unmarked(o)' = Unmarked(o)
  BY <1>1, <1>2, Zenon DEF Unmarked
<1>5. Live'
  <2> SUFFICES ASSUME NEW l \in Keys, NEW r \in bucket'[l]
               PROVE  /\ Stored(r.off, r.data)' /\ Unmarked(r.off)' /\ r.off \notin unscheduled'
                      /\ \A m \in Keys \ {l} : \A q \in bucket'[m] : q.off # r.off
    BY Zenon DEF Live
  <2>1. l # k /\ r \in bucket[l] /\ \A m \in Keys : bucket'[m] \subseteq bucket[m]
    BY <1>1, Zenon DEF GcInv, GcTyped
  <2>2. /\ Stored(r.off, r.data) /\ Unmarked(r.off) /\ r.off \notin unscheduled
        /\ \A m \in Keys \ {l} : \A q \in bucket[m] : q.off # r.off
    BY <2>1, Zenon DEF GcInv, Live
  <2>3. r.off \notin unscheduled'
    BY <1>1, <2>1, <2>2, SMTT(30)
  <2> QED BY <1>2, <1>4, <2>1, <2>2, <2>3, SMTT(30)
<1>6. Waiting'
  <2>1. ASSUME NEW o \in unscheduled' PROVE o \in allocated /\ Unmarked(o)
    BY <1>1, <2>1, SMTT(30) DEF GcInv, Waiting, Live, Stored
  <2> QED BY <1>1, <1>2, <1>4, <2>1, SMTT(30) DEF GcInv, Waiting
<1>7. Protected'
  BY <1>1, <1>2, SMTT(30) DEF GcInv, Protected
<1> QED BY <1>2, <1>3, <1>5, <1>6, <1>7 DEF GcInv

\* A client that reads nothing begins an operation.
LEMMA StartOperationKeeps ==
    ASSUME GcInv, ClockInRange, NEW c \in Clients, StartOperation(c) PROVE GcInv'
<1>1. /\ UNCHANGED rvars /\ reading[c] = {} /\ active' = [active EXCEPT ![c] = clock]
      /\ UNCHANGED <<clock, pending, registry, bucket, unscheduled, reading, puts>>
  BY NowIsClock, Zenon DEF StartOperation
<1>2. RegionInv' /\ UNCHANGED <<allocated, hdr>> /\ \A o, d : Stored(o, d)' = Stored(o, d)
  BY <1>1, RegionUntouched, Zenon DEF GcInv
<1>3. clock \in Nat /\ active \in [Clients -> Nat] /\ active[c] <= clock
  BY DEF GcInv, GcTyped
<1>4. GcTyped'
  <2>1. active' \in [Clients -> Nat] /\ \A d \in Clients : active'[d] <= clock
    BY <1>1, <1>3, SMTT(30) DEF GcInv, GcTyped
  <2>2. \A d \in DOMAIN registry : registry[d] \in Nat /\ registry[d] <= active'[d]
    BY <1>1, <1>3 DEF GcInv, GcTyped
  <2> QED BY <1>1, <2>1, <2>2, Zenon DEF GcInv, GcTyped
<1>5. Live' /\ Waiting'
  BY <1>1, <1>2, SMTT(30) DEF GcInv, Live, Waiting, Unmarked
<1>6. Protected'
  <2>1. ASSUME NEW d \in Clients, reading[d] # {} PROVE active'[d] = active[d]
    BY <1>1, <1>3, <2>1, Zenon
  <2> QED BY <1>1, <1>2, <2>1, SMTT(30) DEF GcInv, Protected
<1> QED BY <1>2, <1>4, <1>5, <1>6 DEF GcInv

\* A registered client finds a live value.
LEMMA LookupBucketKeeps ==
    ASSUME GcInv, NEW c \in Clients, NEW k \in Keys, LookupBucket(c, k) PROVE GcInv'
<1>1. /\ UNCHANGED rvars /\ c \in DOMAIN registry /\ reading' = [reading EXCEPT ![c] = bucket[k]]
      /\ UNCHANGED <<clock, pending, registry, active, bucket, unscheduled, puts>>
  BY Zenon DEF LookupBucket
<1>2. RegionInv' /\ UNCHANGED <<allocated, hdr>> /\ \A o, d : Stored(o, d)' = Stored(o, d)
  BY <1>1, RegionUntouched DEF GcInv
<1>3. GcTyped'
  BY <1>1, Zenon DEF GcInv, GcTyped
<1>4. Live' /\ Waiting'
  BY <1>1, <1>2, SMTT(30) DEF GcInv, Live, Waiting, Unmarked
<1>5. Protected'
  <2> SUFFICES ASSUME NEW d \in Clients, NEW r \in reading'[d]
               PROVE  /\ d \in DOMAIN registry /\ Stored(r.off, r.data)
                      /\ hdr[r.off].epoch > 0 => hdr[r.off].epoch >= active[d]
                      /\ \A i \in DOMAIN pending : pending[i].off = r.off => pending[i].epoch >= active[d]
    BY <1>1, <1>2, SMTT(30) DEF Protected
  <2>1. CASE d = c
    <3>1. r \in bucket[k]
      BY <1>1, <2>1, SMTT(30) DEF GcInv, GcTyped
    <3>2. Stored(r.off, r.data) /\ Unmarked(r.off)
      BY <3>1 DEF GcInv, Live
    <3> QED BY <1>1, <2>1, <3>2, SMTT(30) DEF Unmarked
  <2>2. CASE d # c
    <3>1. r \in reading[d]
      BY <1>1, <2>2 DEF GcInv, GcTyped
    <3> QED BY <3>1 DEF GcInv, Protected
  <2> QED BY <2>1, <2>2, SMTT(30)
<1> QED BY <1>2, <1>3, <1>4, <1>5 DEF GcInv

\* A client has read its value.
LEMMA ReadAndFinishKeeps ==
    ASSUME GcInv, NEW c \in Clients, ReadAndFinish(c) PROVE GcInv'
<1>1. /\ UNCHANGED rvars /\ reading' = [reading EXCEPT ![c] = {}]
      /\ UNCHANGED <<clock, pending, registry, active, bucket, unscheduled, puts>>
  BY DEF ReadAndFinish
<1>2. RegionInv' /\ UNCHANGED <<allocated, hdr>> /\ \A o, d : Stored(o, d)' = Stored(o, d)
  BY <1>1, RegionUntouched, Zenon DEF GcInv
<1>3. GcTyped'
  BY <1>1, Zenon DEF GcInv, GcTyped
<1>4. Live' /\ Waiting'
  BY <1>1, <1>2, SMTT(30) DEF GcInv, Live, Waiting, Unmarked
<1>5. \A d \in Clients : reading'[d] \subseteq reading[d]
  BY <1>1, Zenon DEF GcInv, GcTyped
<1>6. Protected'
  BY <1>1, <1>2, <1>5, SMTT(30) DEF GcInv, Protected
<1> QED BY <1>2, <1>3, <1>4, <1>6, Zenon DEF GcInv

\* A client reports its active_ts.
LEMMA HeartbeatKeeps ==
    ASSUME GcInv, NEW c \in Clients, Heartbeat(c) PROVE GcInv'
<1>1. /\ UNCHANGED rvars /\ registry' = With(registry, c, active[c])
      /\ UNCHANGED <<clock, pending, active, bucket, unscheduled, reading, puts>>
  BY SMTT(30) DEF Heartbeat
<1>2. RegionInv' /\ UNCHANGED <<allocated, hdr>> /\ \A o, d : Stored(o, d)' = Stored(o, d)
  BY <1>1, RegionUntouched, Zenon DEF GcInv
<1>3. /\ DOMAIN registry' = DOMAIN registry \cup {c} /\ registry'[c] = active[c]
      /\ \A d \in DOMAIN registry : d # c => registry'[d] = registry[d]
  BY <1>1, Zenon DEF With
<1>4. GcTyped'
  <2>1. ASSUME NEW d \in DOMAIN registry' PROVE registry'[d] \in Nat /\ registry'[d] <= active[d]
    BY <1>3, SMTT(30) DEF GcInv, GcTyped
  <2> QED BY <1>1, <1>3, <2>1, Zenon DEF GcInv, GcTyped
<1>5. Live' /\ Waiting'
  BY <1>1, <1>2, SMTT(30) DEF GcInv, Live, Waiting, Unmarked
<1>6. Protected'
  BY <1>1, <1>2, <1>3, SMTT(30) DEF GcInv, Protected
<1> QED BY <1>2, <1>4, <1>5, <1>6, Zenon DEF GcInv

\* A client that reads nothing leaves.
LEMMA DeregisterKeeps ==
    ASSUME GcInv, NEW c \in Clients, Deregister(c) PROVE GcInv'
<1>1. /\ UNCHANGED rvars /\ reading[c] = {} /\ registry' = Restrict(registry, DOMAIN registry \ {c})
      /\ UNCHANGED <<clock, pending, active, bucket, unscheduled, reading, puts>>
  BY SMTT(30) DEF Deregister
<1>2. RegionInv' /\ UNCHANGED <<allocated, hdr>> /\ \A o, d : Stored(o, d)' = Stored(o, d)
  BY <1>1, RegionUntouched, Zenon DEF GcInv
<1>3. /\ DOMAIN registry' = DOMAIN registry \ {c} /\ \A d \in DOMAIN registry' : registry'[d] = registry[d]
  BY <1>1, Zenon DEF Restrict
<1>4. GcTyped'
  BY <1>1, <1>3, Zenon DEF GcInv, GcTyped
<1>5. Live' /\ Waiting'
  BY <1>1, <1>2, ZenonT(40) DEF GcInv, Live, Waiting, Unmarked
<1>6. Protected'
  BY <1>1, <1>2, <1>3, SMTT(30) DEF GcInv, Protected
<1> QED BY <1>2, <1>4, <1>5, <1>6, Zenon DEF GcInv

\* A deletion is scheduled at the present clock.
LEMMA ScheduleDeletionKeeps ==
    ASSUME GcInv, ClockInRange, NEW off \in unscheduled, ScheduleDeletion(off) PROVE GcInv'
<1> DEFINE e == [off |-> off, epoch |-> clock]
           E == [off : Nat, epoch : 1 .. MaxClock]
<1>1. /\ UNCHANGED rvars /\ unscheduled' = unscheduled \ {off} /\ pending' = Append(pending, e)
      /\ UNCHANGED <<clock, registry, active, bucket, reading, puts>>
  BY NowIsClock, Zenon DEF ScheduleDeletion
<1>2. RegionInv' /\ UNCHANGED <<allocated, hdr>> /\ \A o, d : Stored(o, d)' = Stored(o, d)
  BY <1>1, RegionUntouched, Zenon DEF GcInv
<1>3. off \in allocated /\ off \in Nat /\ Unmarked(off)
  BY Zenon DEF GcInv, Waiting, RegionInv, RTyped
<1>4. e \in E /\ pending \in Seq(E)
  BY <1>3, Zenon DEF GcInv, GcTyped
<1> HIDE DEF e
<1>5. pending' \in Seq(E)
  BY <1>1, <1>4, Appended
<1>6. ASSUME NEW i \in DOMAIN pending' PROVE pending'[i] = e \/ (i \in DOMAIN pending /\ pending'[i] = pending[i])
  <2>1. /\ DOMAIN pending = 1 .. Len(pending) /\ DOMAIN pending' = 1 .. Len(pending') /\ Len(pending) \in Nat
    BY <1>4, <1>5, SeqType
  <2>2. /\ Len(pending') = Len(pending) + 1 /\ pending'[Len(pending) + 1] = e
        /\ \A j \in 1 .. Len(pending) : pending'[j] = pending[j]
    BY <1>1, <1>4, Appended, SMTT(30)
  <2> QED BY <1>6, <2>1, <2>2
<1>7. e.off = off /\ e.epoch = clock
  BY DEF e
<1>8. GcTyped'
  BY <1>1, <1>5, Zenon DEF GcInv, GcTyped
<1>9. \A o : Unmarked(o) /\ o # off => Unmarked(o)'
  BY <1>2, <1>6, <1>7, Zenon DEF Unmarked
<1>10. Live'
  <2> SUFFICES ASSUME NEW k \in Keys, NEW r \in bucket[k]
               PROVE  /\ Stored(r.off, r.data)' /\ Unmarked(r.off)' /\ r.off \notin unscheduled'
                      /\ \A l \in Keys \ {k} : \A q \in bucket[l] : q.off # r.off
    BY <1>1, SMTT(30) DEF Live
  <2>1. /\ Stored(r.off, r.data) /\ Unmarked(r.off) /\ r.off \notin unscheduled
        /\ \A l \in Keys \ {k} : \A q \in bucket[l] : q.off # r.off
    BY Zenon DEF GcInv, Live
  <2>2. r.off # off
    BY <2>1, Zenon
  <2> QED BY <1>1, <1>2, <1>9, <2>1, <2>2, Zenon
<1>11. Waiting'
  <2>1. ASSUME NEW o \in unscheduled' PROVE o \in allocated /\ Unmarked(o)'
    BY <1>1, <1>9, <2>1 DEF GcInv, Waiting
  <2>2. ASSUME NEW i \in DOMAIN pending' PROVE pending'[i].off \in allocated
    BY <1>3, <1>6, <1>7, SMTT(30) DEF GcInv, Waiting
  <2> QED BY <1>2, <2>1, <2>2 DEF Waiting
<1>12. Protected'
  <2> SUFFICES ASSUME NEW c \in Clients, NEW r \in reading[c], NEW i \in DOMAIN pending', pending'[i].off = r.off
               PROVE  pending'[i].epoch >= active[c]
    BY <1>1, <1>2, SMTT(30) DEF GcInv, Protected
  <2>1. clock >= active[c]
    BY Zenon DEF GcInv, GcTyped
  <2> QED BY <1>6, <1>7, <2>1, SMTT(30) DEF GcInv, Protected
<1> QED BY <1>2, <1>8, <1>10, <1>11, <1>12 DEF GcInv

\* A new value goes to an extent that nobody refers to.
LEMMA PutKeeps ==
    ASSUME GcInv, ClockInRange, NEW k \in Keys, Put(k) PROVE GcInv'
<1>1. /\ bucket[k] = {} /\ puts' = puts + 1
      /\ bucket' = [bucket EXCEPT ![k] = {[off |-> o, data |-> puts'] : o \in allocated' \ allocated}]
      /\ UNCHANGED <<clock, pending, registry, active, unscheduled, reading>>
  BY Zenon DEF Put
<1>2. PICK len \in Lens : Allocate(len, puts')
  BY Zenon DEF Put
<1>3. MagicEpoch # 0
  BY DEF ClockInRange
<1>4. PICK off \in Nat \ allocated : Install(off, Header("V2", len, puts'), ExtentTotal(len))
  BY <1>2, <1>3, AllocateStep, Zenon DEF GcInv
<1>5. RegionInv'
  BY <1>2, <1>3, AllocateStep, Zenon DEF GcInv
<1>6. /\ allocated' = allocated \cup {off} /\ hdr' = With(hdr, off, Header("V2", len, puts'))
  BY <1>4, Zenon DEF Install
<1>7. /\ hdr'[off] = Header("V2", len, puts')
      /\ \A o \in allocated : o # off /\ hdr'[o] = hdr[o]
  <2>1. allocated \subseteq DOMAIN hdr /\ off \notin allocated
    BY Zenon DEF GcInv, RegionInv, HeadersSound
  <2> QED BY <1>6, <2>1, Zenon DEF With
<1> DEFINE new == [off |-> off, data |-> puts']
<1>8. bucket'[k] = {new} /\ \A l \in Keys \ {k} : bucket'[l] = bucket[l]
  <2>1. allocated' \ allocated = {off}
    BY <1>6, Zenon
  <2> QED BY <1>1, <2>1, Zenon DEF GcInv, GcTyped
<1>9. puts \in Nat /\ puts' \in Nat /\ new \in Refs
  BY <1>1, SMTT(30) DEF GcInv, GcTyped, Refs
<1>10. GcTyped'
  <2>1. bucket' \in [Keys -> SUBSET Refs]
    BY <1>1, <1>8, <1>9, SMTT(30) DEF GcInv, GcTyped
  <2> QED BY <1>1, <1>9, <2>1, Zenon DEF GcInv, GcTyped
<1>11. \A o \in allocated : /\ \A d : Stored(o, d)' = Stored(o, d)
                            /\ Unmarked(o)' = Unmarked(o)
  BY <1>1, <1>6, <1>7, SMTT(30) DEF Stored, Unmarked
<1>12. off \in allocated' /\ hdr'[off].fmt = "V2" /\ hdr'[off].data = puts' /\ hdr'[off].epoch = 0
  BY <1>6, <1>7, SMTT(30) DEF Header
<1>13. Unmarked(off)' /\ off \notin unscheduled
  BY <1>1, <1>12, SMTT(30) DEF GcInv, Waiting, Unmarked
<1>14. Live'
  <2> SUFFICES ASSUME NEW l \in Keys, NEW r \in bucket'[l]
               PROVE  /\ Stored(r.off, r.data)' /\ Unmarked(r.off)' /\ r.off \notin unscheduled'
                      /\ \A m \in Keys \ {l} : \A q \in bucket'[m] : q.off # r.off
    BY Zenon DEF Live
  <2>1. \A m \in Keys \ {k} : \A q \in bucket[m] : q.off \in allocated /\ q.off # off
    BY Zenon DEF GcInv, Live, Stored
  <2>2. CASE l = k
    <3>1. r.off = off /\ r.data = puts'
      BY <1>8, <2>2, SMTT(30)
    <3>2. Stored(r.off, r.data)'
      BY <1>12, <3>1, SMTT(30) DEF Stored
    <3> QED BY <1>1, <1>8, <1>13, <2>1, <2>2, <3>1, <3>2, SMTT(30)
  <2>3. CASE l # k
    <3>1. r \in bucket[l] /\ r.off \in allocated /\ r.off # off
      BY <1>8, <2>1, <2>3, SMTT(30)
    <3>2. /\ Stored(r.off, r.data) /\ Unmarked(r.off) /\ r.off \notin unscheduled
          /\ \A m \in Keys \ {l} : \A q \in bucket[m] : q.off # r.off
      BY <3>1, SMTT(30) DEF GcInv, Live
    <3>3. ASSUME NEW m \in Keys \ {l}, NEW q \in bucket'[m] PROVE q.off # r.off
      BY <1>8, <3>1, <3>2, SMTT(30)
    <3> QED BY <1>1, <1>11, <3>1, <3>2, <3>3, SMTT(30)
  <2> QED BY <2>2, <2>3, SMTT(30)
<1>15. Waiting'
  BY <1>1, <1>6, <1>11, SMTT(30) DEF GcInv, Waiting
<1>16. Protected'
  <2> SUFFICES ASSUME NEW c \in Clients, NEW r \in reading[c]
               PROVE  /\ c \in DOMAIN registry /\ Stored(r.off, r.data)'
                      /\ hdr'[r.off].epoch > 0 => hdr'[r.off].epoch >= active[c]
                      /\ \A i \in DOMAIN pending : pending[i].off = r.off => pending[i].epoch >= active[c]
    BY <1>1, Zenon DEF Protected
  <2>1. /\ c \in DOMAIN registry /\ Stored(r.off, r.data)
        /\ hdr[r.off].epoch > 0 => hdr[r.off].epoch >= active[c]
        /\ \A i \in DOMAIN pending : pending[i].off = r.off => pending[i].epoch >= active[c]
    BY Zenon DEF GcInv, Protected
  <2>2. r.off \in allocated
    BY <2>1, Zenon DEF Stored
  <2> QED BY <1>7, <1>11, <2>1, <2>2, SMTT(30)
<1> QED BY <1>5, <1>10, <1>14, <1>15, <1>16, Zenon DEF GcInv

\* What a header is after the marks of a sweep: as before, or stamped with the epoch of
\* some pending entry.
LEMMA MarksWritten ==
    ASSUME GcInv, ClockInRange, NEW o \in allocated
    PROVE  /\ o \in DOMAIN MarkedHeaders /\ Sound(MarkedHeaders[o], foot[o])
           /\ MarkedHeaders[o].data = hdr[o].data /\ MarkedHeaders[o].fmt = hdr[o].fmt
           /\ \/ MarkedHeaders[o] = hdr[o]
              \/ hdr[o].fmt = "V1" /\ MarkedHeaders[o].epoch = 0
              \/ \E i \in DOMAIN pending : pending[i].off = o /\ MarkedHeaders[o].epoch = pending[i].epoch
           /\ Entries(o) # {} /\ hdr[o].fmt = "V2" =>
                 \E i \in DOMAIN pending : MarkedHeaders[o].epoch = pending[i].epoch
<1>1. o \in DOMAIN hdr /\ Sound(hdr[o], foot[o])
  BY Zenon DEF GcInv, RegionInv, HeadersSound
<1>2. o \in DOMAIN MarkedHeaders /\ MarkedHeaders[o] =
         IF Entries(o) = {} THEN hdr[o] ELSE Stamp(hdr[o], pending[Max(Entries(o))].epoch)
  BY <1>1, Zenon DEF MarkedHeaders
<1>3. CASE Entries(o) = {}
  BY <1>1, <1>2, <1>3, SMTT(30)
<1>4. CASE Entries(o) # {}
  <2> DEFINE i == Max(Entries(o))
             epoch == pending[i].epoch
  <2>1. /\ pending \in Seq([off : Nat, epoch : 1 .. MaxClock]) /\ Len(pending) \in Nat
        /\ DOMAIN pending = 1 .. Len(pending)
    BY SeqType, SMTT(30) DEF GcInv, GcTyped
  <2>2. Entries(o) \in SUBSET (1 .. Len(pending))
    BY <2>1, Zenon DEF Entries
  <2>3. i \in Entries(o)
    BY <1>4, <2>1, <2>2, MaxOfBounded, Zenon
  <2> HIDE DEF i
  <2>4. i \in DOMAIN pending /\ pending[i].off = o
    BY <2>3, Zenon DEF Entries
  <2>5. epoch \in 1 .. MaxClock
    <3>1. i \in 1 .. Len(pending)
      BY <2>1, <2>4, Zenon
    <3>2. pending[i] \in [off : Nat, epoch : 1 .. MaxClock]
      BY <2>1, <3>1, SeqType, Zenon
    <3> QED BY <3>2, Zenon
  <2>6. epoch \in Nat /\ epoch # MagicEpoch
    BY <2>5, SMTT(30) DEF ClockInRange
  <2>7. MarkedHeaders[o] = Stamp(hdr[o], epoch)
    BY <1>2, <1>4, SMTT(30) DEF i
  <2> HIDE DEF epoch
  <2>8. /\ Sound(MarkedHeaders[o], foot[o]) /\ MarkedHeaders[o].data = hdr[o].data
        /\ MarkedHeaders[o].fmt = hdr[o].fmt
        /\ MarkedHeaders[o].epoch = IF hdr[o].fmt = "V2" THEN epoch ELSE 0
    BY <1>1, <2>6, <2>7, StampSound, SMTT(30)
  <2>9. hdr[o].fmt = "V2" \/ hdr[o].fmt = "V1"
    BY <1>1, Zenon DEF Sound
  <2> QED BY <1>2, <2>4, <2>8, <2>9, SMTT(30) DEF epoch
<1> QED BY <1>3, <1>4, Zenon

\* The oldest active_ts bounds what a sweep collects.
LEMMA FloorBelow ==
    ASSUME GcInv
    PROVE  MinActiveTs \in Nat /\ \A c \in DOMAIN registry : MinActiveTs <= active[c]
<1> DEFINE S == Range(registry)
<1>1. CASE DOMAIN registry = {}
  BY <1>1, Zenon DEF MinActiveTs
<1>2. CASE DOMAIN registry # {}
  <2>1. S \in SUBSET Nat /\ S # {} /\ \A c \in DOMAIN registry : registry[c] \in S
    BY <1>2, Zenon DEF GcInv, GcTyped, Range
  <2>2. MinActiveTs = Min(S)
    BY <1>2, Zenon DEF MinActiveTs
  <2> HIDE DEF S
  <2>3. Min(S) \in S /\ \A x \in S : Min(S) <= x
    BY <2>1, MinOfNaturals, Zenon
  <2>4. ASSUME NEW c \in DOMAIN registry PROVE Min(S) <= active[c]
    <3>1. /\ registry[c] \in Nat /\ registry[c] <= active[c] /\ active[c] \in Nat
          /\ Min(S) <= registry[c] /\ Min(S) \in Nat
      BY <2>1, <2>3, Zenon DEF GcInv, GcTyped
    <3> QED BY <3>1, SMTT(30)
  <2> QED BY <2>1, <2>2, <2>3, <2>4, Zenon
<1> QED BY <1>1, <1>2, Zenon

\* A sweep at that bound.
LEMMA GcSweepKeeps ==
    ASSUME GcInv, ClockInRange, GcSweep(MinActiveTs),
           UNCHANGED <<clock, registry, active, bucket, unscheduled, reading, puts>>
    PROVE  GcInv'
<1> DEFINE hs == MarkedHeaders
           min == MinActiveTs
<1>1. Sweep(min, hs, AllMarks) /\ pending' = <<>>
  BY Zenon DEF GcSweep
<1>2. HeadersSound(hs)
  BY MarksWritten, Zenon DEF HeadersSound
<1>3. min \in Nat /\ \A c \in DOMAIN registry : min <= active[c]
  BY FloorBelow, Zenon
<1> HIDE DEF min
<1>4. /\ RegionInv' /\ allocated' \subseteq allocated
      /\ \A o \in allocated' : hdr'[o] = hs[o]
      /\ \A o \in allocated \ allocated' : hs[o].epoch > 0 /\ hs[o].epoch < min
  BY <1>1, <1>2, <1>3, SweepStep, Zenon DEF GcInv
<1> HIDE DEF hs
<1>5. DOMAIN pending' = {} /\ pending' \in Seq([off : Nat, epoch : 1 .. MaxClock])
  BY <1>1, SMTT(30)
<1>6. GcTyped'
  BY <1>5, Zenon DEF GcInv, GcTyped
<1>7. ASSUME NEW o \in allocated, Unmarked(o)
      PROVE  o \in allocated' /\ hdr'[o].epoch = 0 /\ Unmarked(o)'
  <2>1. hs[o].epoch = 0
    BY <1>7, MarksWritten, SMTT(30) DEF hs, Unmarked
  <2>2. o \in allocated'
    BY <1>4, <2>1, SMTT(30)
  <2> QED BY <1>4, <1>5, <2>1, <2>2, SMTT(30) DEF Unmarked
<1>8. ASSUME NEW o \in allocated', NEW d, Stored(o, d) PROVE Stored(o, d)'
  <2>1. o \in allocated /\ hs[o].data = hdr[o].data /\ hs[o].fmt = hdr[o].fmt
    BY <1>4, MarksWritten, Zenon DEF hs
  <2> QED BY <1>4, <1>8, <2>1, SMTT(30) DEF Stored
<1>9. Live'
  <2> SUFFICES ASSUME NEW k \in Keys, NEW r \in bucket[k]
               PROVE  /\ Stored(r.off, r.data)' /\ Unmarked(r.off)' /\ r.off \notin unscheduled
                      /\ \A l \in Keys \ {k} : \A q \in bucket[l] : q.off # r.off
    BY Zenon DEF Live
  <2>1. /\ Stored(r.off, r.data) /\ Unmarked(r.off) /\ r.off \notin unscheduled
        /\ \A l \in Keys \ {k} : \A q \in bucket[l] : q.off # r.off
    BY Zenon DEF GcInv, Live
  <2>2. r.off \in allocated
    BY <2>1, Zenon DEF Stored
  <2> QED BY <1>7, <1>8, <2>1, <2>2, SMTT(30)
<1>10. Waiting'
  BY <1>5, <1>7, SMTT(30) DEF GcInv, Waiting
<1>11. Protected'
  <2> SUFFICES ASSUME NEW c \in Clients, NEW r \in reading[c]
               PROVE  /\ c \in DOMAIN registry /\ Stored(r.off, r.data)'
                      /\ hdr'[r.off].epoch > 0 => hdr'[r.off].epoch >= active[c]
    BY <1>5, Zenon DEF Protected
  <2> DEFINE o == r.off
  <2>1. /\ c \in DOMAIN registry /\ Stored(o, r.data)
        /\ hdr[o].epoch > 0 => hdr[o].epoch >= active[c]
        /\ \A i \in DOMAIN pending : pending[i].off = o => pending[i].epoch >= active[c]
    BY Zenon DEF GcInv, Protected
  <2>2. o \in allocated /\ hdr[o].fmt = "V2"
    BY <2>1, SMTT(30) DEF Stored
  <2>a. hs[o] = hdr[o] \/ \E i \in DOMAIN pending : pending[i].off = o /\ hs[o].epoch = pending[i].epoch
    BY <2>2, MarksWritten, Zenon DEF hs
  <2>3. hs[o].epoch > 0 => hs[o].epoch >= active[c]
    BY <2>1, <2>a, Zenon
  <2>4. hs[o].epoch \in Nat /\ active[c] \in Nat /\ min <= active[c]
    <3>1. Sound(hs[o], foot[o])
      BY <1>2, <2>2, Zenon DEF HeadersSound
    <3>2. active[c] \in Nat
      BY Zenon DEF GcInv, GcTyped
    <3>3. hs[o].epoch \in Nat
      BY <3>1, SMTT(30) DEF Sound
    <3> QED BY <1>3, <2>1, <3>2, <3>3, SMTT(30)
  <2>5. o \in allocated'
    BY <1>3, <1>4, <2>2, <2>3, <2>4, SMTT(30)
  <2> HIDE DEF o
  <2>6. Stored(o, r.data)' /\ (hdr'[o].epoch > 0 => hdr'[o].epoch >= active[c])
    BY <1>4, <1>8, <2>1, <2>3, <2>5, SMTT(30)
  <2> QED BY <2>1, <2>6, SMTT(30) DEF o
<1> QED BY <1>4, <1>6, <1>9, <1>10, <1>11, SMTT(30) DEF GcInv

\* Any step of the collector and its users.
LEMMA GcStep ==
    ASSUME GcInv, ClockInRange, [Next]_vars PROVE GcInv'
<1>1. ASSUME NEW k \in Keys, Put(k) \/ Tombstone(k) PROVE GcInv'
  BY <1>1, PutKeeps, TombstoneKeeps, SMTT(30)
<1>2. ASSUME NEW off \in unscheduled, ScheduleDeletion(off) PROVE GcInv'
  BY <1>2, ScheduleDeletionKeeps, Zenon
<1>3. ASSUME NEW c \in Clients, StartOperation(c) \/ ReadAndFinish(c) \/ Heartbeat(c) \/ Deregister(c)
      PROVE  GcInv'
  BY <1>3, StartOperationKeeps, ReadAndFinishKeeps, HeartbeatKeeps, DeregisterKeeps
<1>4. ASSUME NEW c \in Clients, NEW k \in Keys, LookupBucket(c, k) PROVE GcInv'
  BY <1>4, LookupBucketKeeps, Zenon
<1>5. CASE RunGcCycle
  BY <1>5, GcSweepKeeps, Zenon DEF RunGcCycle
<1>6. CASE MaybeSweep
  BY <1>6, GcSweepKeeps DEF MaybeSweep
<1>7. CASE Tick
  BY <1>7, TickKeeps
<1>8. CASE UNCHANGED vars
  <2>1. /\ UNCHANGED rvars
        /\ UNCHANGED <<clock, pending, registry, active, bucket, unscheduled, reading, puts>>
    BY <1>8, Zenon DEF vars, gcvars
  <2>2. RegionInv' /\ UNCHANGED <<allocated, hdr>> /\ \A o, d : Stored(o, d)' = Stored(o, d)
    BY <2>1, RegionUntouched DEF GcInv
  <2>3. GcTyped'
    BY <2>1, SMTT(30) DEF GcInv, GcTyped
  <2>4. Live' /\ Waiting' /\ Protected'
    BY <2>1, <2>2, SMTT(30) DEF GcInv, Live, Waiting, Protected, Unmarked
  <2> QED BY <2>2, <2>3, <2>4 DEF GcInv
<1> QED BY <1>1, <1>2, <1>3, <1>4, <1>5, <1>6, <1>7, <1>8, SMTT(30) DEF Next, UserNext

\* For any keys, clients, lengths and region, no extent is collected or reused under a
\* client that looked it up and has not read it yet.
THEOREM NeverUseAfterFree ==
    ASSUME ClockInRange PROVE Spec => []NoUseAfterFree
<1>1. Init => GcInv
  BY GcStart
<1>2. GcInv /\ [Next]_vars => GcInv'
  BY GcStep, Zenon
<1>3. GcInv => NoUseAfterFree
  BY InvariantSuffices, Zenon
<1> QED BY <1>1, <1>2, <1>3, PTL DEF Spec

\* The value of a live key is never collected, overwritten or handed out again.
THEOREM LiveValuesAlwaysKept ==
    ASSUME ClockInRange PROVE Spec => []LiveValuesKept
<1>1. Init => GcInv
  BY GcStart
<1>2. GcInv /\ [Next]_vars => GcInv'
  BY GcStep, Zenon
<1>3. GcInv => LiveValuesKept
  BY InvariantSuffices, Zenon
<1> QED BY <1>1, <1>2, <1>3, PTL DEF Spec

\* An extent that was deleted and scheduled carries its mark or is to receive it.
Noted(o) == hdr[o].epoch \in 1 .. clock \/ \E i \in DOMAIN pending : pending[i].off = o

Tracked ==
    /\ \A i \in DOMAIN pending : pending[i].epoch \in 1 .. clock
    /\ \A o \in allocated : hdr[o].fmt = "V2" /\ (o \in Deleted => Noted(o))

\* The next sweep writes the mark of such an extent, if it does not carry one.
LEMMA NotedIsMarked ==
    ASSUME GcInv, ClockInRange, Tracked, NEW o \in Deleted
    PROVE  /\ o \in allocated /\ o \in DOMAIN MarkedHeaders /\ Sound(MarkedHeaders[o], foot[o])
           /\ MarkedHeaders[o].epoch \in 1 .. clock
<1>1. o \in allocated /\ hdr[o].fmt = "V2" /\ Noted(o)
  BY Zenon DEF Deleted, Tracked
<1>2. /\ o \in DOMAIN MarkedHeaders /\ Sound(MarkedHeaders[o], foot[o])
      /\ MarkedHeaders[o] = hdr[o] \/ \E i \in DOMAIN pending : MarkedHeaders[o].epoch = pending[i].epoch
      /\ Entries(o) # {} => \E i \in DOMAIN pending : MarkedHeaders[o].epoch = pending[i].epoch
  BY <1>1, MarksWritten, Zenon
<1>3. ASSUME NEW i \in DOMAIN pending, pending[i].off = o PROVE Entries(o) # {}
  <2>1. o \in DOMAIN hdr /\ Sound(hdr[o], foot[o])
    BY <1>1, Zenon DEF GcInv, RegionInv, HeadersSound
  <2>2. Decode(hdr, o) = Decoded(TRUE, hdr[o].len, hdr[o].epoch, TRUE)
    BY <1>1, <2>1, Zenon DEF Sound, Decode, DecodeHeader
  <2>3. Decode(hdr, o).magic
    BY <2>2 DEF Decoded
  <2> QED BY <1>3, <2>3, Zenon DEF Entries
<1>4. MarkedHeaders[o].epoch \in 1 .. clock
  BY <1>1, <1>2, <1>3, Zenon DEF Noted, Tracked
<1> QED BY <1>1, <1>2, <1>4, Zenon

\* A step that leaves the region alone and deletes nothing.
LEMMA TrackedUntouched ==
    ASSUME GcInv, Tracked, UNCHANGED <<rvars, pending, bucket>>, clock' \in Nat, clock <= clock',
           unscheduled \subseteq unscheduled'
    PROVE  Tracked'
<1>1. UNCHANGED <<allocated, hdr, pending, bucket>>
  BY Zenon DEF rvars
<1>2. clock \in Nat /\ 1 .. clock \subseteq 1 .. clock'
  BY DEF GcInv, GcTyped
<1>3. Deleted' \subseteq Deleted
  BY <1>1, Zenon DEF Deleted
<1> HIDE DEF Deleted
<1> QED BY <1>1, <1>2, <1>3, Zenon DEF Tracked, Noted

LEMMA TombstoneTracks ==
    ASSUME GcInv, Tracked, NEW k \in Keys, Tombstone(k) PROVE Tracked'
<1>1. /\ UNCHANGED <<allocated, hdr, clock, pending>>
      /\ unscheduled' = unscheduled \cup {r.off : r \in bucket[k]}
      /\ \A l \in Keys \ {k} : bucket'[l] = bucket[l]
  BY Zenon DEF Tombstone, rvars, GcInv, GcTyped
<1>2. ASSUME NEW o \in Deleted' PROVE o \in Deleted
  <2>1. o \in allocated /\ o \notin unscheduled /\ \A r \in bucket[k] : r.off # o
    BY <1>1, Zenon DEF Deleted
  <2>2. \A l \in Keys \ {k} : \A r \in bucket[l] : r.off # o
    BY <1>1, Zenon DEF Deleted
  <2> QED BY <2>1, <2>2, Zenon DEF Deleted
<1> QED BY <1>1, <1>2, Zenon DEF Tracked, Noted

LEMMA PutTracks ==
    ASSUME GcInv, ClockInRange, Tracked, NEW k \in Keys, Put(k) PROVE Tracked'
<1>1. /\ bucket[k] = {}
      /\ bucket' = [bucket EXCEPT ![k] = {[off |-> o, data |-> puts'] : o \in allocated' \ allocated}]
      /\ UNCHANGED <<clock, pending, unscheduled>>
  BY Zenon DEF Put
<1>2. PICK len \in Lens : Allocate(len, puts')
  BY Zenon DEF Put
<1>3. MagicEpoch # 0
  BY DEF ClockInRange
<1>4. PICK off \in Nat \ allocated : Install(off, Header("V2", len, puts'), ExtentTotal(len))
  BY <1>2, <1>3, AllocateStep, Zenon DEF GcInv
<1>5. allocated' = allocated \cup {off} /\ hdr' = With(hdr, off, Header("V2", len, puts'))
  BY <1>4, Zenon DEF Install
<1>6. /\ hdr'[off].fmt = "V2"
      /\ \A o \in allocated : o # off /\ hdr'[o] = hdr[o]
  <2>1. allocated \subseteq DOMAIN hdr /\ off \notin allocated
    BY Zenon DEF GcInv, RegionInv, HeadersSound
  <2>2. hdr'[off] = Header("V2", len, puts') /\ \A o \in allocated : o # off /\ hdr'[o] = hdr[o]
    BY <1>5, <2>1, Zenon DEF With
  <2> QED BY <2>2, SMTT(30) DEF Header
<1>7. ASSUME NEW o \in Deleted' PROVE o \in Deleted
  <2>1. o \in allocated' /\ o \notin unscheduled /\ \A l \in Keys : \A r \in bucket'[l] : r.off # o
    BY <1>1, Zenon DEF Deleted
  <2>2. o # off
    <3>1. bucket'[k] = {[off |-> off, data |-> puts']}
      BY <1>1, <1>4, <1>5, SMTT(30) DEF GcInv, GcTyped
    <3>2. \A r \in bucket'[k] : r.off # o
      BY <2>1, Zenon
    <3>3. [off |-> off, data |-> puts'].off # o
      BY <3>1, <3>2, Zenon
    <3> QED BY <3>3
  <2>3. \A l \in Keys : bucket[l] \subseteq bucket'[l]
    BY <1>1, Zenon DEF GcInv, GcTyped
  <2> QED BY <1>5, <2>1, <2>2, <2>3, Zenon DEF Deleted
<1>8. Deleted \subseteq allocated
  BY Zenon DEF Deleted
<1> HIDE DEF Deleted
<1> QED BY <1>1, <1>5, <1>6, <1>7, <1>8, Zenon DEF Tracked, Noted

LEMMA ScheduleDeletionTracks ==
    ASSUME GcInv, ClockInRange, Tracked, NEW off \in unscheduled, ScheduleDeletion(off) PROVE Tracked'
<1> DEFINE e == [off |-> off, epoch |-> clock]
           E == [off : Nat, epoch : 1 .. MaxClock]
<1>1. /\ UNCHANGED <<allocated, hdr, clock, bucket>> /\ unscheduled' = unscheduled \ {off}
      /\ pending' = Append(pending, e)
  BY NowIsClock, Zenon DEF ScheduleDeletion, rvars
<1>2. e \in E /\ pending \in Seq(E) /\ e.off = off /\ e.epoch \in 1 .. clock
  <2>1. off \in Nat
    BY Zenon DEF GcInv, Waiting, RegionInv, RTyped
  <2> QED BY <2>1, SMTT(30) DEF GcInv, GcTyped
<1> HIDE DEF e
<1>3. /\ pending' \in Seq(E) /\ Len(pending') = Len(pending) + 1 /\ pending'[Len(pending) + 1] = e
      /\ \A j \in 1 .. Len(pending) : pending'[j] = pending[j]
  BY <1>1, <1>2, Appended, SMTT(30)
<1>4. /\ DOMAIN pending = 1 .. Len(pending) /\ DOMAIN pending' = 1 .. Len(pending') /\ Len(pending) \in Nat
  BY <1>2, <1>3, SeqType
<1>5. /\ \A j \in DOMAIN pending : j \in DOMAIN pending' /\ pending'[j] = pending[j]
      /\ Len(pending) + 1 \in DOMAIN pending' /\ pending'[Len(pending) + 1] = e
      /\ \A j \in DOMAIN pending' : j \in DOMAIN pending \/ pending'[j] = e
  BY <1>3, <1>4
<1>6. \A o \in Deleted' : o = off \/ o \in Deleted
  BY <1>1, Zenon DEF Deleted
<1> HIDE DEF Deleted
<1>7. \A o : Noted(o) => Noted(o)'
  BY <1>1, <1>5, Zenon DEF Noted
<1>8. Noted(off)'
  BY <1>2, <1>5, Zenon DEF Noted
<1>9. \A i \in DOMAIN pending' : pending'[i].epoch \in 1 .. clock
  BY <1>2, <1>5, Zenon DEF Tracked
<1> QED BY <1>1, <1>6, <1>7, <1>8, <1>9, Zenon DEF Tracked

\* A sweep that does not collect an extent leaves the mark in its header.
LEMMA GcSweepTracks ==
    ASSUME GcInv, ClockInRange, Tracked, GcSweep(MinActiveTs), UNCHANGED <<clock, bucket, unscheduled>>
    PROVE  Tracked'
<1>1. Sweep(MinActiveTs, MarkedHeaders, AllMarks) /\ pending' = <<>>
  BY Zenon DEF GcSweep
<1>2. HeadersSound(MarkedHeaders)
  BY MarksWritten, Zenon DEF HeadersSound
<1>3. allocated' \subseteq allocated /\ \A o \in allocated' : hdr'[o] = MarkedHeaders[o]
  BY <1>1, <1>2, FloorBelow, SweepStep, Zenon DEF GcInv
<1>4. DOMAIN pending' = {}
  BY <1>1, SMTT(30)
<1>5. Deleted' \subseteq Deleted
  BY <1>3, Zenon DEF Deleted
<1>6. ASSUME NEW o \in allocated' PROVE hdr'[o].fmt = "V2"
  BY <1>3, MarksWritten, Zenon DEF Tracked
<1>7. ASSUME NEW o \in Deleted' PROVE Noted(o)'
  <2>1. o \in allocated'
    BY <1>7, Zenon DEF Deleted
  <2>2. MarkedHeaders[o].epoch \in 1 .. clock
    BY <1>5, <1>7, NotedIsMarked, Zenon
  <2> QED BY <1>3, <2>1, <2>2, Zenon DEF Noted
<1> QED BY <1>4, <1>6, <1>7, Zenon DEF Tracked

LEMMA TrackedStep ==
    ASSUME GcInv, ClockInRange, Tracked, [Next]_vars PROVE Tracked'
<1> USE DEF GcInv, GcTyped
<1>1. ASSUME NEW k \in Keys, Put(k) \/ Tombstone(k) PROVE Tracked'
  BY <1>1, PutTracks, TombstoneTracks, Zenon
<1>2. ASSUME NEW off \in unscheduled, ScheduleDeletion(off) PROVE Tracked'
  BY <1>2, ScheduleDeletionTracks, Zenon
<1>3. CASE RunGcCycle \/ MaybeSweep
  BY <1>3, GcSweepTracks, Zenon DEF RunGcCycle, MaybeSweep
<1>4. ASSUME UNCHANGED <<rvars, pending, bucket, unscheduled>>, clock' = clock \/ clock' = clock + 1
      PROVE  Tracked'
  <2>1. clock \in Nat /\ clock' \in Nat /\ clock <= clock'
    BY <1>4
  <2> QED BY <1>4, <2>1, TrackedUntouched, Zenon
<1> HIDE DEF GcInv, GcTyped
<1>5. ASSUME NEW c \in Clients, StartOperation(c) \/ ReadAndFinish(c) \/ Heartbeat(c) \/ Deregister(c)
      PROVE  Tracked'
  BY <1>4, <1>5, Zenon DEF StartOperation, ReadAndFinish, Heartbeat, Deregister
<1>6. ASSUME NEW c \in Clients, NEW k \in Keys, LookupBucket(c, k) PROVE Tracked'
  BY <1>4, <1>6, Zenon DEF LookupBucket
<1>7. CASE Tick \/ UNCHANGED vars
  BY <1>4, <1>7, Zenon DEF Tick, vars, gcvars
<1> QED BY <1>1, <1>2, <1>3, <1>5, <1>6, <1>7, Zenon DEF Next, UserNext

\* For any keys, clients and region, every extent whose deletion was scheduled is
\* collected by the first sweep for which all clients have moved past the present.
THEOREM DeletedAlwaysCollectable ==
    ASSUME ClockInRange PROVE Spec => []DeletedIsCollectable
<1>1. Init => GcInv
  BY GcStart
<1>2. Init => Tracked
  <2> SUFFICES ASSUME Init PROVE Tracked
    OBVIOUS
  <2>1. DOMAIN pending = {} /\ allocated = {}
    BY DEF Init, RInit
  <2> QED BY <2>1, Zenon DEF Tracked
<1>3. GcInv /\ [Next]_vars => GcInv'
  BY GcStep, Zenon
<1>4. GcInv /\ Tracked /\ [Next]_vars => Tracked'
  BY TrackedStep, Zenon
<1>5. GcInv /\ Tracked => DeletedIsCollectable
  <2> SUFFICES ASSUME GcInv, Tracked, NEW o \in Deleted PROVE o \in Dead(MarkedHeaders, clock + 1)
    BY Zenon DEF DeletedIsCollectable
  <2>1. /\ o \in allocated /\ o \in DOMAIN MarkedHeaders /\ Sound(MarkedHeaders[o], foot[o])
        /\ MarkedHeaders[o].epoch \in 1 .. clock
    BY NotedIsMarked, Zenon
  <2>2. Decode(MarkedHeaders, o).epoch = MarkedHeaders[o].epoch
    BY <2>1, EpochSeen, Zenon DEF Decode
  <2>3. clock \in Nat
    BY DEF GcInv, GcTyped
  <2>4. Decode(MarkedHeaders, o).epoch > 0 /\ Decode(MarkedHeaders, o).epoch < clock + 1
    BY <2>1, <2>2, <2>3
  <2> QED BY <2>1, <2>4, Zenon DEF Dead
<1> QED BY <1>1, <1>2, <1>3, <1>4, <1>5, PTL DEF Spec
=============================================================================
