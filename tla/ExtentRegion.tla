---------------------------- MODULE ExtentRegion ----------------------------
(***************************************************************************)
(* LargeObjectRegion of src/engine/extent.rs: a byte buffer carved into    *)
(* extents by a first-fit free list and a bump pointer.  Every method      *)
(* takes &mut self, so each is one action.                                 *)
(*                                                                         *)
(* The buffer is kept as the headers that can be decoded in it.  A header  *)
(* is V2 (32 bytes, magic at byte 0, epoch_mark at byte 16) or the older   *)
(* V1 (24 bytes, length at byte 0, magic at byte 16), and the code that    *)
(* writes into one does not always know which it is.  Payloads are opaque  *)
(* and contain no magic.                                                   *)
(***************************************************************************)
EXTENDS Integers, Sequences, FiniteSetsExt, Functions

CONSTANTS
    Size,           \* capacity of the buffer in bytes
    Lens,           \* payload lengths passed to allocate
    LenWrap,        \* 2^32: a V2 header keeps lengths modulo this
    LegacyLens,     \* payload lengths passed to write_extent_v1
    Data,           \* payloads
    Epochs,         \* epoch marks passed to mark_for_gc, min_active_epoch values
    MagicEpoch,     \* the epoch whose low 32 bits are EXTENT_MAGIC
    MagicLen        \* what bytes 0..8 of a V2 header read as when taken for a length

ASSUME RegionAssumption ==
    /\ Size \in Nat
    /\ Lens \subseteq Nat /\ LegacyLens \subseteq Nat
    /\ LenWrap \in Nat /\ \A len \in Lens : len < LenWrap
    /\ Epochs \subseteq Nat
    /\ MagicLen \in Nat /\ MagicLen > Size

VARIABLES
    free_list,      \* sequence of [off, len]
    allocated,      \* offsets handed out
    next_offset,    \* bump pointer
    hdr,            \* offset -> header last written there, where one still stands
    foot,           \* auxiliary: offset -> footprint its allocation asked for
    marked          \* auxiliary: offset -> epoch mark_for_gc accepted for it

rvars == <<free_list, allocated, next_offset, hdr, foot, marked>>

HeaderV2 == 32
HeaderV1 == 24
Align == 8

AlignUp(val) == ((val + Align - 1) \div Align) * Align
ExtentTotal(data_len) == AlignUp(HeaderV2 + data_len)

\* The function f with the value v at x.
With(f, x, v) == [y \in DOMAIN f \cup {x} |-> IF y = x THEN v ELSE f[y]]

\* data_len is an u64 in V1 and an u32 in V2.
Header(fmt, len, data) ==
    [fmt |-> fmt, magic |-> TRUE, len |-> IF fmt = "V2" THEN len % LenWrap ELSE len,
     epoch |-> 0, data |-> data]
NoPayload == "none"

(***************************************************************************)
(* read_decoded_header: V1 is tried first, by the magic at byte 16, which  *)
(* in a V2 header is the low half of epoch_mark.                           *)
(***************************************************************************)
Decoded(magic, len, epoch, v2) == [magic |-> magic, len |-> len, epoch |-> epoch, v2 |-> v2]
NoMagic == Decoded(FALSE, 0, 0, FALSE)

DecodeHeader(h) ==
    CASE h.fmt = "V2" /\ h.epoch = MagicEpoch -> Decoded(TRUE, MagicLen, h.len, FALSE)
      [] h.fmt = "V2" /\ h.epoch # MagicEpoch ->
            IF h.magic THEN Decoded(TRUE, h.len, h.epoch, TRUE) ELSE NoMagic
      [] h.fmt = "V1" ->
            IF h.magic THEN Decoded(TRUE, h.len, h.epoch, FALSE) ELSE NoMagic

\* The header at an offset of the header map hs.
Decode(hs, off) == IF off \in DOMAIN hs THEN DecodeHeader(hs[off]) ELSE NoMagic

\* The footprint free and sweep compute from a decoded header.
MutForgetPadding(d) == HeaderV2 + d.len
FootprintOf(d) == IF d.v2 THEN ExtentTotal(d.len) ELSE HeaderV1 + d.len

\* read(): the payload, or nothing.
ReadExtent(off) ==
    LET d == Decode(hdr, off)
        hdr_sz == IF d.v2 THEN HeaderV2 ELSE HeaderV1
    IN  IF d.magic /\ off + hdr_sz + d.len <= Size THEN {hdr[off].data} ELSE {}

RInit ==
    /\ free_list = <<>>
    /\ allocated = {}
    /\ next_offset = 0
    /\ hdr = <<>>
    /\ foot = <<>>
    /\ marked = <<>>

(***************************************************************************)
(* allocate, write_extent_v1, write_extent_v2_checksummed                  *)
(***************************************************************************)

\* write_extent.  Free blocks are never merged, so no other header stands inside.
Install(off, h, total) ==
    /\ hdr' = With(hdr, off, h)
    /\ foot' = With(foot, off, total)
    /\ marked' = Restrict(marked, DOMAIN marked \ {off})
    /\ allocated' = allocated \cup {off}

\* VecDeque::remove.
RemoveAt(s, i) == SubSeq(s, 1, i - 1) \o SubSeq(s, i + 1, Len(s))

Fits(need) == {i \in DOMAIN free_list : free_list[i].len >= need}

\* What a split puts back.
Remainder(block, need) ==
    IF block.len > need
    THEN <<[off |-> block.off + need, len |-> block.len - need]>> ELSE <<>>

AllocateFromFreeList(len, data) ==
    LET need == ExtentTotal(len)
        i == Min(Fits(need))
        block == free_list[i]
    IN  /\ Fits(need) # {}
        /\ free_list' = RemoveAt(free_list, i) \o Remainder(block, need)
        /\ Install(block.off, Header("V2", len, data), need)
        /\ next_offset' = next_offset

BumpAllocate(total, h) ==
    /\ next_offset + total <= Size
    /\ Install(next_offset, h, total)
    /\ next_offset' = next_offset + total
    /\ free_list' = free_list

AllocateFromTail(len, data) ==
    /\ Fits(ExtentTotal(len)) = {}
    /\ BumpAllocate(ExtentTotal(len), Header("V2", len, data))

Allocate(len, data) == AllocateFromFreeList(len, data) \/ AllocateFromTail(len, data)

WriteExtentV1(len, data) ==
    BumpAllocate(HeaderV1 + len, Header("V1", len, data))

WriteExtentV2Checksummed(len, data) ==
    BumpAllocate(ExtentTotal(len), Header("V2", len, data))

(***************************************************************************)
(* free, mark_for_gc, sweep                                                *)
(***************************************************************************)

\* zero_magic clears bytes 0..4: the magic of a V2 header, the length of a V1.
ZeroMagic(h) ==
    IF h.fmt = "V2" THEN [h EXCEPT !.magic = FALSE]
    ELSE [h EXCEPT !.len = 0, !.data = NoPayload]

\* The extents of the sequence order go to the free list, one after the other;
\* hs and ms are the headers and the marks at that moment.
Reclaim(order, hs, ms) ==
    LET dead == Range(order) IN
    /\ free_list' = free_list \o
         [i \in DOMAIN order |-> [off |-> order[i], len |-> FootprintOf(Decode(hs, order[i]))]]
    /\ allocated' = allocated \ dead
    /\ hdr' = [o \in DOMAIN hs |-> IF o \in dead THEN ZeroMagic(hs[o]) ELSE hs[o]]
    /\ foot' = Restrict(foot, DOMAIN foot \ dead)
    /\ marked' = Restrict(ms, DOMAIN ms \ dead)
    /\ next_offset' = next_offset

Free(off) ==
    /\ off \in allocated
    /\ Decode(hdr, off).magic
    /\ Reclaim(<<off>>, hdr, marked)

\* Bytes 16..24 are overwritten: the epoch of a V2 header, the magic of a V1.
Stamp(h, epoch) ==
    IF h.fmt = "V2" THEN [h EXCEPT !.epoch = epoch] ELSE [h EXCEPT !.magic = FALSE]

MarkForGc(off, epoch) ==
    /\ Decode(hdr, off).magic
    /\ hdr' = [hdr EXCEPT ![off] = Stamp(@, epoch)]
    /\ marked' = With(marked, off, epoch)
    /\ UNCHANGED <<free_list, allocated, next_offset, foot>>

\* A bug: an extent never marked (epoch 0) is swept too.
MutDead(hs, min_active_epoch) == {o \in allocated : Decode(hs, o).epoch < min_active_epoch}

\* The extents sweep collects.
Dead(hs, min_active_epoch) ==
    {o \in allocated : Decode(hs, o).epoch > 0 /\ Decode(hs, o).epoch < min_active_epoch}

\* The orders in which a HashSet may be iterated.
Orders(S) == UNION {Bijection(1 .. n, S) : n \in 0 .. Cardinality(S)}

\* The HashSet is iterated in any order.
Sweep(min_active_epoch, hs, ms) ==
    \E order \in Orders(Dead(hs, min_active_epoch)) : Reclaim(order, hs, ms)

RNext ==
    \/ \E len \in Lens, data \in Data : Allocate(len, data) \/ WriteExtentV2Checksummed(len, data)
    \/ \E len \in LegacyLens, data \in Data : WriteExtentV1(len, data)
    \/ \E off \in allocated : Free(off)
    \/ \E off \in DOMAIN hdr, epoch \in Epochs : MarkForGc(off, epoch)
    \/ \E min_active_epoch \in Epochs : Sweep(min_active_epoch, hdr, marked)

RSpec == RInit /\ [][RNext]_rvars

-----------------------------------------------------------------------------
(***************************************************************************)
(* Properties                                                              *)
(***************************************************************************)
Blocks == {[off |-> o, len |-> foot[o]] : o \in allocated}

\* The state is well formed: offsets inside the region, headers at extents.
RTypeOK ==
    /\ next_offset \in 0 .. Size
    /\ allocated \subseteq 0 .. Size - 1
    /\ allocated \subseteq DOMAIN hdr /\ DOMAIN foot = allocated
    /\ DOMAIN marked \subseteq DOMAIN hdr
    /\ \A i \in DOMAIN free_list : free_list[i].off \in Nat /\ free_list[i].len \in Nat

\* The free list never holds a byte twice, nor one that an extent still uses:
\* what free and sweep give back is what allocate took, paddings and splits
\* included.
FreeListDisjoint ==
    /\ \A i, j \in DOMAIN free_list : i # j =>
            \/ free_list[i].off + free_list[i].len <= free_list[j].off
            \/ free_list[j].off + free_list[j].len <= free_list[i].off
    /\ \A i \in DOMAIN free_list, b \in Blocks :
            \/ free_list[i].off + free_list[i].len <= b.off
            \/ b.off + b.len <= free_list[i].off

FreeBlocks == Range(free_list)

\* What an allocation may take from the buffer.
Footprints == {ExtentTotal(len) : len \in Lens} \cup {HeaderV1 + len : len \in LegacyLens}

\* The region behaves as an allocator that neither hands out a byte twice nor
\* loses one (ExtentAllocator): every method is a step of it.
Allocator == INSTANCE ExtentAllocator
    WITH Size <- Size, Needs <- Footprints,
         used <- Blocks, free <- FreeBlocks, top <- next_offset

ImplementsAllocator == Allocator!ASpec

\* A freed or swept extent cannot be read any more (free: "Zero the magic to
\* prevent stale reads after freeing").
NoStaleRead == \A off \in DOMAIN hdr \ allocated : ReadExtent(off) = {}

\* mark_for_gc keeps its word: no extent that a sweep could collect by the mark
\* it accepted is left out of that sweep.
MarkedIsCollected ==
    \A off \in allocated \cap DOMAIN marked, min \in Epochs :
        marked[off] > 0 /\ marked[off] < min => off \in Dead(hdr, min)

\* A sweep collects only extents that were marked below its epoch: an extent in
\* use is never taken away.
OnlyMarkedCollected ==
    \A min \in Epochs : \A off \in Dead(hdr, min) : off \in DOMAIN marked /\ marked[off] < min

\* read_decoded_header "automatically detects V1 vs V2 format".
FormatDetected ==
    \A off \in allocated : Decode(hdr, off).v2 = (hdr[off].fmt = "V2")
=============================================================================
