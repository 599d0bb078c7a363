-------------------------------- MODULE Slab --------------------------------
(***************************************************************************)
(* The chunk allocator of src/engine/slab.rs and the watermark check of    *)
(* src/engine/watermark.rs that reads its counters.                        *)
(*                                                                         *)
(* The allocator is used through &mut self, so each call is one action.    *)
(* free_chunk takes any index and checks nothing; its callers are modelled *)
(* as giving back only what they hold, once.                               *)
(***************************************************************************)
EXTENDS Integers, Sequences, FiniteSets

CONSTANTS
    Users,
    Align,          \* 8 in the code
    RegionSize,
    ChunkSizes,     \* the chunk sizes asked for at start-up; 0 disables the slab
    Configs         \* the WatermarkConfigs tried: region -> percentage

Regions == {"hash_table", "extent_region", "slab_region"}

ASSUME SlabAssumption ==
    /\ Align \in Nat \ {0} /\ RegionSize \in Nat /\ ChunkSizes \subseteq Nat
    /\ Configs \subseteq [Regions -> 0 .. 100]

VARIABLES
    chunk_size, total_chunks,       \* fixed by new()
    next_chunk, free_chunks,
    held                            \* user -> the chunks it holds

slab == <<chunk_size, total_chunks, next_chunk, free_chunks, held>>

AlignUp(n) == ((n + Align - 1) \div Align) * Align

SlabInit ==
    \E asked \in ChunkSizes :
        /\ chunk_size = AlignUp(asked)
        /\ total_chunks = IF chunk_size > 0 THEN RegionSize \div chunk_size ELSE 0
        /\ next_chunk = 0 /\ free_chunks = <<>>
        /\ held = [u \in Users |-> {}]

\* A bug: the index is taken for the offset.
MutChunkOffset(c) == c

ChunkOffset(c) == c * chunk_size

AllocateFreed(u) ==
    /\ free_chunks # <<>>
    /\ held' = [held EXCEPT ![u] = @ \cup {free_chunks[Len(free_chunks)]}]
    /\ free_chunks' = SubSeq(free_chunks, 1, Len(free_chunks) - 1)
    /\ UNCHANGED <<chunk_size, total_chunks, next_chunk>>

AllocateBump(u) ==
    /\ free_chunks = <<>> /\ next_chunk < total_chunks
    /\ held' = [held EXCEPT ![u] = @ \cup {next_chunk}]
    /\ next_chunk' = next_chunk + 1
    /\ UNCHANGED <<chunk_size, total_chunks, free_chunks>>

\* allocate_chunk returns None.
Exhausted == free_chunks = <<>> /\ next_chunk >= total_chunks

FreeChunk(u, c) ==
    /\ c \in held[u]
    /\ free_chunks' = Append(free_chunks, c)
    /\ held' = [held EXCEPT ![u] = @ \ {c}]
    /\ UNCHANGED <<chunk_size, total_chunks, next_chunk>>

AllocatedCount == next_chunk - Len(free_chunks)
FreeCount == total_chunks - AllocatedCount

\* A bug: only a full region is over its threshold.
MutOver(used, capacity, threshold) == capacity > 0 /\ used > capacity

\* used / capacity > threshold, an empty region counting as unused.
Over(used, capacity, threshold) == capacity > 0 /\ used * 100 > threshold * capacity

\* WatermarkMonitor::check: the regions it reports, and passes to the callback.
ExceededRegions(config, used, capacity) ==
    {r \in Regions : Over(used[r], capacity[r], config[r])}

-----------------------------------------------------------------------------
Chunks == 0 .. total_chunks - 1

\* No chunk is held twice, nor held and on the free list, nor twice on it; every
\* chunk handed out lies inside the region.
ChunksDisjoint ==
    /\ \A u, w \in Users : u # w => held[u] \cap held[w] = {}
    /\ \A u \in Users, i \in DOMAIN free_chunks : free_chunks[i] \notin held[u]
    /\ \A i, j \in DOMAIN free_chunks : free_chunks[i] = free_chunks[j] => i = j
    /\ \A u \in Users : \A c \in held[u] : ChunkOffset(c) + chunk_size <= RegionSize

\* The counters stats() and the watermark monitor read are exact: they never wrap
\* below zero and name the chunks that are really held.
CountsExact ==
    /\ AllocatedCount = Cardinality(UNION {held[u] : u \in Users})
    /\ FreeCount \in 0 .. total_chunks

\* An allocation never fails without warning: when allocate_chunk can only return
\* None, a check of the current counters reports the slab region, whatever the
\* hash table and the extent region report, unless its threshold is 1.0, which is never
\* exceeded (a disabled slab has no chunks and reports nothing).
NoSilentExhaustion ==
    Exhausted /\ total_chunks > 0 =>
        \A config \in Configs, keys, bytes \in 0 .. 1 :
            config["slab_region"] < 100 <=>
                "slab_region" \in ExceededRegions(config,
                    [hash_table |-> keys, extent_region |-> bytes, slab_region |-> AllocatedCount],
                    [hash_table |-> 1, extent_region |-> 1, slab_region |-> total_chunks])
=============================================================================
