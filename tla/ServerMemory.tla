---------------------------- MODULE ServerMemory ----------------------------
(***************************************************************************)
(* Slab chunks used as blocks of replicated memory: a user allocates a     *)
(* chunk, writes blocks to it through write_with_replication at the offset *)
(* chunk_offset gives it, and frees it, while flushes run.                 *)
(***************************************************************************)
EXTENDS Replication, Slab

CONSTANT NoBlock

\* The region the slab carves up is the primary's store.
ASSUME RegionAssumption == RegionSize = LocalSize

VARIABLE mine       \* auxiliary: user -> chunk -> the block it wrote last

vars == <<rvars, slab, mine>>

Init ==
    /\ RInit
    /\ SlabInit
    /\ mine = [u \in Users |-> [c \in Chunks |-> NoBlock]]

Allocate(u) ==
    /\ AllocateFreed(u) \/ AllocateBump(u)
    /\ UNCHANGED <<rvars, mine>>

\* A user's own write has returned before it frees the chunk.
Free(u, c) ==
    /\ FreeChunk(u, c)
    /\ \A w \in inflight : w.off # ChunkOffset(c)
    /\ mine' = [mine EXCEPT ![u][c] = NoBlock]
    /\ UNCHANGED rvars

WriteBlock(u, c, v) ==
    /\ c \in held[u]
    /\ WriteLocal(Write(ChunkOffset(c), [i \in 1 .. chunk_size |-> v]))
    /\ mine' = [mine EXCEPT ![u][c] = v]
    /\ UNCHANGED slab

Next ==
    \/ \E u \in Users :
        \/ Allocate(u)
        \/ \E c \in held[u] : Free(u, c)
        \/ \E c \in held[u], v \in Data \ {Zero} : WriteBlock(u, c, v)
    \/ (Writer \/ Flusher) /\ UNCHANGED <<slab, mine>>

Spec == Init /\ [][Next]_vars /\ RFairness

-----------------------------------------------------------------------------
\* Every variable has its type.
TypeOK ==
    /\ local \in [0 .. LocalSize - 1 -> Data]
    /\ \A a \in DOMAIN objects : objects[a] \in Data
    /\ Len(pending) + Len(hist) <= 2 * (MaxWrites + 1)
    /\ flush \in {"idle", "objects", "both"} /\ poisoned \in {"yes", "no"}
    /\ held \in [Users -> SUBSET Chunks] /\ next_chunk \in 0 .. total_chunks

\* A user finds in its chunk the block it wrote last, whatever the other users
\* allocate, write and free meanwhile.
HoldersData ==
    \A u \in Users, c \in Chunks :
        c \in held[u] /\ mine[u][c] # NoBlock =>
            \A a \in ChunkOffset(c) .. ChunkOffset(c) + chunk_size - 1 : local[a] = mine[u][c]
=============================================================================
