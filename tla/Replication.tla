---------------------------- MODULE Replication ----------------------------
(***************************************************************************)
(* Asynchronous replication (src/control/replication.rs): the primary      *)
(* writes locally, queues the write, and a later flush replays the queue   *)
(* on the backup.                                                          *)
(*                                                                         *)
(* write_with_replication borrows the local store mutably, so two writes   *)
(* never overlap; flush takes the backup's lock, then the queue's, and a   *)
(* write may queue between the two.  A write whose offset lies beyond the  *)
(* backup makes flush panic with both locks held: they stay poisoned, and  *)
(* every later lock().unwrap() panics too.  Memory is an array of cells;   *)
(* the backup may be smaller than the primary.                             *)
(***************************************************************************)
EXTENDS Integers, Sequences

CONSTANTS
    Data,           \* the values of a cell
    Zero,           \* a cell of vec![0u8; capacity]
    LocalSize,      \* cells of the primary
    BackupSizes,    \* the backup capacities considered
    MaxWrites       \* bound: writes per behaviour

ASSUME ReplicationAssumption ==
    /\ Zero \in Data
    /\ LocalSize \in Nat
    /\ BackupSizes \subseteq Nat
    /\ MaxWrites \in Nat

VARIABLES
    local,          \* the primary's store
    objects,        \* BackupStore.objects
    pending,        \* BackupStore.pending, oldest first
    inflight,       \* the set of at most one write done locally, not yet queued
    flush,          \* "idle", "objects": first lock held, "both"
    poisoned,       \* "yes" once a flush has panicked
    hist,           \* auxiliary: the primary's store after each write
    applied,        \* auxiliary: writes the backup has replayed
    due             \* auxiliary: writes queued when the running flush began

rvars == <<local, objects, pending, inflight, flush, poisoned, hist, applied, due>>

Write(off, data) == [off |-> off, data |-> data]

\* copy_from_slice, cut off at the end of the store.
Apply(mem, w) ==
    [a \in DOMAIN mem |-> IF a \in w.off .. w.off + Len(w.data) - 1
                          THEN w.data[a - w.off + 1] ELSE mem[a]]

Zeroed(n) == [a \in 0 .. n - 1 |-> Zero]

RInit ==
    /\ local = Zeroed(LocalSize)
    /\ \E n \in BackupSizes : objects = Zeroed(n)
    /\ pending = <<>> /\ inflight = {}
    /\ flush = "idle" /\ poisoned = "no"
    /\ hist = <<local>> /\ applied = 0 /\ due = 0

\* The first half of write_with_replication; an offset beyond the store panics.
WriteLocal(w) ==
    /\ inflight = {} /\ Len(hist) <= MaxWrites
    /\ w.off <= LocalSize
    /\ local' = Apply(local, w)
    /\ hist' = Append(hist, local')
    /\ inflight' = {w}
    /\ UNCHANGED <<objects, pending, flush, poisoned, applied, due>>

\* A bug: the newest write goes to the front.
MutEnqueue(w) ==
    /\ poisoned = "no" /\ flush # "both"
    /\ pending' = <<w>> \o pending
    /\ inflight' = {}
    /\ UNCHANGED <<local, objects, flush, poisoned, hist, applied, due>>

\* Its second half waits for the queue's lock.
Enqueue(w) ==
    /\ poisoned = "no" /\ flush # "both"
    /\ pending' = Append(pending, w)
    /\ inflight' = {}
    /\ UNCHANGED <<local, objects, flush, poisoned, hist, applied, due>>

\* The lock is poisoned: the writer panics after its local write.
EnqueuePanic ==
    /\ poisoned = "yes"
    /\ inflight' = {}
    /\ UNCHANGED <<local, objects, pending, flush, poisoned, hist, applied, due>>

\* A bug: a queue that is not lagging is left alone.
MutFlushStart ==
    /\ flush = "idle" /\ poisoned = "no" /\ Len(pending) > 1
    /\ flush' = "objects"
    /\ due' = applied + Len(pending)
    /\ UNCHANGED <<local, objects, pending, inflight, poisoned, hist, applied>>

FlushStart ==
    /\ flush = "idle" /\ poisoned = "no"
    /\ flush' = "objects"
    /\ due' = applied + Len(pending)
    /\ UNCHANGED <<local, objects, pending, inflight, poisoned, hist, applied>>

FlushLock ==
    /\ flush = "objects"
    /\ flush' = "both"
    /\ UNCHANGED <<local, objects, pending, inflight, poisoned, hist, applied, due>>

\* The offset lies inside the backup, or at its very end.
Fits(w) == w.off = 0 \/ w.off - 1 \in DOMAIN objects

FlushOne ==
    /\ flush = "both" /\ pending # <<>>
    /\ Fits(Head(pending))
    /\ objects' = Apply(objects, Head(pending))
    /\ pending' = Tail(pending)
    /\ applied' = applied + 1
    /\ UNCHANGED <<local, inflight, flush, poisoned, hist, due>>

\* objects[start..end] with start > end.
FlushPanic ==
    /\ flush = "both" /\ pending # <<>>
    /\ ~Fits(Head(pending))
    /\ pending' = Tail(pending)
    /\ applied' = applied + 1
    /\ flush' = "idle" /\ poisoned' = "yes"
    /\ UNCHANGED <<local, objects, inflight, hist, due>>

FlushDone ==
    /\ flush = "both" /\ pending = <<>>
    /\ flush' = "idle" /\ due' = 0
    /\ UNCHANGED <<local, objects, pending, inflight, poisoned, hist, applied>>

Flusher == FlushStart \/ FlushLock \/ FlushOne \/ FlushPanic \/ FlushDone

Writer == (\E w \in inflight : Enqueue(w)) \/ (inflight # {} /\ EnqueuePanic)

\* Writes of any data at any offset of the store.
RNext ==
    \/ \E off \in 0 .. LocalSize, n \in 0 .. LocalSize :
            \E data \in [1 .. n -> Data] : WriteLocal(Write(off, data))
    \/ Writer
    \/ Flusher

RSpec == RInit /\ [][RNext]_rvars

(***************************************************************************)
(* "Called periodically": a flush is started while writes are pending and  *)
(* one that has started runs on.  The pauses between periodic flushes let  *)
(* a waiting writer have the queue's lock: it is free again and again.     *)
(***************************************************************************)
RFairness ==
    /\ SF_rvars(Writer)
    /\ WF_rvars(pending # <<>> /\ FlushStart)
    /\ WF_rvars(FlushLock \/ FlushOne \/ FlushPanic \/ FlushDone)

-----------------------------------------------------------------------------
\* The cells both stores have.
Agrees(mem, snapshot) == \A a \in DOMAIN mem \cap DOMAIN snapshot : mem[a] = snapshot[a]

\* Whatever a reader of the backup sees is the primary's store as it was after
\* some number of its writes, in the order they were made: never a later write
\* without an earlier one, also in the middle of a flush and after a panic.
BackupIsPrefix == applied + 1 <= Len(hist) /\ Agrees(objects, hist[applied + 1])

\* A flush that returns has replayed every write queued before it was called.
FlushCovers ==
    [][flush = "both" /\ flush' = "idle" /\ poisoned' = "no" => applied' >= due]_rvars

\* If flushes keep being called, the backup catches up with the primary, unless a
\* write beyond the backup has poisoned the locks.
CatchesUp == []<>(poisoned = "yes" \/ Agrees(objects, local))
=============================================================================
