------------------------ MODULE ServerMemory_proofs ------------------------
(***************************************************************************)
(* For every set of users and of values, every chunk size and every size   *)
(* of the primary and of the backup: the backup is always an earlier state *)
(* of the primary, chunks never collide and the slab's counters are exact, *)
(* and a user finds in a chunk what it wrote there.                        *)
(***************************************************************************)
EXTENDS ServerMemory, FiniteSetTheorems, TLAPS

(***************************************************************************)
(* Sequences.                                                              *)
(***************************************************************************)
LEMMA Cut ==
    ASSUME NEW S, NEW s \in Seq(S), NEW m \in 1 .. Len(s) + 1, NEW n \in 0 .. Len(s)
    PROVE  /\ SubSeq(s, m, n) \in Seq(S) /\ Len(SubSeq(s, m, n)) = IF m <= n THEN n - m + 1 ELSE 0
           /\ \A i \in 1 .. n - m + 1 : SubSeq(s, m, n)[i] = s[m + i - 1]
OBVIOUS

LEMMA Front ==
    ASSUME NEW S, NEW s \in Seq(S), s # <<>>
    PROVE  /\ Len(s) \in Nat /\ Len(s) >= 1 /\ Head(s) = s[1] /\ Head(s) \in S
           /\ Tail(s) \in Seq(S) /\ Len(Tail(s)) = Len(s) - 1
           /\ \A i \in 1 .. Len(Tail(s)) : Tail(s)[i] = s[i + 1]
OBVIOUS

LEMMA ElementType == ASSUME NEW S, NEW s \in Seq(S), NEW i \in 1 .. Len(s) PROVE s[i] \in S
OBVIOUS

(***************************************************************************)
(* Replication.                                                            *)
(***************************************************************************)
Mem == [0 .. LocalSize - 1 -> Data]
Writes == [off : Nat, data : Seq(Data)]

RepTypeOK ==
    /\ local \in Mem /\ hist \in Seq(Mem)
    /\ \E n \in Nat : objects \in [0 .. n - 1 -> Data]
    /\ pending \in Seq(Writes) /\ inflight \in SUBSET Writes
    /\ applied \in Nat /\ due \in Nat
    /\ flush \in {"idle", "objects", "both"} /\ poisoned \in {"yes", "no"}

\* The queue is the chain of writes that leads from the store the backup has to
\* the primary's, the write in flight at its end; a panic breaks it off.
Chain ==
    /\ Len(hist) >= applied + Len(pending) + 1
    /\ hist[Len(hist)] = local
    /\ Agrees(objects, hist[applied + 1])
    /\ \A i \in 1 .. Len(pending) : hist[applied + i + 1] = Apply(hist[applied + i], pending[i])

Tip ==
    /\ \A w, x \in inflight : w = x
    /\ poisoned = "yes" => flush = "idle"
    /\ poisoned = "no" /\ inflight = {} => Len(hist) = applied + Len(pending) + 1
    /\ poisoned = "no" => \A w \in inflight : /\ Len(hist) = applied + Len(pending) + 2
                                              /\ local = Apply(hist[Len(hist) - 1], w)

Covered == flush # "idle" => applied + Len(pending) >= due

Bounded == Len(hist) <= MaxWrites + 1

RepInv == RepTypeOK /\ Chain /\ Tip /\ Covered /\ Bounded

\* A write leaves a store of the same size with values in it.
LEMMA ApplyType ==
    ASSUME NEW D, NEW mem \in [D -> Data], NEW w \in Writes, D \subseteq Int
    PROVE  Apply(mem, w) \in [D -> Data]
<1>1. ASSUME NEW a \in D, a \in w.off .. w.off + Len(w.data) - 1
      PROVE  w.data[a - w.off + 1] \in Data
  <2>1. w.off \in Nat /\ w.data \in Seq(Data) /\ Len(w.data) \in Nat
    BY DEF Writes
  <2>2. a - w.off + 1 \in 1 .. Len(w.data)
    BY <1>1, <2>1
  <2> QED
    BY <2>1, <2>2, ElementType
<1> QED
  BY <1>1 DEF Apply

\* The same write on two stores that agree leaves them in agreement.
LEMMA ApplyAgrees ==
    ASSUME NEW mem, NEW snapshot, NEW w, Agrees(mem, snapshot)
    PROVE  Agrees(Apply(mem, w), Apply(snapshot, w))
BY DEF Agrees, Apply

\* A write beyond the end of the backup touches none of its cells.
LEMMA BeyondAgrees ==
    ASSUME NEW n \in Nat, NEW mem \in [0 .. n - 1 -> Data], NEW snapshot, NEW w \in Writes,
           Agrees(mem, snapshot), w.off # 0, w.off - 1 \notin 0 .. n - 1
    PROVE  Agrees(mem, Apply(snapshot, w))
<1>1. w.off \in Nat /\ Len(w.data) \in Nat
  BY DEF Writes
<1>2. \A a \in 0 .. n - 1 : a \notin w.off .. w.off + Len(w.data) - 1
  BY <1>1
<1> QED
  BY <1>2 DEF Agrees, Apply

LEMMA InitReplicated == RInit => RepInv
<1> SUFFICES ASSUME RInit PROVE RepInv
    OBVIOUS
<1> USE ReplicationAssumption
<1>1. local \in Mem
  BY DEF RInit, Zeroed, Mem
<1>2. \E n \in Nat : objects \in [0 .. n - 1 -> Data] /\ objects = [a \in 0 .. n - 1 |-> Zero]
  BY DEF RInit, Zeroed
<1>3. hist \in Seq(Mem) /\ Len(hist) = 1 /\ hist[1] = local
  BY <1>1 DEF RInit
<1>4. pending \in Seq(Writes) /\ Len(pending) = 0
  BY DEF RInit
<1>5. RepTypeOK
  BY <1>1, <1>2, <1>3, <1>4 DEF RInit, RepTypeOK
<1>6. Agrees(objects, hist[applied + 1])
  BY <1>2, <1>3 DEF RInit, Agrees, Zeroed
<1> QED
  BY <1>3, <1>4, <1>5, <1>6 DEF RInit, RepInv, Chain, Tip, Covered, Bounded

LEMMA WriteReplicated ==
    ASSUME RepInv, NEW w \in Writes, WriteLocal(w)
    PROVE  RepInv'
<1> USE ReplicationAssumption DEF RepInv
<1>1. local' \in Mem
  BY ApplyType DEF WriteLocal, RepTypeOK, Mem
<1>2. hist' \in Seq(Mem) /\ Len(hist') = Len(hist) + 1 /\ Len(hist) \in Nat
      /\ hist'[Len(hist) + 1] = local' /\ \A i \in 1 .. Len(hist) : hist'[i] = hist[i]
  BY <1>1 DEF WriteLocal, RepTypeOK
<1>3. UNCHANGED <<objects, pending, flush, poisoned, applied, due>> /\ inflight = {} /\ inflight' = {w}
      /\ local' = Apply(local, w) /\ Len(hist) <= MaxWrites
  BY DEF WriteLocal
<1>4. RepTypeOK'
  BY <1>1, <1>2, <1>3, SMTT(30) DEF RepTypeOK
<1>5. Len(pending) \in Nat /\ applied \in Nat
  BY DEF RepTypeOK
<1>6. Chain'
  <2>1. Agrees(objects, hist[applied + 1])'
    BY <1>2, <1>3, <1>5, SMTT(30) DEF Chain, Agrees
  <2>2. \A i \in 1 .. Len(pending') : hist'[applied' + i + 1] = Apply(hist'[applied' + i], pending'[i])
    BY <1>2, <1>3, <1>5, SMTT(30) DEF Chain
  <2> QED
    BY <2>1, <2>2, <1>2, <1>3, <1>5 DEF Chain
<1>7. Tip'
  <2>1. Len(hist') - 1 = Len(hist) /\ Len(hist) \in 1 .. Len(hist)
    BY <1>2, <1>5 DEF Chain
  <2>2. hist'[Len(hist') - 1] = local
    BY <2>1, <1>2 DEF Chain
  <2>3. local' = Apply(hist'[Len(hist') - 1], w)
    BY <2>2, <1>3 DEF Apply
  <2>4. \A x \in inflight' : x = w
    BY <1>3
  <2>5. poisoned' = "no" => Len(hist') = applied' + Len(pending') + 2
    BY <1>2, <1>3, <1>5 DEF Tip
  <2> QED
    BY <2>3, <2>4, <2>5, <1>3, Zenon DEF Tip
<1> QED
  BY <1>2, <1>3, <1>4, <1>6, <1>7 DEF Covered, Bounded
LEMMA EnqueueReplicated ==
    ASSUME RepInv, NEW w \in inflight, Enqueue(w)
    PROVE  RepInv'
<1> USE DEF RepInv
<1>1. w \in Writes /\ applied \in Nat /\ Len(pending) \in Nat /\ Len(hist) \in Nat
  BY DEF RepTypeOK
<1>2. /\ pending' \in Seq(Writes) /\ Len(pending') = Len(pending) + 1
      /\ pending'[Len(pending) + 1] = w /\ \A i \in 1 .. Len(pending) : pending'[i] = pending[i]
  BY <1>1 DEF Enqueue, RepTypeOK
<1>3. UNCHANGED <<local, objects, flush, poisoned, hist, applied, due>> /\ inflight' = {} /\ poisoned = "no"
  BY DEF Enqueue
<1>4. Len(hist) = applied + Len(pending) + 2 /\ local = Apply(hist[Len(hist) - 1], w)
  BY <1>3 DEF Tip
<1>5. RepTypeOK'
  BY <1>2, <1>3, Zenon DEF RepTypeOK
<1>6. Chain'
  <2>1. Agrees(objects, hist[applied + 1])'
    BY <1>3 DEF Chain, Agrees
  <2>2. ASSUME NEW i \in 1 .. Len(pending')
        PROVE  hist[applied + i + 1] = Apply(hist[applied + i], pending'[i])
    <3>1. CASE i \in 1 .. Len(pending)
      BY <3>1, <1>1, <1>2 DEF Chain
    <3>2. CASE i = Len(pending) + 1
      <4>1. applied + i + 1 = Len(hist) /\ applied + i = Len(hist) - 1
        BY <3>2, <1>1, <1>4
      <4> QED
        BY <4>1, <3>2, <1>2, <1>4 DEF Chain
    <3> QED
      BY <3>1, <3>2, <1>1, <1>2
  <2>3. \A i \in 1 .. Len(pending') : hist'[applied' + i + 1] = Apply(hist'[applied' + i], pending'[i])
    BY <2>2, <1>3
  <2> QED
    BY <2>1, <2>3, <1>1, <1>2, <1>3, <1>4 DEF Chain
<1>7. Tip' /\ Covered' /\ Bounded'
  BY <1>1, <1>2, <1>3, <1>4 DEF Tip, Covered, RepTypeOK, Bounded
<1> QED
  BY <1>5, <1>6, <1>7

LEMMA FlushReplicated ==
    ASSUME RepInv, Flusher \/ EnqueuePanic
    PROVE  RepInv'
<1> USE DEF RepInv
<1>1. applied \in Nat /\ Len(pending) \in Nat /\ Len(hist) \in Nat /\ due \in Nat
  BY DEF RepTypeOK
<1>2. CASE EnqueuePanic
  <2>1. UNCHANGED <<local, objects, pending, flush, poisoned, hist, applied, due>>
        /\ inflight' = {} /\ poisoned = "yes"
    BY <1>2 DEF EnqueuePanic
  <2>2. RepTypeOK' /\ Chain'
    <3>1. RepTypeOK'
      BY <2>1 DEF RepTypeOK
    <3>2. Chain'
      BY <2>1 DEF Chain, Agrees, Apply
    <3> QED BY <3>1, <3>2
  <2> QED
    BY <2>1, <2>2 DEF Tip, Covered, Bounded
<1>3. CASE FlushStart \/ FlushLock \/ FlushDone
  <2>1. UNCHANGED <<local, objects, pending, inflight, poisoned, hist, applied>>
        /\ flush' \in {"idle", "objects", "both"} /\ due' \in Nat
        /\ (poisoned = "yes" => flush' = "idle")
        /\ (flush' # "idle" => applied + Len(pending) >= due')
    BY <1>1, <1>3 DEF FlushStart, FlushLock, FlushDone, Covered, Tip
  <2>2. RepTypeOK' /\ Chain'
    <3>1. RepTypeOK'
      BY <2>1, Zenon DEF RepTypeOK
    <3>2. Chain'
      BY <2>1 DEF Chain, Agrees, Apply
    <3> QED
      BY <3>1, <3>2
  <2>3. Tip'
    BY <2>1 DEF Tip, Apply
  <2> QED
    BY <2>1, <2>2, <2>3 DEF Covered, Bounded
<1>4. CASE FlushOne \/ FlushPanic
  <2> DEFINE w == Head(pending)
  <2>1. /\ UNCHANGED <<local, inflight, hist, due>>
        /\ pending # <<>> /\ pending' = Tail(pending) /\ applied' = applied + 1 /\ flush = "both"
    BY <1>4 DEF FlushOne, FlushPanic
  <2>2. /\ w \in Writes /\ w = pending[1] /\ Len(pending) >= 1
        /\ pending' \in Seq(Writes) /\ Len(pending') = Len(pending) - 1
        /\ \A i \in 1 .. Len(pending') : pending'[i] = pending[i + 1]
    BY <2>1, Front DEF RepTypeOK
  <2>3. PICK n \in Nat : objects \in [0 .. n - 1 -> Data]
    BY DEF RepTypeOK
  <2>4. hist[applied + 2] = Apply(hist[applied + 1], w)
    BY <2>2, <1>1 DEF Chain
  <2>5. /\ objects' \in [0 .. n - 1 -> Data] /\ Agrees(objects', hist[applied + 2])
        /\ \/ UNCHANGED <<flush, poisoned>>
           \/ flush' = "idle" /\ poisoned' = "yes"
    <3>1. CASE FlushOne
      BY <3>1, <2>2, <2>3, <2>4, ApplyType, ApplyAgrees, SMTT(30) DEF FlushOne, Chain
    <3>2. CASE FlushPanic
      <4>1. w.off # 0 /\ w.off - 1 \notin 0 .. n - 1
        BY <3>2, <2>3 DEF FlushPanic, Fits
      <4>2. Agrees(objects, Apply(hist[applied + 1], w))
        BY <4>1, <2>2, <2>3, BeyondAgrees, Zenon DEF Chain
      <4> QED
        BY <4>2, <3>2, <2>3, <2>4 DEF FlushPanic
    <3> QED
      BY <3>1, <3>2, <1>4
  <2>6. RepTypeOK'
    <3>1. \E m \in Nat : objects' \in [0 .. m - 1 -> Data]
      BY <2>5
    <3>2. local' \in Mem /\ hist' \in Seq(Mem) /\ inflight' \in SUBSET Writes /\ due' \in Nat
      BY <2>1 DEF RepTypeOK
    <3>3. flush' \in {"idle", "objects", "both"} /\ poisoned' \in {"yes", "no"} /\ applied' \in Nat
      BY <2>1, <2>5, <1>1 DEF RepTypeOK
    <3> QED
      BY <3>1, <3>2, <3>3, <2>2, Zenon DEF RepTypeOK
  <2>7. Chain'
    <3>1. Agrees(objects', hist'[applied' + 1])
      BY <2>1, <2>5, <1>1
    <3>2. ASSUME NEW i \in 1 .. Len(pending')
          PROVE  hist'[applied' + i + 1] = Apply(hist'[applied' + i], pending'[i])
      <4>1. i + 1 \in 1 .. Len(pending) /\ pending'[i] = pending[i + 1]
            /\ applied' + i = applied + (i + 1)
        BY <2>1, <2>2, <1>1
      <4> QED
        BY <4>1, <2>1, SMTT(30) DEF Chain
    <3> QED
      BY <3>1, <3>2, <2>1, <2>2, <1>1 DEF Chain
  <2>8. Tip' /\ Covered' /\ Bounded'
    BY <2>1, <2>2, <2>5, <1>1, SMTT(30) DEF Tip, Covered, Apply, Bounded
  <2> QED
    BY <2>6, <2>7, <2>8
<1> QED
  BY <1>2, <1>3, <1>4 DEF Flusher

(***************************************************************************)
(* The slab.                                                               *)
(***************************************************************************)
Taken == UNION {held[u] : u \in Users}

SlabTypeOK ==
    /\ chunk_size \in Nat /\ total_chunks \in Nat /\ next_chunk \in 0 .. total_chunks
    /\ free_chunks \in Seq(Nat) /\ \A i \in 1 .. Len(free_chunks) : free_chunks[i] < next_chunk
    /\ held \in [Users -> SUBSET (0 .. next_chunk - 1)]

\* new() cuts as many chunks as fit.
Carved == \A c \in 0 .. total_chunks - 1 : ChunkOffset(c) \in Nat /\ ChunkOffset(c) + chunk_size <= RegionSize

\* A chunk is with one user or on the free list, once.
Apart ==
    /\ \A u, w \in Users : \A c \in held[u] : c \in held[w] => u = w
    /\ \A u \in Users, i \in 1 .. Len(free_chunks) : free_chunks[i] \notin held[u]
    /\ \A i, j \in 1 .. Len(free_chunks) : free_chunks[i] = free_chunks[j] => i = j

Counted == next_chunk - Len(free_chunks) = Cardinality(Taken)

SlabInv == SlabTypeOK /\ Carved /\ Apart /\ Counted

LEMMA Carving ==
    ASSUME NEW R \in Nat, NEW cs \in Nat \ {0}, NEW c \in 0 .. (R \div cs) - 1
    PROVE  c * cs \in Nat /\ c * cs + cs <= R
<1> DEFINE q == R \div cs
<1>1. q \in Nat /\ q * cs <= R
  OBVIOUS
<1>2. c \in Nat /\ c + 1 <= q
  BY <1>1
<1>3. (c + 1) * cs <= q * cs
  <2> HIDE DEF q
  <2> QED
    BY <1>1, <1>2
<1>4. (c + 1) * cs = c * cs + cs /\ c * cs \in Nat
  BY <1>2
<1> QED
  BY <1>1, <1>3, <1>4

LEMMA InitSlab == SlabInit => SlabInv
<1> SUFFICES ASSUME SlabInit PROVE SlabInv
    OBVIOUS
<1> USE SlabAssumption
<1>1. PICK asked \in ChunkSizes :
        /\ chunk_size = AlignUp(asked)
        /\ total_chunks = IF chunk_size > 0 THEN RegionSize \div chunk_size ELSE 0
  BY DEF SlabInit
<1>2. chunk_size \in Nat
  <2>1. asked \in Nat /\ asked + Align - 1 \in Nat
    BY <1>1
  <2>2. (asked + Align - 1) \div Align \in Nat
    BY <2>1
  <2> QED
    BY <1>1, <2>2 DEF AlignUp
<1>3. total_chunks \in Nat
  BY <1>1, <1>2
<1>4. next_chunk = 0 /\ free_chunks = <<>> /\ held = [u \in Users |-> {}]
  BY DEF SlabInit
<1>5. SlabTypeOK
  BY <1>2, <1>3, <1>4 DEF SlabTypeOK
<1>6. Carved
  <2>1. CASE chunk_size > 0
    BY <2>1, <1>1, <1>2, Carving DEF Carved, ChunkOffset
  <2>2. CASE ~(chunk_size > 0)
    BY <2>2, <1>1 DEF Carved
  <2> QED
    BY <2>1, <2>2
<1>7. Apart
  BY <1>4 DEF Apart
<1>8. Counted
  <2>1. Taken = {}
    BY <1>4 DEF Taken
  <2> QED
    BY <2>1, <1>4, FS_EmptySet DEF Counted
<1> QED
  BY <1>5, <1>6, <1>7, <1>8 DEF SlabInv

\* The chunks in use are finitely many.
LEMMA TakenFinite ==
    ASSUME SlabTypeOK
    PROVE  IsFiniteSet(Taken) /\ Taken \subseteq 0 .. next_chunk - 1
<1>1. next_chunk - 1 \in Int /\ Taken \in SUBSET (0 .. next_chunk - 1)
  BY DEF SlabTypeOK, Taken
<1>2. IsFiniteSet(0 .. next_chunk - 1)
  BY <1>1, FS_Interval
<1> QED
  BY <1>1, <1>2, FS_Subset, Zenon

LEMMA KeepSlab ==
    ASSUME SlabInv, UNCHANGED <<chunk_size, total_chunks, next_chunk, free_chunks, held>>
    PROVE  SlabInv'
<1>1. SlabTypeOK' /\ Carved'
  BY DEF SlabInv, SlabTypeOK, Carved, ChunkOffset
<1>2. Apart'
  BY DEF SlabInv, Apart
<1>3. Counted'
  BY DEF SlabInv, Counted, Taken
<1> QED
  BY <1>1, <1>2, <1>3 DEF SlabInv

LEMMA AllocateSlab ==
    ASSUME SlabInv, NEW u \in Users, AllocateFreed(u) \/ AllocateBump(u)
    PROVE  SlabInv'
<1> USE DEF SlabInv
<1>0. next_chunk \in Nat /\ total_chunks \in Nat /\ Len(free_chunks) \in Nat /\ UNCHANGED <<chunk_size, total_chunks>>
  BY DEF SlabTypeOK, AllocateFreed, AllocateBump
\* The chunk handed out: nobody held it.
<1>1. PICK c \in Nat :
        /\ c < next_chunk' /\ \A w \in Users : c \notin held[w]
        /\ held' = [held EXCEPT ![u] = @ \cup {c}]
        /\ next_chunk' \in next_chunk .. total_chunks
        /\ free_chunks' \in Seq(Nat)
        /\ \A i \in 1 .. Len(free_chunks') : free_chunks'[i] = free_chunks[i] /\ free_chunks[i] # c
        /\ Len(free_chunks') <= Len(free_chunks)
        /\ next_chunk' - Len(free_chunks') = next_chunk - Len(free_chunks) + 1
  <2>1. CASE AllocateFreed(u)
    <3> DEFINE n == Len(free_chunks)
    <3>1. n \in 1 .. n
      BY <2>1, <1>0, Front DEF AllocateFreed, SlabTypeOK
    <3>2. free_chunks[n] \in Nat /\ free_chunks[n] < next_chunk
          /\ \A w \in Users : free_chunks[n] \notin held[w]
      BY <3>1 DEF SlabTypeOK, Apart
    <3>3. \A i \in 1 .. n - 1 : free_chunks[i] \in Nat /\ free_chunks[i] # free_chunks[n]
      BY <3>1 DEF SlabTypeOK, Apart
    <3>4. /\ free_chunks' \in Seq(Nat) /\ Len(free_chunks') = n - 1
          /\ \A i \in 1 .. n - 1 : free_chunks'[i] = free_chunks[i]
      <4>1. /\ free_chunks' = SubSeq(free_chunks, 1, n - 1) /\ free_chunks \in Seq(Nat)
            /\ 1 \in 1 .. n + 1 /\ n - 1 \in 0 .. n
        BY <2>1, <3>1 DEF AllocateFreed, SlabTypeOK
      <4>2. /\ SubSeq(free_chunks, 1, n - 1) \in Seq(Nat)
            /\ Len(SubSeq(free_chunks, 1, n - 1)) = IF 1 <= n - 1 THEN n - 1 - 1 + 1 ELSE 0
            /\ \A i \in 1 .. n - 1 - 1 + 1 : SubSeq(free_chunks, 1, n - 1)[i] = free_chunks[1 + i - 1]
        BY <4>1, Cut, SMTT(30)
      <4>3. /\ (IF 1 <= n - 1 THEN n - 1 - 1 + 1 ELSE 0) = n - 1 /\ n - 1 - 1 + 1 = n - 1
            /\ \A i \in 1 .. n - 1 : 1 + i - 1 = i
        <5>1. n \in Nat /\ n >= 1
          BY <3>1, <4>1
        <5> HIDE DEF n
        <5> QED BY ONLY <5>1
      <4> HIDE DEF n
      <4> QED
        BY <4>1, <4>2, <4>3, Zenon
    <3>5. held' = [held EXCEPT ![u] = @ \cup {free_chunks[n]}] /\ next_chunk' = next_chunk
      BY <2>1 DEF AllocateFreed
    <3>6. next_chunk' \in next_chunk .. total_chunks /\ free_chunks[n] < next_chunk'
      BY <3>2, <3>5, <1>0 DEF SlabTypeOK
    <3>7. \A i \in 1 .. Len(free_chunks') : free_chunks'[i] = free_chunks[i] /\ free_chunks[i] # free_chunks[n]
      BY <3>3, <3>4
    <3>8. Len(free_chunks') <= n /\ next_chunk' - Len(free_chunks') = next_chunk - n + 1
      BY <3>1, <3>4, <3>5, <1>0
    <3> QED
      BY <3>2, <3>4, <3>5, <3>6, <3>7, <3>8, Zenon
  <2>2. CASE AllocateBump(u)
    <3>1. next_chunk < total_chunks /\ next_chunk' = next_chunk + 1
          /\ held' = [held EXCEPT ![u] = @ \cup {next_chunk}] /\ free_chunks' = free_chunks
          /\ Len(free_chunks) = 0
      BY <2>2, SMTT(30) DEF AllocateBump
    <3>2. \A w \in Users : next_chunk \notin held[w]
      BY <1>0 DEF SlabTypeOK
    <3>3. next_chunk' \in next_chunk .. total_chunks /\ next_chunk < next_chunk'
      BY <3>1, <1>0
    <3>4. free_chunks' \in Seq(Nat) /\ Len(free_chunks') = 0
      BY <3>1 DEF SlabTypeOK
    <3>5. next_chunk' - Len(free_chunks') = next_chunk - Len(free_chunks) + 1
      BY <3>1, <3>4, <1>0
    <3>6. Len(free_chunks') <= Len(free_chunks)
          /\ \A i \in 1 .. Len(free_chunks') : free_chunks'[i] = free_chunks[i] /\ free_chunks[i] # next_chunk
      BY <3>1, <3>4, <1>0
    <3> QED
      BY <3>1, <3>2, <3>3, <3>4, <3>5, <3>6, <1>0, Zenon
  <2> QED
    BY <2>1, <2>2, Zenon
<1>2. SlabTypeOK'
  <2>1. \A i \in 1 .. Len(free_chunks') : free_chunks'[i] < next_chunk'
    <3>1. Len(free_chunks') \in Nat
      BY <1>1
    <3> QED
      <4>1. ASSUME NEW i \in 1 .. Len(free_chunks') PROVE free_chunks'[i] < next_chunk'
        <5>1. i \in 1 .. Len(free_chunks) /\ free_chunks'[i] = free_chunks[i]
          BY <3>1, <1>0, <1>1
        <5>2. free_chunks[i] \in Nat /\ free_chunks[i] < next_chunk
          BY <5>1 DEF SlabTypeOK
        <5> QED
          BY <5>1, <5>2, <1>0, <1>1, SMTT(30)
      <4> QED
        BY <4>1
  <2>2. held' \in [Users -> SUBSET (0 .. next_chunk' - 1)]
    BY <1>0, <1>1, SMTT(30) DEF SlabTypeOK
  <2> QED
    BY <2>1, <2>2, <1>0, <1>1, SMTT(30) DEF SlabTypeOK
<1>3. Carved'
  BY <1>0 DEF Carved, ChunkOffset
<1>4. Apart'
  <2>1. Len(free_chunks') \in Nat
    BY <1>1
  <2>2. \A w \in Users : held'[w] = IF w = u THEN held[u] \cup {c} ELSE held[w]
    BY <1>1 DEF SlabTypeOK
  <2>3. \A v, w \in Users : \A d \in held'[v] : d \in held'[w] => v = w
    BY <2>2, <1>1 DEF Apart
  <2>4. ASSUME NEW i \in 1 .. Len(free_chunks')
           PROVE  i \in 1 .. Len(free_chunks) /\ free_chunks'[i] = free_chunks[i]
    BY <2>1, <1>0, <1>1
  <2>5. \A w \in Users, i \in 1 .. Len(free_chunks') : free_chunks'[i] \notin held'[w]
    BY <2>1, <2>2, <1>0, <1>1, SMTT(30) DEF Apart
  <2>6. \A i, j \in 1 .. Len(free_chunks') : free_chunks'[i] = free_chunks'[j] => i = j
    BY <2>4 DEF Apart
  <2> QED
    BY <2>3, <2>5, <2>6 DEF Apart
<1>5. Counted'
  <2>1. Taken' = Taken \cup {c} /\ c \notin Taken
    BY <1>1 DEF Taken, SlabTypeOK
  <2>2. Cardinality(Taken') = Cardinality(Taken) + 1
    BY <2>1, TakenFinite, FS_AddElement
  <2> QED
    BY <2>2, <1>1 DEF Counted
<1> QED
  BY <1>2, <1>3, <1>4, <1>5

LEMMA FreeSlab ==
    ASSUME SlabInv, NEW u \in Users, NEW c \in held[u], FreeChunk(u, c)
    PROVE  SlabInv'
<1> USE DEF SlabInv
<1>0. /\ next_chunk \in Nat /\ Len(free_chunks) \in Nat /\ c \in 0 .. next_chunk - 1
      /\ UNCHANGED <<chunk_size, total_chunks, next_chunk>>
  BY DEF SlabTypeOK, FreeChunk
<1>1. /\ free_chunks' \in Seq(Nat) /\ Len(free_chunks') = Len(free_chunks) + 1
      /\ free_chunks'[Len(free_chunks) + 1] = c
      /\ \A i \in 1 .. Len(free_chunks) : free_chunks'[i] = free_chunks[i]
  BY <1>0 DEF FreeChunk, SlabTypeOK
<1>2. \A w \in Users : held'[w] = IF w = u THEN held[u] \ {c} ELSE held[w]
  BY DEF FreeChunk, SlabTypeOK
<1>3. SlabTypeOK'
  <2>1. held' \in [Users -> SUBSET (0 .. next_chunk' - 1)]
    BY <1>0 DEF SlabTypeOK, FreeChunk
  <2>2. ASSUME NEW i \in 1 .. Len(free_chunks') PROVE free_chunks'[i] < next_chunk'
    <3>1. CASE i \in 1 .. Len(free_chunks)
      BY <3>1, <1>0, <1>1, Zenon DEF SlabTypeOK
    <3>2. CASE i = Len(free_chunks) + 1
      BY <3>2, <1>0, <1>1
    <3> QED
      BY <3>1, <3>2, <1>0, <1>1
  <2> QED
    BY <2>1, <2>2, <1>0, <1>1 DEF SlabTypeOK
<1>4. Carved'
  BY <1>0 DEF Carved, ChunkOffset
<1>5. Apart'
  <2>1. \A v, w \in Users : \A d \in held'[v] : d \in held'[w] => v = w
    BY <1>2 DEF Apart
  <2>2. \A w \in Users : c \notin held'[w]
    BY <1>2 DEF Apart
  <2>3. \A w \in Users, i \in 1 .. Len(free_chunks') : free_chunks'[i] \notin held'[w]
    BY <2>2, <1>0, <1>1, <1>2, SMTT(30) DEF Apart
  <2>4. \A i \in 1 .. Len(free_chunks) : free_chunks[i] # c
    BY DEF Apart
  <2>5. \A i, j \in 1 .. Len(free_chunks') : free_chunks'[i] = free_chunks'[j] => i = j
    <3>1. ASSUME NEW i \in 1 .. Len(free_chunks'), NEW j \in 1 .. Len(free_chunks'), i # j
          PROVE  free_chunks'[i] # free_chunks'[j]
      <4>1. CASE i \in 1 .. Len(free_chunks) /\ j \in 1 .. Len(free_chunks)
        BY <4>1, <3>1, <1>1 DEF Apart
      <4>2. CASE i = Len(free_chunks) + 1 \/ j = Len(free_chunks) + 1
        BY <4>2, <3>1, <2>4, <1>0, <1>1, SMTT(30)
      <4> QED
        BY <4>1, <4>2, <1>0, <1>1
    <3> QED
      BY <3>1
  <2> QED
    BY <2>1, <2>3, <2>5 DEF Apart
<1>6. Counted'
  <2>1. Taken' = Taken \ {c} /\ c \in Taken
    BY <1>2 DEF Taken, Apart
  <2>2. Cardinality(Taken') = Cardinality(Taken) - 1
    BY <2>1, TakenFinite, FS_RemoveElement, Zenon
  <2>3. Cardinality(Taken) \in Nat
    BY TakenFinite, FS_CardinalityType
  <2> QED
    BY <2>2, <2>3, <1>0, <1>1 DEF Counted
<1> QED
  BY <1>3, <1>4, <1>5, <1>6

(***************************************************************************)
(* Chunks as blocks of replicated memory.                                  *)
(***************************************************************************)
Written ==
    /\ mine \in [Users -> [Chunks -> Data \cup {NoBlock}]]
    /\ \A u \in Users, c \in Chunks : c \notin held[u] => mine[u][c] = NoBlock

MemInv == RepInv /\ SlabInv /\ Written /\ HoldersData

\* The cells of two chunks are disjoint.
LEMMA ChunksApart ==
    ASSUME NEW s \in Nat, NEW c \in Nat, NEW d \in Nat, c # d,
           NEW a \in c * s .. c * s + s - 1
    PROVE  a \notin d * s .. d * s + s - 1
<1>1. ASSUME NEW x \in Nat, NEW y \in Nat, x < y PROVE x * s + s <= y * s /\ x * s \in Nat /\ y * s \in Nat
  <2>1. PICK k \in Nat : y = x + 1 + k
    <3>1. y - x - 1 \in Nat /\ y = x + 1 + (y - x - 1)
      BY <1>1
    <3> QED
      BY <3>1
  <2>2. y * s = x * s + s + k * s /\ k * s \in Nat
    BY <2>1
  <2> QED
    BY <2>2
<1>2. CASE c < d
  BY <1>1, <1>2
<1>3. CASE d < c
  BY <1>1, <1>3
<1> QED
  BY <1>2, <1>3

\* A block is a legal write.
LEMMA BlockIsWrite ==
    ASSUME SlabInv, NEW u \in Users, NEW c \in held[u], NEW v \in Data
    PROVE  /\ c \in Chunks /\ ChunkOffset(c) \in Nat /\ ChunkOffset(c) + chunk_size <= LocalSize
           /\ Write(ChunkOffset(c), [i \in 1 .. chunk_size |-> v]) \in Writes
<1> USE DEF SlabInv
<1>1. c \in Chunks
  BY DEF SlabTypeOK, Chunks
<1>2. ChunkOffset(c) \in Nat /\ ChunkOffset(c) + chunk_size <= LocalSize
  BY <1>1, RegionAssumption DEF Carved, Chunks
<1>3. [i \in 1 .. chunk_size |-> v] \in Seq(Data)
  <2>1. chunk_size \in Nat
    BY DEF SlabTypeOK
  <2> QED
    BY <2>1
<1> QED
  BY <1>1, <1>2, <1>3 DEF Write, Writes

LEMMA InitMem == Init => MemInv
<1> SUFFICES ASSUME Init PROVE MemInv
    OBVIOUS
<1>1. RepInv /\ SlabInv
  BY InitReplicated, InitSlab DEF Init
<1>2. mine = [u \in Users |-> [c \in Chunks |-> NoBlock]]
  BY DEF Init
<1> QED
  BY <1>1, <1>2 DEF MemInv, Written, HoldersData

LEMMA WriteMem ==
    ASSUME MemInv, NEW u \in Users, NEW c \in held[u], NEW v \in Data, WriteBlock(u, c, v)
    PROVE  MemInv'
<1> USE DEF MemInv
<1> DEFINE w == Write(ChunkOffset(c), [i \in 1 .. chunk_size |-> v])
<1>1. w \in Writes /\ c \in Chunks /\ ChunkOffset(c) \in Nat /\ ChunkOffset(c) + chunk_size <= LocalSize
  BY BlockIsWrite, Zenon
<1>2. RepInv'
  BY <1>1, WriteReplicated DEF WriteBlock
<1>3. UNCHANGED <<chunk_size, total_chunks, next_chunk, free_chunks, held>>
  BY DEF WriteBlock, slab
<1>4. SlabInv'
  BY <1>3, KeepSlab
<1>5. chunk_size \in Nat /\ \A d \in Chunks : ChunkOffset(d) \in Nat
  BY DEF SlabInv, SlabTypeOK, Carved, Chunks
<1>6. \A x \in Users, d \in Chunks : mine'[x][d] = IF x = u /\ d = c THEN v ELSE mine[x][d]
  BY <1>1, SMTT(30) DEF WriteBlock, Written
<1>7. Written'
  <2>1. mine' \in [Users -> [Chunks -> Data \cup {NoBlock}]]
    BY <1>1, SMTT(30) DEF WriteBlock, Written
  <2> QED
    BY <2>1, <1>3, <1>6 DEF Written, Chunks
<1>8. local \in Mem /\ local' = Apply(local, w)
  BY DEF WriteBlock, WriteLocal, RepInv, RepTypeOK
<1>9. Len(w.data) = chunk_size /\ w.off = ChunkOffset(c)
  BY <1>5 DEF Write
<1>10. ASSUME NEW a \in 0 .. LocalSize - 1
       PROVE  local'[a] = IF a \in ChunkOffset(c) .. ChunkOffset(c) + chunk_size - 1 THEN v ELSE local[a]
  <2>1. DOMAIN local = 0 .. LocalSize - 1
    BY <1>8, SMTT(30) DEF Mem
  <2>2. a \in ChunkOffset(c) .. ChunkOffset(c) + chunk_size - 1 => w.data[a - w.off + 1] = v
    BY <1>5, <1>1, SMTT(30) DEF Write
  <2> QED
    BY <2>1, <2>2, <1>8, <1>9, SMTT(30) DEF Apply
<1>11. HoldersData'
  <2> SUFFICES ASSUME NEW x \in Users, NEW d \in Chunks, d \in held[x], mine'[x][d] # NoBlock,
                      NEW a \in ChunkOffset(d) .. ChunkOffset(d) + chunk_size - 1
               PROVE  local'[a] = mine'[x][d]
    BY <1>3 DEF HoldersData, Chunks, ChunkOffset
  <2>1. a \in 0 .. LocalSize - 1
    BY <1>5, RegionAssumption, ReplicationAssumption DEF SlabInv, Carved, Chunks
  <2>2. CASE d = c
    <3>1. x = u
      BY <2>2, SMTT(30) DEF SlabInv, Apart
    <3> QED
      BY <3>1, <2>1, <2>2, <1>6, <1>10, SMTT(30)
  <2>3. CASE d # c
    <3>1. a \notin ChunkOffset(c) .. ChunkOffset(c) + chunk_size - 1
      <4>1. c \in Nat /\ d \in Nat
        BY <1>1, SMTT(30) DEF Chunks
      <4> QED
        BY <4>1, <2>3, <1>5, ChunksApart, SMTT(30) DEF ChunkOffset
    <3>2. local'[a] = local[a] /\ mine'[x][d] = mine[x][d]
      BY <3>1, <2>1, <2>3, <1>6, <1>10, SMTT(30)
    <3> QED
      BY <3>2, SMTT(30) DEF HoldersData
  <2> QED
    BY <2>2, <2>3
<1> QED
  BY <1>2, <1>4, <1>7, <1>11

LEMMA ReplicaMem ==
    ASSUME MemInv, Writer \/ Flusher, UNCHANGED <<slab, mine>>
    PROVE  MemInv'
<1> USE DEF MemInv
<1>1. RepInv'
  BY EnqueueReplicated, FlushReplicated DEF Writer
<1>2. UNCHANGED <<chunk_size, total_chunks, next_chunk, free_chunks, held, mine, local>>
  BY SMTT(30) DEF slab, Writer, Flusher, Enqueue, EnqueuePanic, FlushStart, FlushLock, FlushOne, FlushPanic, FlushDone
<1>3. SlabInv'
  BY <1>2, KeepSlab
<1>4. Written' /\ HoldersData'
  BY <1>2, SMTT(30) DEF Written, HoldersData, Chunks, ChunkOffset
<1> QED
  BY <1>1, <1>3, <1>4

LEMMA SlabMem ==
    ASSUME MemInv, NEW u \in Users, Allocate(u) \/ \E c \in held[u] : Free(u, c)
    PROVE  MemInv'
<1> USE DEF MemInv
<1>1. UNCHANGED <<local, objects, pending, inflight, flush, poisoned, hist, applied, due>>
  BY DEF Allocate, Free, rvars
<1>2. RepInv'
  <2>1. RepTypeOK'
    BY <1>1, SMTT(30) DEF RepInv, RepTypeOK
  <2>2. Chain'
    BY <1>1, SMTT(30) DEF RepInv, Chain, Agrees, Apply
  <2>3. Tip' /\ Covered' /\ Bounded'
    BY <1>1, SMTT(30) DEF RepInv, Tip, Apply, Covered, Bounded
  <2> QED
    BY <2>1, <2>2, <2>3 DEF RepInv
<1>3. UNCHANGED <<chunk_size, total_chunks>>
  BY DEF Allocate, Free, AllocateFreed, AllocateBump, FreeChunk
<1>4. CASE Allocate(u)
  <2>1. SlabInv'
    BY <1>4, AllocateSlab DEF Allocate
  <2>2. PICK c : held' = [held EXCEPT ![u] = @ \cup {c}]
    BY <1>4, Zenon DEF Allocate, AllocateFreed, AllocateBump
  <2>3. mine' = mine
    BY <1>4 DEF Allocate
  <2>4. \A x \in Users : held[x] \subseteq held'[x]
    BY <2>2 DEF SlabInv, SlabTypeOK
  <2>5. Written'
    BY <2>3, <2>4, <1>3, SMTT(30) DEF Written, Chunks
  <2>6. HoldersData'
    <3>1. \A x \in Users, d \in Chunks : mine[x][d] # NoBlock => d \in held[x]
      BY SMTT(30) DEF Written
    <3> QED
      BY <3>1, <2>3, <1>1, <1>3, SMTT(30) DEF HoldersData, Chunks, ChunkOffset
  <2> QED
    BY <2>1, <2>5, <2>6, <1>2
<1>5. CASE \E c \in held[u] : Free(u, c)
  <2>1. PICK c \in held[u] : Free(u, c)
    BY <1>5, SMTT(30)
  <2>2. SlabInv'
    BY <2>1, FreeSlab DEF Free
  <2>3. c \in Chunks
    BY DEF SlabInv, SlabTypeOK, Chunks
  <2>4. \A x \in Users : held'[x] = IF x = u THEN held[u] \ {c} ELSE held[x]
    BY <2>1 DEF Free, FreeChunk, SlabInv, SlabTypeOK
  <2>5. /\ mine' \in [Users -> [Chunks -> Data \cup {NoBlock}]]
        /\ \A x \in Users, d \in Chunks : mine'[x][d] = IF x = u /\ d = c THEN NoBlock ELSE mine[x][d]
    BY <2>1, <2>3, SMTT(30) DEF Free, Written
  <2>6. Written'
    <3>1. Chunks' = Chunks
      BY <1>3, SMTT(30) DEF Chunks
    <3>2. \A x \in Users, d \in Chunks : d \notin held'[x] => mine'[x][d] = NoBlock
      BY <2>4, <2>5, SMTT(30) DEF Written
    <3> QED
      BY <3>1, <3>2, <2>5, SMTT(30) DEF Written
  <2>7. HoldersData'
    BY <2>4, <2>5, <1>1, <1>3, SMTT(30) DEF HoldersData, Chunks, ChunkOffset
  <2> QED
    BY <2>2, <2>6, <2>7, <1>2
<1> QED
  BY <1>4, <1>5

LEMMA NextMem == MemInv /\ [Next]_vars => MemInv'
<1> SUFFICES ASSUME MemInv, [Next]_vars PROVE MemInv'
    OBVIOUS
<1>1. CASE Next
  <2>1. CASE \E u \in Users : Allocate(u) \/ \E c \in held[u] : Free(u, c)
    BY <2>1, SlabMem
  <2>2. CASE \E u \in Users : \E c \in held[u], v \in Data \ {Zero} : WriteBlock(u, c, v)
    BY <2>2, WriteMem
  <2>3. CASE (Writer \/ Flusher) /\ UNCHANGED <<slab, mine>>
    BY <2>3, ReplicaMem
  <2> QED
    BY <1>1, <2>1, <2>2, <2>3 DEF Next
<1>2. CASE UNCHANGED vars
  <2>1. UNCHANGED <<local, objects, pending, inflight, flush, poisoned, hist, applied, due>>
        /\ UNCHANGED <<chunk_size, total_chunks, next_chunk, free_chunks, held, mine>>
    BY <1>2 DEF vars, rvars, slab
  <2>2. RepTypeOK'
    BY <2>1, SMTT(30) DEF MemInv, RepInv, RepTypeOK
  <2>3. Chain' /\ Tip' /\ Covered' /\ Bounded'
    BY <2>1, SMTT(30) DEF MemInv, RepInv, Chain, Tip, Agrees, Apply, Covered, Bounded
  <2>4. SlabInv'
    BY <2>1, KeepSlab DEF MemInv
  <2>5. Written' /\ HoldersData'
    BY <2>1, SMTT(30) DEF MemInv, Written, HoldersData, Chunks, ChunkOffset
  <2> QED
    BY <2>2, <2>3, <2>4, <2>5 DEF MemInv, RepInv
<1> QED
  BY <1>1, <1>2

LEMMA MemAlways == Spec => []MemInv
BY InitMem, NextMem, PTL DEF Spec

-----------------------------------------------------------------------------
\* What a reader of the backup sees is the primary's store after some number of
\* its writes: in the middle of a flush, after a panic, and with a smaller backup.
THEOREM BackupAlwaysPrefix == Spec => []BackupIsPrefix
<1>1. MemInv => BackupIsPrefix
  <2> SUFFICES ASSUME MemInv PROVE BackupIsPrefix
    OBVIOUS
  <2>1. applied \in Nat /\ Len(pending) \in Nat /\ Len(hist) \in Nat
    BY DEF MemInv, RepInv, RepTypeOK
  <2> QED
    BY <2>1 DEF MemInv, RepInv, Chain, BackupIsPrefix
<1> QED
  BY <1>1, MemAlways, PTL

\* A flush that returns without a panic has replayed what was queued when it began.
THEOREM FlushAlwaysCovers == Spec => FlushCovers
<1>1. MemInv /\ [Next]_vars =>
        [flush = "both" /\ flush' = "idle" /\ poisoned' = "no" => applied' >= due]_rvars
  <2> SUFFICES ASSUME MemInv, [Next]_vars, flush = "both", flush' = "idle", poisoned' = "no"
               PROVE  applied' >= due
    OBVIOUS
  <2>1. FlushDone
    BY SMTT(30) DEF Next, vars, rvars, Allocate, Free, WriteBlock, WriteLocal, Writer, Enqueue, EnqueuePanic,
           Flusher, FlushStart, FlushLock, FlushOne, FlushPanic
  <2>2. applied' = applied /\ Len(pending) = 0 /\ applied \in Nat
    BY <2>1, SMTT(30) DEF FlushDone, MemInv, RepInv, RepTypeOK
  <2> QED
    BY <2>2 DEF MemInv, RepInv, Covered
<1> QED
  BY <1>1, MemAlways, PTL DEF Spec, FlushCovers

\* Chunks never collide: among the users, on the free list, past the region's end.
THEOREM ChunksAlwaysDisjoint == Spec => []ChunksDisjoint
<1>1. MemInv => ChunksDisjoint
  <2> SUFFICES ASSUME MemInv PROVE ChunksDisjoint
    OBVIOUS
  <2>1. DOMAIN free_chunks = 1 .. Len(free_chunks)
    BY DEF MemInv, SlabInv, SlabTypeOK
  <2>2. \A u \in Users : \A c \in held[u] : ChunkOffset(c) + chunk_size <= RegionSize
    BY DEF MemInv, SlabInv, SlabTypeOK, Carved
  <2> QED
    BY <2>1, <2>2, SMTT(30) DEF MemInv, SlabInv, Apart, ChunksDisjoint
<1> QED
  BY <1>1, MemAlways, PTL

\* The counters of the slab count the chunks in use and never wrap.
THEOREM CountsAlwaysExact == Spec => []CountsExact
<1>1. MemInv => CountsExact
  <2> SUFFICES ASSUME MemInv PROVE CountsExact
    OBVIOUS
  <2>1. Cardinality(Taken) \in Nat
    BY TakenFinite, FS_CardinalityType DEF MemInv, SlabInv
  <2>2. next_chunk \in 0 .. total_chunks /\ total_chunks \in Nat /\ Len(free_chunks) \in Nat
    BY DEF MemInv, SlabInv, SlabTypeOK
  <2>3. AllocatedCount = Cardinality(Taken)
    BY DEF MemInv, SlabInv, Counted, AllocatedCount
  <2>4. FreeCount \in 0 .. total_chunks
    BY <2>1, <2>2, <2>3 DEF FreeCount, AllocatedCount
  <2> QED
    BY <2>3, <2>4 DEF CountsExact, Taken
<1> QED
  BY <1>1, MemAlways, PTL

\* A user finds in its chunk the block it wrote last.
THEOREM HoldersAlwaysData == Spec => []HoldersData
<1>1. MemInv => HoldersData
  BY DEF MemInv
<1> QED
  BY <1>1, MemAlways, PTL

\* An exhausted slab is reported by check (watermark.rs) for exactly the documented
\* thresholds (0.0-1.0) below 1.0.
THEOREM ExhaustionAlwaysReported == Spec => []NoSilentExhaustion
<1>1. MemInv => NoSilentExhaustion
  <2> SUFFICES ASSUME MemInv, Exhausted, total_chunks > 0, NEW config \in Configs
               PROVE  /\ "slab_region" \in Regions
                      /\ config["slab_region"] < 100 <=>
                             Over(AllocatedCount, total_chunks, config["slab_region"])
    BY SMTT(30) DEF NoSilentExhaustion, ExceededRegions
  <2> DEFINE t == config["slab_region"]
  <2>1. t \in 0 .. 100 /\ "slab_region" \in Regions
    BY SlabAssumption DEF Regions
  <2>2. AllocatedCount = total_chunks /\ total_chunks \in Nat
    BY DEF Exhausted, AllocatedCount, MemInv, SlabInv, SlabTypeOK
  <2>3. \A n \in Nat \ {0}, k \in 0 .. 100 : k < 100 <=> n * 100 > k * n
    <3> SUFFICES ASSUME NEW n \in Nat \ {0}, NEW k \in 0 .. 100 PROVE k < 100 <=> n * 100 > k * n
      OBVIOUS
    <3>1. CASE k < 100
      <4>1. (100 - k) * n > 0 /\ (100 - k) * n = 100 * n - k * n /\ k * n \in Nat
        BY <3>1
      <4> QED
        BY <3>1, <4>1
    <3>2. CASE k = 100
      BY <3>2
    <3> QED
      BY <3>1, <3>2
  <2> HIDE DEF t
  <2>4. t < 100 <=> total_chunks * 100 > t * total_chunks
    BY <2>1, <2>2, <2>3
  <2> QED
    BY <2>1, <2>2, <2>4, SMTT(30) DEF Over, t
<1> QED
  BY <1>1, MemAlways, PTL
=============================================================================
