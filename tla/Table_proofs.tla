---------------------------- MODULE Table_proofs ----------------------------
(***************************************************************************)
(* Proofs about the table and the two ways threads share its buckets.      *)
(*   LockFree, for any threads, keys, table size and number of calls: a    *)
(*   settled key stays and every lookup of it finds it.                    *)
(*   BucketLock, for any clients and timing constants, while the clock     *)
(*   does not cross a 24-bit rollover (BucketLock_rollover.cfg shows what  *)
(*   happens when it does): one writer at a time, reads validated.         *)
(*   CuckooTable, for every set of keys, every even number of buckets and  *)
(*   every MaxKick: a key is never in two places, lookup, get_fast and the *)
(*   client's reader find what the table holds, and the table implements   *)
(*   KeyMap.                                                               *)
(***************************************************************************)
EXTENDS LockFree, BucketLock, ClientReader, TLAPS

(***************************************************************************)
(* LockFree                                                                *)
(***************************************************************************)
AllKeys == SharedKeys \cup {NoJob.key}
Buckets == [word : [locked : BOOLEAN, tombstone : BOOLEAN], hash : Nat \X Nat,
            digest : {k.digest : k \in AllKeys}]

LTyped ==
    /\ slots \in [0 .. Slots - 1 -> Buckets]
    /\ tpc \in [Threads -> {"idle", "loading", "storing", "looking"}]
    /\ job \in [Threads -> [key : AllKeys, probe : {1, 2}]]
    /\ todo \in [Threads -> SUBSET Fields]
    /\ copy \in [Threads -> Buckets]

\* The lookup of thread t has bucket b, which holds its key, before it or has loaded
\* nothing from it that is no longer there.
WillHit(t, b) ==
    /\ Settled(b) /\ Matches(slots[b], job[t].key)
    /\ b = SecondSlot(job[t].key) \/ (job[t].probe = 1 /\ b = FirstSlot(job[t].key))
    /\ At(t) = b => \A f \in Fields \ todo[t] : copy[t][f] = slots[b][f]

\* The lookups that must find their key will.
OnTheWay ==
    /\ present \subseteq Threads
    /\ \A t \in present : tpc[t] = "looking" /\ \E b \in 0 .. Slots - 1 : WillHit(t, b)

\* The two buckets of a key lie in the table.
LEMMA SlotsInRange ==
    ASSUME NEW k \in AllKeys
    PROVE  FirstSlot(k) \in 0 .. Slots - 1 /\ SecondSlot(k) \in 0 .. Slots - 1
<1>1. k.lo \in Nat /\ k.hi \in Nat
  BY LockFreeAssumption DEF AllKeys, NoJob
<1>2. /\ k.lo % Slots \in 0 .. Slots - 1
      /\ k.hi % Slots \in 0 .. Slots - 1
  BY <1>1, LockFreeAssumption
<1>3. \A i \in 0 .. Slots - 1 : i - (i % 2) + 1 \in 0 .. Slots - 1
  BY LockFreeAssumption
<1> QED BY <1>2, <1>3, SMTT(30) DEF FirstSlot, SecondSlot

\* What insert and lookup make of a key is a bucket.
LEMMA BucketsTyped ==
    /\ EmptyBucket \in Buckets
    /\ \A k \in AllKeys, w \in [locked : BOOLEAN, tombstone : BOOLEAN] : Bucket(w, k) \in Buckets
<1>1. EmptyBucket \in Buckets
  <2>1. NoJob.key \in AllKeys /\ NoJob.key.digest = 0
    BY Zenon DEF AllKeys, NoJob
  <2>2. 0 \in {k.digest : k \in AllKeys}
    BY <2>1, Zenon
  <2> QED BY <2>2, Zenon DEF EmptyBucket, Buckets, LiveWord, NoHash
<1>2. ASSUME NEW k \in AllKeys, NEW w \in [locked : BOOLEAN, tombstone : BOOLEAN]
      PROVE  Bucket(w, k) \in Buckets
  <2>1. k.lo \in Nat /\ k.hi \in Nat
    BY LockFreeAssumption DEF AllKeys, NoJob
  <2> QED BY <2>1, Zenon DEF Bucket, Buckets, Hash
<1> QED BY <1>1, <1>2, Zenon

\* A bucket with one field replaced by that of another is a bucket, and has that field.
LEMMA FieldReplaced ==
    ASSUME NEW b \in Buckets, NEW c \in Buckets, NEW f \in Fields
    PROVE  /\ [b EXCEPT ![f] = c[f]] \in Buckets
           /\ [b EXCEPT ![f] = c[f]][f] = c[f]
           /\ \A g \in Fields : g # f => [b EXCEPT ![f] = c[f]][g] = b[g]
<1>1. CASE f = "word" BY <1>1, Zenon DEF Buckets, Fields
<1>2. CASE f = "hash" BY <1>2, Zenon DEF Buckets, Fields
<1>3. CASE f = "digest" BY <1>3, Zenon DEF Buckets, Fields
<1> QED BY <1>1, <1>2, <1>3, Zenon DEF Fields

\* The types hold in the initial states.
LEMMA InitTyped == LInit => LTyped /\ OnTheWay
<1> SUFFICES ASSUME LInit PROVE LTyped /\ OnTheWay
  BY Zenon
<1>1. slots \in [0 .. Slots - 1 -> Buckets]
  <2>1. [EmptyBucket EXCEPT !.word.locked = TRUE] \in Buckets
    BY BucketsTyped, Zenon DEF EmptyBucket, Buckets, LiveWord
  <2>2. /\ LiveWord \in [locked : BOOLEAN, tombstone : BOOLEAN]
        /\ [LiveWord EXCEPT !.tombstone = TRUE] \in [locked : BOOLEAN, tombstone : BOOLEAN]
    BY Zenon DEF LiveWord
  <2>3. \A k \in SharedKeys : k \in AllKeys
    BY Zenon DEF AllKeys
  <2>4. InitialBuckets \subseteq Buckets
    BY <2>1, <2>2, <2>3, BucketsTyped, ZenonT(40) DEF InitialBuckets
  <2>5. slots \in [0 .. Slots - 1 -> InitialBuckets]
    BY Zenon DEF LInit
  <2> QED BY <2>4, <2>5, Zenon
<1>2. NoJob \in [key : AllKeys, probe : {1, 2}]
  BY Zenon DEF NoJob, AllKeys
<1> QED BY <1>1, <1>2, BucketsTyped, Zenon DEF LInit, LTyped, OnTheWay

\* The thread that makes the step changes nothing of the others.
LEMMA OthersKept ==
    ASSUME LTyped, NEW t \in Threads, NEW at, NEW call, NEW fields, Go(t, at, call, fields)
    PROVE  \A u \in Threads \ {t} : /\ tpc'[u] = tpc[u] /\ job'[u] = job[u]
                                   /\ todo'[u] = todo[u] /\ copy'[u] = copy[u]
BY Zenon DEF LTyped, Go

\* What Go sets has its type.
LEMMA GoTyped ==
    ASSUME LTyped, NEW t \in Threads, NEW at \in {"idle", "loading", "storing", "looking"},
           NEW call \in [key : AllKeys, probe : {1, 2}], NEW fields \in SUBSET Fields,
           Go(t, at, call, fields), slots' = slots
    PROVE  /\ LTyped'
           /\ tpc'[t] = at /\ job'[t] = call /\ todo'[t] = fields /\ copy'[t] = EmptyBucket
BY BucketsTyped, Zenon DEF LTyped, Go

\* Leaving a call is such a step.
LEMMA LeaveTyped ==
    ASSUME LTyped, NEW t \in Threads, Leave(t), slots' = slots
    PROVE  /\ LTyped' /\ tpc'[t] = "idle" /\ job'[t] = NoJob /\ todo'[t] = {}
           /\ \A u \in Threads \ {t} : /\ tpc'[u] = tpc[u] /\ job'[u] = job[u]
                                      /\ todo'[u] = todo[u] /\ copy'[u] = copy[u]
<1>1. NoJob \in [key : AllKeys, probe : {1, 2}]
  BY Zenon DEF NoJob, AllKeys
<1>2. Go(t, "idle", NoJob, {})
  BY Zenon DEF Leave
<1>3. {} \in SUBSET Fields
  BY Zenon
<1>4. /\ LTyped' /\ tpc'[t] = "idle" /\ job'[t] = NoJob /\ todo'[t] = {}
  BY <1>1, <1>2, <1>3, GoTyped
<1> QED BY <1>2, <1>4, OthersKept, Zenon

\* What a step leaves alone.
Untouched(u) ==
    tpc'[u] = tpc[u] /\ job'[u] = job[u] /\ todo'[u] = todo[u] /\ copy'[u] = copy[u]

\* The settled keys outlast a step.
AllSettledKept ==
    \A b \in 0 .. Slots - 1 : Settled(b) => Settled(b)' /\ slots'[b] = slots[b]

\* Thread t, should its lookup have to find its key after the step, will.
OwnWay(t) == t \in present' => tpc'[t] = "looking" /\ \E b \in 0 .. Slots - 1 : WillHit(t, b)'

\* A settled key stays when the step does not store into its bucket and the thread
\* that makes it does not get nearer to taking it.
LEMMA SettledIf ==
    ASSUME NEW t \in Threads, NEW b \in 0 .. Slots - 1, Settled(b), slots'[b] = slots[b],
           \A u \in Threads \ {t} : Untouched(u), ~MayClaim(t, b)'
    PROVE  Settled(b)'
<1>1. ASSUME NEW u \in Threads, u # t PROVE ~MayClaim(u, b)'
  <2>1. Untouched(u) /\ ~MayClaim(u, b)
    BY <1>1, Zenon DEF Settled
  <2> QED BY <2>1, Zenon DEF Untouched, MayClaim, At
<1> QED BY <1>1, Zenon DEF Settled

\* The lookups of the other threads stay on their way.
LEMMA OnTheWayIf ==
    ASSUME NEW t \in Threads, OnTheWay, present' \subseteq present \cup {t}, AllSettledKept,
           \A u \in Threads \ {t} : Untouched(u), OwnWay(t)
    PROVE  OnTheWay'
<1>1. ASSUME NEW u \in present', u # t
      PROVE  tpc'[u] = "looking" /\ \E b \in 0 .. Slots - 1 : WillHit(u, b)'
  <2>1. u \in present /\ u \in Threads \ {t}
    BY <1>1, Zenon DEF OnTheWay
  <2>2. PICK b \in 0 .. Slots - 1 : WillHit(u, b)
    BY <2>1, Zenon DEF OnTheWay
  <2>3. Settled(b)' /\ slots'[b] = slots[b] /\ Untouched(u)
    BY <2>1, <2>2, Zenon DEF WillHit, AllSettledKept
  <2>4. WillHit(u, b)'
    BY <2>2, <2>3, Zenon DEF WillHit, Untouched, At, Matches
  <2> QED BY <2>1, <2>3, <2>4, Zenon DEF OnTheWay, Untouched
<1> QED BY <1>1, Zenon DEF OnTheWay, OwnWay

\* A step that only moves thread t on keeps the settled keys, unless t begins to store.
LEMMA GoKeepsSettled ==
    ASSUME LTyped, NEW t \in Threads, NEW at \in {"idle", "loading", "storing", "looking"},
           NEW call \in [key : AllKeys, probe : {1, 2}], NEW fields \in SUBSET Fields,
           Go(t, at, call, fields), slots' = slots,
           at = "loading" => fields = {"word", "hash"},
           at = "storing" => call = job[t] /\ \A b \in 0 .. Slots - 1 : At(t) = b => ~Settled(b)
    PROVE  AllSettledKept /\ \A u \in Threads \ {t} : Untouched(u)
<1>1. \A u \in Threads \ {t} : Untouched(u)
  BY OthersKept, Zenon DEF Untouched
<1>2. tpc'[t] = at /\ job'[t] = call /\ todo'[t] = fields
  BY GoTyped
<1>3. ASSUME NEW b \in 0 .. Slots - 1, Settled(b) PROVE Settled(b)'
  <2>1. ~MayClaim(t, b)'
    BY <1>2, <1>3, Zenon DEF MayClaim, At
  <2> QED BY <1>1, <1>3, <2>1, SettledIf, Zenon
<1> QED BY <1>1, <1>3, Zenon DEF AllSettledKept

(***************************************************************************)
(* The steps.                                                              *)
(***************************************************************************)
\* The inductive invariant.
LockFreeInv == LTyped /\ OnTheWay

\* What every step of thread t guarantees.
Kept == LockFreeInv' /\ AllSettledKept

\* What has to be shown of a step.
LEMMA KeptIf ==
    ASSUME LockFreeInv, NEW t \in Threads, LTyped', AllSettledKept,
           \A u \in Threads \ {t} : Untouched(u), present' \subseteq present \cup {t}, OwnWay(t)
    PROVE  Kept
BY OnTheWayIf, Zenon DEF LockFreeInv, Kept

\* An insert begins.
LEMMA InsertLockFreeKeeps ==
    ASSUME LockFreeInv, NEW t \in Threads, InsertLockFree(t) PROVE Kept
<1> USE DEF LockFreeInv
<1>1. PICK k \in SharedKeys : Go(t, "loading", [key |-> k, probe |-> 1], {"word", "hash"})
  BY Zenon DEF InsertLockFree
<1>2. /\ [key |-> k, probe |-> 1] \in [key : AllKeys, probe : {1, 2}]
      /\ {"word", "hash"} \in SUBSET Fields
  BY Zenon DEF AllKeys, Fields
<1>3. slots' = slots /\ present' = present /\ tpc[t] = "idle"
  BY Zenon DEF InsertLockFree
<1>4. LTyped'
  BY <1>1, <1>2, <1>3, GoTyped, Zenon
<1>5. AllSettledKept /\ \A u \in Threads \ {t} : Untouched(u)
  BY <1>1, <1>2, <1>3, GoKeepsSettled, Zenon
<1>6. OwnWay(t)
  BY <1>3, Zenon DEF OwnWay, OnTheWay
<1> QED BY <1>3, <1>4, <1>5, <1>6, KeptIf, Zenon

\* A bucket that is found free was never settled while it was looked at.
LEMMA FreeNotSettled ==
    ASSUME LTyped, NEW t \in Threads, tpc[t] = "loading", todo[t] = {}, Free(t),
           NEW b \in 0 .. Slots - 1, At(t) = b
    PROVE  ~Settled(b)
BY Zenon DEF Free, Settled, MayClaim

\* An insert decides on its copy of a bucket.
LEMMA TryCasInsertKeeps ==
    ASSUME LockFreeInv, NEW t \in Threads, TryCasInsert(t) PROVE Kept
<1> USE DEF LockFreeInv
<1>1. slots' = slots /\ present' = present /\ tpc[t] = "loading" /\ todo[t] = {}
  BY Zenon DEF TryCasInsert
<1>2. job[t] \in [key : AllKeys, probe : {1, 2}]
  BY Zenon DEF LTyped
<1>3. OwnWay(t)
  BY <1>1, Zenon DEF OwnWay, OnTheWay
<1>4. CASE Free(t) /\ Go(t, "storing", job[t], Fields)
  <2>1. LTyped'
    BY <1>1, <1>2, <1>4, GoTyped, Zenon
  <2>2. \A b \in 0 .. Slots - 1 : At(t) = b => ~Settled(b)
    BY <1>1, <1>4, FreeNotSettled, Zenon
  <2>3. AllSettledKept /\ \A u \in Threads \ {t} : Untouched(u)
    BY <1>1, <1>2, <1>4, <2>2, GoKeepsSettled, Zenon
  <2> QED BY <1>1, <1>3, <2>1, <2>3, KeptIf, Zenon
<1>5. CASE Go(t, "loading", [job[t] EXCEPT !.probe = 2], {"word", "hash"})
  <2>1. [job[t] EXCEPT !.probe = 2] \in [key : AllKeys, probe : {1, 2}]
    BY <1>2, Zenon
  <2>2. {"word", "hash"} \in SUBSET Fields
    BY Zenon DEF Fields
  <2>3. LTyped'
    BY <1>1, <1>5, <2>1, <2>2, GoTyped, Zenon
  <2>4. AllSettledKept /\ \A u \in Threads \ {t} : Untouched(u)
    BY <1>1, <1>5, <2>1, <2>2, GoKeepsSettled, Zenon
  <2> QED BY <1>1, <1>3, <2>3, <2>4, KeptIf, Zenon
<1>6. CASE Leave(t)
  <2>1. NoJob \in [key : AllKeys, probe : {1, 2}] /\ {} \in SUBSET Fields
    BY Zenon DEF NoJob, AllKeys
  <2>2. Go(t, "idle", NoJob, {})
    BY <1>6, Zenon DEF Leave
  <2>3. AllSettledKept /\ \A u \in Threads \ {t} : Untouched(u)
    BY <1>1, <2>1, <2>2, GoKeepsSettled, Zenon
  <2>4. LTyped'
    BY <1>1, <1>6, LeaveTyped, Zenon
  <2> QED BY <1>1, <1>3, <2>3, <2>4, KeptIf, Zenon
<1>7. \/ Free(t) /\ Go(t, "storing", job[t], Fields)
      \/ Go(t, "loading", [job[t] EXCEPT !.probe = 2], {"word", "hash"})
      \/ Leave(t)
  <2>1. job[t].probe = 1 \/ job[t].probe = 2
    BY <1>2, Zenon
  <2> QED BY <2>1, Zenon DEF TryCasInsert
<1> QED BY <1>4, <1>5, <1>6, <1>7, Zenon

\* An insert stores a field.
LEMMA WriteBucketRawKeeps ==
    ASSUME LockFreeInv, NEW t \in Threads, NEW f \in Fields, WriteBucketRaw(t, f) PROVE Kept
<1> USE DEF LockFreeInv
<1>1. /\ present' = present /\ tpc[t] = "storing" /\ tpc' = tpc /\ job' = job /\ copy' = copy
      /\ todo' = [todo EXCEPT ![t] = @ \ {f}]
      /\ slots' = [slots EXCEPT ![At(t)] = [@ EXCEPT ![f] = Bucket(LiveWord, job[t].key)[f]]]
  BY Zenon DEF WriteBucketRaw
<1>2. job[t].key \in AllKeys
  BY Zenon DEF LTyped
<1>3. At(t) \in 0 .. Slots - 1
  BY <1>2, SlotsInRange, Zenon DEF At
<1>4. Bucket(LiveWord, job[t].key) \in Buckets
  <2>1. LiveWord \in [locked : BOOLEAN, tombstone : BOOLEAN]
    BY Zenon DEF LiveWord
  <2> QED BY <1>2, <2>1, BucketsTyped, Zenon
<1>5. [slots[At(t)] EXCEPT ![f] = Bucket(LiveWord, job[t].key)[f]] \in Buckets
  <2>1. slots[At(t)] \in Buckets
    BY <1>3, Zenon DEF LTyped
  <2> QED BY <1>4, <2>1, FieldReplaced, Zenon
<1>6. LTyped'
  <2>1. slots' \in [0 .. Slots - 1 -> Buckets]
    BY <1>1, <1>3, <1>5, Zenon DEF LTyped
  <2>2. todo' \in [Threads -> SUBSET Fields]
    BY <1>1, Zenon DEF LTyped
  <2> QED BY <1>1, <2>1, <2>2, Zenon DEF LTyped
<1>7. \A u \in Threads \ {t} : Untouched(u)
  BY <1>1, Zenon DEF Untouched, LTyped
<1>8. ASSUME NEW b \in 0 .. Slots - 1, Settled(b) PROVE Settled(b)' /\ slots'[b] = slots[b]
  <2>1. At(t) # b
    BY <1>1, <1>8, Zenon DEF Settled, MayClaim
  <2>2. slots'[b] = slots[b]
    BY <1>1, <2>1, Zenon DEF LTyped
  <2>3. ~MayClaim(t, b)'
    BY <1>1, <2>1, Zenon DEF MayClaim, At
  <2> QED BY <1>7, <1>8, <2>2, <2>3, SettledIf, Zenon
<1>9. OwnWay(t)
  BY <1>1, Zenon DEF OwnWay, OnTheWay
<1> QED BY <1>1, <1>6, <1>7, <1>8, <1>9, KeptIf, Zenon DEF AllSettledKept

\* An insert returns Ok.
LEMMA InsertOkKeeps ==
    ASSUME LockFreeInv, NEW t \in Threads, InsertOk(t) PROVE Kept
<1> USE DEF LockFreeInv
<1>1. slots' = slots /\ present' = present /\ tpc[t] = "storing" /\ Leave(t)
  BY Zenon DEF InsertOk
<1>2. NoJob \in [key : AllKeys, probe : {1, 2}] /\ {} \in SUBSET Fields
  BY Zenon DEF NoJob, AllKeys
<1>3. Go(t, "idle", NoJob, {})
  BY <1>1, Zenon DEF Leave
<1>4. AllSettledKept /\ \A u \in Threads \ {t} : Untouched(u)
  BY <1>1, <1>2, <1>3, GoKeepsSettled, Zenon
<1>5. LTyped'
  BY <1>1, LeaveTyped, Zenon
<1>6. OwnWay(t)
  BY <1>1, Zenon DEF OwnWay, OnTheWay
<1> QED BY <1>1, <1>4, <1>5, <1>6, KeptIf, Zenon

\* An insert or a lookup loads a field.
LEMMA LoadKeeps ==
    ASSUME LockFreeInv, NEW t \in Threads, NEW f \in Fields, Load(t, f) PROVE Kept
<1> USE DEF LockFreeInv
<1>1. /\ slots' = slots /\ present' = present /\ tpc' = tpc /\ job' = job
      /\ todo' = [todo EXCEPT ![t] = @ \ {f}]
      /\ copy' = [copy EXCEPT ![t] = [@ EXCEPT ![f] = slots[At(t)][f]]]
  BY Zenon DEF Load
<1>2. At(t) \in 0 .. Slots - 1
  <2>1. job[t].key \in AllKeys
    BY Zenon DEF LTyped
  <2> QED BY <2>1, SlotsInRange, Zenon DEF At
<1>3. slots[At(t)] \in Buckets /\ copy[t] \in Buckets
  BY <1>2, Zenon DEF LTyped
<1>4. /\ copy'[t] \in Buckets /\ copy'[t][f] = slots[At(t)][f]
      /\ \A g \in Fields : g # f => copy'[t][g] = copy[t][g]
  <2>1. copy'[t] = [copy[t] EXCEPT ![f] = slots[At(t)][f]]
    BY <1>1, Zenon DEF LTyped
  <2> DEFINE old == copy[t]
             src == slots[At(t)]
  <2>2. old \in Buckets /\ src \in Buckets /\ copy'[t] = [old EXCEPT ![f] = src[f]]
    BY <1>3, <2>1, Zenon
  <2> HIDE DEF old, src
  <2>3. /\ copy'[t] \in Buckets /\ copy'[t][f] = src[f]
        /\ \A g \in Fields : g # f => copy'[t][g] = old[g]
    BY <2>2, FieldReplaced
  <2> QED BY <2>3, Zenon DEF old, src
<1>5. todo'[t] = todo[t] \ {f}
  BY <1>1, Zenon DEF LTyped
<1>6. \A u \in Threads \ {t} : Untouched(u)
  BY <1>1, Zenon DEF Untouched, LTyped
<1>7. LTyped'
  <2>1. copy' \in [Threads -> Buckets]
    BY <1>1, <1>4, Zenon DEF LTyped
  <2>2. todo' \in [Threads -> SUBSET Fields]
    BY <1>1, Zenon DEF LTyped
  <2> QED BY <1>1, <2>1, <2>2, Zenon DEF LTyped
<1>8. ASSUME NEW b \in 0 .. Slots - 1, Settled(b) PROVE Settled(b)'
  <2>1. ASSUME MayClaim(t, b)' PROVE FALSE
    <3>1. At(t) = b /\ tpc[t] # "storing"
      BY <1>1, <2>1, Zenon DEF MayClaim, At, Load
    <3>2. ~slots[b].word.tombstone /\ slots[b].hash # NoHash /\ ~MayClaim(t, b)
      BY <1>8, Zenon DEF Settled
    <3>3. CASE "word" \notin todo'[t] /\ copy'[t].word.tombstone
      <4>1. f # "word"
        BY <1>4, <3>1, <3>2, <3>3, Zenon
      <4>2. "word" \notin todo[t] /\ copy[t].word = copy'[t].word
        BY <1>4, <1>5, <3>3, <4>1, Zenon DEF Fields
      <4> QED BY <1>1, <2>1, <3>1, <3>2, <3>3, <4>2, Zenon DEF MayClaim
    <3>4. CASE "hash" \notin todo'[t] /\ copy'[t].hash = NoHash
      <4>1. f # "hash"
        BY <1>4, <3>1, <3>2, <3>4, Zenon
      <4>2. "hash" \notin todo[t] /\ copy[t].hash = copy'[t].hash
        BY <1>4, <1>5, <3>4, <4>1, Zenon DEF Fields
      <4> QED BY <1>1, <2>1, <3>1, <3>2, <3>4, <4>2, Zenon DEF MayClaim
    <3> QED BY <1>1, <2>1, <3>1, <3>3, <3>4, Zenon DEF MayClaim
  <2> QED BY <1>1, <1>6, <1>8, <2>1, SettledIf, Zenon
<1>9. OwnWay(t)
  <2> SUFFICES ASSUME t \in present
               PROVE  tpc'[t] = "looking" /\ \E b \in 0 .. Slots - 1 : WillHit(t, b)'
    BY <1>1, Zenon DEF OwnWay
  <2>1. PICK b \in 0 .. Slots - 1 : WillHit(t, b)
    BY Zenon DEF OnTheWay
  <2>2. Settled(b)'
    BY <1>8, <2>1, Zenon DEF WillHit
  <2>3. ASSUME At(t) = b, NEW g \in Fields \ todo'[t] PROVE copy'[t][g] = slots[b][g]
    BY <1>4, <1>5, <2>1, <2>3, Zenon DEF WillHit
  <2>4. At(t)' = At(t)
    BY <1>1, Zenon DEF At
  <2>5. WillHit(t, b)'
    BY <1>1, <2>1, <2>2, <2>3, <2>4, Zenon DEF WillHit, Matches
  <2> QED BY <1>1, <2>5, Zenon DEF OnTheWay
<1> QED BY <1>1, <1>6, <1>7, <1>8, <1>9, KeptIf, Zenon DEF AllSettledKept

\* A lookup begins.
LEMMA LookupLockFreeKeeps ==
    ASSUME LockFreeInv, NEW t \in Threads, LookupLockFree(t) PROVE Kept
<1> USE DEF LockFreeInv
<1>1. slots' = slots /\ tpc[t] = "idle" /\ t \notin present
  BY Zenon DEF LookupLockFree, OnTheWay
<1>2. PICK k \in SharedKeys :
         /\ Go(t, "looking", [NoJob EXCEPT !.key = k], Fields)
         /\ present' = IF \E b \in {FirstSlot(k), SecondSlot(k)} : Settled(b) /\ Matches(slots[b], k)
                        THEN present \cup {t} ELSE present
  BY Zenon DEF LookupLockFree
<1> DEFINE call == [NoJob EXCEPT !.key = k]
<1>3. call \in [key : AllKeys, probe : {1, 2}] /\ call.key = k /\ call.probe = 1 /\ k \in AllKeys
  BY Zenon DEF NoJob, AllKeys
<1> HIDE DEF call
<1>4. Go(t, "looking", call, Fields)
  BY <1>2, Zenon DEF call
<1>5. LTyped' /\ tpc'[t] = "looking" /\ job'[t] = call /\ todo'[t] = Fields
  BY <1>1, <1>3, <1>4, GoTyped
<1>6. AllSettledKept /\ \A u \in Threads \ {t} : Untouched(u)
  BY <1>1, <1>3, <1>4, GoKeepsSettled, Zenon
<1>7. OwnWay(t)
  <2> SUFFICES ASSUME t \in present' PROVE \E b \in 0 .. Slots - 1 : WillHit(t, b)'
    BY <1>5, Zenon DEF OwnWay
  <2>1. PICK b \in {FirstSlot(k), SecondSlot(k)} : Settled(b) /\ Matches(slots[b], k)
    BY <1>1, <1>2, Zenon
  <2>2. b \in 0 .. Slots - 1
    BY <1>3, SlotsInRange, Zenon
  <2>3. Settled(b)'
    BY <1>6, <2>1, <2>2, Zenon DEF AllSettledKept
  <2>4. job'[t].key = k /\ job'[t].probe = 1
    BY <1>3, <1>5, Zenon
  <2>5. WillHit(t, b)'
    BY <1>1, <1>5, <2>1, <2>3, <2>4, Zenon DEF WillHit, Matches
  <2> QED BY <2>2, <2>5, Zenon
<1>8. present' \subseteq present \cup {t}
  BY <1>2, Zenon
<1> QED BY <1>5, <1>6, <1>7, <1>8, KeptIf, Zenon

\* A lookup that has loaded the bucket with its key says so.
LEMMA LoadedHits ==
    ASSUME LTyped, NEW t \in Threads, NEW b \in 0 .. Slots - 1, WillHit(t, b), At(t) = b, todo[t] = {}
    PROVE  Hit(t)
<1>1. copy[t].word = slots[b].word /\ copy[t].hash = slots[b].hash /\ copy[t].digest = slots[b].digest
  BY Zenon DEF WillHit, Fields
<1>2. ~slots[b].word.locked /\ Matches(slots[b], job[t].key)
  BY Zenon DEF WillHit, Settled
<1> QED BY <1>1, <1>2, Zenon DEF Hit, Matches

\* A lookup decides on what it loaded.
LEMMA LookupReturnsKeeps ==
    ASSUME LockFreeInv, NEW t \in Threads, LookupReturns(t) PROVE Kept
<1> USE DEF LockFreeInv
<1>1. slots' = slots /\ tpc[t] = "looking" /\ todo[t] = {}
  BY Zenon DEF LookupReturns
<1>2. job[t] \in [key : AllKeys, probe : {1, 2}]
  BY Zenon DEF LTyped
<1>3. CASE Hit(t) \/ job[t].probe = 2
  <2>1. Leave(t) /\ present' = IF Hit(t) THEN present \ {t} ELSE present
    BY <1>3, Zenon DEF LookupReturns
  <2>2. NoJob \in [key : AllKeys, probe : {1, 2}] /\ {} \in SUBSET Fields
    BY Zenon DEF NoJob, AllKeys
  <2>3. Go(t, "idle", NoJob, {})
    BY <2>1, Zenon DEF Leave
  <2>4. AllSettledKept /\ \A u \in Threads \ {t} : Untouched(u)
    BY <1>1, <2>2, <2>3, GoKeepsSettled, Zenon
  <2>5. LTyped'
    BY <1>1, <2>1, LeaveTyped, Zenon
  <2>6. t \notin present'
    <3>1. CASE Hit(t) BY <2>1, <3>1, Zenon
    <3>2. CASE ~Hit(t)
      <4> SUFFICES ASSUME t \in present PROVE FALSE
        BY <2>1, <3>2, Zenon
      <4>1. PICK b \in 0 .. Slots - 1 : WillHit(t, b)
        BY Zenon DEF OnTheWay
      <4>2. At(t) = b
        BY <1>3, <3>2, <4>1 DEF WillHit, At
      <4> QED BY <1>1, <3>2, <4>1, <4>2, LoadedHits, Zenon
    <3> QED BY <3>1, <3>2, Zenon
  <2>7. present' \subseteq present \cup {t} /\ OwnWay(t)
    BY <2>1, <2>6, Zenon DEF OwnWay
  <2> QED BY <2>4, <2>5, <2>7, KeptIf, Zenon
<1>4. CASE ~Hit(t) /\ job[t].probe = 1
  <2> DEFINE call == [job[t] EXCEPT !.probe = 2]
  <2>1. call \in [key : AllKeys, probe : {1, 2}] /\ call.key = job[t].key /\ call.probe = 2
    BY <1>2, Zenon
  <2>2. Go(t, "looking", call, Fields) /\ present' = present
    BY <1>4 DEF LookupReturns
  <2> HIDE DEF call
  <2>3. LTyped' /\ tpc'[t] = "looking" /\ job'[t] = call /\ todo'[t] = Fields
    BY <1>1, <2>1, <2>2, GoTyped, ZenonT(40)
  <2>4. AllSettledKept /\ \A u \in Threads \ {t} : Untouched(u)
    BY <1>1, <2>1, <2>2, GoKeepsSettled, Zenon
  <2>5. OwnWay(t)
    <3> SUFFICES ASSUME t \in present PROVE \E b \in 0 .. Slots - 1 : WillHit(t, b)'
      BY <2>2, <2>3, Zenon DEF OwnWay
    <3>1. PICK b \in 0 .. Slots - 1 : WillHit(t, b)
      BY Zenon DEF OnTheWay
    <3>2. At(t) # b
      BY <1>1, <1>4, <3>1, LoadedHits, Zenon
    <3>3. b = SecondSlot(job[t].key)
      BY <1>4, <3>1, <3>2, Zenon DEF WillHit, At
    <3>4. Settled(b)'
      BY <2>4, <3>1, Zenon DEF WillHit, AllSettledKept
    <3>5. WillHit(t, b)'
      BY <1>1, <2>1, <2>3, <3>1, <3>3, <3>4, Zenon DEF WillHit, Matches
    <3> QED BY <3>5, Zenon
  <2> QED BY <2>2, <2>3, <2>4, <2>5, KeptIf, Zenon
<1> QED BY <1>2, <1>3, <1>4, Zenon

\* Any step inside a call.
LEMMA ThreadStepKeeps ==
    ASSUME LockFreeInv, NEW t \in Threads, ThreadStep(t) PROVE Kept
<1>1. ASSUME NEW f \in Fields, Load(t, f) \/ WriteBucketRaw(t, f) PROVE Kept
  BY <1>1, LoadKeeps, WriteBucketRawKeeps, Zenon
<1> QED BY <1>1, TryCasInsertKeeps, InsertOkKeeps, LookupReturnsKeeps, Zenon DEF ThreadStep

\* A step that changes nothing.
LEMMA StutterKeeps ==
    ASSUME LockFreeInv, UNCHANGED lvars PROVE Kept
<1>1. /\ slots' = slots /\ present' = present /\ tpc' = tpc /\ job' = job
      /\ todo' = todo /\ copy' = copy
  BY Zenon DEF lvars, thread
<1>2. LTyped'
  BY <1>1, Zenon DEF LockFreeInv, LTyped
<1>3. ASSUME NEW b PROVE Settled(b)' = Settled(b)
  BY <1>1, Zenon DEF Settled, MayClaim, At
<1>4. ASSUME NEW t, NEW b PROVE WillHit(t, b)' = WillHit(t, b)
  BY <1>1, <1>3, Zenon DEF WillHit, Matches, At
<1>5. OnTheWay'
  BY <1>1, <1>4, Zenon DEF LockFreeInv, OnTheWay
<1>6. AllSettledKept
  BY <1>1, <1>3, Zenon DEF AllSettledKept
<1> QED BY <1>2, <1>5, <1>6, Zenon DEF Kept, LockFreeInv

\* Any step.
LEMMA NextKeeps ==
    ASSUME LockFreeInv, [LNext]_lvars PROVE Kept
<1>1. ASSUME NEW t \in Threads, InsertLockFree(t) \/ LookupLockFree(t) \/ ThreadStep(t) PROVE Kept
  BY <1>1, InsertLockFreeKeeps, LookupLockFreeKeeps, ThreadStepKeeps, Zenon
<1> QED BY <1>1, StutterKeeps, Zenon DEF LNext

(***************************************************************************)
(* The theorems.                                                           *)
(***************************************************************************)

\* A settled key stays in its bucket for good, however many threads insert.
THEOREM SettledAlwaysStays == LSpec => SettledStays
<1>1. LInit => LockFreeInv
  BY InitTyped, Zenon DEF LockFreeInv
<1>2. LockFreeInv /\ [LNext]_lvars => LockFreeInv'
  BY NextKeeps, Zenon DEF Kept
<1>3. LockFreeInv => DOMAIN slots = 0 .. Slots - 1
  BY Zenon DEF LockFreeInv, LTyped
<1>4. LockFreeInv /\ [LNext]_lvars =>
        [\A b \in DOMAIN slots : Settled(b) => Settled(b)' /\ slots'[b] = slots[b]]_lvars
  BY <1>3, NextKeeps, Zenon DEF Kept, AllSettledKept
<1> QED BY <1>1, <1>2, <1>4, PTL DEF LSpec, SettledStays

\* A lookup that begins with its key settled never returns None.
THEOREM PresentAlwaysFound == LSpec => []PresentIsFound
<1>1. LInit => LockFreeInv
  BY InitTyped, Zenon DEF LockFreeInv
<1>2. LockFreeInv /\ [LNext]_lvars => LockFreeInv'
  BY NextKeeps, Zenon DEF Kept
<1>3. LockFreeInv => PresentIsFound
  BY Zenon DEF LockFreeInv, OnTheWay, PresentIsFound
<1> QED BY <1>1, <1>2, <1>3, PTL DEF LSpec

(***************************************************************************)
(* BucketLock                                                              *)
(***************************************************************************)
\* The clock stays inside one 24-bit era.
NoRollover == MaxClock < LeaseMod

(***************************************************************************)
(* The inductive invariant, in parts                                       *)
(***************************************************************************)

\* Versions stay below the wrap of the version field.
VersionBound ==
    /\ lv.version <= MaxVersion
    /\ lv.locked => lv.version < MaxVersion
    /\ \A w \in Writers : pc[w] \in WriterSteps \ {"idle"} => seen[w].version < MaxVersion

\* No lease was stamped in the future.
LeasePast ==
    /\ lv.locked => lv.lease <= clock
    /\ \A w \in Writers : seen[w].locked => seen[w].lease <= clock

\* A writer about to CAS a locked word saw its lease run out.
SawExpiry ==
    \A w \in Writers :
        pc[w] \in {"build", "cas"} /\ seen[w].locked => clock - seen[w].lease > LeaseTimeout

\* A timely writer's own stamp is still running.
StampRunning ==
    \A w \in Writers :
        InLease(w) => /\ mine[w].locked
                      /\ mine[w].version = seen[w].version
                      /\ mine[w].lease <= clock
                      /\ clock - mine[w].lease <= LeaseTimeout

\* The lock word is the one the holder installed.
HolderOwnsWord == \A w \in Writers : Holding(w) => lv = mine[w]

LockInv ==
    /\ TypeOK
    /\ VersionBound
    /\ LeasePast
    /\ SawExpiry
    /\ StampRunning
    /\ HolderOwnsWord
    /\ MutualExclusion

-----------------------------------------------------------------------------
\* A number below the modulus is its own remainder.
LEMMA ModSmall ==
    ASSUME NEW x \in Nat, NEW m \in Nat \ {0}, x < m
    PROVE  x % m = x
  OBVIOUS

\* Inside one era the lease test is plain subtraction.
LEMMA ExpiredIsElapsed ==
    ASSUME NoRollover, NEW l \in Nat, NEW now \in 0 .. MaxClock, l <= now
    PROVE  /\ IsLeaseExpired(l, now) <=> now - l > LeaseTimeout
           /\ LeaseStamp(now) = now
  <1>1. now % LeaseMod = now /\ l % LeaseMod = l
    BY ModSmall, ConstantsAssumption DEF NoRollover
  <1>2. now - l \in Nat /\ now - l < WordMod
    BY ConstantsAssumption
  <1>3. (now - l) % WordMod = now - l
    BY <1>2, ModSmall, ConstantsAssumption, Zenon
  <1> QED BY <1>1, <1>3, Zenon DEF IsLeaseExpired, LeaseStamp

\* Inside one era the age of a stamp is plain subtraction.
LEMMA AgeIsElapsed ==
    ASSUME NoRollover, NEW l \in Nat, clock \in 0 .. MaxClock, l <= clock
    PROVE  Age(l) = clock - l
  <1>1. clock - l \in Nat /\ clock - l < LeaseMod
    BY ConstantsAssumption DEF NoRollover
  <1> QED BY <1>1, ModSmall, ConstantsAssumption, Zenon DEF Age

\* Below the bound an unlocked word carries the next version.
LEMMA UnlockBumps ==
    ASSUME NEW v \in Nat, v < MaxVersion
    PROVE  /\ UnlockedWord(v) = [version |-> v + 1, lease |-> 0, locked |-> FALSE]
           /\ UnlockedWord(v) \in Words
  <1>1. (v + 1) % VersionMod = v + 1
    BY ModSmall, ConstantsAssumption
  <1>2. UnlockedWord(v) = [version |-> v + 1, lease |-> 0, locked |-> FALSE]
    BY <1>1, Zenon DEF UnlockedWord
  <1>3. v + 1 \in 0 .. VersionMod - 1 /\ 0 \in 0 .. LeaseMod - 1
    BY ConstantsAssumption
  <1> QED BY <1>2, <1>3 DEF Words

\* The initial state satisfies the invariant.
LEMMA InitLockInv == Init => LockInv
  BY ConstantsAssumption
  DEF Init, LockInv, TypeOK, VersionBound, LeasePast, SawExpiry, StampRunning,
      HolderOwnsWord, MutualExclusion, ZeroWord, NoGuard, Words, Datum, Cells, Clients,
      WriterSteps, ReaderSteps, Holding, InLease

-----------------------------------------------------------------------------
\* Every step keeps the types.
LEMMA TypeStep ==
    ASSUME LockInv, RepairNext
    PROVE  TypeOK'
  <1> USE ConstantsAssumption DEF LockInv
  <1>0. ZeroWord \in Words /\ NoGuard \in [version : 0 .. VersionMod - 1, data : [Cells -> Datum]]
    <2>1. 0 \in 0 .. VersionMod - 1 /\ 0 \in 0 .. LeaseMod - 1
      OBVIOUS
    <2> QED BY <2>1, Zenon DEF ZeroWord, NoGuard, Words, Datum
  <1>a. ASSUME NEW w \in Writers, Return(w)
        PROVE  /\ pc' \in [Clients -> WriterSteps \cup ReaderSteps]
               /\ seen' \in [Writers -> Words]
               /\ mine' \in [Writers -> Words]
    BY <1>0, <1>a, Zenon DEF TypeOK, Return, Goto, WriterSteps
  <1>1. ASSUME NEW w \in Writers, LoadLock(w) PROVE TypeOK'
    BY <1>1, Zenon DEF TypeOK, LoadLock, Goto, WriterSteps
  <1>2. ASSUME NEW w \in Writers, CheckLease(w) PROVE TypeOK'
    <2>1. CASE Return(w)
      BY <1>a, <1>2, <2>1, Zenon DEF TypeOK, CheckLease
    <2>2. CASE Goto(w, "build") /\ UNCHANGED <<seen, mine>>
      BY <1>2, <2>2, Zenon DEF TypeOK, CheckLease, Goto, WriterSteps
    <2> QED BY <1>2, <2>1, <2>2, Zenon DEF CheckLease
  <1>3. ASSUME NEW w \in Writers, BuildWord(w) PROVE TypeOK'
    <2>1. LeaseStamp(clock) \in 0 .. LeaseMod - 1
      BY DEF TypeOK, LeaseStamp
    <2>2. seen[w].version \in 0 .. VersionMod - 1
      BY Zenon DEF TypeOK, Words
    <2>3. [version |-> seen[w].version, lease |-> LeaseStamp(clock), locked |-> TRUE] \in Words
      BY <2>1, <2>2, Zenon DEF Words
    <2> QED BY <2>3, <1>3, Zenon DEF TypeOK, BuildWord, Goto, WriterSteps
  <1>4. ASSUME NEW w \in Writers, CasLock(w) PROVE TypeOK'
    <2>1. CASE Return(w) /\ UNCHANGED lv
      BY <1>a, <1>4, <2>1, Zenon DEF TypeOK, CasLock
    <2>2. CASE lv' = mine[w] /\ Goto(w, "write_key") /\ UNCHANGED <<seen, mine>>
      BY <1>4, <2>2, Zenon DEF TypeOK, CasLock, Goto, WriterSteps
    <2> QED BY <1>4, <2>1, <2>2, Zenon DEF CasLock
  <1>5. ASSUME NEW w \in Writers, WriteKey(w) \/ WriteBody(w) PROVE TypeOK'
    BY <1>5, SMTT(30) DEF TypeOK, WriteKey, WriteBody, Goto, WriterSteps, Cells, Datum
  <1>6. ASSUME NEW w \in Writers, ReleaseLock(w) PROVE TypeOK'
    <2>1. seen[w].version \in Nat /\ seen[w].version < MaxVersion
      BY <1>6 DEF TypeOK, Words, VersionBound, ReleaseLock, WriterSteps
    <2>2. UnlockedWord(seen[w].version) \in Words
      BY <2>1, UnlockBumps, Zenon
    <2> QED BY <1>a, <1>6, <2>2, Zenon DEF TypeOK, ReleaseLock
  <1>7. ASSUME NEW w \in Writers, Crash(w) PROVE TypeOK'
    BY <1>a, <1>7 DEF TypeOK, Crash
  <1>8. ASSUME NEW r \in Readers, ReaderStep(r) PROVE TypeOK'
    <2>1. lv.version \in 0 .. VersionMod - 1
      BY Zenon DEF TypeOK, Words
    <2>2. CASE ReadLocked(r)
      BY <2>2, Zenon DEF TypeOK, ReadLocked, Goto, ReaderSteps
    <2>3. CASE ReadVersion(r)
      BY <2>1, <2>3, Zenon DEF TypeOK, ReadVersion, Goto, ReaderSteps
    <2>4. CASE CopyKey(r)
      BY <2>4, Zenon DEF TypeOK, CopyKey, Goto, ReaderSteps, Cells
    <2>5. CASE CopyBody(r)
      BY <2>5, Zenon DEF TypeOK, CopyBody, Goto, ReaderSteps, Cells
    <2>6. CASE FinishRead(r)
      BY <1>0, <2>6, Zenon DEF TypeOK, FinishRead, Goto, ReaderSteps
    <2> QED BY <1>8, <2>2, <2>3, <2>4, <2>5, <2>6, Zenon DEF ReaderStep
  <1>9. ASSUME ForceTakeover PROVE TypeOK'
    <2>1. lv.version \in Nat /\ lv.version < MaxVersion
      BY <1>9 DEF TypeOK, Words, VersionBound, ForceTakeover, TakeoverAllowed
    <2>2. UnlockedWord(lv.version) \in Words
      BY <2>1, UnlockBumps, Zenon
    <2> QED BY <1>9, <2>2, Zenon DEF TypeOK, ForceTakeover
  <1>10. ASSUME RepairAfterCrash PROVE TypeOK'
    BY <1>0, <1>10, Zenon DEF TypeOK, RepairAfterCrash, Datum
  <1>11. ASSUME TimelyTick PROVE TypeOK'
    BY <1>11 DEF TypeOK, TimelyTick, Tick
  <1> QED
    BY <1>1, <1>2, <1>3, <1>4, <1>5, <1>6, <1>7, <1>8, <1>9, <1>10, <1>11, Zenon
    DEF RepairNext, Next, ClientStep, WriterStep

\* The parts of the invariant that are not types.
ProtocolInv ==
    /\ VersionBound /\ LeasePast /\ SawExpiry /\ StampRunning
    /\ HolderOwnsWord /\ MutualExclusion

\* The fields of every word are numbers and a Boolean.
FieldTypes ==
    /\ clock \in 0 .. MaxClock
    /\ lv.version \in Nat /\ lv.lease \in Nat /\ lv.locked \in BOOLEAN
    /\ \A w \in Writers :
        /\ seen[w].version \in Nat /\ seen[w].lease \in Nat /\ seen[w].locked \in BOOLEAN
        /\ mine[w].version \in Nat /\ mine[w].lease \in Nat /\ mine[w].locked \in BOOLEAN

\* The types give the field types.
LEMMA FieldsTyped == TypeOK => FieldTypes
  BY ConstantsAssumption DEF TypeOK, FieldTypes, Words

\* Every step keeps the rest of the invariant.
LEMMA ProtocolStep ==
    ASSUME NoRollover, LockInv, RepairNext
    PROVE  ProtocolInv'
  <1> USE ConstantsAssumption
  <1>t. FieldTypes /\ pc \in [Clients -> WriterSteps \cup ReaderSteps]
        /\ seen \in [Writers -> Words] /\ mine \in [Writers -> Words]
        /\ \A w \in Writers : w \in Clients
    BY FieldsTyped DEF LockInv, TypeOK, Clients
  <1>i. ProtocolInv
    BY Zenon DEF LockInv, ProtocolInv
  <1> USE <1>t, <1>i DEF ProtocolInv, FieldTypes
  <1>r. ASSUME NEW w \in Writers, Return(w), UNCHANGED <<clock, lv>> PROVE ProtocolInv'
    <2>1. /\ pc' = [pc EXCEPT ![w] = "idle"]
          /\ seen' = [seen EXCEPT ![w] = ZeroWord] /\ mine' = [mine EXCEPT ![w] = ZeroWord]
          /\ ~ZeroWord.locked
      BY <1>r, Zenon DEF Return, Goto, ZeroWord
    <2>c1. VersionBound'
      BY <1>r, <2>1, Zenon DEF Clients, VersionBound, WriterSteps
    <2>c2. LeasePast'
      BY <1>r, <2>1, Zenon DEF Clients, LeasePast
    <2>c3. SawExpiry'
      BY <1>r, <2>1, Zenon DEF Clients, SawExpiry
    <2>c4. StampRunning'
      BY <1>r, <2>1 DEF Clients, StampRunning, InLease, Holding
    <2>c5. HolderOwnsWord'
      BY <1>r, <2>1, Zenon DEF Clients, HolderOwnsWord, Holding
    <2>c6. MutualExclusion'
      BY <1>r, <2>1, Zenon DEF Clients, MutualExclusion, Holding
    <2> QED BY <2>c1, <2>c2, <2>c3, <2>c4, <2>c5, <2>c6, Zenon
  <1>1. ASSUME NEW w \in Writers, LoadLock(w) PROVE ProtocolInv'
    <2>c1. VersionBound'
      BY <1>1 DEF LoadLock, Goto, VersionBound, WriterSteps
    <2>c2. LeasePast'
      BY <1>1, Zenon DEF LoadLock, Goto, LeasePast
    <2>c3. SawExpiry'
      BY <1>1, Zenon DEF LoadLock, Goto, SawExpiry
    <2>c4. StampRunning'
      BY <1>1, Zenon DEF LoadLock, Goto, StampRunning, InLease, Holding
    <2>c5. HolderOwnsWord'
      BY <1>1, Zenon DEF LoadLock, Goto, HolderOwnsWord, Holding
    <2>c6. MutualExclusion'
      BY <1>1, Zenon DEF LoadLock, Goto, MutualExclusion, Holding
    <2> QED BY <2>c1, <2>c2, <2>c3, <2>c4, <2>c5, <2>c6, Zenon
  <1>2. ASSUME NEW w \in Writers, CheckLease(w) PROVE ProtocolInv'
    <2>1. seen[w].locked => (IsLeaseExpired(seen[w].lease, clock) <=> clock - seen[w].lease > LeaseTimeout)
      BY ExpiredIsElapsed, Zenon DEF LeasePast
    <2>2. CASE Return(w)
      BY <1>2, <1>r, <2>2, Zenon DEF CheckLease
    <2>3. CASE ~Return(w)
      <3>1. /\ ~seen[w].locked \/ clock - seen[w].lease > LeaseTimeout
            /\ pc[w] = "check" /\ pc' = [pc EXCEPT ![w] = "build"]
            /\ UNCHANGED <<clock, lv, seen, mine>>
        BY <1>2, <2>1, <2>3, Zenon DEF CheckLease, Goto
      <3>c1. VersionBound'
        BY <3>1, Zenon DEF Clients, VersionBound, WriterSteps
      <3>c2. LeasePast'
        BY <3>1, Zenon DEF Clients, LeasePast
      <3>c3. SawExpiry'
        BY <3>1, Zenon DEF Clients, SawExpiry
      <3>c4. StampRunning'
        BY <3>1, Zenon DEF Clients, StampRunning, InLease, Holding
      <3>c5. HolderOwnsWord'
        BY <3>1, Zenon DEF Clients, HolderOwnsWord, Holding
      <3>c6. MutualExclusion'
        BY <3>1, Zenon DEF Clients, MutualExclusion, Holding
      <3> QED BY <3>c1, <3>c2, <3>c3, <3>c4, <3>c5, <3>c6, Zenon
    <2> QED BY <2>2, <2>3, Zenon
  <1>3. ASSUME NEW w \in Writers, BuildWord(w) PROVE ProtocolInv'
    <2>1. LeaseStamp(clock) = clock
      BY ExpiredIsElapsed, SMTT(30)
    <2>c1. VersionBound'
      BY <1>3, <2>1, Zenon DEF BuildWord, Goto, VersionBound, WriterSteps
    <2>c2. LeasePast'
      BY <1>3, <2>1, Zenon DEF BuildWord, Goto, LeasePast
    <2>c3. SawExpiry'
      BY <1>3, <2>1, Zenon DEF BuildWord, Goto, SawExpiry
    <2>c4. StampRunning'
      BY <1>3, <2>1 DEF BuildWord, Goto, StampRunning, InLease, Holding
    <2>c5. HolderOwnsWord'
      BY <1>3, <2>1, Zenon DEF BuildWord, Goto, HolderOwnsWord, Holding
    <2>c6. MutualExclusion'
      BY <1>3, <2>1, Zenon DEF BuildWord, Goto, MutualExclusion, Holding
    <2> QED BY <2>c1, <2>c2, <2>c3, <2>c4, <2>c5, <2>c6, Zenon
  <1>4. ASSUME NEW w \in Writers, CasLock(w) PROVE ProtocolInv'
    <2>1. CASE lv # seen[w]
      BY <1>4, <1>r, <2>1, Zenon DEF CasLock
    <2>2. CASE lv = seen[w]
      <3>1. \A v \in Writers : ~Holding(v)
        BY <1>4, <2>2 DEF CasLock, SawExpiry, StampRunning, HolderOwnsWord, InLease, Holding
      <3>2. StampRunning /\ InLease(w)
        BY <1>4, Zenon DEF CasLock, InLease
      <3>c1. VersionBound'
        BY <1>4, <2>2, <3>1, <3>2 DEF CasLock, Goto, VersionBound, WriterSteps, StampRunning
      <3>c2. LeasePast'
        BY <1>4, <2>2, <3>1, <3>2, Zenon DEF CasLock, Goto, LeasePast, StampRunning
      <3>c3. SawExpiry'
        BY <1>4, <2>2, <3>1, <3>2, Zenon DEF CasLock, Goto, SawExpiry
      <3>c4. StampRunning'
        BY <1>4, <2>2, <3>1, <3>2, SMTT(30) DEF CasLock, Goto, StampRunning, InLease, Holding
      <3>c5. HolderOwnsWord'
        BY <1>4, <2>2, <3>1, <3>2, Zenon DEF CasLock, Goto, HolderOwnsWord, Holding
      <3>c6. MutualExclusion'
        BY <1>4, <2>2, <3>1, <3>2 DEF CasLock, Goto, MutualExclusion, Holding
      <3> QED BY <3>c1, <3>c2, <3>c3, <3>c4, <3>c5, <3>c6, Zenon
    <2> QED BY <2>1, <2>2, Zenon
  <1>5. ASSUME NEW w \in Writers, WriteKey(w) \/ WriteBody(w) PROVE ProtocolInv'
    BY <1>5, SMTT(30) DEF WriteKey, WriteBody, Goto, VersionBound, LeasePast, SawExpiry, StampRunning,
       HolderOwnsWord, MutualExclusion, Holding, InLease, WriterSteps
  <1>6. ASSUME NEW w \in Writers, ReleaseLock(w) PROVE ProtocolInv'
    <2>1. UnlockedWord(seen[w].version)
          = [version |-> seen[w].version + 1, lease |-> 0, locked |-> FALSE]
      BY <1>6, UnlockBumps, Zenon DEF ReleaseLock, VersionBound, WriterSteps
    <2>2. \A v \in Writers : Holding(v) => v = w
      BY <1>6, Zenon DEF ReleaseLock, MutualExclusion, Holding
    <2>c1. VersionBound'
      BY <1>6, <2>1, <2>2 DEF ReleaseLock, Return, Goto, ZeroWord, VersionBound, WriterSteps
    <2>c2. LeasePast'
      BY <1>6, <2>1, <2>2 DEF ReleaseLock, Return, Goto, ZeroWord, LeasePast
    <2>c3. SawExpiry'
      BY <1>6, <2>1, <2>2, Zenon DEF ReleaseLock, Return, Goto, ZeroWord, SawExpiry
    <2>c4. StampRunning'
      BY <1>6, <2>1, <2>2, SMTT(30) DEF ReleaseLock, Return, Goto, ZeroWord, StampRunning, InLease, Holding
    <2>c5. HolderOwnsWord'
      BY <1>6, <2>1, <2>2, Zenon DEF ReleaseLock, Return, Goto, ZeroWord, HolderOwnsWord, Holding
    <2>c6. MutualExclusion'
      BY <1>6, <2>1, <2>2, Zenon DEF ReleaseLock, Return, Goto, ZeroWord, MutualExclusion, Holding
    <2> QED BY <2>c1, <2>c2, <2>c3, <2>c4, <2>c5, <2>c6, Zenon
  <1>7. ASSUME NEW w \in Writers, Crash(w) PROVE ProtocolInv'
    BY <1>7, <1>r, Zenon DEF Crash
  <1>8. ASSUME NEW r \in Readers, ReaderStep(r) PROVE ProtocolInv'
    <2>1. UNCHANGED <<clock, lv, seen, mine>>
      BY <1>8, Zenon DEF ReaderStep, ReadLocked, ReadVersion, CopyKey, CopyBody, FinishRead
    <2>2. \A w \in Writers : pc'[w] = pc[w] \/ pc'[w] \notin WriterSteps \ {"idle"}
      BY <1>8, SMTT(30) DEF ReaderStep, ReadLocked, ReadVersion, CopyKey, CopyBody, FinishRead, Goto,
         WriterSteps
    <2> QED BY <2>1, <2>2, SMTT(30) DEF VersionBound, LeasePast, SawExpiry, StampRunning,
         HolderOwnsWord, MutualExclusion, Holding, InLease, WriterSteps
  <1>e. ASSUME TakeoverAllowed PROVE \A w \in Writers : ~Holding(w)
    <2>1. clock - lv.lease > LeaseTimeout
      BY <1>e, ExpiredIsElapsed, Zenon DEF TakeoverAllowed, LeasePast
    <2>2. ASSUME NEW w \in Writers, Holding(w) PROVE FALSE
      <3>1. lv = mine[w] /\ clock - mine[w].lease <= LeaseTimeout
        BY <2>2, Zenon DEF StampRunning, HolderOwnsWord, InLease, Holding
      <3> QED BY <2>1, <3>1
    <2> QED BY <2>2, Zenon
  <1>9. ASSUME ForceTakeover PROVE ProtocolInv'
    <2>1. UnlockedWord(lv.version) = [version |-> lv.version + 1, lease |-> 0, locked |-> FALSE]
      BY <1>9, UnlockBumps, Zenon DEF ForceTakeover, TakeoverAllowed, VersionBound
    <2>c1. VersionBound'
      BY <1>9, <1>e, <2>1 DEF ForceTakeover, TakeoverAllowed, VersionBound, WriterSteps
    <2>c2. LeasePast'
      BY <1>9, <1>e, <2>1 DEF ForceTakeover, TakeoverAllowed, LeasePast
    <2>c3. SawExpiry'
      BY <1>9, <1>e, <2>1, Zenon DEF ForceTakeover, TakeoverAllowed, SawExpiry
    <2>c4. StampRunning'
      BY <1>9, <1>e, <2>1, Zenon DEF ForceTakeover, TakeoverAllowed, StampRunning, InLease, Holding
    <2>c5. HolderOwnsWord'
      BY <1>9, <1>e, <2>1, Zenon DEF ForceTakeover, TakeoverAllowed, HolderOwnsWord, Holding
    <2>c6. MutualExclusion'
      BY <1>9, <1>e, <2>1, Zenon DEF ForceTakeover, TakeoverAllowed, MutualExclusion, Holding
    <2> QED BY <2>c1, <2>c2, <2>c3, <2>c4, <2>c5, <2>c6, Zenon
  <1>10. ASSUME RepairAfterCrash PROVE ProtocolInv'
    <2>c1. VersionBound'
      BY <1>10, <1>e DEF RepairAfterCrash, ZeroWord, VersionBound, WriterSteps
    <2>c2. LeasePast'
      BY <1>10, <1>e, Zenon DEF RepairAfterCrash, ZeroWord, LeasePast
    <2>c3. SawExpiry'
      BY <1>10, <1>e, Zenon DEF RepairAfterCrash, ZeroWord, SawExpiry
    <2>c4. StampRunning'
      BY <1>10, <1>e, Zenon DEF RepairAfterCrash, ZeroWord, StampRunning, InLease, Holding
    <2>c5. HolderOwnsWord'
      BY <1>10, <1>e, Zenon DEF RepairAfterCrash, ZeroWord, HolderOwnsWord, Holding
    <2>c6. MutualExclusion'
      BY <1>10, <1>e, Zenon DEF RepairAfterCrash, ZeroWord, MutualExclusion, Holding
    <2> QED BY <2>c1, <2>c2, <2>c3, <2>c4, <2>c5, <2>c6, Zenon
  <1>11. ASSUME TimelyTick PROVE ProtocolInv'
    <2>1. \A w \in Writers : InLease(w) => clock - mine[w].lease < LeaseTimeout
      BY <1>11, AgeIsElapsed, Zenon DEF TimelyTick, StampRunning
    <2>c1. VersionBound'
      BY <1>11, <2>1, Zenon DEF TimelyTick, Tick, VersionBound, WriterSteps
    <2>c2. LeasePast'
      BY <1>11, <2>1 DEF TimelyTick, Tick, LeasePast
    <2>c3. SawExpiry'
      BY <1>11, <2>1 DEF TimelyTick, Tick, SawExpiry
    <2>c4. StampRunning'
      BY <1>11, <2>1 DEF TimelyTick, Tick, StampRunning, InLease, Holding
    <2>c5. HolderOwnsWord'
      BY <1>11, <2>1, Zenon DEF TimelyTick, Tick, HolderOwnsWord, Holding
    <2>c6. MutualExclusion'
      BY <1>11, <2>1, Zenon DEF TimelyTick, Tick, MutualExclusion, Holding
    <2> QED BY <2>c1, <2>c2, <2>c3, <2>c4, <2>c5, <2>c6, Zenon
  <1> QED
    BY <1>1, <1>2, <1>3, <1>4, <1>5, <1>6, <1>7, <1>8, <1>9, <1>10, <1>11, Zenon
    DEF RepairNext, Next, ClientStep, WriterStep

\* The invariant is inductive under every step, the repair included.
LEMMA LockInvStep ==
    ASSUME NoRollover, LockInv, [RepairNext]_vars
    PROVE  LockInv'
  <1>1. CASE RepairNext
    BY <1>1, TypeStep, ProtocolStep, Zenon DEF LockInv, ProtocolInv
  <1>2. CASE UNCHANGED vars
    BY <1>2, Zenon DEF vars, LockInv, TypeOK, VersionBound, LeasePast, SawExpiry, StampRunning,
       HolderOwnsWord, MutualExclusion, Holding, InLease
  <1> QED BY <1>1, <1>2, Zenon

\* With timely clients the lock excludes, even when the bucket of a dead client
\* is taken over and repaired (try_acquire_lock, release_lock, force_takeover,
\* repair_after_crash).
THEOREM LockExcludes ==
    ASSUME NoRollover
    PROVE  RepairSpec => [](TypeOK /\ MutualExclusion)
  <1>1. Init => LockInv
    BY InitLockInv, Zenon
  <1>2. LockInv /\ [RepairNext]_vars => LockInv'
    BY LockInvStep, Zenon
  <1>3. LockInv => TypeOK /\ MutualExclusion
    BY Zenon DEF LockInv
  <1> QED BY <1>1, <1>2, <1>3, PTL DEF RepairSpec

\* Without the repair every behaviour keeps the same invariant.
LEMMA SpecLockInv ==
    ASSUME NoRollover
    PROVE  Spec => []LockInv
  <1>1. Init => LockInv
    BY InitLockInv, Zenon
  <1>2. LockInv /\ [Next]_vars => LockInv'
    BY LockInvStep, Zenon DEF RepairNext
  <1> QED BY <1>1, <1>2, PTL DEF Spec

-----------------------------------------------------------------------------
\* A step that is not a repair keeps the word, locks it at the same version,
\* or unlocks it at the next one.
LEMMA WordChange ==
    ASSUME NoRollover, LockInv, [Next]_vars
    PROVE  \/ lv' = lv
           \/ lv'.locked = TRUE /\ lv'.version = lv.version
           \/ lv'.version = lv.version + 1
  <1>t. FieldTypes /\ VersionBound /\ StampRunning /\ HolderOwnsWord
    BY FieldsTyped, Zenon DEF LockInv
  <1>1. ASSUME NEW w \in Writers, CasLock(w) PROVE lv' = lv \/ (lv'.locked = TRUE /\ lv'.version = lv.version)
    BY <1>1, <1>t, Zenon DEF CasLock, StampRunning, InLease, FieldTypes
  <1>2. ASSUME NEW w \in Writers, ReleaseLock(w) PROVE lv'.version = lv.version + 1
    <2>1. seen[w].version < MaxVersion /\ lv.version = seen[w].version
      BY <1>2, <1>t, Zenon DEF ReleaseLock, VersionBound, WriterSteps, StampRunning, HolderOwnsWord, InLease, Holding
    <2>2. seen[w].version \in Nat
      BY <1>t, Zenon DEF FieldTypes
    <2>3. UnlockedWord(seen[w].version).version = seen[w].version + 1
      BY <2>1, <2>2, UnlockBumps
    <2> QED BY <1>2, <2>1, <2>3, Zenon DEF ReleaseLock
  <1>3. ASSUME ForceTakeover PROVE lv'.version = lv.version + 1
    <2>1. lv.version \in Nat /\ lv.version < MaxVersion
      BY <1>3, <1>t, Zenon DEF ForceTakeover, TakeoverAllowed, VersionBound, FieldTypes
    <2>2. UnlockedWord(lv.version).version = lv.version + 1
      BY <2>1, UnlockBumps
    <2> QED BY <1>3, <2>2, Zenon DEF ForceTakeover
  <1>4. ASSUME NEW w \in Writers, WriterStep(w) \/ Crash(w), ~CasLock(w), ~ReleaseLock(w) PROVE lv' = lv
    BY <1>4, Zenon DEF WriterStep, LoadLock, CheckLease, BuildWord, WriteKey, WriteBody, Crash
  <1>5. ASSUME NEW r \in Readers, ReaderStep(r) PROVE lv' = lv
    BY <1>5, Zenon DEF ReaderStep, ReadLocked, ReadVersion, CopyKey, CopyBody, FinishRead
  <1> QED BY <1>1, <1>2, <1>3, <1>4, <1>5, Zenon DEF Next, ClientStep, TimelyTick, Tick, vars

\* The version never goes back while no client outlives its lease and no bucket
\* is zeroed (release_lock, force_takeover).
THEOREM VersionNeverGoesBack ==
    ASSUME NoRollover
    PROVE  Spec => VersionMonotonic
  <1>1. LockInv /\ [Next]_vars => [lv'.version >= lv.version]_vars
    <2> SUFFICES ASSUME LockInv, [Next]_vars PROVE lv'.version >= lv.version
      BY Zenon
    <2>1. lv.version \in Nat
      BY FieldsTyped, Zenon DEF LockInv, FieldTypes
    <2>2. \/ lv' = lv
          \/ lv'.locked = TRUE /\ lv'.version = lv.version
          \/ lv'.version = lv.version + 1
      BY WordChange, Zenon
    <2> QED BY <2>1, <2>2
  <1> QED BY <1>1, SpecLockInv, PTL DEF Spec, VersionMonotonic

-----------------------------------------------------------------------------
\* What reader r has copied so far is still in the bucket.
CopiesCurrent(r) ==
    /\ pc[r] \in {"copy_body", "verify"} => guard[r].data["key"] = cells["key"]
    /\ pc[r] = "verify" => guard[r].data["body"] = cells["body"]

\* A guard's version is never ahead of the bucket's, and while the bucket is
\* unlocked at the guard's version nothing that was copied has changed.
ReaderInv ==
    \A r \in Readers :
        pc[r] \in {"copy_key", "copy_body", "verify"} =>
            /\ guard[r].version <= lv.version
            /\ ~lv.locked /\ lv.version = guard[r].version => CopiesCurrent(r)

\* Cells change only under a lock, and the lock word does not change with them.
LEMMA CellChange ==
    ASSUME LockInv, [Next]_vars, cells' # cells
    PROVE  lv' = lv /\ lv.locked /\ guard' = guard
  <1>1. PICK w \in Writers : WriteKey(w) \/ WriteBody(w)
    BY Zenon DEF Next, ClientStep, WriterStep, LoadLock, CheckLease, BuildWord, CasLock, ReleaseLock,
       Crash, ReaderStep, ReadLocked, ReadVersion, CopyKey, CopyBody, FinishRead,
       ForceTakeover, TimelyTick, Tick, vars
  <1>2. Holding(w)
    BY <1>1, Zenon DEF WriteKey, WriteBody, Holding
  <1>3. lv = mine[w] /\ mine[w].locked
    BY <1>2, Zenon DEF LockInv, HolderOwnsWord, StampRunning, InLease
  <1> QED BY <1>1, <1>3, Zenon DEF WriteKey, WriteBody

\* How a step moves reader r: it stays put with its guard, it drops out of the
\* read, or it takes the next step of optimistic_read.
LEMMA ReaderMove ==
    ASSUME TypeOK, [Next]_vars, NEW r \in Readers,
           pc'[r] \in {"copy_key", "copy_body", "verify"}
    PROVE  \/ pc'[r] = pc[r] /\ guard'[r] = guard[r]
           \/ ReadVersion(r) \/ CopyKey(r) \/ CopyBody(r)
  <1> USE DEF TypeOK, Clients
  <1>1. ASSUME NEW w \in Writers, WriterStep(w) \/ Crash(w) PROVE pc'[r] = pc[r] /\ guard' = guard
    BY <1>1, Zenon DEF WriterStep, LoadLock, CheckLease, BuildWord, CasLock, WriteKey, WriteBody,
       ReleaseLock, Crash, Return, Goto
  <1>2. ASSUME NEW q \in Readers, ReaderStep(q), q # r PROVE pc'[r] = pc[r] /\ guard'[r] = guard[r]
    BY <1>2, Zenon DEF ReaderStep, ReadLocked, ReadVersion, CopyKey, CopyBody, FinishRead, Goto
  <1>3. ASSUME ReaderStep(r) PROVE ReadVersion(r) \/ CopyKey(r) \/ CopyBody(r)
    BY <1>3, Zenon DEF ReaderStep, ReadLocked, FinishRead, Goto
  <1>4. ASSUME ForceTakeover \/ TimelyTick \/ UNCHANGED vars PROVE pc' = pc /\ guard' = guard
    BY <1>4, Zenon DEF ForceTakeover, TimelyTick, Tick, vars
  <1> QED BY <1>1, <1>2, <1>3, <1>4, Zenon DEF Next, ClientStep

\* The reader invariant is inductive relative to the lock invariant.
LEMMA ReaderInvStep ==
    ASSUME NoRollover, LockInv, ReaderInv, [Next]_vars
    PROVE  ReaderInv'
  <1> SUFFICES ASSUME NEW r \in Readers, pc'[r] \in {"copy_key", "copy_body", "verify"}
               PROVE  /\ guard'[r].version <= lv'.version
                      /\ ~lv'.locked /\ lv'.version = guard'[r].version => CopiesCurrent(r)'
    BY Zenon DEF ReaderInv
  <1>t. /\ lv.version \in Nat /\ lv.locked \in BOOLEAN /\ TypeOK
        /\ guard \in [Readers -> [version : 0 .. VersionMod - 1, data : [Cells -> Datum]]]
        /\ guard[r].version \in Int
        /\ pc \in [Clients -> WriterSteps \cup ReaderSteps] /\ r \in Clients
    BY FieldsTyped DEF LockInv, TypeOK, FieldTypes, Clients
  <1>w. \/ lv' = lv
        \/ lv'.locked = TRUE /\ lv'.version = lv.version
        \/ lv'.version = lv.version + 1
    BY WordChange, Zenon
  <1>1. CASE pc'[r] = pc[r] /\ guard'[r] = guard[r]
    <2>1. guard[r].version <= lv.version
          /\ (~lv.locked /\ lv.version = guard[r].version => CopiesCurrent(r))
      BY <1>1, Zenon DEF ReaderInv
    <2>2. guard'[r].version <= lv'.version
      BY <1>1, <1>t, <1>w, <2>1
    <2>3. ASSUME ~lv'.locked, lv'.version = guard'[r].version PROVE CopiesCurrent(r)'
      <3>1. lv' = lv
        BY <1>1, <1>t, <1>w, <2>1, <2>3
      <3>2. CopiesCurrent(r)
        BY <1>1, <2>1, <2>3, <3>1, Zenon
      <3>3. cells' = cells
        BY <2>3, <3>1, CellChange, Zenon
      <3> QED BY <1>1, <3>2, <3>3, Zenon DEF CopiesCurrent
    <2> QED BY <2>2, <2>3, Zenon
  <1>2. CASE ReadVersion(r)
    BY <1>2, <1>t DEF ReadVersion, Goto, CopiesCurrent
  <1>3. CASE CopyKey(r) \/ CopyBody(r)
    <2>1. guard'[r].version = guard[r].version /\ lv' = lv /\ cells' = cells
      BY <1>3, <1>t, ZenonT(40) DEF CopyKey, CopyBody
    <2>2. guard[r].version <= lv.version
          /\ (~lv.locked /\ lv.version = guard[r].version => CopiesCurrent(r))
      BY <1>3, Zenon DEF ReaderInv, CopyKey, CopyBody
    <2>3. CASE CopyKey(r)
      <3>1. guard'[r].data["key"] = cells["key"] /\ pc'[r] = "copy_body"
        BY <2>3, <1>t, Zenon DEF CopyKey, Goto, Cells
      <3> QED BY <2>1, <2>2, <3>1, Zenon DEF CopiesCurrent
    <2>4. CASE CopyBody(r)
      <3>1. /\ guard'[r].data["body"] = cells["body"] /\ pc[r] = "copy_body"
            /\ guard'[r].data["key"] = guard[r].data["key"]
        BY <2>4, <1>t DEF CopyBody, Goto, Cells
      <3> QED BY <2>1, <2>2, <3>1, Zenon DEF CopiesCurrent
    <2> QED BY <1>3, <2>3, <2>4, Zenon
  <1> QED BY <1>t, <1>1, <1>2, <1>3, ReaderMove, Zenon

\* A read that verify_read accepts returns exactly what the bucket holds
\* (optimistic_read, verify_read), as long as no bucket is zeroed by a repair.
THEOREM ValidatedReadsHold ==
    ASSUME NoRollover
    PROVE  Spec => []ValidatedReadUnchanged
  <1>1. Init => ReaderInv
    BY Zenon DEF Init, ReaderInv, Clients
  <1>2. LockInv /\ ReaderInv /\ [Next]_vars => ReaderInv'
    BY ReaderInvStep, Zenon
  <1>3. LockInv /\ ReaderInv => ValidatedReadUnchanged
    <2> SUFFICES ASSUME LockInv, ReaderInv, NEW r \in Readers, VerifyRead(r)
                 PROVE  guard[r].data = cells
      BY Zenon DEF ValidatedReadUnchanged
    <2>1. guard[r].data \in [Cells -> Datum] /\ cells \in [Cells -> Datum]
      BY Zenon DEF LockInv, TypeOK
    <2>2. guard[r].data["key"] = cells["key"] /\ guard[r].data["body"] = cells["body"]
      BY Zenon DEF ReaderInv, VerifyRead, CopiesCurrent
    <2> QED BY <2>1, <2>2 DEF Cells
  <1> QED BY <1>1, <1>2, <1>3, SpecLockInv, PTL DEF Spec

(***************************************************************************)
(* CuckooTable                                                             *)
(***************************************************************************)

\* A chain in progress stands at an occupied candidate of the key in hand.
ChainInv ==
    \A p \in hand : /\ cur_idx \in {H1(p.key), H2(p.key)}
                    /\ ~Vacant(buckets[cur_idx])

TableInv == TableTypeOK /\ OneCopy /\ ChainInv

\* A key that is live in its second bucket, or on its way there, has left no
\* tombstone in the first, where get_fast would meet it before the live copy.
NoneBehind ==
    \A k \in Keys :
        \/ H1(k) = H2(k) \/ buckets[H1(k)].key # k
        \/ ~IsLive(buckets[H2(k)], k) /\ \A p \in hand : p.key = k => cur_idx = H1(k)

\* Both candidates of a key are buckets of the table: the number of buckets is
\* even, so setting the lowest bit does not lead past the end.
LEMMA HashRange ==
    \A k \in Keys : H1(k) \in Index /\ H2(k) \in Index
<1> SUFFICES ASSUME NEW k \in Keys PROVE H1(k) \in Index /\ H2(k) \in Index
    BY Zenon
<1>1. k.lo \in Nat /\ k.hi \in Nat /\ BucketCount \in Nat /\ BucketCount > 0
      /\ BucketCount % 2 = 0
  BY TableAssumption, Zenon
<1>2. k.lo % BucketCount \in 0 .. BucketCount - 1 /\ k.hi % BucketCount \in 0 .. BucketCount - 1
  BY <1>1
<1>3. ASSUME NEW y \in 0 .. BucketCount - 1
      PROVE (y \div 2) * 2 + 1 \in 0 .. BucketCount - 1
  BY <1>1, <1>3
<1> QED
  BY <1>2, <1>3, Zenon DEF H1, H2, Index

\* FirstOf picks an element of a non-empty set of candidates.
LEMMA FirstOfIn ==
    ASSUME NEW k \in Keys, NEW S \in SUBSET {H1(k), H2(k)}, S # {}
    PROVE  FirstOf(S, k) \in S
BY Zenon DEF FirstOf

\* The empty table is well formed.
LEMMA InitTable == TableInit => TableInv
<1> SUFFICES ASSUME TableInit PROVE TableInv
    BY Zenon
<1>1. TableTypeOK
  BY TableAssumption DEF TableInit, TableTypeOK, BucketRecord, Index, FreeBucket, Body
<1>2. \A i \in Index, k \in Keys : ~IsLive(buckets[i], k)
  BY TableAssumption, Zenon DEF TableInit, IsLive, FreeBucket
<1>3. OneCopy /\ ChainInv
  BY <1>2, Zenon DEF TableInit, OneCopy, ChainInv
<1> QED
  BY <1>1, <1>3, Zenon DEF TableInv

\* What a round of kick_chain finds: a live occupant other than the key in hand.
LEMMA KickRound ==
    ASSUME TableInv, NEW p \in hand
    PROVE  /\ hand = {p} /\ p.key \in Keys /\ p.body \in Body
           /\ cur_idx \in Index /\ NextIdx \in Index
           /\ cur_idx \in {H1(p.key), H2(p.key)}
           /\ Occupant.key \in Keys /\ Occupant.body \in Body
           /\ IsLive(Occupant, Occupant.key) /\ Occupant.key # p.key
           /\ NextIdx \in {H1(Occupant.key), H2(Occupant.key)}
<1>1. PICK k \in Keys, b \in Body : hand = {Pair(k, b)}
  BY Zenon DEF TableInv, TableTypeOK
<1>2. hand = {p} /\ p.key \in Keys /\ p.body \in Body
  BY <1>1 DEF Pair
<1>3. cur_idx \in Index /\ cur_idx \in {H1(p.key), H2(p.key)} /\ ~Vacant(Occupant)
  BY Zenon DEF TableInv, TableTypeOK, ChainInv, Occupant
<1>4. Occupant \in BucketRecord
  BY <1>3, Zenon DEF TableInv, TableTypeOK, Occupant
<1>5. Occupant.key \in Keys /\ Occupant.body \in Body /\ IsLive(Occupant, Occupant.key)
  BY <1>3, <1>4, Zenon DEF BucketRecord, Vacant, IsLive
<1>6. Occupant.key # p.key
  BY <1>2, <1>3, <1>5, Zenon DEF TableInv, OneCopy, Occupant
<1>7. NextIdx \in {H1(Occupant.key), H2(Occupant.key)}
  BY Zenon DEF NextIdx, Alternate
<1> QED
  BY <1>2, <1>3, <1>5, <1>6, <1>7, HashRange, Zenon

\* The contents of the table after a write of body for key k.
Written(k, body) == \A m \in Keys : Contents(m)' = IF m = k THEN body ELSE Contents(m)

\* Overwriting the live copy of a key changes the value of that key alone.
LEMMA InsertOverwriteInv ==
    ASSUME TableInv, NEW k \in Keys, NEW v \in Values, InsertOverwrite(k, v)
    PROVE  TableInv' /\ Written(k, {v})
<1> DEFINE i == FirstOf(Matching(k), k)
<1>1. i \in Matching(k)
  BY FirstOfIn, Zenon DEF InsertOverwrite, Matching
<1>2. i \in Index /\ IsLive(buckets[i], k) /\ i \in {H1(k), H2(k)}
  BY <1>1, HashRange, Zenon DEF Matching
<1>3. buckets' = [buckets EXCEPT ![i] = Slot(k, {v})] /\ hand = {} /\ UNCHANGED chain
  BY Zenon DEF InsertOverwrite, WriteSlot, Idle
<1> HIDE DEF i
<1>r. result' \in {"Ok", "TableFull"}
  BY Zenon DEF InsertOverwrite
<1>4. TableTypeOK'
  BY <1>r, <1>2, <1>3, Zenon DEF TableInv, TableTypeOK, BucketRecord, Slot, Body, chain
<1>5. \A j \in Index, m \in Keys : IsLive(buckets'[j], m) <=> IsLive(buckets[j], m)
  BY <1>2, <1>3, Zenon DEF TableInv, TableTypeOK, Slot, IsLive
<1>6. OneCopy'
  BY <1>3, <1>5, Zenon DEF TableInv, OneCopy, chain
<1>7. ChainInv'
  BY <1>3, Zenon DEF ChainInv, chain
<1>8. ASSUME NEW m \in Keys PROVE Contents(m)' = IF m = k THEN {v} ELSE Contents(m)
  <2>1. \A j \in Index : IsLive(buckets[j], m) => (j = i <=> m = k)
    BY <1>2, Zenon DEF TableInv, OneCopy, IsLive
  <2>2. \A j \in Index : buckets'[j].body = IF j = i THEN {v} ELSE buckets[j].body
    BY <1>2, <1>3, Zenon DEF TableInv, TableTypeOK, Slot
  <2>3. Contents(m)' = UNION {buckets'[j].body : j \in {n \in Index : IsLive(buckets[n], m)}}
    BY <1>3, <1>5, Zenon DEF Contents, Stored, InHand, chain
  <2>4. Contents(m) = UNION {buckets[j].body : j \in {n \in Index : IsLive(buckets[n], m)}}
    BY <1>3, Zenon DEF Contents, Stored, InHand
  <2> QED
    BY <1>2, <2>1, <2>2, <2>3, <2>4, SMTT(30)
<1> QED
  BY <1>4, <1>6, <1>7, <1>8, Zenon DEF TableInv, Written

\* So does writing a key that is nowhere into a vacant bucket.
LEMMA InsertVacantInv ==
    ASSUME TableInv, NEW k \in Keys, NEW v \in Values, InsertVacant(k, v)
    PROVE  TableInv' /\ Written(k, {v})
<1> DEFINE i == FirstOf(Room(k), k)
<1>1. i \in Room(k)
  BY FirstOfIn, Zenon DEF InsertVacant, Room
<1>2. i \in Index /\ Vacant(buckets[i]) /\ i \in {H1(k), H2(k)}
  BY <1>1, HashRange, Zenon DEF Room
<1>3. buckets' = [buckets EXCEPT ![i] = Slot(k, {v})] /\ hand = {} /\ UNCHANGED chain
  BY Zenon DEF InsertVacant, WriteSlot, Idle
<1>4. \A j \in Index : ~IsLive(buckets[j], k)
  BY Zenon DEF InsertVacant, Matching, TableInv, OneCopy
<1> HIDE DEF i
<1>r. result' \in {"Ok", "TableFull"}
  BY Zenon DEF InsertVacant
<1>5. TableTypeOK'
  BY <1>r, <1>2, <1>3, Zenon DEF TableInv, TableTypeOK, BucketRecord, Slot, Body, chain
<1>6. \A j \in Index, m \in Keys :
        IsLive(buckets'[j], m) <=> (IsLive(buckets[j], m) \/ (j = i /\ m = k))
  BY <1>2, <1>3, TableAssumption, Zenon DEF TableInv, TableTypeOK, Slot, IsLive, Vacant
<1>7. OneCopy'
  BY <1>2, <1>3, <1>4, <1>6 DEF TableInv, OneCopy, chain
<1>8. ChainInv'
  BY <1>3, Zenon DEF ChainInv, chain
<1>9. ASSUME NEW m \in Keys PROVE Contents(m)' = IF m = k THEN {v} ELSE Contents(m)
  <2>1. \A j \in Index : IsLive(buckets[j], m) => j # i
    BY <1>2, TableAssumption, Zenon DEF IsLive, Vacant
  <2>2. \A j \in Index : buckets'[j].body = IF j = i THEN {v} ELSE buckets[j].body
    BY <1>2, <1>3, Zenon DEF TableInv, TableTypeOK, Slot
  <2>3. Contents(m)' = UNION {buckets'[j].body : j \in {n \in Index : IsLive(buckets'[n], m)}}
    BY <1>3, Zenon DEF Contents, Stored, InHand, chain
  <2>4. Contents(m) = UNION {buckets[j].body : j \in {n \in Index : IsLive(buckets[n], m)}}
    BY <1>3, Zenon DEF Contents, Stored, InHand
  <2> QED
    BY <1>2, <1>4, <1>6, <2>1, <2>2, <2>3, <2>4, SMTT(30)
<1> QED
  BY <1>5, <1>7, <1>8, <1>9, Zenon DEF TableInv, Written

\* What is in hand when hand is a single pair.
LEMMA OnePair ==
    ASSUME NEW p, NEW m
    PROVE  UNION {q.body : q \in {r \in {p} : r.key = m}} = IF p.key = m THEN p.body ELSE {}
<1>1. CASE p.key = m
  <2>1. {q.body : q \in {r \in {p} : r.key = m}} = {p.body}
    BY <1>1, Zenon
  <2> QED
    BY <1>1, <2>1, Zenon
<1>2. CASE p.key # m
  <2>1. {q.body : q \in {r \in {p} : r.key = m}} = {}
    BY <1>2, Zenon
  <2> QED
    BY <1>2, <2>1, Zenon
<1> QED
  BY <1>1, <1>2, Zenon

\* A pair taken in hand counts as stored.
LEMMA InsertKickInv ==
    ASSUME TableInv, NEW k \in Keys, NEW v \in Values, InsertKick(k, v)
    PROVE  TableInv' /\ Written(k, {v})
<1>1. buckets' = buckets /\ hand = {} /\ hand' = {Pair(k, {v})} /\ cur_idx' = H1(k) /\ kicks' = 0
      /\ new_key' = k
  BY Zenon DEF InsertKick, Idle
<1>2. \A j \in Index : ~IsLive(buckets[j], k)
  BY Zenon DEF InsertKick, Matching, TableInv, OneCopy
<1>r. result' \in {"Ok", "TableFull"}
  BY Zenon DEF InsertKick
<1>3. TableTypeOK'
  <2>1. {v} \in Body
    BY Zenon DEF Body
  <2>2. \E kk \in Keys, b \in Body : hand' = {Pair(kk, b)}
    BY <1>1, <2>1, Zenon
  <2>3. cur_idx' \in Index /\ kicks' \in 0 .. MaxKick
    BY <1>1, HashRange, TableAssumption
  <2> QED
    BY <1>r, <1>1, <2>2, <2>3, Zenon DEF TableInv, TableTypeOK
<1>4. OneCopy'
  BY <1>1, <1>2 DEF TableInv, OneCopy, Pair
<1>5. ChainInv'
  <2>1. H1(k) \in {H1(k), H2(k)} /\ ~Vacant(buckets[H1(k)])
    BY Zenon DEF InsertKick, Room
  <2> QED
    BY <1>1, <2>1 DEF ChainInv, Pair
<1>6. ASSUME NEW m \in Keys PROVE Contents(m)' = IF m = k THEN {v} ELSE Contents(m)
  <2>1. Stored(m)' = Stored(m) /\ InHand(m) = {} /\ (m = k => Stored(m) = {})
    BY <1>1, <1>2, Zenon DEF Stored, InHand
  <2>2. InHand(m)' = IF m = k THEN {v} ELSE {}
    <3>1. InHand(m)' = UNION {q.body : q \in {r \in {Pair(k, {v})} : r.key = m}}
      BY <1>1, Zenon DEF InHand
    <3>2. Pair(k, {v}).key = k /\ Pair(k, {v}).body = {v}
      BY Zenon DEF Pair
    <3> QED
      BY <3>1, <3>2, OnePair, SMTT(30)
  <2> QED
    BY <2>1, <2>2, Zenon DEF Contents
<1> QED
  BY <1>3, <1>4, <1>5, <1>6, Zenon DEF TableInv, Written

\* A slot written for a key is a bucket.
LEMMA SlotTyped ==
    ASSUME NEW k \in Keys, NEW b \in Body PROVE Slot(k, b) \in BucketRecord
BY Zenon DEF Slot, BucketRecord

\* After the chain has returned its locals are back at their initial values.
LEMMA Returned ==
    ChainReturns => /\ hand' = {} /\ cur_idx' \in Index /\ kicks' \in 0 .. MaxKick
                    /\ new_key' \in Keys \cup {NoKey}
BY TableAssumption DEF ChainReturns, Index

\* The last round writes two buckets: the pair in hand where the occupant was, and
\* the occupant into its vacant alternate.  Nothing is gained or lost.
LEMMA KickLastInv ==
    ASSUME TableInv, NEW p \in hand, KickLast(p)
    PROVE  TableInv' /\ \A m \in Keys : Contents(m)' = Contents(m)
<1> DEFINE i == cur_idx
           n == NextIdx
           o == Occupant
<1>1. /\ hand = {p} /\ p.key \in Keys /\ p.body \in Body /\ i \in Index /\ n \in Index
      /\ i \in {H1(p.key), H2(p.key)} /\ o.key \in Keys /\ o.body \in Body
      /\ IsLive(o, o.key) /\ o.key # p.key /\ n \in {H1(o.key), H2(o.key)} /\ o = buckets[i]
  BY KickRound, Zenon DEF Occupant
<1>2. buckets' = [[buckets EXCEPT ![i] = Slot(p.key, p.body)] EXCEPT ![n] = Slot(o.key, o.body)]
  BY Zenon DEF KickLast, Placed
<1>3. Vacant([buckets EXCEPT ![i] = Slot(p.key, p.body)][n]) /\ ChainReturns
  BY Zenon DEF KickLast, Placed
<1> HIDE DEF i, n, o
<1>4. n # i /\ Vacant(buckets[n])
  BY <1>1, <1>3, TableAssumption, Zenon DEF TableInv, TableTypeOK, Vacant, Slot
<1>5. \A j \in Index : buckets'[j] = IF j = n THEN Slot(o.key, o.body)
                                     ELSE IF j = i THEN Slot(p.key, p.body) ELSE buckets[j]
  BY <1>1, <1>2, Zenon DEF TableInv, TableTypeOK
<1>r. result' \in {"Ok", "TableFull"}
  BY Zenon DEF KickLast
<1>6. TableTypeOK'
  <2>1. Slot(o.key, o.body) \in BucketRecord /\ Slot(p.key, p.body) \in BucketRecord
    BY <1>1, SlotTyped, Zenon
  <2>2. buckets' \in [Index -> BucketRecord]
    BY <1>1, <1>2, <2>1, Zenon DEF TableInv, TableTypeOK
  <2> QED
    BY <1>r, <1>3, <2>2, Returned, Zenon DEF TableTypeOK
<1>7. \A j \in Index, m \in Keys :
        IsLive(buckets'[j], m) <=>
          \/ j = n /\ m = o.key
          \/ j = i /\ m = p.key
          \/ j # n /\ j # i /\ IsLive(buckets[j], m)
  BY <1>4, <1>5, SMTT(30) DEF Slot, IsLive
<1>8. \A j \in Index : IsLive(buckets[j], o.key) <=> j = i
  BY <1>1, Zenon DEF TableInv, OneCopy
<1>9. \A j \in Index : ~IsLive(buckets[j], p.key)
  BY <1>1, Zenon DEF TableInv, OneCopy
<1>10. OneCopy'
  <2>1. hand' = {}
    BY <1>3, Zenon DEF ChainReturns
  <2>2. \A j \in Index, m \in Keys : IsLive(buckets'[j], m) => j \in {H1(m), H2(m)}
    BY <1>1, <1>7, Zenon DEF TableInv, OneCopy
  <2>3. \A a, b \in Index, m \in Keys :
            IsLive(buckets'[a], m) /\ IsLive(buckets'[b], m) => a = b
    BY <1>1, <1>7, <1>8, <1>9, SMTT(30) DEF TableInv, OneCopy
  <2> QED
    BY <2>1, <2>2, <2>3, Zenon DEF OneCopy
<1>11. ChainInv'
  BY <1>3, Zenon DEF ChainInv, ChainReturns
<1>12. ASSUME NEW m \in Keys PROVE Contents(m)' = Contents(m)
  <2>1. InHand(m)' = {} /\ Contents(m)' = Stored(m)'
    BY <1>3, Zenon DEF Contents, InHand, ChainReturns
  <2>2. InHand(m) = IF p.key = m THEN p.body ELSE {}
    BY <1>1, OnePair DEF InHand
  <2>3. \A x : x \in Stored(m) <=> \E j \in Index : IsLive(buckets[j], m) /\ x \in buckets[j].body
    BY Zenon DEF Stored
  <2>4. \A x : x \in Stored(m)' <=> \E j \in Index : IsLive(buckets'[j], m) /\ x \in buckets'[j].body
    BY Zenon DEF Stored
  <2>5. buckets'[n].body = o.body /\ buckets'[i].body = p.body
        /\ \A j \in Index : j # n /\ j # i => buckets'[j].body = buckets[j].body
    BY <1>1, <1>4, <1>5, SMTT(30) DEF Slot
  <2>6. ~IsLive(buckets[n], m)
    BY <1>4, TableAssumption, Zenon DEF IsLive, Vacant
  <2>7. CASE m = o.key
    BY <1>1, <1>7, <1>8, <2>1, <2>2, <2>3, <2>4, <2>5, <2>7, SMTT(30) DEF Contents
  <2>8. CASE m = p.key
    BY <1>1, <1>7, <1>9, <2>1, <2>2, <2>3, <2>4, <2>5, <2>8, SMTT(30) DEF Contents
  <2>9. CASE m # o.key /\ m # p.key
    <3>1. ~IsLive(buckets[i], m)
      BY <1>1, <2>9, Zenon DEF IsLive
    <3> QED
      BY <1>7, <2>1, <2>2, <2>3, <2>4, <2>5, <2>6, <2>9, <3>1, Zenon DEF Contents
  <2> QED
    BY <2>7, <2>8, <2>9, Zenon
<1> QED
  BY <1>6, <1>10, <1>11, <1>12, Zenon DEF TableInv

\* A round that goes on exchanges the pair in hand for the occupant.
LEMMA KickOnInv ==
    ASSUME TableInv, NEW p \in hand, KickOn(p)
    PROVE  TableInv' /\ \A m \in Keys : Contents(m)' = Contents(m)
<1> DEFINE i == cur_idx
           n == NextIdx
           o == Occupant
<1>1. /\ hand = {p} /\ p.key \in Keys /\ p.body \in Body /\ i \in Index /\ n \in Index
      /\ i \in {H1(p.key), H2(p.key)} /\ o.key \in Keys /\ o.body \in Body
      /\ IsLive(o, o.key) /\ o.key # p.key /\ n \in {H1(o.key), H2(o.key)} /\ o = buckets[i]
  BY KickRound, Zenon DEF Occupant
<1>2. buckets' = [buckets EXCEPT ![i] = Slot(p.key, p.body)] /\ ~Vacant(buckets'[n])
  BY Zenon DEF KickOn, Placed
<1>3. hand' = {Pair(o.key, o.body)} /\ cur_idx' = n /\ kicks' = kicks + 1 /\ kicks < MaxKick
      /\ new_key' = new_key
  BY Zenon DEF KickOn
<1> HIDE DEF i, n, o
<1>4. \A j \in Index : buckets'[j] = IF j = i THEN Slot(p.key, p.body) ELSE buckets[j]
  BY <1>1, <1>2, Zenon DEF TableInv, TableTypeOK
<1>r. result' \in {"Ok", "TableFull"}
  BY Zenon DEF KickOn, TableInv, TableTypeOK
<1>5. TableTypeOK'
  <2>1. buckets' \in [Index -> BucketRecord]
    BY <1>1, <1>2, SlotTyped, Zenon DEF TableInv, TableTypeOK
  <2>2. kicks' \in 0 .. MaxKick
    BY <1>3, TableAssumption, SMTT(30) DEF TableInv, TableTypeOK
  <2>3. \E k \in Keys, b \in Body : hand' = {Pair(k, b)}
    BY <1>1, <1>3, Zenon
  <2> QED
    BY <1>r, <1>1, <1>3, <2>1, <2>2, <2>3, Zenon DEF TableInv, TableTypeOK
<1>6. \A j \in Index, m \in Keys :
        IsLive(buckets'[j], m) <=> (j = i /\ m = p.key) \/ (j # i /\ IsLive(buckets[j], m))
  BY <1>4 DEF Slot, IsLive
<1>7. \A j \in Index : IsLive(buckets[j], o.key) <=> j = i
  BY <1>1, Zenon DEF TableInv, OneCopy
<1>8. \A j \in Index : ~IsLive(buckets[j], p.key)
  BY <1>1, Zenon DEF TableInv, OneCopy
<1>9. OneCopy'
  <2>1. \A j \in Index, m \in Keys : IsLive(buckets'[j], m) => j \in {H1(m), H2(m)}
    BY <1>1, <1>6, Zenon DEF TableInv, OneCopy
  <2>2. \A a, b \in Index, m \in Keys :
            IsLive(buckets'[a], m) /\ IsLive(buckets'[b], m) => a = b
    BY <1>6, <1>8, SMTT(30) DEF TableInv, OneCopy
  <2>3. \A q \in hand', j \in Index : ~IsLive(buckets'[j], q.key)
    BY <1>1, <1>3, <1>6, <1>7, SMTT(30) DEF Pair
  <2> QED
    BY <2>1, <2>2, <2>3, Zenon DEF OneCopy
<1>10. ChainInv'
  BY <1>1, <1>2, <1>3, SMTT(30) DEF ChainInv, Pair
<1>11. ASSUME NEW m \in Keys PROVE Contents(m)' = Contents(m)
  <2>1. InHand(m) = IF p.key = m THEN p.body ELSE {}
    BY <1>1, OnePair, ZenonT(40) DEF InHand
  <2>2. InHand(m)' = IF o.key = m THEN o.body ELSE {}
    <3>1. InHand(m)' = UNION {q.body : q \in {r \in {Pair(o.key, o.body)} : r.key = m}}
      BY <1>3, Zenon DEF InHand
    <3>2. Pair(o.key, o.body).key = o.key /\ Pair(o.key, o.body).body = o.body
      BY Zenon DEF Pair
    <3> QED
      BY <3>1, <3>2, OnePair, Zenon
  <2>3. \A x : x \in Stored(m) <=> \E j \in Index : IsLive(buckets[j], m) /\ x \in buckets[j].body
    BY Zenon DEF Stored
  <2>4. \A x : x \in Stored(m)' <=> \E j \in Index : IsLive(buckets'[j], m) /\ x \in buckets'[j].body
    BY Zenon DEF Stored
  <2>5. buckets'[i].body = p.body /\ \A j \in Index : j # i => buckets'[j].body = buckets[j].body
    BY <1>1, <1>4, SMTT(30) DEF Slot
  <2>6. CASE m = o.key
    BY <1>1, <1>6, <1>7, <2>1, <2>2, <2>3, <2>4, <2>5, <2>6, SMTT(30) DEF Contents
  <2>7. CASE m = p.key
    BY <1>1, <1>6, <1>8, <2>1, <2>2, <2>3, <2>4, <2>5, <2>7, SMTT(30) DEF Contents
  <2>8. CASE m # o.key /\ m # p.key
    <3>1. ~IsLive(buckets[i], m)
      BY <1>1, <2>8, Zenon DEF IsLive
    <3> QED
      BY <1>6, <2>1, <2>2, <2>3, <2>4, <2>5, <2>8, <3>1, Zenon DEF Contents
  <2> QED
    BY <2>6, <2>7, <2>8, Zenon
<1> QED
  BY <1>5, <1>9, <1>10, <1>11, Zenon DEF TableInv

\* Giving up costs the key in hand and no other.
LEMMA TableFullInv ==
    ASSUME TableInv, NEW p \in hand, TableFull
    PROVE  TableInv' /\ Written(p.key, {}) /\ p.key \in Keys
<1>1. hand = {p} /\ p.key \in Keys /\ buckets' = buckets /\ ChainReturns
  BY KickRound, Zenon DEF TableFull
<1>2. \A j \in Index : ~IsLive(buckets[j], p.key)
  BY <1>1, Zenon DEF TableInv, OneCopy
<1>r. result' \in {"Ok", "TableFull"}
  BY Zenon DEF TableFull
<1>3. TableTypeOK' /\ OneCopy' /\ ChainInv'
  BY <1>r, <1>1, Returned, Zenon DEF TableInv, TableTypeOK, OneCopy, ChainInv
<1>4. ASSUME NEW m \in Keys PROVE Contents(m)' = IF m = p.key THEN {} ELSE Contents(m)
  <2>1. Stored(m)' = Stored(m) /\ InHand(m)' = {}
    BY <1>1, Returned, Zenon DEF Stored, InHand
  <2>2. InHand(m) = IF p.key = m THEN p.body ELSE {}
    BY <1>1, OnePair, Zenon DEF InHand
  <2>3. m = p.key => Stored(m) = {}
    BY <1>2, Zenon DEF Stored
  <2> QED
    BY <2>1, <2>2, <2>3, Zenon DEF Contents
<1> QED
  BY <1>1, <1>3, <1>4, Zenon DEF TableInv, Written

\* A delete takes the only copy of its key out of sight.
LEMMA DeleteInv ==
    ASSUME TableInv, NEW k \in Keys, Delete(k)
    PROVE  TableInv' /\ Written(k, {})
<1> DEFINE i == FirstOf(Matching(k), k)
<1>1. i \in Matching(k)
  BY FirstOfIn, Zenon DEF Delete, Matching
<1>2. i \in Index /\ IsLive(buckets[i], k)
  BY <1>1, HashRange, Zenon DEF Matching
<1>3. buckets' = [buckets EXCEPT ![i].tombstone = TRUE] /\ hand = {} /\ UNCHANGED chain
  BY Zenon DEF Delete, Idle
<1> HIDE DEF i
<1>4. \A j \in Index : buckets[j] \in BucketRecord
  BY Zenon DEF TableInv, TableTypeOK
<1>5. buckets'[i] = [buckets[i] EXCEPT !.tombstone = TRUE]
      /\ \A j \in Index : j # i => buckets'[j] = buckets[j]
  BY <1>2, <1>3, Zenon DEF TableInv, TableTypeOK
<1>r. result' \in {"Ok", "TableFull"}
  BY Zenon DEF Delete
<1>6. TableTypeOK'
  <2>1. [buckets[i] EXCEPT !.tombstone = TRUE] \in BucketRecord
    BY <1>2, <1>4, Zenon DEF BucketRecord
  <2>2. buckets' \in [Index -> BucketRecord]
    BY <1>2, <1>3, <2>1, Zenon DEF TableInv, TableTypeOK
  <2> QED
    BY <1>r, <1>3, <2>2, Zenon DEF TableInv, TableTypeOK, chain
<1>7. \A j \in Index, m \in Keys : IsLive(buckets'[j], m) <=> j # i /\ IsLive(buckets[j], m)
  BY <1>2, <1>4, <1>5, Zenon DEF IsLive, BucketRecord
<1>8. \A j \in Index : IsLive(buckets[j], k) <=> j = i
  BY <1>2, Zenon DEF TableInv, OneCopy
<1>9. OneCopy'
  BY <1>3, <1>7, Zenon DEF TableInv, OneCopy, chain
<1>10. ChainInv'
  BY <1>3, Zenon DEF ChainInv, chain
<1>11. ASSUME NEW m \in Keys PROVE Contents(m)' = IF m = k THEN {} ELSE Contents(m)
  <2>1. InHand(m) = {} /\ InHand(m)' = {}
    BY <1>3, Zenon DEF InHand, chain
  <2>2. m = k => Stored(m)' = {}
    BY <1>7, <1>8, Zenon DEF Stored
  <2>3. m # k => ~IsLive(buckets[i], m)
    BY <1>2, Zenon DEF IsLive
  <2>4. m # k => Stored(m)' = Stored(m)
    BY <1>5, <1>7, <2>3 DEF Stored
  <2> QED
    BY <2>1, <2>2, <2>4, Zenon DEF Contents
<1> QED
  BY <1>6, <1>9, <1>10, <1>11, Zenon DEF TableInv, Written

\* Every step of the table keeps it well formed.
LEMMA TableStep ==
    TableInv /\ [TableNext]_tvars => TableInv'
<1> SUFFICES ASSUME TableInv, [TableNext]_tvars PROVE TableInv'
    BY Zenon
<1>1. CASE \E k \in Keys, v \in Values : Insert(k, v)
  BY <1>1, InsertOverwriteInv, InsertVacantInv, InsertKickInv, Zenon DEF Insert
<1>2. CASE \E p \in hand : KickLast(p) \/ KickOn(p)
  BY <1>2, KickLastInv, KickOnInv, Zenon
<1>3. CASE TableFull
  <2>1. PICK p \in hand : TRUE
    BY <1>3, Zenon DEF TableFull, Idle
  <2> QED
    BY <1>3, <2>1, TableFullInv, Zenon
<1>4. CASE \E k \in Keys : Delete(k)
  BY <1>4, DeleteInv, Zenon
<1>5. CASE UNCHANGED tvars
  BY <1>5, Zenon DEF tvars, chain, TableInv, TableTypeOK, OneCopy, ChainInv
<1> QED
  BY <1>1, <1>2, <1>3, <1>4, <1>5, Zenon DEF TableNext

\* No key is ever live twice, or where lookup does not look (insert, kick_chain,
\* delete), in a table of any even size.
THEOREM OneCopyAlways == TableSpec => [](TableTypeOK /\ OneCopy)
<1>1. TableInv => TableTypeOK /\ OneCopy
  BY Zenon DEF TableInv
<1> QED
  BY <1>1, InitTable, TableStep, PTL DEF TableSpec

\* InsertVacant prefers the first bucket, a kick overwrites the bucket it takes a
\* pair from: no step leaves a copy behind in the first bucket.
LEMMA NoneBehindStep ==
    TableInv /\ NoneBehind /\ [TableNext]_tvars => NoneBehind'
<1> SUFFICES ASSUME TableInv, NoneBehind, [TableNext]_tvars, NEW k \in Keys,
                    H1(k) # H2(k), buckets'[H1(k)].key = k
             PROVE  ~IsLive(buckets'[H2(k)], k) /\ \A p \in hand' : p.key = k => cur_idx' = H1(k)
    BY Zenon DEF NoneBehind
<1>h. H1(k) \in Index /\ H2(k) \in Index
  BY HashRange, Zenon
<1>b. \/ buckets[H1(k)].key # k
      \/ ~IsLive(buckets[H2(k)], k) /\ \A p \in hand : p.key = k => cur_idx = H1(k)
  BY Zenon DEF NoneBehind
<1>1. ASSUME NEW m \in Keys, NEW v \in Values, InsertOverwrite(m, v)
      PROVE  ~IsLive(buckets'[H2(k)], k) /\ hand' = {}
  <2> DEFINE i == FirstOf(Matching(m), m)
  <2>0. i \in Matching(m)
    BY <1>1, FirstOfIn, SMTT(30) DEF InsertOverwrite, Matching
  <2>1. i \in Index /\ IsLive(buckets[i], m)
    BY <2>0, HashRange, Zenon DEF Matching
  <2>2. buckets' = [buckets EXCEPT ![i] = Slot(m, {v})] /\ hand' = {}
    BY <1>1, Zenon DEF InsertOverwrite, WriteSlot, Idle, chain
  <2> HIDE DEF i
  <2>3. \A j \in Index : IsLive(buckets'[j], k) <=> IsLive(buckets[j], k)
    BY <2>1, <2>2, Zenon DEF TableInv, TableTypeOK, Slot, IsLive
  <2>4. buckets[H1(k)].key = k
    BY <1>h, <2>1, <2>2, Zenon DEF TableInv, TableTypeOK, Slot, IsLive
  <2> QED
    BY <1>h, <1>b, <2>2, <2>3, <2>4, Zenon
<1>2. ASSUME NEW m \in Keys, NEW v \in Values, InsertVacant(m, v)
      PROVE  ~IsLive(buckets'[H2(k)], k) /\ hand' = {}
  <2> DEFINE i == FirstOf(Room(m), m)
  <2>1. i \in Index /\ i \in Room(m)
    BY <1>2, FirstOfIn, HashRange, SMTT(30) DEF InsertVacant, Room
  <2>2. buckets' = [buckets EXCEPT ![i] = Slot(m, {v})] /\ hand' = {}
    BY <1>2, Zenon DEF InsertVacant, WriteSlot, Idle, chain
  <2>3. i = H2(m) => H1(m) = H2(m) \/ H1(m) \notin Room(m)
    BY Zenon DEF FirstOf
  <2> HIDE DEF i
  <2>4. \A j \in Index : buckets'[j] = IF j = i THEN Slot(m, {v}) ELSE buckets[j]
    BY <2>1, <2>2, Zenon DEF TableInv, TableTypeOK
  <2>5. CASE k = m
    <3>1. ASSUME i = H2(k) PROVE FALSE
      <4>1. buckets[H1(k)].key = k /\ ~Vacant(buckets[H1(k)])
        BY <1>h, <2>3, <2>4, <2>5, <3>1, Zenon DEF Room
      <4> QED
        BY <1>2, <2>5, <4>1, Zenon DEF InsertVacant, Matching, IsLive, Vacant
    <3>2. ~IsLive(buckets[H2(k)], k)
      BY <1>2, <2>5, Zenon DEF InsertVacant, Matching
    <3> QED
      BY <1>h, <2>2, <2>4, <3>1, <3>2, Zenon
  <2>6. CASE k # m
    BY <1>h, <1>b, <2>2, <2>4, <2>6, SMTT(30) DEF Slot, IsLive
  <2> QED
    BY <2>5, <2>6, Zenon
<1>3. ASSUME NEW m \in Keys, NEW v \in Values, InsertKick(m, v)
      PROVE  ~IsLive(buckets'[H2(k)], k) /\ \A p \in hand' : p.key = k => cur_idx' = H1(k)
  BY <1>3, <1>b, SMTT(30) DEF InsertKick, Pair
<1>4. ASSUME NEW p \in hand, KickLast(p) \/ KickOn(p)
      PROVE  ~IsLive(buckets'[H2(k)], k) /\ \A q \in hand' : q.key = k => cur_idx' = H1(k)
  <2> DEFINE i == cur_idx
             n == NextIdx
             o == Occupant
  <2>1. /\ hand = {p} /\ i \in Index /\ n \in Index /\ i \in {H1(p.key), H2(p.key)}
        /\ o.key # p.key /\ IsLive(o, o.key) /\ o = buckets[i]
        /\ p.key \in Keys /\ o.key \in Keys /\ i \in {H1(o.key), H2(o.key)}
    BY KickRound, Zenon DEF Occupant, TableInv, OneCopy
  <2>2. \/ i = H1(o.key) /\ n = H2(o.key)
        \/ i = H2(o.key) /\ n = H1(o.key)
    BY <2>1, Zenon DEF NextIdx, Alternate
  <2>3. /\ \A j \in Index : IsLive(buckets[j], o.key) => j = i
        /\ \A j \in Index : ~IsLive(buckets[j], p.key)
    BY <2>1, Zenon DEF TableInv, OneCopy
  <2>4. CASE KickLast(p)
    <3>1. \A j \in Index : buckets'[j] = IF j = n THEN Slot(o.key, o.body)
                                         ELSE IF j = i THEN Slot(p.key, p.body) ELSE buckets[j]
      BY <2>1, <2>4, Zenon DEF KickLast, Placed, TableInv, TableTypeOK
    <3>2. n # i /\ hand' = {}
      BY <2>1, <2>4, TableAssumption, Zenon DEF KickLast, Placed, ChainReturns, TableInv, TableTypeOK, Slot, Vacant
    <3> HIDE DEF i, n, o
    <3>3. CASE k = o.key
      BY <1>h, <2>1, <2>2, <2>3, <3>1, <3>2, <3>3, SMTT(30) DEF Slot, IsLive
    <3>4. CASE k = p.key
      BY <1>h, <1>b, <2>1, <2>3, <3>1, <3>2, <3>4, SMTT(30) DEF Slot, IsLive, i
    <3>5. CASE k # o.key /\ k # p.key
      BY <1>h, <1>b, <2>1, <3>1, <3>2, <3>5, SMTT(30) DEF Slot, IsLive
    <3> QED
      BY <3>3, <3>4, <3>5, Zenon
  <2>5. CASE KickOn(p)
    <3>1. \A j \in Index : buckets'[j] = IF j = i THEN Slot(p.key, p.body) ELSE buckets[j]
      BY <2>1, <2>5, Zenon DEF KickOn, Placed, TableInv, TableTypeOK
    <3>2. hand' = {Pair(o.key, o.body)} /\ cur_idx' = n
      BY <2>5, Zenon DEF KickOn
    <3> HIDE DEF i, n, o
    <3>3. CASE k = o.key
      BY <1>h, <2>1, <2>2, <2>3, <3>1, <3>2, <3>3, SMTT(30) DEF Slot, IsLive, Pair
    <3>4. CASE k = p.key
      BY <1>h, <1>b, <2>1, <2>3, <3>1, <3>2, <3>4, SMTT(30) DEF Slot, IsLive, Pair, i
    <3>5. CASE k # o.key /\ k # p.key
      BY <1>h, <1>b, <2>1, <3>1, <3>2, <3>5, SMTT(30) DEF Slot, IsLive, Pair
    <3> QED
      BY <3>3, <3>4, <3>5, Zenon
  <2> QED
    BY <1>4, <2>4, <2>5, Zenon
<1>5. ASSUME TableFull PROVE ~IsLive(buckets'[H2(k)], k) /\ hand' = {}
  BY <1>5, <1>b, Zenon DEF TableFull, ChainReturns
<1>6. ASSUME NEW m \in Keys, Delete(m) PROVE ~IsLive(buckets'[H2(k)], k) /\ hand' = {}
  <2> DEFINE i == FirstOf(Matching(m), m)
  <2>1. i \in Index
    BY <1>6, FirstOfIn, HashRange DEF Delete, Matching
  <2>2. buckets' = [buckets EXCEPT ![i].tombstone = TRUE] /\ hand' = {}
    BY <1>6, Zenon DEF Delete, Idle, chain
  <2> HIDE DEF i
  <2>3. \A j \in Index : buckets[j] \in BucketRecord
    BY Zenon DEF TableInv, TableTypeOK
  <2>4. buckets'[i] = [buckets[i] EXCEPT !.tombstone = TRUE]
        /\ \A j \in Index : j # i => buckets'[j] = buckets[j]
    BY <2>1, <2>2, Zenon DEF TableInv, TableTypeOK
  <2> QED
    BY <1>h, <1>b, <2>1, <2>2, <2>3, <2>4 DEF IsLive, BucketRecord
<1>7. ASSUME UNCHANGED tvars
      PROVE  ~IsLive(buckets'[H2(k)], k) /\ \A p \in hand' : p.key = k => cur_idx' = H1(k)
  BY <1>7, <1>b, Zenon DEF tvars, chain
<1> QED
  BY <1>1, <1>2, <1>3, <1>4, <1>5, <1>6, <1>7, Zenon DEF TableNext, Insert

\* The bucket lookup answers from, when the table holds the key.
LEMMA LookupAt ==
    ASSUME TableInv, NEW k \in Keys, Matching(k) # {}
    PROVE  \E i \in {H1(k), H2(k)} : /\ i \in Index /\ Matching(k) = {i}
                                     /\ IsLive(buckets[i], k) /\ Lookup(k) = buckets[i].body
<1> DEFINE i == FirstOf(Matching(k), k)
<1>1. i \in {H1(k), H2(k)} /\ i \in Index /\ IsLive(buckets[i], k) /\ Lookup(k) = buckets[i].body
  BY FirstOfIn, HashRange, SMTT(30) DEF Matching, Lookup
<1>2. Matching(k) = {i}
  <2> HIDE DEF i
  <2> QED
    BY <1>1, HashRange, Zenon DEF Matching, TableInv, OneCopy
<1> QED
  BY <1>1, <1>2, Zenon

\* Between calls lookup, which probes two buckets, finds all the table holds; of a key
\* it finds, get_fast and lookup_lock_free, which ignore tombstones, find the live copy.
THEOREM LookupSound == TableSpec => []LookupFinds
<1>1. TableInv /\ NoneBehind => LookupFinds
  <2> SUFFICES ASSUME TableInv, NoneBehind, hand = {}, NEW k \in Keys
               PROVE  /\ Lookup(k) = Contents(k)
                      /\ Lookup(k) # {} => /\ ReadBucketValue(k) = Lookup(k)
                                           /\ GetFast(k) = {Fast(Lookup(k))}
    BY Zenon DEF LookupFinds, Idle
  <2>1. Contents(k) = Stored(k)
    BY Zenon DEF Contents, InHand
  <2>2. CASE Matching(k) = {}
    <3>1. \A j \in Index : ~IsLive(buckets[j], k)
      BY <2>2, Zenon DEF Matching, TableInv, OneCopy
    <3> QED
      BY <2>1, <2>2, <3>1, Zenon DEF Lookup, Stored
  <2>3. CASE Matching(k) # {}
    <3>1. PICK i \in {H1(k), H2(k)} : i \in Index /\ IsLive(buckets[i], k) /\ Lookup(k) = buckets[i].body
      BY <2>3, LookupAt, Zenon
    <3>2. {j \in Index : IsLive(buckets[j], k)} = {i}
      BY <3>1 DEF TableInv, OneCopy
    <3>3. Stored(k) = buckets[i].body
      BY <3>2, Zenon DEF Stored
    <3>4. i \in MatchingFast(k) /\ (i # H1(k) => H1(k) \notin MatchingFast(k))
      BY <3>1, Zenon DEF MatchingFast, NoneBehind, IsLive
    <3>5. FirstOf(MatchingFast(k), k) = i
      BY <3>1, <3>4, Zenon DEF FirstOf
    <3> QED
      BY <2>1, <3>1, <3>3, <3>4, <3>5, Zenon DEF GetFast, ReadBucketValue
  <2> QED
    BY <2>2, <2>3, Zenon
<1>2. ASSUME TableInit PROVE NoneBehind
  <2>1. \A k \in Keys : buckets[H1(k)].key = NoKey
    BY <1>2, HashRange, Zenon DEF TableInit, FreeBucket
  <2> QED
    BY <2>1, TableAssumption, Zenon DEF NoneBehind
<1> QED
  BY <1>1, <1>2, InitTable, TableStep, NoneBehindStep, PTL DEF TableSpec

\* What ClientReader::get finds at a candidate of a key it can read.
LEMMA ReadAtIs ==
    ASSUME TableInv, NEW k \in Keys, NEW L, NEW region, NEW i \in Index
    PROVE  ReadAt(Memory(L, 0), i, k, region) =
             IF i \in L \/ ~IsLive(buckets[i], k) \/ Unreadable(buckets[i].body, region)
             THEN {} ELSE buckets[i].body
<1>1. Memory(L, 0).bs[i] = [key |-> buckets[i].key, body |-> buckets[i].body,
                            tombstone |-> buckets[i].tombstone, locked |-> i \in L]
  BY Zenon DEF Memory
<1>2. Memory(L, 0).bs[i].body = buckets[i].body
  BY <1>1
<1>3. Memory(L, 0).bs[i].key = buckets[i].key
      /\ (Memory(L, 0).bs[i].tombstone <=> buckets[i].tombstone)
  BY <1>1, SMTT(30)
<1>4. Memory(L, 0).bs[i].locked <=> i \in L
  <2> DEFINE b == i \in L
  <2>1. Memory(L, 0).bs[i].locked = b
    <3> HIDE DEF b
    <3>1. Memory(L, 0).bs[i] = [key |-> buckets[i].key, body |-> buckets[i].body,
                                tombstone |-> buckets[i].tombstone, locked |-> b]
      BY <1>1, Zenon DEF b
    <3> QED
      BY <3>1, SMTT(30)
  <2> QED
    BY <2>1, Zenon
<1> HIDE DEF Memory
<1> QED
  BY <1>2, <1>3, <1>4, Zenon DEF ReadAt, IsLive

\* ClientReader::get, over the buckets of a table of any even size, agrees with the
\* server's lookup, whichever bucket is locked and whichever extents can be read.
THEOREM ReaderAlwaysAgrees == TableSpec => []ReaderAgrees
<1>1. TableInv => ReaderAgrees
  <2> SUFFICES ASSUME TableInv, NEW k \in Keys, ValidKey(k), NEW L \in Locks, NEW region \in SUBSET ExtentValues
               PROVE  ClientGet(Memory(L, 0), k, region) =
                        IF Matching(k) \subseteq L \/ Unreadable(Lookup(k), region)
                        THEN {} ELSE Lookup(k)
    BY Zenon DEF ReaderAgrees
  <2> DEFINE R(i) == ReadAt(Memory(L, 0), i, k, region)
             Hits == {i \in {H1(k), H2(k)} : R(i) # {}}
  <2>1. ClientGet(Memory(L, 0), k, region) = IF Hits = {} THEN {} ELSE R(FirstOf(Hits, k))
    BY Zenon DEF ClientGet
  <2>2. \A i \in {H1(k), H2(k)} :
            R(i) = IF i \in L \/ i \notin Matching(k) \/ Unreadable(buckets[i].body, region)
                   THEN {} ELSE buckets[i].body
    BY ReadAtIs, HashRange, SMTT(30) DEF Matching
  <2> HIDE DEF R
  <2>3. CASE Matching(k) = {}
    BY <2>1, <2>2, <2>3, Zenon
  <2>4. CASE Matching(k) # {}
    <3>1. PICK i \in {H1(k), H2(k)} : Matching(k) = {i} /\ Lookup(k) = buckets[i].body
      BY <2>4, LookupAt, Zenon
    <3>2. \A j \in {H1(k), H2(k)} : j # i => R(j) = {}
      BY <2>2, <3>1, Zenon
    <3>3. CASE R(i) = {}
      <4>1. Hits = {}
        BY <3>2, <3>3, Zenon
      <4> QED
        BY <2>1, <2>2, <3>1, <3>3, <4>1, Zenon
    <3>4. CASE R(i) # {}
      <4>1. Hits = {i}
        BY <3>1, <3>2, <3>4, Zenon
      <4>2. FirstOf(Hits, k) = i
        BY <3>1, <4>1, Zenon DEF FirstOf
      <4> HIDE DEF Hits
      <4>3. ClientGet(Memory(L, 0), k, region) = R(i)
        BY <2>1, <4>1, <4>2, Zenon
      <4> QED
        BY <2>2, <3>1, <3>4, <4>3, Zenon
    <3> QED
      BY <3>3, <3>4, Zenon
  <2> QED
    BY <2>3, <2>4, Zenon
<1> QED
  BY <1>1, InitTable, TableStep, PTL DEF TableSpec

\* The abstract map as a function of the table, and how a write shows in it.
AbstractMap == [k \in Keys |-> Contents(k)]

LEMMA WrittenMap ==
    ASSUME NEW k \in Keys, NEW b, Written(k, b)
    PROVE  AbstractMap' = [AbstractMap EXCEPT ![k] = b]
BY Zenon DEF Written, AbstractMap

\* Every step of the table is a step of the map, or none.
LEMMA MapStep ==
    TableInv /\ [TableNext]_tvars => [Map!KNext]_(Map!kvars)
<1> SUFFICES ASSUME TableInv, [TableNext]_tvars PROVE [Map!KNext]_(Map!kvars)
    BY Zenon
<1>1. ASSUME NEW k \in Keys, NEW v \in Values, Insert(k, v) PROVE Map!KNext
  <2>1. Idle /\ Written(k, {v}) /\ result' = "Ok"
    BY <1>1, InsertOverwriteInv, InsertVacantInv, InsertKickInv, Zenon
       DEF Insert, InsertOverwrite, InsertVacant, InsertKick
  <2>2. AbstractMap' = [AbstractMap EXCEPT ![k] = {v}]
    BY <2>1, WrittenMap, Zenon
  <2>3. (~Idle)' \in BOOLEAN
    BY Zenon DEF Idle
  <2>4. Map!Put(k, v)
    BY <2>1, <2>2, <2>3, Zenon DEF Map!Put, AbstractMap
  <2> QED
    BY <2>4, Zenon DEF Map!KNext
<1>2. ASSUME NEW p \in hand, KickLast(p) \/ KickOn(p) PROVE [Map!KNext]_(Map!kvars)
  <2>1. \A m \in Keys : Contents(m)' = Contents(m)
    BY <1>2, KickLastInv, KickOnInv, Zenon
  <2>2. AbstractMap' = AbstractMap /\ ~Idle
    BY <2>1, Zenon DEF AbstractMap, Idle
  <2>3. CASE KickLast(p)
    BY <2>2, <2>3, Zenon DEF KickLast, ChainReturns, Map!KNext, Map!PutDone, Idle, AbstractMap
  <2>4. CASE KickOn(p)
    <3>1. ~Idle' /\ result' = result
      BY <2>4, Zenon DEF KickOn, Idle
    <3> QED
      BY <2>2, <3>1, Zenon DEF Map!kvars, AbstractMap
  <2> QED
    BY <1>2, <2>3, <2>4, Zenon
<1>3. ASSUME TableFull PROVE Map!KNext
  <2>1. PICK p \in hand : TRUE
    BY <1>3, Zenon DEF TableFull, Idle
  <2>2. p.key \in Keys /\ Written(p.key, {})
    BY <1>3, <2>1, TableFullInv, Zenon
  <2>3. AbstractMap' = [AbstractMap EXCEPT ![p.key] = {}]
    BY <2>2, WrittenMap, Zenon
  <2>4. ~Idle /\ Idle' /\ result' = "TableFull"
    BY <1>3, Zenon DEF TableFull, ChainReturns, Idle
  <2>5. Map!PutFull(p.key)
    BY <2>3, <2>4, Zenon DEF Map!PutFull, AbstractMap
  <2> QED
    BY <2>2, <2>5, Zenon DEF Map!KNext
<1>4. ASSUME NEW k \in Keys, Delete(k) PROVE Map!KNext
  <2>1. AbstractMap' = [AbstractMap EXCEPT ![k] = {}]
    BY <1>4, DeleteInv, WrittenMap, Zenon
  <2>2. Idle /\ Idle' /\ result' = "Ok"
    BY <1>4, Zenon DEF Delete, Idle, chain
  <2>3. Map!Remove(k)
    BY <2>1, <2>2, Zenon DEF Map!Remove, AbstractMap
  <2> QED
    BY <2>3, Zenon DEF Map!KNext
<1>5. ASSUME UNCHANGED tvars PROVE UNCHANGED Map!kvars
  BY <1>5, Zenon DEF tvars, chain, Map!kvars, Contents, Stored, InHand, Idle
<1> QED
  BY <1>1, <1>2, <1>3, <1>4, <1>5, Zenon DEF TableNext

\* The cuckoo table implements the map: an insert stores its pair and disturbs no
\* other key unless it returns TableFull, and then it costs at most one key.
THEOREM TableImplementsMap == TableSpec => ImplementsMap
<1>1. TableInit => Map!KInit
  <2> SUFFICES ASSUME TableInit PROVE Map!KInit
    BY Zenon
  <2>1. \A i \in Index, k \in Keys : ~IsLive(buckets[i], k)
    BY TableAssumption, Zenon DEF TableInit, IsLive, FreeBucket
  <2>2. \A k \in Keys : Contents(k) = {}
    BY <2>1, Zenon DEF TableInit, Contents, Stored, InHand
  <2> QED
    BY <2>2, Zenon DEF TableInit, Idle, Map!KInit
<1> QED
  BY <1>1, InitTable, TableStep, MapStep, PTL DEF TableSpec, ImplementsMap, Map!KSpec
=============================================================================
