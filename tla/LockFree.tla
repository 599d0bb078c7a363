------------------------------ MODULE LockFree ------------------------------
(***************************************************************************)
(* A CuckooTable shared by threads without a lock: insert_lock_free and    *)
(* lookup_lock_free (src/engine/cuckoo.rs), both on &self.  A bucket is    *)
(* read and written through plain loads and stores that race with those of *)
(* other threads, so every field is a step of its own and the fields of    *)
(* one access are taken in any order.                                      *)
(*                                                                         *)
(* The table was filled, and some of its keys deleted, before it was       *)
(* shared; nobody locks a bucket or deletes a key meanwhile.  The body of   *)
(* a bucket, and the mode that says what it is, are left out: neither      *)
(* insert nor lookup decides anything on them.                             *)
(***************************************************************************)
EXTENDS Integers

CONSTANTS
    Threads,
    SharedKeys,     \* records [lo, hi, digest]: the halves of the hash, the digest
    Slots,          \* the number of buckets, even
    MaxCalls        \* bound: calls of one behaviour

ASSUME LockFreeAssumption ==
    /\ Slots \in Nat \ {0} /\ Slots % 2 = 0 /\ MaxCalls \in Nat
    /\ \A k \in SharedKeys : k.lo \in Nat /\ k.hi \in Nat

VARIABLES
    slots,          \* the buckets: [word, hash, digest]
    tpc,            \* a thread: idle, loading or storing (insert), looking (lookup)
    job,            \* its call: [key, probe]
    todo,           \* the fields it has still to load or store
    copy,           \* the fields it has loaded
    claimed,        \* auxiliary: [key, at] of each insert that returned Ok
    present,        \* auxiliary: lookups that began with their key settled in the table
    calls           \* calls so far

thread == <<tpc, job, todo, copy>>
lvars == <<slots, thread, claimed, present, calls>>

NoHash == <<0, 0>>
Hash(k) == <<k.lo, k.hi>>
FirstSlot(k) == k.lo % Slots
SecondSlot(k) == LET i == k.hi % Slots IN i - (i % 2) + 1
At(t) == IF job[t].probe = 1 THEN FirstSlot(job[t].key) ELSE SecondSlot(job[t].key)

LiveWord == [locked |-> FALSE, tombstone |-> FALSE]
Bucket(word, k) == [word |-> word, hash |-> Hash(k), digest |-> k.digest]
Fields == {"word", "hash", "digest"}
EmptyBucket == [word |-> LiveWord, hash |-> NoHash, digest |-> 0]
NoJob == [key |-> [lo |-> 0, hi |-> 0, digest |-> 0], probe |-> 1]

\* Thread t works on bucket b and stores into it, or may yet find it free.
MayClaim(t, b) ==
    /\ tpc[t] \in {"loading", "storing"} /\ At(t) = b
    /\ \/ tpc[t] = "storing"
       \/ "word" \notin todo[t] /\ copy[t].word.tombstone
       \/ "hash" \notin todo[t] /\ copy[t].hash = NoHash

\* Bucket b holds a key and no insert is about to change that.
Settled(b) ==
    /\ slots[b].hash # NoHash /\ ~slots[b].word.tombstone /\ ~slots[b].word.locked
    /\ \A t \in Threads : ~MayClaim(t, b)

Matches(b, k) == b.hash = Hash(k) /\ b.digest = k.digest

\* A bucket is empty, found locked, or holds a key or a deleted key.
InitialBuckets ==
    {EmptyBucket, [EmptyBucket EXCEPT !.word.locked = TRUE]}
        \cup {Bucket(LiveWord, k) : k \in SharedKeys}
        \cup {Bucket([LiveWord EXCEPT !.tombstone = TRUE], k) : k \in SharedKeys}

LInit ==
    /\ slots \in [0 .. Slots - 1 -> InitialBuckets]
    /\ \A b \in 0 .. Slots - 1 : slots[b].hash # NoHash =>
            \E k \in SharedKeys : Hash(k) = slots[b].hash /\ b \in {FirstSlot(k), SecondSlot(k)}
    /\ \A b, c \in 0 .. Slots - 1 : b # c /\ slots[b].hash # NoHash =>
            <<slots[b].hash, slots[b].digest>> # <<slots[c].hash, slots[c].digest>>
    /\ tpc = [t \in Threads |-> "idle"] /\ job = [t \in Threads |-> NoJob]
    /\ todo = [t \in Threads |-> {}] /\ copy = [t \in Threads |-> EmptyBucket]
    /\ claimed = {} /\ present = {} /\ calls = 0

Go(t, pc, call, fields) ==
    /\ tpc' = [tpc EXCEPT ![t] = pc]
    /\ job' = [job EXCEPT ![t] = call]
    /\ todo' = [todo EXCEPT ![t] = fields]
    /\ copy' = [copy EXCEPT ![t] = EmptyBucket]

Leave(t) == Go(t, "idle", NoJob, {})

\* ptr.read() of the bucket, and the references lookup takes into it.
Load(t, f) ==
    /\ tpc[t] \in {"loading", "looking"} /\ f \in todo[t]
    /\ copy' = [copy EXCEPT ![t] = [@ EXCEPT ![f] = slots[At(t)][f]]]
    /\ todo' = [todo EXCEPT ![t] = @ \ {f}]
    /\ UNCHANGED <<slots, tpc, job, claimed, present, calls>>

(***************************************************************************)
(* insert_lock_free, try_cas_insert, write_bucket_raw                      *)
(***************************************************************************)

\* Err(InvalidKey) when the hash is zero.
InsertLockFree(t) ==
    /\ tpc[t] = "idle" /\ calls < MaxCalls /\ calls' = calls + 1
    /\ \E k \in {k \in SharedKeys : Hash(k) # NoHash} :
          Go(t, "loading", [key |-> k, probe |-> 1], {"word", "hash"})
    /\ UNCHANGED <<slots, claimed, present>>

\* A bug: a bucket with the hash of the key is taken for the key's own.
MutFree(t) ==
    /\ ~copy[t].word.locked
    /\ copy[t].word.tombstone \/ copy[t].hash = NoHash \/ copy[t].hash = Hash(job[t].key)

Free(t) == ~copy[t].word.locked /\ (copy[t].word.tombstone \/ copy[t].hash = NoHash)

\* The bucket was copied: store into it, or try the other one, or Err(TableFull).
TryCasInsert(t) ==
    /\ tpc[t] = "loading" /\ todo[t] = {}
    /\ CASE Free(t) -> Go(t, "storing", job[t], Fields)
         [] ~Free(t) /\ job[t].probe = 1 ->
              Go(t, "loading", [job[t] EXCEPT !.probe = 2], {"word", "hash"})
         [] ~Free(t) /\ job[t].probe = 2 -> Leave(t)
    /\ UNCHANGED <<slots, claimed, present, calls>>

WriteBucketRaw(t, f) ==
    /\ tpc[t] = "storing" /\ f \in todo[t]
    /\ slots' = [slots EXCEPT ![At(t)] = [@ EXCEPT ![f] = Bucket(LiveWord, job[t].key)[f]]]
    /\ todo' = [todo EXCEPT ![t] = @ \ {f}]
    /\ UNCHANGED <<tpc, job, copy, claimed, present, calls>>

InsertOk(t) ==
    /\ tpc[t] = "storing" /\ todo[t] = {}
    /\ claimed' = claimed \cup {[key |-> job[t].key, at |-> At(t)]}
    /\ Leave(t)
    /\ UNCHANGED <<slots, present, calls>>

(***************************************************************************)
(* lookup_lock_free                                                        *)
(***************************************************************************)
LookupLockFree(t) ==
    /\ tpc[t] = "idle" /\ calls < MaxCalls /\ calls' = calls + 1
    /\ \E k \in SharedKeys :
          /\ Go(t, "looking", [NoJob EXCEPT !.key = k], Fields)
          /\ present' = IF \E b \in {FirstSlot(k), SecondSlot(k)} : Settled(b) /\ Matches(slots[b], k)
                         THEN present \cup {t} ELSE present
    /\ UNCHANGED <<slots, claimed>>

Hit(t) == ~copy[t].word.locked /\ Matches(copy[t], job[t].key)

\* A bug: only the first bucket is searched.
MutLookupReturns(t) ==
    /\ tpc[t] = "looking" /\ todo[t] = {}
    /\ Leave(t) /\ present' = IF Hit(t) THEN present \ {t} ELSE present
    /\ UNCHANGED <<slots, claimed, calls>>

\* Some at the first match, None after the second bucket; the tombstone bit is not looked at.
LookupReturns(t) ==
    /\ tpc[t] = "looking" /\ todo[t] = {}
    /\ IF Hit(t) \/ job[t].probe = 2
       THEN Leave(t) /\ present' = IF Hit(t) THEN present \ {t} ELSE present
       ELSE Go(t, "looking", [job[t] EXCEPT !.probe = 2], Fields) /\ UNCHANGED present
    /\ UNCHANGED <<slots, claimed, calls>>

ThreadStep(t) ==
    \/ TryCasInsert(t) \/ InsertOk(t) \/ LookupReturns(t)
    \/ \E f \in Fields : Load(t, f) \/ WriteBucketRaw(t, f)

LNext == \E t \in Threads : InsertLockFree(t) \/ LookupLockFree(t) \/ ThreadStep(t)

\* Threads that are in a call keep running.
LSpec == LInit /\ [][LNext]_lvars /\ \A t \in Threads : WF_lvars(ThreadStep(t))

-----------------------------------------------------------------------------
\* Every variable has its type.
LTypeOK ==
    /\ DOMAIN slots = 0 .. Slots - 1 /\ calls \in 0 .. MaxCalls /\ present \subseteq Threads
    /\ \A t \in Threads : /\ tpc[t] \in {"idle", "loading", "storing", "looking"}
                          /\ todo[t] \subseteq Fields /\ At(t) \in DOMAIN slots

\* A key that no insert can overwrite any more stays for good: an insert that begins to
\* look at its bucket only now never takes it for free, whatever order it sees the
\* bucket's fields in (try_cas_insert decides on a copy made by plain loads).
SettledStays == [][\A b \in DOMAIN slots : Settled(b) => Settled(b)' /\ slots'[b] = slots[b]]_lvars

\* A lookup that begins with its key settled in the table finds the key, though inserts
\* run all the while.
PresentIsFound == \A t \in present : tpc[t] = "looking"

\* "All threads completed": an insert or lookup in a table under contention, with
\* buckets that stay locked, comes to its end (tests/stress/concurrency.rs).
CallsComplete == \A t \in Threads : tpc[t] # "idle" ~> tpc[t] = "idle"

\* "Thread-safe for concurrent writers": an insert that returned Ok has its key in the
\* bucket, unless another insert of the same bucket is still under way.
OkIsThere ==
    \A c \in claimed : Matches(slots[c.at], c.key) \/ \E t \in Threads : MayClaim(t, c.at)
=============================================================================
