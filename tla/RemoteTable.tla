----------------------------- MODULE RemoteTable -----------------------------
(***************************************************************************)
(* Clients that work on the server's table and extent space through one    *)
(* sided operations: insert_remote and try_insert_remote_at                *)
(* (src/client/write.rs), get_remote (src/client/read.rs), and the shared  *)
(* bump allocator those inserts use (also DistributedExtentAllocator,      *)
(* src/engine/extent.rs).                                                  *)
(*                                                                         *)
(* One transport call is one step.  The transport is external: READ and    *)
(* WRITE of one bucket (a cache line) are atomic, CAS is atomic on its     *)
(* word, any call may fail.  A failed call returns from the insert, which  *)
(* is also what a crash of the client looks like from the server.          *)
(***************************************************************************)
EXTENDS Integers

CONSTANTS
    Clients,
    Keys,           \* records [lo, hi, digest]: the halves of the hash, the digest
    Values,
    Modes,          \* the modes inserts use: subset of {"inline", "extent"}
    BucketCount,
    LockedBuckets,  \* the sets of buckets whose locks dead local writers may have left set
    ExtentTotal,    \* extent_total of the values: all have one length
    Magic,          \* what the first word of an extent header reads as
    RegionLen,      \* calls beyond this offset of the free list region fail
    MaxInserts      \* bound: inserts of one behaviour

NoKey == [lo |-> 0, hi |-> 0, digest |-> 0]
NoVal == [for |-> NoKey, v |-> "none"]
Index == 0 .. BucketCount - 1

ASSUME RemoteAssumption ==
    /\ BucketCount \in Nat \ {0} /\ BucketCount % 2 = 0 /\ LockedBuckets \subseteq SUBSET Index
    /\ Modes \subseteq {"inline", "extent"}
    /\ \A k \in Keys : k.lo \in Nat /\ k.hi \in Nat /\ k.lo + k.hi > 0
    /\ {ExtentTotal, Magic, RegionLen, MaxInserts} \subseteq Nat
    /\ ExtentTotal > 0

VARIABLES
    word,       \* lock_version of each bucket: [locked, tomb, mode]
    body,       \* the rest of each bucket: [key, val, off] (val or extent offset)
    bump,       \* FreeListHeader::bump_offset
    extent,     \* offset -> what was written there: [hdr, data, sum]
    pc, op,     \* each client: where it is, and its call [key, val, mode]
    slot,       \* the bucket it works on: "h1" or "h2"
    seen,       \* the word it read there
    off,        \* the offset it read or reserved
    inserts,    \* number of inserts so far
    reserved,   \* history: every successful reservation of space
    acked,      \* history: [key, idx] of each insert reported and not deleted since
    got,        \* what a client's last get returned: {} is None, else {[key, mode, val]}
    due         \* history: where that get's key was settled when it began: [at, mode, val]

table == <<word, body>>
space == <<bump, extent>>
local == <<pc, op, slot, seen, off>>
history == <<inserts, reserved, acked, got, due>>
vars == <<table, space, local, history>>

Odd(n) == n - (n % 2) + 1
H1(k) == k.lo % BucketCount
H2(k) == Odd(k.hi % BucketCount)

Place(k, s) == IF s = "h1" THEN H1(k) ELSE H2(k)
Addr(c) == Place(op[c].key, slot[c])

Word(mode) == [locked |-> FALSE, tomb |-> FALSE, mode |-> mode]
HasHash(b) == b.key.lo + b.key.hi # 0
IsEmpty(i) == ~HasHash(body[i]) /\ ~word[i].tomb

MatchesKey(b, k) == b.key = k

\* Where an insert is that found its bucket free.
Working == {"bump", "reserve", "header", "payload", "checksum", "claim", "write"}

NoOp == [key |-> NoKey, val |-> NoVal, mode |-> "inline"]

Init ==
    /\ \E locked \in LockedBuckets :
          word = [i \in Index |-> [Word("inline") EXCEPT !.locked = i \in locked]]
    /\ body = [i \in Index |-> [key |-> NoKey, val |-> NoVal, off |-> 0]]
    /\ bump = 0
    /\ extent = [o \in {} |-> NoVal]
    /\ pc = [c \in Clients |-> "idle"]
    /\ op = [c \in Clients |-> NoOp]
    /\ slot = [c \in Clients |-> "h1"]
    /\ seen = [c \in Clients |-> Word("inline")]
    /\ off = [c \in Clients |-> 0]
    /\ inserts = 0 /\ reserved = {} /\ acked = {}
    /\ got = [c \in Clients |-> {}] /\ due = [c \in Clients |-> {}]

Goto(c, l) == pc' = [pc EXCEPT ![c] = l]

\* The call returns; its locals are gone.
Return(c) ==
    /\ Goto(c, "idle")
    /\ op' = [op EXCEPT ![c] = NoOp]
    /\ slot' = [slot EXCEPT ![c] = "h1"]
    /\ seen' = [seen EXCEPT ![c] = Word("inline")]
    /\ off' = [off EXCEPT ![c] = 0]

\* Ok(false) at h1 goes on with h2; at h2 the table is full.
NextSlot(c) ==
    IF slot[c] = "h1"
    THEN /\ slot' = [slot EXCEPT ![c] = "h2"] /\ Goto(c, "read")
         /\ UNCHANGED <<op, seen, off>>
    ELSE Return(c)

(***************************************************************************)
(* insert_remote                                                           *)
(***************************************************************************)
InsertRemote(c) ==
    /\ pc[c] = "idle" /\ inserts < MaxInserts
    /\ \E k \in Keys, v \in Values, m \in Modes :
          op' = [op EXCEPT ![c] = [key |-> k, val |-> [for |-> k, v |-> v], mode |-> m]]
    /\ Goto(c, "read")
    /\ inserts' = inserts + 1
    /\ got' = [got EXCEPT ![c] = {}] /\ due' = [due EXCEPT ![c] = {}]
    /\ UNCHANGED <<table, space, slot, seen, off, reserved, acked>>

ReadBucket(c) ==
    /\ pc[c] = "read"
    /\ LET i == Addr(c)
       IN  IF ~word[i].locked /\ (IsEmpty(i) \/ word[i].tomb)
           THEN /\ seen' = [seen EXCEPT ![c] = word[i]]
                /\ Goto(c, IF op[c].mode = "inline" THEN "claim" ELSE "bump")
                /\ UNCHANGED <<op, slot, off>>
           ELSE NextSlot(c)
    /\ UNCHANGED <<table, space, history>>

ReadBump(c) ==
    /\ pc[c] = "bump"
    /\ off' = [off EXCEPT ![c] = bump]
    /\ Goto(c, "reserve")
    /\ UNCHANGED <<table, space, op, slot, seen, history>>

Reservation(c) == [by |-> c, slot |-> slot[c], n |-> inserts, at |-> off[c]]

\* A bug: the bump offset is written, not compared and swapped.
MutCasBump(c) ==
    /\ pc[c] = "reserve"
    /\ bump' = off[c] + ExtentTotal
    /\ reserved' = reserved \cup {Reservation(c)}
    /\ Goto(c, "header")
    /\ UNCHANGED <<op, slot, seen, off, table, extent, inserts, acked, got, due>>

\* The word swapped is the first word of the region, and so of the header at offset 0:
\* see HeaderAt.
CasBump(c) ==
    /\ pc[c] = "reserve"
    /\ IF bump = off[c]
       THEN /\ bump' = off[c] + ExtentTotal
            /\ reserved' = reserved \cup {Reservation(c)}
            /\ Goto(c, "header")
            /\ UNCHANGED <<op, slot, seen, off>>
       ELSE /\ Return(c)                                \* Err(CasFailed)
            /\ UNCHANGED <<bump, reserved>>
    /\ UNCHANGED <<table, extent, inserts, acked, got, due>>

InRegion(c) == off[c] + ExtentTotal <= RegionLen
ExtentAt(o) == IF o \in DOMAIN extent THEN extent[o] ELSE [hdr |-> FALSE, data |-> NoVal, sum |-> NoVal]

\* The header at o as a reader finds it.  At offset 0 its first word, magic and version,
\* is the bump word, which the next reservation moves on.
HeaderAt(o) == ExtentAt(o).hdr /\ (o = 0 => bump = Magic)

WriteExtent(o, e) == extent' = [x \in DOMAIN extent \cup {o} |-> IF x = o THEN e ELSE extent[x]]

\* The header, checksum zero, goes to free_list_vaddr + offset; the bump word is
\* the first word of that region.
WriteHeader(c) ==
    /\ pc[c] = "header" /\ InRegion(c)
    /\ WriteExtent(off[c], [hdr |-> TRUE, data |-> ExtentAt(off[c]).data, sum |-> NoVal])
    /\ bump' = IF off[c] = 0 THEN Magic ELSE bump
    /\ Goto(c, "payload")
    /\ UNCHANGED <<table, op, slot, seen, off, history>>

\* A bug: the payload is not waited for before the slot is claimed.
MutWritePayload(c) ==
    /\ pc[c] = "payload" /\ InRegion(c)
    /\ Goto(c, "claim")
    /\ UNCHANGED <<table, space, op, slot, seen, off, history>>

WritePayload(c) ==
    /\ pc[c] = "payload" /\ InRegion(c)
    /\ WriteExtent(off[c], [ExtentAt(off[c]) EXCEPT !.data = op[c].val])
    /\ Goto(c, "checksum")
    /\ UNCHANGED <<table, bump, op, slot, seen, off, history>>

WriteChecksum(c) ==
    /\ pc[c] = "checksum" /\ InRegion(c)
    /\ WriteExtent(off[c], [ExtentAt(off[c]) EXCEPT !.sum = op[c].val])
    /\ Goto(c, "claim")
    /\ UNCHANGED <<table, bump, op, slot, seen, off, history>>

\* The new word is the mode alone: no lock bit, no version.
CasSlot(c) ==
    /\ pc[c] = "claim"
    /\ LET i == Addr(c)
       IN  IF word[i] = seen[c]
           THEN /\ word' = [word EXCEPT ![i] = Word(op[c].mode)]
                /\ Goto(c, "write")
                /\ UNCHANGED <<op, slot, seen, off>>
           ELSE NextSlot(c) /\ UNCHANGED word
    /\ UNCHANGED <<body, space, history>>

\* The whole bucket is written, the word included.
WriteBucket(c) ==
    /\ pc[c] = "write"
    /\ LET i == Addr(c)
           o == op[c]
       IN  /\ word' = [word EXCEPT ![i] = Word(o.mode)]
           /\ body' = [body EXCEPT ![i] =
                 IF o.mode = "inline" THEN [key |-> o.key, val |-> o.val, off |-> 0]
                 ELSE [key |-> o.key, val |-> NoVal, off |-> off[c]]]
           /\ acked' = acked \cup {[key |-> o.key, idx |-> i]}
    /\ Return(c)
    /\ UNCHANGED <<space, inserts, reserved, got, due>>

\* A transport call fails, or the client dies; what it wrote stays.
Fail(c) ==
    /\ pc[c] # "idle"
    /\ Return(c)
    /\ due' = [due EXCEPT ![c] = {}]
    /\ UNCHANGED <<table, space, inserts, reserved, acked, got>>

(***************************************************************************)
(* get_remote                                                              *)
(***************************************************************************)
\* The key is in the bucket, and no insert that judged the bucket free is still at work.
Resting(k, i) ==
    /\ body[i].key = k /\ ~word[i].locked /\ ~word[i].tomb
    /\ \A c \in Clients : pc[c] \in Working => Addr(c) # i

GetRemote(c) ==
    /\ pc[c] = "idle"
    /\ \E k \in Keys :
          /\ op' = [op EXCEPT ![c] = [NoOp EXCEPT !.key = k]]
          /\ due' = [due EXCEPT ![c] =
                {[at |-> s, mode |-> word[Place(k, s)].mode, val |-> body[Place(k, s)].val] :
                   s \in {s \in {"h1", "h2"} : Resting(k, Place(k, s))}}]
    /\ Goto(c, "probe")
    /\ got' = [got EXCEPT ![c] = {}]
    /\ UNCHANGED <<table, space, slot, seen, off, inserts, reserved, acked>>

Answer(c, m, w) == got' = [got EXCEPT ![c] = {[key |-> op[c].key, mode |-> m, val |-> w]}]

Hits(c) == ~word[Addr(c)].locked /\ MatchesKey(body[Addr(c)], op[c].key)

\* A match is an inline value or the place of an extent to read next.
ProbeHit(c) ==
    IF word[Addr(c)].mode = "inline"
    THEN Answer(c, "inline", body[Addr(c)].val) /\ Return(c)
    ELSE /\ off' = [off EXCEPT ![c] = body[Addr(c)].off]
         /\ Goto(c, "extent")
         /\ UNCHANGED <<op, slot, seen, got>>

\* A bug: a first bucket that another key took ends the get.
MutProbe(c) ==
    /\ pc[c] = "probe"
    /\ IF Hits(c) THEN ProbeHit(c)
       ELSE IF slot[c] = "h1" /\ ~HasHash(body[Addr(c)])
            THEN slot' = [slot EXCEPT ![c] = "h2"] /\ UNCHANGED <<pc, op, seen, off, got>>
            ELSE Return(c) /\ UNCHANGED got
    /\ UNCHANGED <<table, space, inserts, reserved, acked, due>>

\* Ok(None) after the second bucket.
Probe(c) ==
    /\ pc[c] = "probe"
    /\ IF Hits(c) THEN ProbeHit(c)
       ELSE IF slot[c] = "h1"
            THEN slot' = [slot EXCEPT ![c] = "h2"] /\ UNCHANGED <<pc, op, seen, off, got>>
            ELSE Return(c) /\ UNCHANGED got
    /\ UNCHANGED <<table, space, inserts, reserved, acked, due>>

\* What a READ of the large object region finds: extract_value reads it at the offset an
\* insert reserved in the free list region.  The server's own LargeObjectRegion lies
\* there, with values of any key, or nothing yet.
LargeObject == {NoVal} \cup [for : Keys, v : Values]

ReadExtent(c) ==
    /\ pc[c] = "extent"
    /\ \E w \in LargeObject : Answer(c, "extent", w)
    /\ Return(c)
    /\ UNCHANGED <<table, space, inserts, reserved, acked, due>>

\* CuckooTable::delete on the server: the tombstone bit of the key's bucket is set.
Delete(k) ==
    /\ \E i \in {H1(k), H2(k)} :
          /\ body[i].key = k /\ ~word[i].tomb
          /\ i = H2(k) => ~(body[H1(k)].key = k /\ ~word[H1(k)].tomb)
          /\ word' = [word EXCEPT ![i].tomb = TRUE]
          /\ acked' = {a \in acked : a.idx # i}
    /\ due' = [c \in Clients |-> IF op[c].key = k THEN {} ELSE due[c]]
    /\ UNCHANGED <<body, space, local, inserts, reserved, got>>

InsertStep(c) ==
    \/ InsertRemote(c) \/ ReadBucket(c) \/ ReadBump(c) \/ CasBump(c) \/ WriteHeader(c)
    \/ WritePayload(c) \/ WriteChecksum(c) \/ CasSlot(c) \/ WriteBucket(c) \/ Fail(c)
GetStep(c) == GetRemote(c) \/ Probe(c) \/ ReadExtent(c)

Next ==
    \/ \E c \in Clients : InsertStep(c)
    \/ \E k \in Keys : Delete(k)
NextWithGets == Next \/ \E c \in Clients : GetStep(c)

Spec == Init /\ [][Next]_vars
GetSpec == Init /\ [][NextWithGets]_vars

-----------------------------------------------------------------------------
\* Every variable has its type.
TypeOK ==
    /\ \A i \in Index : word[i].mode \in Modes \cup {"inline"} /\ body[i].key \in Keys \cup {NoKey}
    /\ bump \in Nat
    /\ \A c \in Clients : slot[c] \in {"h1", "h2"} /\ off[c] \in Nat /\ Addr(c) \in Index
    /\ \A a \in acked : a.idx \in {H1(a.key), H2(a.key)}

\* The shared bump allocator gives no byte to two inserts, however their READs and
\* CASes interleave and wherever they fail.
ReservationsDisjoint ==
    \A r, s \in reserved : r # s =>
        r.at + ExtentTotal <= s.at \/ s.at + ExtentTotal <= r.at

\* An extent is complete before a bucket points to it: header, payload and a checksum
\* of that payload, written for the key of the bucket, whatever failed before.  (The
\* bucket's own bytes say so; its mode bit is already the next writer's after a claim.)
\* The header at offset 0 is not asked for: FirstHeaderKept.
PublishedComplete ==
    \A i \in Index : HasHash(body[i]) /\ body[i].val = NoVal =>
        LET e == ExtentAt(body[i].off)
        IN  (body[i].off = 0 \/ HeaderAt(body[i].off)) /\ e.data.for = body[i].key /\ e.sum = e.data

\* A get whose key is settled in a bucket when it begins, and not deleted meanwhile,
\* never answers None, and with the key in the first bucket it answers the inline value
\* there, though inserts claim and rewrite buckets under it.
SettledIsRead ==
    \A c \in Clients : \A d \in due[c] :
        \/ pc[c] \in {"probe", "extent"}
        \/ \E g \in got[c] : d.at = "h1" /\ d.mode = "inline" => g.val = d.val

\* "Magic constant: EXTENT_MAGIC": the header of a published extent stays readable.
FirstHeaderKept ==
    \A i \in Index : HasHash(body[i]) /\ body[i].val = NoVal => HeaderAt(body[i].off)

\* A get returns only a value that some insert wrote for that very key.
GetSound == \A c \in Clients : \A g \in got[c] : g.val.for = g.key

\* "uses CAS to claim the slot": an insert that reported Inserted has its key in that
\* bucket until the key is deleted.
InsertedIsThere == \A a \in acked : body[a.idx].key = a.key

\* "Initialized to 0; advanced by extent_total(data_len) on each allocation".
BumpAdvances == [][bump' # bump => bump' = bump + ExtentTotal]_vars
=============================================================================
