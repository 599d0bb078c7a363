----------------------------- MODULE LocalClient -----------------------------
(***************************************************************************)
(* The clients that change a slice of the server's buckets in process:     *)
(* ClientWriter::insert (src/client/write.rs) and BatchBuilder             *)
(* (src/client/opt.rs), on the memory of ClientReader.                     *)
(*                                                                         *)
(* A call holds the slice from start to end, so each is an operator from   *)
(* the memory it is given to the memory it leaves.                         *)
(***************************************************************************)
EXTENDS ClientReader, Sequences, FiniteSets

SeqExt == INSTANCE SequencesExt

ClientSlot(k, body) == [key |-> k, body |-> body, tombstone |-> FALSE, locked |-> FALSE]

\* is_empty or is_tombstone: a key whose hash is zero looks empty.
Reusable(b) == b.key = NoKey \/ b.tombstone \/ ~ValidKey(b.key)

(***************************************************************************)
(* ClientWriter                                                            *)
(***************************************************************************)
Outcome(m, status, at) == [m |-> m, status |-> status, at |-> at]

\* region.allocate succeeds, or is not called for.
Storable(m, v) == v \notin ExtentValues \/ m.room > 0

Store(m, i, k, v) ==
    [bs |-> [m.bs EXCEPT ![i] = ClientSlot(k, {v})],
     room |-> IF v \in ExtentValues THEN m.room - 1 ELSE m.room]

\* write_to_bucket_internal sets the key and the mode before it allocates.
StoreTorn(m, i, k) == [m EXCEPT !.bs[i] = ClientSlot(k, {Torn})]

\* try_insert_at takes the bucket.
Available(b) == ~b.locked /\ Reusable(b)

Kicking(m, k, v, i) == [m |-> m, key |-> k, value |-> v, idx |-> i, status |-> "kicking", at |-> i]

\* One round of kick_chain.  Only the cur_idx bucket is asked for its lock.
Round(s) ==
    LET occ == s.m.bs[s.idx]
        value == CHOOSE v \in occ.body : TRUE
        alt == Alternate(occ.key, s.idx)
        placed == Store(s.m, s.idx, s.key, s.value)
    IN  CASE occ.locked \/ IsExtent(occ.body) -> [s EXCEPT !.status = "TableFull"]
          [] ~Storable(s.m, s.value) -> [s EXCEPT !.m = StoreTorn(s.m, s.idx, s.key), !.status = "Err"]
          [] Reusable(placed.bs[alt]) ->
                [s EXCEPT !.m = Store(placed, alt, occ.key, value), !.status = "Inserted", !.at = alt]
          [] OTHER -> Kicking(placed, occ.key, value, alt)

\* At most MaxKick rounds; a chain still kicking after them is TableFull.
KickChain(m, k, v) ==
    LET Go(s, n) == IF s.status = "kicking" THEN Round(s) ELSE s
        end == SeqExt!FoldLeft(Go, Kicking(m, k, v, H1(k)), [n \in 1 .. MaxKick |-> n])
    IN  Outcome(end.m, IF end.status = "kicking" THEN "TableFull" ELSE end.status, end.at)

\* A bug: the bucket is filled in before its extent is allocated.
MutClientInsert(m, k, v) ==
    LET Open == {i \in {H1(k), H2(k)} : Available(m.bs[i])}
        i == FirstOf(Open, k)
    IN  CASE Open = {} -> KickChain(m, k, v)
          [] Storable(m, v) -> Outcome(Store(m, i, k, v), "Inserted", i)
          [] OTHER -> Outcome(StoreTorn(m, i, k), "Err", i)

\* No search for a copy the table already holds, no test of the hash.
ClientInsert(m, k, v) ==
    LET Open == {i \in {H1(k), H2(k)} : Available(m.bs[i])}
        i == FirstOf(Open, k)
    IN  CASE Open = {} -> KickChain(m, k, v)
          [] Storable(m, v) -> Outcome(Store(m, i, k, v), "Inserted", i)
          [] OTHER -> Outcome(m, "Err", i)

(***************************************************************************)
(* BatchBuilder: add never refuses, flush_local drains every entry and     *)
(* counts those that were inserted.                                        *)
(***************************************************************************)
Entry(k, v) == [key |-> k, value |-> v]

FlushLocal(m, batch) ==
    LET Go(a, e) == LET r == ClientInsert(a.m, e.key, e.value)
                    IN  [m |-> r.m, success |-> a.success + IF r.status = "Inserted" THEN 1 ELSE 0]
    IN  SeqExt!FoldLeft(Go, [m |-> m, success |-> 0], batch)

-----------------------------------------------------------------------------
\* What a reader of an intact region finds once the locks are gone.
Unlocked(m) == [m EXCEPT !.bs = [i \in Index |-> [m.bs[i] EXCEPT !.locked = FALSE]]]
Found(m, k) == ClientGet(Unlocked(m), k, ExtentValues \cup {Torn})
FreshKeys == {k \in Keys : ValidKey(k) /\ Lookup(k) = {}}

\* A client insert of a key the table does not hold, whatever is locked and
\* however much room the region has: Inserted stores the pair and disturbs no
\* other key; TableFull and Err cost at most one stored key, no key is ever left
\* with another value, and an Err for want of an extent leaves the memory as it
\* was if one of the two buckets was free.
InsertSafe ==
    \A L \in Locks, room \in 0 .. 1, k \in FreshKeys, v \in Values :
        LET m == Memory(L, room)
            r == ClientInsert(m, k, v)
            Lost == {x \in Keys \ {k} : Found(r.m, x) # Found(m, x)}
        IN  /\ r.status = "Inserted" => Found(r.m, k) = {v} /\ Lost = {}
            /\ Cardinality(Lost) <= 1
            /\ \A x \in Lost : Found(r.m, x) = {}
            /\ r.status = "Err" /\ (\E i \in {H1(k), H2(k)} : Available(m.bs[i])) => r.m = m

\* flush_local's count is honest: after a batch of new keys (with room for their
\* extents), the entries and the older keys that cannot be read back are no more
\* than the entries it does not count, although a later entry may displace an
\* earlier one.
BatchHonest ==
    \A L \in Locks, a, b \in FreshKeys, v, w \in Values :
        a # b =>
            LET m == Memory(L, 2)
                r == FlushLocal(m, <<Entry(a, v), Entry(b, w)>>)
                Due(x) == IF x = a THEN {v} ELSE IF x = b THEN {w} ELSE Found(m, x)
            IN  Cardinality({x \in Keys : Found(r.m, x) # Due(x)}) <= 2 - r.success

\* Neither insert nor flush_local loses or mixes up more than it reports.
ClientInsertSafe == Idle => InsertSafe /\ BatchHonest

\* Inserted names "the index of the bucket where the key was placed".
ReportedBucket ==
    Idle => \A k \in FreshKeys, v \in Values :
        LET r == ClientInsert(Memory({}, 1), k, v)
        IN  r.status = "Inserted" => r.m.bs[r.at].key = k

\* A bucket another client has locked is not written.
LockRespected ==
    Idle => \A L \in Locks, k \in FreshKeys, v \in Values :
        LET m == Memory(L, 1) IN \A i \in L : ClientInsert(m, k, v).m.bs[i] = m.bs[i]

\* The value of an insert that was reported Inserted is the one read back, also
\* when the table held the key before.
LatestInsertRead ==
    Idle => \A k \in {x \in Keys : ValidKey(x)}, v \in Values :
        LET r == ClientInsert(Memory({}, 1), k, v)
        IN  r.status = "Inserted" => Found(r.m, k) = {v}

\* An insert that failed because its extent could not be allocated leaves no
\* entry for its key.
FailedInsertInvisible ==
    Idle => \A k \in FreshKeys, v \in Values :
        LET r == ClientInsert(Memory({}, 0), k, v)
        IN  r.status = "Err" => Found(r.m, k) = {}
=============================================================================
