----------------------------- MODULE CuckooTable -----------------------------
(***************************************************************************)
(* The cuckoo hash table of src/engine/cuckoo.rs: two candidate buckets    *)
(* per key, and a chain of displacements ("kicks") when both are taken.    *)
(*                                                                         *)
(* insert, delete and lookup hold the table (&mut self / &self), so they   *)
(* never interleave; one round of kick_chain's loop is a step of its own,  *)
(* with the pair in transit kept in hand, and no other call starts before  *)
(* the chain has returned.  A body is the set of at most one value, which  *)
(* stands for the 32 bytes and the mode bit.                               *)
(***************************************************************************)
EXTENDS Integers

CONSTANTS
    Keys,           \* records [lo, hi, digest]: the halves of the 64-bit hash
    Values,
    ExtentValues,   \* the values kept in an extent: the body is a reference to it
    BucketCount,
    MaxKick,
    NoKey           \* key_hash = 0

ASSUME TableAssumption ==
    /\ \A k \in Keys : k.lo \in Nat /\ k.hi \in Nat
    /\ NoKey \notin Keys
    /\ BucketCount \in Nat /\ BucketCount > 0 /\ BucketCount % 2 = 0
    /\ MaxKick \in Nat
    /\ ExtentValues \subseteq Values

VARIABLES
    buckets,        \* index -> bucket
    hand,           \* kick_chain: the set of at most one pair it has to place
    cur_idx,        \* kick_chain: where it goes
    kicks,          \* kick_chain: rounds done
    new_key,        \* auxiliary: the key the running insert was called for
    result          \* what the last call returned, Ok or TableFull

chain == <<hand, cur_idx, kicks, new_key>>
tvars == <<buckets, chain, result>>

Index == 0 .. BucketCount - 1
FreeBucket == [key |-> NoKey, body |-> {}, tombstone |-> FALSE]
Slot(k, body) == [key |-> k, body |-> body, tombstone |-> FALSE]
Pair(k, body) == [key |-> k, body |-> body]

H1(k) == k.lo % BucketCount

\* | 1 sets the lowest bit.
H2(k) == ((k.hi % BucketCount) \div 2) * 2 + 1

ValidKey(k) == k.lo # 0 \/ k.hi # 0

\* matches_key and not a tombstone
IsLive(b, k) == b.key = k /\ ~b.tombstone

\* is_empty or is_tombstone
Vacant(b) == b.key = NoKey \/ b.tombstone

TableInit ==
    /\ buckets = [i \in Index |-> FreeBucket]
    /\ hand = {} /\ cur_idx = 0 /\ kicks = 0 /\ new_key = NoKey
    /\ result = "Ok"

Idle == hand = {}

WriteSlot(i, k, v) == buckets' = [buckets EXCEPT ![i] = Slot(k, {v})]

\* The candidates of k that already hold it, and those it could be written to.
Matching(k) == {i \in {H1(k), H2(k)} : IsLive(buckets[i], k)}
Room(k) == {i \in {H1(k), H2(k)} : Vacant(buckets[i])}

\* h1 before h2.
FirstOf(S, k) == IF H1(k) \in S THEN H1(k) ELSE H2(k)

InsertOverwrite(k, v) ==
    /\ Idle /\ ValidKey(k)
    /\ Matching(k) # {}
    /\ WriteSlot(FirstOf(Matching(k), k), k, v)
    /\ result' = "Ok"
    /\ UNCHANGED chain

InsertVacant(k, v) ==
    /\ Idle /\ ValidKey(k)
    /\ Matching(k) = {} /\ Room(k) # {}
    /\ WriteSlot(FirstOf(Room(k), k), k, v)
    /\ result' = "Ok"
    /\ UNCHANGED chain

InsertKick(k, v) ==
    /\ Idle /\ ValidKey(k)
    /\ Matching(k) = {} /\ Room(k) = {}
    /\ hand' = {Pair(k, {v})} /\ cur_idx' = H1(k) /\ kicks' = 0 /\ new_key' = k
    /\ result' = "Ok"
    /\ UNCHANGED buckets

ChainReturns == hand' = {} /\ cur_idx' = 0 /\ kicks' = 0 /\ new_key' = NoKey

\* The bucket a displaced key goes to: the one it is not sitting in.
Alternate(k, i) == IF i = H1(k) THEN H2(k) ELSE H1(k)

\* What the current round displaces, and the table once the pair in hand is in.
Occupant == buckets[cur_idx]
Placed(p) == [buckets EXCEPT ![cur_idx] = Slot(p.key, p.body)]
NextIdx == Alternate(Occupant.key, cur_idx)

\* A bug: the last pair of a chain is dropped.
MutKickLast(p) ==
    /\ kicks < MaxKick
    /\ Vacant(Placed(p)[NextIdx])
    /\ buckets' = Placed(p)
    /\ result' = "Ok"
    /\ ChainReturns

KickLast(p) ==
    /\ kicks < MaxKick
    /\ Vacant(Placed(p)[NextIdx])
    /\ buckets' = [Placed(p) EXCEPT ![NextIdx] = Slot(Occupant.key, Occupant.body)]
    /\ result' = "Ok"
    /\ ChainReturns

KickOn(p) ==
    /\ kicks < MaxKick
    /\ ~Vacant(Placed(p)[NextIdx])
    /\ buckets' = Placed(p)
    /\ hand' = {Pair(Occupant.key, Occupant.body)}
    /\ cur_idx' = NextIdx /\ kicks' = kicks + 1
    /\ UNCHANGED <<new_key, result>>

\* Err(TableFull): the pair in hand is dropped, what was written stays.
TableFull ==
    /\ ~Idle /\ kicks = MaxKick
    /\ result' = "TableFull"
    /\ ChainReturns
    /\ UNCHANGED buckets

Delete(k) ==
    /\ Idle
    /\ Matching(k) # {}
    /\ buckets' = [buckets EXCEPT ![FirstOf(Matching(k), k)].tombstone = TRUE]
    /\ result' = "Ok"
    /\ UNCHANGED chain

Insert(k, v) == InsertOverwrite(k, v) \/ InsertVacant(k, v) \/ InsertKick(k, v)

TableNext ==
    \/ \E k \in Keys, v \in Values : Insert(k, v)
    \/ \E p \in hand : KickLast(p) \/ KickOn(p)
    \/ TableFull
    \/ \E k \in Keys : Delete(k)

TableSpec == TableInit /\ [][TableNext]_tvars

(***************************************************************************)
(* lookup, and the two lookups that do not ask for the tombstone bit:      *)
(* get_fast and lookup_lock_free pick their bucket alike.  Both skip       *)
(* locked buckets; no operation of the table locks one.                    *)
(***************************************************************************)

\* A bug: the second candidate is not probed.
MutLookup(k) == IF IsLive(buckets[H1(k)], k) THEN buckets[H1(k)].body ELSE {}

Lookup(k) == IF Matching(k) = {} THEN {} ELSE buckets[FirstOf(Matching(k), k)].body

MatchingFast(k) == {i \in {H1(k), H2(k)} : buckets[i].key = k}

\* lookup_lock_free: the body and the reference in it.
ReadBucketValue(k) == IF MatchingFast(k) = {} THEN {} ELSE buckets[FirstOf(MatchingFast(k), k)].body

\* try_read_bucket: the inline value; for an extent the mode, and no bytes.
Fast(body) == [value |-> body \ ExtentValues, extent |-> body \cap ExtentValues # {}]

\* get_fast: None, or one such pair.
GetFast(k) ==
    IF MatchingFast(k) = {} THEN {} ELSE {Fast(buckets[FirstOf(MatchingFast(k), k)].body)}

-----------------------------------------------------------------------------
Body == {{}} \cup {{v} : v \in Values}
BucketRecord == [key : Keys \cup {NoKey}, body : Body, tombstone : BOOLEAN]

\* Every variable has its type.
TableTypeOK ==
    /\ buckets \in [Index -> BucketRecord]
    /\ hand = {} \/ \E k \in Keys, b \in Body : hand = {Pair(k, b)}
    /\ cur_idx \in Index /\ kicks \in 0 .. MaxKick
    /\ new_key \in Keys \cup {NoKey} /\ result \in {"Ok", "TableFull"}

\* No insert, overwrite, kick or delete ever leaves a key live in two buckets,
\* live while it is also in transit, or in a bucket lookup does not probe.
OneCopy ==
    /\ \A i \in Index, k \in Keys : IsLive(buckets[i], k) => i \in {H1(k), H2(k)}
    /\ \A i, j \in Index, k \in Keys :
            IsLive(buckets[i], k) /\ IsLive(buckets[j], k) => i = j
    /\ \A p \in hand, i \in Index : ~IsLive(buckets[i], p.key)

\* The pairs the table holds, wherever they are, the one in transit included.
Stored(k) == UNION {buckets[i].body : i \in {j \in Index : IsLive(buckets[j], k)}}
InHand(k) == UNION {p.body : p \in {q \in hand : q.key = k}}
Contents(k) == Stored(k) \cup InHand(k)

\* lookup probes two buckets and finds whatever the whole table holds.  Of a key that
\* it finds, lookup_lock_free returns the same, and get_fast the same inline value, or
\* that there is an extent: never what an older tombstone holds, although neither
\* looks at the tombstone bit.
LookupFinds ==
    Idle => \A k \in Keys :
        /\ Lookup(k) = Contents(k)
        /\ Lookup(k) # {} => ReadBucketValue(k) = Lookup(k) /\ GetFast(k) = {Fast(Lookup(k))}

\* The table behaves as a map (KeyMap): an insert stores its pair and disturbs no
\* other key, unless it returns TableFull, which costs at most one key.
Map == INSTANCE KeyMap WITH map <- [k \in Keys |-> Contents(k)], busy <- ~Idle
ImplementsMap == Map!KSpec

\* get_fast is lookup without the detour: deleted keys are not found by either.
FastLookupAgrees == Idle => \A k \in Keys : GetFast(k) = {} <=> Lookup(k) = {}

\* "Extent mode - return offset/length": what get_fast finds can be read by its caller.
FastIsReadable == Idle => \A k \in Keys : \A f \in GetFast(k) : f.value # {}

\* TableFull means "no partial writes": the pair that found no place is the
\* caller's, every key stored before is still there.
NoPartialWrites == ~Idle /\ kicks = MaxKick => \A p \in hand : p.key = new_key
=============================================================================
