----------------------------- MODULE ClientReader -----------------------------
(***************************************************************************)
(* ClientReader::get of src/client/read.rs (get_fast of src/client/opt.rs  *)
(* calls it): a client that reads a slice of the server's buckets in       *)
(* process and finds keys in it by itself.                                 *)
(*                                                                         *)
(* The call holds the slice from start to end, so it is an operator on the *)
(* memory it is given: a copy of the buckets a CuckooTable has reached     *)
(* (the callers' to_vec()), in which some buckets may be locked, and a     *)
(* large object region with room for so many more extents.                 *)
(***************************************************************************)
EXTENDS CuckooTable

CONSTANT
    Torn            \* an extent reference read from bytes that are not one

ASSUME ClientAssumption == Torn \notin Values

\* buckets.to_vec() with the buckets of L locked, and the region.
Memory(L, room) ==
    [bs |-> [i \in Index |-> [key |-> buckets[i].key, body |-> buckets[i].body,
                             tombstone |-> buckets[i].tombstone, locked |-> i \in L]],
     room |-> room]

IsExtent(body) == body \subseteq ExtentValues \cup {Torn} /\ body # {}

\* region is the extents that LargeObjectRegion::read returns: none if no region was
\* passed, and not the ones whose header cannot be read.
Unreadable(body, region) == IsExtent(body) /\ ~(body \subseteq region)

\* A bug: the tombstone bit is not looked at.
MutReadAt(m, i, k, region) ==
    IF m.bs[i].locked \/ m.bs[i].key # k \/ Unreadable(m.bs[i].body, region)
    THEN {} ELSE m.bs[i].body

ReadAt(m, i, k, region) ==
    IF m.bs[i].locked \/ ~IsLive(m.bs[i], k) \/ Unreadable(m.bs[i].body, region)
    THEN {} ELSE m.bs[i].body

\* Err(InvalidKey) and Ok(None) both yield no value.
ClientGet(m, k, region) ==
    LET Hits == {i \in {H1(k), H2(k)} : ReadAt(m, i, k, region) # {}}
    IN  IF ~ValidKey(k) \/ Hits = {} THEN {} ELSE ReadAt(m, FirstOf(Hits, k), k, region)

-----------------------------------------------------------------------------
\* No bucket locked, or one.
Locks == {{}} \cup {{i} : i \in Index}

\* The client's reader, which finds buckets and keys by itself, reads from the
\* server's buckets exactly what the server's own lookup returns, and less only
\* for a key whose bucket is locked or whose extent cannot be read.
ReaderAgrees ==
    Idle => \A k \in {x \in Keys : ValidKey(x)}, L \in Locks, region \in SUBSET ExtentValues :
        ClientGet(Memory(L, 0), k, region) =
            IF Matching(k) \subseteq L \/ Unreadable(Lookup(k), region) THEN {} ELSE Lookup(k)
=============================================================================
