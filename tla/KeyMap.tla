------------------------------- MODULE KeyMap -------------------------------
(***************************************************************************)
(* What a bounded key-value table promises its callers: a key maps to the  *)
(* value last put for it, a delete removes exactly that key, and a put     *)
(* that reports "full" has stored its pair at the price of at most one     *)
(* key, which may be the new one.  CuckooTable (src/engine/cuckoo.rs)      *)
(* implements it.                                                          *)
(***************************************************************************)
CONSTANTS Keys, Values

VARIABLES
    map,        \* key -> set of values found for it, empty or a singleton
    busy,       \* a put has not returned yet
    result      \* what the last call reported, Ok or TableFull

kvars == <<map, busy, result>>

KInit == map = [k \in Keys |-> {}] /\ busy = FALSE /\ result = "Ok"

\* A put stores its pair and returns, or goes on looking for room.
Put(k, v) ==
    /\ ~busy
    /\ map' = [map EXCEPT ![k] = {v}]
    /\ busy' \in BOOLEAN
    /\ result' = "Ok"

PutDone == busy /\ busy' = FALSE /\ result' = "Ok" /\ map' = map

PutFull(lost) == busy /\ busy' = FALSE /\ result' = "TableFull" /\ map' = [map EXCEPT ![lost] = {}]

Remove(k) == ~busy /\ map' = [map EXCEPT ![k] = {}] /\ busy' = busy /\ result' = "Ok"

KNext ==
    \/ \E k \in Keys, v \in Values : Put(k, v)
    \/ PutDone
    \/ \E k \in Keys : PutFull(k) \/ Remove(k)

KSpec == KInit /\ [][KNext]_kvars
=============================================================================
