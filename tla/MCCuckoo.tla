------------------------------ MODULE MCCuckoo ------------------------------
(***************************************************************************)
(* Keys for CuckooTable over four buckets: chains of every length, a key   *)
(* whose two buckets coincide (k3), two keys with the same hash (k1, k2)   *)
(* and one whose hash is zero.                                             *)
(***************************************************************************)
EXTENDS LocalClient

Key(lo, hi, digest) == [lo |-> lo, hi |-> hi, digest |-> digest]

k1 == Key(4, 2, 1)
k2 == Key(4, 2, 2)
k3 == Key(3, 2, 1)
k4 == Key(0, 1, 1)
k5 == Key(2, 0, 1)
k0 == Key(0, 0, 1)

MCKeys == {k0, k1, k2, k3, k4, k5}
=============================================================================
