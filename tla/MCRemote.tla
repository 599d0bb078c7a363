------------------------------ MODULE MCRemote ------------------------------
(***************************************************************************)
(* RemoteTable on two buckets: k1 and k2 have the same hash, so the same   *)
(* two buckets in the same order, and differ in the digest.                *)
(***************************************************************************)
EXTENDS RemoteTable

k1 == [lo |-> 2, hi |-> 3, digest |-> 1]
k2 == [lo |-> 2, hi |-> 3, digest |-> 2]

TwoKeys == {k1, k2}
=============================================================================
