------------------------------ MODULE MCInsert ------------------------------
(***************************************************************************)
(* Inserts without a lock, of remote clients or of threads that share a    *)
(* table: Init chooses which.  The two share no state.                     *)
(***************************************************************************)
EXTENDS MCRemote, LockFree

VARIABLE scene      \* which of the two this behaviour shows

\* A third key, whose first bucket is the second one of k1 and k2.
k3 == [lo |-> 3, hi |-> 2, digest |-> 1]
ThreeKeys == {k1, k2, k3}

mcvars == <<scene, vars, lvars>>

MCInit ==
    /\ scene \in {"remote", "threads"} /\ Init /\ LInit
    /\ scene = "remote" => \A b \in DOMAIN slots : slots[b] = EmptyBucket

MCNext ==
    \/ scene = "remote" /\ NextWithGets /\ UNCHANGED <<scene, lvars>>
    \/ scene = "threads" /\ LNext /\ UNCHANGED <<scene, vars>>

\* Threads that are in a call keep running; nothing is asked of remote clients.
MCSpec ==
    /\ MCInit /\ [][MCNext]_mcvars
    /\ \A t \in Threads : WF_mcvars(ThreadStep(t) /\ UNCHANGED <<scene, vars>>)

\* Both tables have their types.
MCTypeOK == TypeOK /\ LTypeOK
=============================================================================
