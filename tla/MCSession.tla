------------------------------ MODULE MCSession ------------------------------
(***************************************************************************)
(* Sessions with their server, several clients of the registry, the retry  *)
(* loop and the pending tracker of the client, and a connector reporting   *)
(* to a Director: Init chooses which of them moves.  The last three share  *)
(* no state with each other or with the others.                            *)
(***************************************************************************)
EXTENDS Session, Retry, Director

VARIABLE scene

vars == <<scene, svars, rvars, dvars>>

Init ==
    /\ scene \in {"session", "registry", "retry", "tracker", "director"}
    /\ SInit /\ RetryInit /\ DirectorInit
    /\ scene # "retry" => selective /\ max_retries = CHOOSE n \in Limits : TRUE

Next ==
    \/ scene = "session" /\ SessionNext /\ UNCHANGED <<scene, rvars, dvars>>
    \/ scene = "registry" /\ RegistryNext /\ UNCHANGED <<scene, rvars, dvars>>
    \/ scene = "retry" /\ RetryLoop /\ UNCHANGED <<scene, svars, tracker, dvars>>
    \/ scene = "tracker" /\ TrackerNext /\ UNCHANGED <<scene, svars, retry, dvars>>
    \/ scene = "director" /\ DirectorNext /\ UNCHANGED <<scene, svars, rvars>>

\* Time passes, and the collector comes round.
Fairness ==
    /\ WF_vars(scene = "tracker" /\ Advance /\ UNCHANGED <<scene, retry, svars, dvars>>)
    /\ WF_vars(scene = "tracker" /\ CollectTimeouts /\ UNCHANGED <<scene, retry, svars, dvars>>)

Spec == Init /\ [][Next]_vars /\ Fairness

\* The runtime of the session keeps running its heartbeat task too.
TickSpec ==
    /\ Spec
    /\ \A c \in Sessions :
         WF_vars(Tick(c) /\ UNCHANGED <<scene, server, session, control, shutdown, rvars, dvars>>)

TypeOK == STypeOK /\ RetryTypeOK /\ DirectorTypeOK
=============================================================================
