------------------------------ MODULE Director -------------------------------
(***************************************************************************)
(* What the connector tells the Director (crates/lmcache-connector, with   *)
(* the director feature): registration and heartbeats of the instance, and *)
(* one report for each write or delete that was drained.  Reports run as   *)
(* tasks of the integration's own runtime, in any order, and nobody waits  *)
(* for them.  A report names a key by the chunk hash that                  *)
(* extract_chunk_hash finds in it: one segment of the key, so that keys    *)
(* that differ elsewhere (rank, group, salt) have the same hash.  The      *)
(* Director is external: it keeps the set of hashes that were reported     *)
(* stored and not reported removed.                                        *)
(*                                                                         *)
(* Connector.tla models how a call computes its results; here a call is    *)
(* one key and its completion.  A hash is the set of the keys that have it.*)
(***************************************************************************)
EXTENDS Integers, Sequences

CONSTANTS
    CacheKeys,
    Chunks,         \* the chunk hashes; a key in none of them has no hash
    MaxReports      \* bound on the calls

ASSUME ChunksAssumption ==
    Chunks \subseteq SUBSET CacheKeys /\ \A g, h \in Chunks : g # h => g \cap h = {}

VARIABLES
    conn,           \* the connector: none, open, aborted, closed, dropped
    cache,          \* keys in the connector's table
    completed,      \* completions not drained
    calls_made,
    tasks,          \* reports spawned and not finished
    known,          \* the Director's view of this node: a set of hashes
    excused,        \* auxiliary: hashes whose reports were lost, raced, or untrue
    hb,             \* the heartbeat task: none, asleep, running, calling
    aborted,        \* its abort() was called
    beats,          \* heartbeats on the way
    instance,       \* the Director's record: unknown, registered, left
    late,           \* auxiliary: a heartbeat came after the departure
    rt              \* the integration's runtime: none, alive, dropped, dropped_inside

beating == <<hb, aborted, beats, late>>
dvars == <<conn, cache, completed, calls_made, tasks, known, excused, beating, instance, rt>>

DirectorInit ==
    /\ conn = "none" /\ cache = {} /\ completed = <<>> /\ calls_made = 0
    /\ tasks = {} /\ known = {} /\ excused = {}
    /\ hb = "none" /\ aborted = FALSE /\ beats = 0 /\ late = FALSE
    /\ instance = "unknown" /\ rt = "none"

\* connect, register (which may fail or be rejected) and the heartbeat task.
NewConnector ==
    /\ conn = "none" /\ conn' = "open"
    /\ rt' = "alive" /\ hb' = "asleep"
    /\ instance' \in {"unknown", "registered"}
    /\ UNCHANGED <<cache, completed, calls_made, tasks, known, excused, aborted, beats, late>>

\* extract_chunk_hash.
HashesOf(ks) == {h \in Chunks : h \cap ks # {}}

\* What a call may leave in the table.  A write may find no room for its value; that of
\* a new key may end in TableFull, which costs one key, the new one or another.
After(op, k) ==
    IF op = "remove" THEN {cache \ {k}}
    ELSE {cache, cache \cup {k}}
         \cup {(cache \cup {k}) \ {x} : x \in IF k \in cache THEN {} ELSE cache \cup {k}}

\* A call completes.  ok is TRUE whatever became of the key.
CallCompletes(op, k) ==
    /\ conn = "open" /\ calls_made < MaxReports
    /\ calls_made' = calls_made + 1
    /\ completed' = Append(completed, [n |-> calls_made, op |-> op, key |-> k])
    /\ cache' \in After(op, k)
    /\ excused' = IF op = "store" THEN excused \cup HashesOf((cache \cup {k}) \ cache') ELSE excused
    /\ UNCHANGED <<conn, tasks, known, beating, instance, rt>>

\* The hashes with more than one report under way.
Racing(ts) == {h \in Chunks : \E t, u \in ts : t # u /\ t.key \in h /\ u.key \in h}

\* A bug: removals are dropped.
MutDrain ==
    /\ conn \in {"open", "aborted", "closed"} /\ completed # <<>>
    /\ completed' = <<>>
    /\ tasks' = tasks \cup {x \in {completed[i] : i \in DOMAIN completed} : x.op = "store"}
    /\ excused' = excused \cup Racing(tasks')
    /\ UNCHANGED <<conn, cache, calls_made, known, beating, instance, rt>>

Drain ==
    /\ conn \in {"open", "aborted", "closed"} /\ completed # <<>>
    /\ completed' = <<>>
    /\ tasks' = tasks \cup {completed[i] : i \in DOMAIN completed}
    /\ excused' = excused \cup Racing(tasks')
    /\ UNCHANGED <<conn, cache, calls_made, known, beating, instance, rt>>

\* The last owner of the integration drops its runtime; a task does so inside it.
Released(ts, h) ==
    IF conn = "dropped" /\ rt = "alive" /\ ts = {} /\ h = "none" THEN "dropped_inside" ELSE rt

Apply(t) == IF t.op = "store" THEN known \cup HashesOf({t.key}) ELSE known \ HashesOf({t.key})

\* report_store, report_remove: no hash, no call; a call that fails is only logged.
Report(t) ==
    /\ t \in tasks
    /\ tasks' = tasks \ {t}
    /\ \/ known' = Apply(t) /\ UNCHANGED excused
       \/ UNCHANGED known /\ excused' = excused \cup HashesOf({t.key})
    /\ rt' = Released(tasks', hb)
    /\ UNCHANGED <<conn, cache, completed, calls_made, beating, instance>>

(***************************************************************************)
(* The heartbeat task.  abort takes effect at the task's next await.       *)
(***************************************************************************)
HbTo(h) == hb' = h /\ rt' = Released(tasks, h)
Quiet == UNCHANGED <<conn, cache, completed, calls_made, tasks, known, excused, aborted, instance>>

\* After the sleep the flag is read: close raises it last.
HeartbeatWakes ==
    /\ hb = "asleep" /\ ~aborted
    /\ HbTo(IF conn \in {"closed", "dropped"} THEN "none" ELSE "running")
    /\ UNCHANGED <<beats, late>> /\ Quiet

HeartbeatCalls ==
    /\ hb = "running"
    /\ HbTo("calling") /\ beats' = beats + 1
    /\ UNCHANGED late /\ Quiet

\* The Director gets it, or it is lost.
HeartbeatArrives ==
    /\ beats > 0 /\ beats' = beats - 1
    /\ late' \in {late, late \/ instance = "left"}
    /\ UNCHANGED <<hb, rt>> /\ Quiet

HeartbeatReturns ==
    /\ hb = "calling" /\ ~aborted /\ beats = 0
    /\ HbTo("asleep")
    /\ UNCHANGED <<beats, late>> /\ Quiet

Cancelled ==
    /\ aborted /\ hb \in {"asleep", "calling"}
    /\ HbTo("none")
    /\ UNCHANGED <<beats, late>> /\ Quiet

(***************************************************************************)
(* close, and Drop if close was not called: abort, deregister, shutdown.   *)
(***************************************************************************)
Abort ==
    /\ conn = "open" /\ conn' = "aborted" /\ aborted' = TRUE
    /\ UNCHANGED <<cache, completed, calls_made, tasks, known, excused, hb, beats, late, instance, rt>>

\* Best effort: the call may fail.
DeregisterInstance ==
    /\ conn = "aborted" /\ conn' = "closed"
    /\ instance' \in {instance, "left"}
    /\ UNCHANGED <<cache, completed, calls_made, tasks, known, excused, beating, rt>>

DropConnector ==
    /\ conn = "closed" /\ conn' = "dropped"
    /\ rt' = IF tasks = {} /\ hb = "none" THEN "dropped" ELSE rt
    /\ UNCHANGED <<cache, completed, calls_made, tasks, known, excused, beating, instance>>

DirectorNext ==
    \/ NewConnector \/ Drain \/ Abort \/ DeregisterInstance \/ DropConnector
    \/ \E op \in {"store", "remove"}, k \in CacheKeys : CallCompletes(op, k)
    \/ \E t \in tasks : Report(t)
    \/ HeartbeatWakes \/ HeartbeatCalls \/ HeartbeatArrives \/ HeartbeatReturns \/ Cancelled

DirectorSpec == DirectorInit /\ [][DirectorNext]_dvars

-----------------------------------------------------------------------------
DirectorTypeOK ==
    /\ conn \in {"none", "open", "aborted", "closed", "dropped"}
    /\ cache \subseteq CacheKeys /\ known \cup excused \subseteq Chunks
    /\ hb \in {"none", "asleep", "running", "calling"} /\ beats \in 0 .. 2
    /\ instance \in {"unknown", "registered", "left"}
    /\ rt \in {"none", "alive", "dropped", "dropped_inside"}

\* It is right that the hash is reported stored (or not).  Of keys that share a hash one
\* may be removed while another stays.
Right(h, stored) ==
    IF stored THEN h \cap cache # {} ELSE (\E k \in h : h = {k}) => h \cap cache = {}

\* No completion of a key with this hash waits to be drained.
Drained(h) == \A i \in DOMAIN completed : completed[i].key \notin h

\* Once everything about a hash was drained and reported, the Director believes in it only
\* if a key with it is stored, and misses it then only if keys share it, unless a report
\* of it was lost, two were under way together, or a write cost a key of it.
ViewExact ==
    \A h \in Chunks \ excused :
        Drained(h) /\ (\A t \in tasks : t.key \notin h) => Right(h, h \in known)

\* The Director's view is right when nothing is under way ("Only report for successful
\* completions").
ViewAlwaysExact == completed = <<>> /\ tasks = {} => known = HashesOf(cache)

\* The heartbeat "doesn't race with deregister".
NoLateHeartbeat == ~late

\* The runtime is never dropped by one of its own tasks, where tokio panics.
RuntimeDroppedOutside == rt # "dropped_inside"
=============================================================================
