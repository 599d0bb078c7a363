------------------------------- MODULE EpochGc -------------------------------
(***************************************************************************)
(* Epoch-based reclamation of extents: EpochGc (src/engine/gc.rs) over the *)
(* LargeObjectRegion (ExtentRegion), fed by the client registry of the     *)
(* control server (src/control/server.rs).                                 *)
(*                                                                         *)
(* A writer puts a key's value into an extent and refers to it from the    *)
(* key's bucket; a delete tombstones the bucket and schedules the extent;  *)
(* a reader looks the bucket up and reads the extent later.  The readers   *)
(* keep to the rule the design states (docs/Rust-RDMA.md:176): active_ts   *)
(* is refreshed before each operation and reported by heartbeats, and a    *)
(* client is registered before it reads.  The extents are V2.              *)
(***************************************************************************)
EXTENDS ExtentRegion

CONSTANTS
    Keys,
    Clients,        \* readers
    SweepInterval,  \* sweep_interval_ms
    ClockWrap,      \* now_ms() is a u32: it starts again after so many ticks
    MaxClock,       \* bound: the clock stops here
    MaxPuts         \* bound: values ever written

VARIABLES
    clock,          \* the time now_ms() is taken from
    pending,        \* EpochGc::pending: sequence of [off, epoch]
    last_sweep,     \* EpochGc::last_sweep
    registry,       \* ControlServer::clients: client -> active_ts
    active,         \* each client's own active_ts
    bucket,         \* key -> set of at most one reference [off, data]
    unscheduled,    \* offsets tombstoned, schedule_deletion not called yet
    reading,        \* client -> set of at most one reference, looked up, not yet read
    puts            \* values written so far

gcvars == <<clock, pending, last_sweep, registry, active, bucket, unscheduled, reading, puts>>
vars == <<rvars, gcvars>>

\* now_ms()
Now == clock % ClockWrap

Init ==
    /\ RInit
    /\ clock = 1
    /\ pending = <<>>
    /\ last_sweep = 1
    /\ registry = <<>>
    /\ active = [c \in Clients |-> 1]
    /\ bucket = [k \in Keys |-> {}]
    /\ unscheduled = {}
    /\ reading = [c \in Clients |-> {}]
    /\ puts = 0

Tick ==
    /\ clock < MaxClock
    /\ clock' = clock + 1
    /\ UNCHANGED <<rvars, pending, last_sweep, registry, active, bucket, unscheduled, reading, puts>>

(***************************************************************************)
(* The users of the region                                                 *)
(***************************************************************************)
Put(k) ==
    /\ bucket[k] = {} /\ puts < MaxPuts
    /\ puts' = puts + 1
    /\ \E len \in Lens : Allocate(len, puts')
    /\ bucket' = [bucket EXCEPT ![k] = {[off |-> o, data |-> puts'] : o \in allocated' \ allocated}]
    /\ UNCHANGED <<clock, pending, last_sweep, registry, active, unscheduled, reading>>

Tombstone(k) ==
    /\ bucket[k] # {}
    /\ unscheduled' = unscheduled \cup {r.off : r \in bucket[k]}
    /\ bucket' = [bucket EXCEPT ![k] = {}]
    /\ UNCHANGED <<rvars, clock, pending, last_sweep, registry, active, reading, puts>>

\* A client refreshes its active_ts between operations, and only then.
StartOperation(c) ==
    /\ reading[c] = {} /\ active[c] # Now
    /\ active' = [active EXCEPT ![c] = Now]
    /\ UNCHANGED <<rvars, clock, pending, last_sweep, registry, bucket, unscheduled, reading, puts>>

LookupBucket(c, k) ==
    /\ c \in DOMAIN registry
    /\ reading[c] = {} /\ bucket[k] # {}
    /\ reading' = [reading EXCEPT ![c] = bucket[k]]
    /\ UNCHANGED <<rvars, clock, pending, last_sweep, registry, active, bucket, unscheduled, puts>>

ReadAndFinish(c) ==
    /\ reading[c] # {}
    /\ reading' = [reading EXCEPT ![c] = {}]
    /\ UNCHANGED <<rvars, clock, pending, last_sweep, registry, active, bucket, unscheduled, puts>>

(***************************************************************************)
(* The control server's registry                                           *)
(***************************************************************************)
Heartbeat(c) ==
    /\ registry' = With(registry, c, active[c])
    /\ UNCHANGED <<rvars, clock, pending, last_sweep, active, bucket, unscheduled, reading, puts>>

Deregister(c) ==
    /\ reading[c] = {}
    /\ c \in DOMAIN registry
    /\ registry' = Restrict(registry, DOMAIN registry \ {c})
    /\ UNCHANGED <<rvars, clock, pending, last_sweep, active, bucket, unscheduled, reading, puts>>

\* A bug: the youngest client decides.
MutMaxActiveTs == IF DOMAIN registry = {} THEN 0 ELSE Max(Range(registry))

\* min_active_ts: 0 when nobody is registered.
MinActiveTs == IF DOMAIN registry = {} THEN 0 ELSE Min(Range(registry))

(***************************************************************************)
(* EpochGc                                                                 *)
(***************************************************************************)
ScheduleDeletion(off) ==
    /\ off \in unscheduled
    /\ unscheduled' = unscheduled \ {off}
    /\ pending' = Append(pending, [off |-> off, epoch |-> Now])
    /\ UNCHANGED <<rvars, clock, last_sweep, registry, active, bucket, reading, puts>>

\* The pending entries that mark_for_gc accepts for an offset, the last one wins.
Entries(off) == {i \in DOMAIN pending : pending[i].off = off /\ Decode(hdr, off).magic}

MarkedHeaders ==
    [o \in DOMAIN hdr |-> IF Entries(o) = {} THEN hdr[o] ELSE Stamp(hdr[o], pending[Max(Entries(o))].epoch)]

AllMarks ==
    [o \in DOMAIN marked \cup {o \in DOMAIN hdr : Entries(o) # {}} |->
        IF Entries(o) # {} THEN pending[Max(Entries(o))].epoch ELSE marked[o]]

\* A bug: pending is cleared before the marks are written.
MutLoseMarks(min_active_ts) ==
    /\ Sweep(min_active_ts, hdr, marked)
    /\ pending' = <<>>

\* EpochGc::sweep: mark everything pending, sweep the region, clear pending.
GcSweep(min_active_ts) ==
    /\ Sweep(min_active_ts, MarkedHeaders, AllMarks)
    /\ pending' = <<>>

\* run_gc_cycle: nothing happens without clients.
RunGcCycle ==
    /\ DOMAIN registry # {}
    /\ GcSweep(MinActiveTs)
    /\ UNCHANGED <<clock, last_sweep, registry, active, bucket, unscheduled, reading, puts>>

\* maybe_sweep without an LRU tracker: nothing before the interval is over.  The u64
\* difference underflows once the clock has wrapped: huge in a release build.
MaybeSweep ==
    /\ Now < last_sweep \/ Now - last_sweep >= SweepInterval
    /\ last_sweep' = Now
    /\ GcSweep(MinActiveTs)
    /\ UNCHANGED <<clock, registry, active, bucket, unscheduled, reading, puts>>

\* evict_lru with at least one candidate.  A candidate is scheduled under its
\* key hash, which is no extent's offset, so only its immediate sweep matters.
EvictLru ==
    /\ GcSweep(Now)
    /\ UNCHANGED <<clock, last_sweep, registry, active, bucket, unscheduled, reading, puts>>

UserNext ==
    \/ \E k \in Keys : Put(k) \/ Tombstone(k)
    \/ \E off \in unscheduled : ScheduleDeletion(off)
    \/ \E c \in Clients : StartOperation(c) \/ ReadAndFinish(c) \/ Heartbeat(c) \/ Deregister(c)
    \/ \E c \in Clients, k \in Keys : LookupBucket(c, k)

Next == UserNext \/ RunGcCycle \/ MaybeSweep \/ Tick

Spec == Init /\ [][Next]_vars

\* The collector is configured with an LRU tracker.
LruSpec == Init /\ [][Next \/ EvictLru]_vars

-----------------------------------------------------------------------------
\* Types of the collector's own state.
GcTypeOK ==
    /\ RTypeOK
    /\ clock \in 1 .. MaxClock /\ last_sweep \in 0 .. MaxClock
    /\ DOMAIN registry \subseteq Clients /\ Range(registry) \subseteq 0 .. MaxClock
    /\ active \in [Clients -> 0 .. MaxClock]
    /\ unscheduled \subseteq allocated
    /\ \A i \in DOMAIN pending : pending[i].off \in allocated /\ pending[i].epoch \in 0 .. MaxClock

\* No extent disappears or is reused under a reader that looked it up before the
\* delete: epoch marks are compared with the oldest active_ts of all clients.
NoUseAfterFree ==
    \A c \in Clients : \A r \in reading[c] : ReadExtent(r.off) = {r.data}

\* The value of a live key is never collected, overwritten or handed out again.
LiveValuesKept ==
    \A k \in Keys : \A r \in bucket[k] : r.off \in allocated /\ ReadExtent(r.off) = {r.data}

\* The extents no bucket refers to, once their deletion was scheduled.
Deleted == {o \in allocated \ unscheduled : \A k \in Keys : \A r \in bucket[k] : r.off # o}

\* No deleted extent is ever lost to the collector: although every sweep clears
\* pending, whether or not it could collect, the first sweep for which all clients
\* have moved past the present collects each of them.
DeletedIsCollectable == Deleted \subseteq Dead(MarkedHeaders, clock + 1)
=============================================================================
