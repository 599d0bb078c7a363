----------------------------- MODULE BucketLock -----------------------------
(***************************************************************************)
(* The lock word of one hash bucket: the two-phase CAS lock with a lease,  *)
(* the optimistic (version-checked) read, and the recovery of a lock whose *)
(* holder died.  Source: src/engine/concurrency.rs and the lock_version    *)
(* bit layout of src/engine/layout.rs.                                     *)
(*                                                                         *)
(* Every load, store and CAS of the lock word is a step of its own, and so *)
(* is every call of now_ms().  The bytes behind the lock are two cells     *)
(* ("key", "body") that a holder writes one after the other and a reader   *)
(* copies one after the other.  The mode bit is left out: the word carries *)
(* it along and nothing here branches on it.                               *)
(***************************************************************************)
EXTENDS Integers

CONSTANTS
    Writers,        \* clients that call try_acquire_lock / release_lock
    Readers,        \* clients that call optimistic_read / verify_read
    NoData,         \* the contents of a zeroed cell
    LeaseTimeout,   \* LEASE_TIMEOUT_MS
    LeaseMod,       \* 2^24: range of the lease field of the lock word
    WordMod,        \* 2^32: range of u32 arithmetic on timestamps
    VersionMod,     \* 2^32: range of the version field
    ClockStart,     \* bound: now_ms() when the model starts
    MaxClock,       \* bound: the clock stops here
    MaxVersion,     \* bound: no acquisition starts at or above this version
    MaxCrashes      \* bound: how many clients die

ASSUME ConstantsAssumption ==
    /\ NoData \notin Writers
    /\ LeaseTimeout \in Nat
    /\ LeaseMod \in Nat \ {0} /\ WordMod \in Nat \ {0} /\ VersionMod \in Nat \ {0}
    /\ LeaseTimeout < LeaseMod /\ LeaseMod <= WordMod
    /\ ClockStart \in Nat /\ MaxClock \in Nat /\ ClockStart <= MaxClock
    /\ MaxClock < WordMod
    /\ MaxVersion \in Nat /\ MaxVersion < VersionMod
    /\ MaxCrashes \in Nat

VARIABLES
    clock,      \* milliseconds, what now_ms() returns
    lv,         \* lock_version: version, lease, locked
    cells,      \* the bucket's bytes: key_hash+digest ("key") and value ("body")
    pc,         \* where each client is inside its call
    seen,       \* writer: old_lv, the word loaded by try_acquire_lock
    mine,       \* writer: new_lv, the word it tries to install
    guard,      \* reader: its ReadGuard
    crashes     \* clients that have died so far

vars == <<clock, lv, cells, pc, seen, mine, guard, crashes>>

Cells == {"key", "body"}
Words == [version : 0 .. VersionMod - 1, lease : 0 .. LeaseMod - 1, locked : BOOLEAN]
Datum == Writers \cup {NoData}
Clients == Writers \cup Readers

ZeroWord == [version |-> 0, lease |-> 0, locked |-> FALSE]
NoGuard == [version |-> 0, data |-> [c \in Cells |-> NoData]]

WriterSteps == {"idle", "check", "build", "cas", "write_key", "write_body", "release"}
ReaderSteps == {"idle", "version", "copy_key", "copy_body", "verify"}

\* A writer between a successful CAS and its release.
Holding(w) == pc[w] \in {"write_key", "write_body", "release"}

\* The lease stamp of a word: the low 24 bits of now_ms().
LeaseStamp(now) == now % LeaseMod

\* Both stamps are cut to 24 bits, the difference is taken in 32 bits.
IsLeaseExpired(old_ts, now) ==
    ((now % LeaseMod) - (old_ts % LeaseMod)) % WordMod > LeaseTimeout

\* A bug: the version is not bumped.
MutKeepVersion(version) == [version |-> version, lease |-> 0, locked |-> FALSE]

\* What release_lock and force_takeover leave: version + 1, no lease, no lock.
UnlockedWord(version) ==
    [version |-> (version + 1) % VersionMod, lease |-> 0, locked |-> FALSE]

Init ==
    /\ clock = ClockStart
    /\ lv = ZeroWord
    /\ cells = [c \in Cells |-> NoData]
    /\ pc = [c \in Clients |-> "idle"]
    /\ seen = [w \in Writers |-> ZeroWord]
    /\ mine = [w \in Writers |-> ZeroWord]
    /\ guard = [r \in Readers |-> NoGuard]
    /\ crashes = 0

Goto(c, step) == pc' = [pc EXCEPT ![c] = step]

\* A writer's call ends and its locals go out of scope.
Return(w) ==
    /\ Goto(w, "idle")
    /\ seen' = [seen EXCEPT ![w] = ZeroWord]
    /\ mine' = [mine EXCEPT ![w] = ZeroWord]

(***************************************************************************)
(* try_acquire_lock                                                        *)
(***************************************************************************)
LoadLock(w) ==
    /\ pc[w] = "idle"
    /\ lv.version < MaxVersion
    /\ seen' = [seen EXCEPT ![w] = lv]
    /\ Goto(w, "check")
    /\ UNCHANGED <<clock, lv, cells, mine, guard, crashes>>

\* A bug: a locked word is refused, whatever its lease.
MutCheckLease(w) ==
    /\ pc[w] = "check"
    /\ \/ seen[w].locked /\ Return(w)
       \/ ~seen[w].locked /\ Goto(w, "build") /\ UNCHANGED <<seen, mine>>
    /\ UNCHANGED <<clock, lv, cells, guard, crashes>>

\* Err(Locked) when the loaded word is locked under a lease still running.
CheckLease(w) ==
    /\ pc[w] = "check"
    /\ \/ /\ seen[w].locked /\ ~IsLeaseExpired(seen[w].lease, clock)
          /\ Return(w)
       \/ /\ ~seen[w].locked \/ IsLeaseExpired(seen[w].lease, clock)
          /\ Goto(w, "build")
          /\ UNCHANGED <<seen, mine>>
    /\ UNCHANGED <<clock, lv, cells, guard, crashes>>

BuildWord(w) ==
    /\ pc[w] = "build"
    /\ mine' = [mine EXCEPT ![w] = [version |-> seen[w].version,
                                    lease |-> LeaseStamp(clock), locked |-> TRUE]]
    /\ Goto(w, "cas")
    /\ UNCHANGED <<clock, lv, cells, seen, guard, crashes>>

\* A bug: the word is stored without comparing.
MutBlindStore(w) ==
    /\ pc[w] = "cas"
    /\ lv' = mine[w]
    /\ Goto(w, "write_key")
    /\ UNCHANGED <<clock, cells, seen, mine, guard, crashes>>

\* compare_exchange; a lost race goes back to the load.
CasLock(w) ==
    /\ pc[w] = "cas"
    /\ \/ /\ lv = seen[w]
          /\ lv' = mine[w]
          /\ Goto(w, "write_key")
          /\ UNCHANGED <<seen, mine>>
       \/ /\ lv # seen[w]
          /\ Return(w)
          /\ UNCHANGED lv
    /\ UNCHANGED <<clock, cells, guard, crashes>>

(***************************************************************************)
(* What the holder does before release_lock, and release_lock              *)
(***************************************************************************)
WriteKey(w) ==
    /\ pc[w] = "write_key"
    /\ cells' = [cells EXCEPT !["key"] = w]
    /\ Goto(w, "write_body")
    /\ UNCHANGED <<clock, lv, seen, mine, guard, crashes>>

WriteBody(w) ==
    /\ pc[w] = "write_body"
    /\ cells' = [cells EXCEPT !["body"] = w]
    /\ Goto(w, "release")
    /\ UNCHANGED <<clock, lv, seen, mine, guard, crashes>>

\* An unconditional store, from the version the CAS returned.
ReleaseLock(w) ==
    /\ pc[w] = "release"
    /\ lv' = UnlockedWord(seen[w].version)
    /\ Return(w)
    /\ UNCHANGED <<clock, cells, guard, crashes>>

\* A client dies anywhere in its call; a new one takes its place.
Crash(w) ==
    /\ pc[w] # "idle"
    /\ crashes < MaxCrashes
    /\ crashes' = crashes + 1
    /\ Return(w)
    /\ UNCHANGED <<clock, lv, cells, guard>>

(***************************************************************************)
(* optimistic_read and verify_read                                         *)
(***************************************************************************)
ReadLocked(r) ==
    /\ pc[r] = "idle"
    /\ ~lv.locked
    /\ Goto(r, "version")
    /\ UNCHANGED <<clock, lv, cells, seen, mine, guard, crashes>>

ReadVersion(r) ==
    /\ pc[r] = "version"
    /\ guard' = [guard EXCEPT ![r].version = lv.version]
    /\ Goto(r, "copy_key")
    /\ UNCHANGED <<clock, lv, cells, seen, mine, crashes>>

CopyKey(r) ==
    /\ pc[r] = "copy_key"
    /\ guard' = [guard EXCEPT ![r].data["key"] = cells["key"]]
    /\ Goto(r, "copy_body")
    /\ UNCHANGED <<clock, lv, cells, seen, mine, crashes>>

CopyBody(r) ==
    /\ pc[r] = "copy_body"
    /\ guard' = [guard EXCEPT ![r].data["body"] = cells["body"]]
    /\ Goto(r, "verify")
    /\ UNCHANGED <<clock, lv, cells, seen, mine, crashes>>

\* Would verify_read return true now?
VerifyRead(r) == pc[r] = "verify" /\ ~lv.locked /\ lv.version = guard[r].version

\* The caller drops the guard, verified or not.
FinishRead(r) ==
    /\ pc[r] = "verify"
    /\ guard' = [guard EXCEPT ![r] = NoGuard]
    /\ Goto(r, "idle")
    /\ UNCHANGED <<clock, lv, cells, seen, mine, crashes>>

(***************************************************************************)
(* force_takeover and repair_after_crash                                   *)
(*                                                                         *)
(* Both take &mut HashBucket, so a takeover is one step, and so is a       *)
(* takeover that is followed by the repair.                                *)
(***************************************************************************)
TakeoverAllowed == lv.locked /\ IsLeaseExpired(lv.lease, clock)

ForceTakeover ==
    /\ TakeoverAllowed
    /\ lv' = UnlockedWord(lv.version)
    /\ UNCHANGED <<clock, cells, pc, seen, mine, guard, crashes>>

\* repair_after_crash has no condition of its own.  The documented caller holds the
\* bucket as one &mut from force_takeover to the repair, so the two are one step.
RepairAfterCrash ==
    /\ TakeoverAllowed
    /\ lv' = ZeroWord
    /\ cells' = [c \in Cells |-> NoData]
    /\ UNCHANGED <<clock, pc, seen, mine, guard, crashes>>

(***************************************************************************)
(* Time.  A timely client runs from its lease stamp to its release within  *)
(* LeaseTimeout, or is dead; a slow one may be paused for longer.          *)
(***************************************************************************)
Tick ==
    /\ clock < MaxClock
    /\ clock' = clock + 1
    /\ UNCHANGED <<lv, cells, pc, seen, mine, guard, crashes>>

\* Milliseconds since the stamp, taken on the unwrapped clock.
Age(lease) == (clock - lease) % LeaseMod

InLease(w) == pc[w] = "cas" \/ Holding(w)

TimelyTick ==
    /\ \A w \in Writers : InLease(w) => Age(mine[w].lease) < LeaseTimeout
    /\ Tick

WriterStep(w) ==
    \/ LoadLock(w) \/ CheckLease(w) \/ BuildWord(w) \/ CasLock(w)
    \/ WriteKey(w) \/ WriteBody(w) \/ ReleaseLock(w)

ReaderStep(r) ==
    \/ ReadLocked(r) \/ ReadVersion(r) \/ CopyKey(r) \/ CopyBody(r) \/ FinishRead(r)

ClientStep ==
    \/ \E w \in Writers : WriterStep(w) \/ Crash(w)
    \/ \E r \in Readers : ReaderStep(r)

\* Timely clients, takeover without repair.
Next == ClientStep \/ ForceTakeover \/ TimelyTick

\* Timely clients, takeover followed by repair_after_crash as well.
RepairNext == Next \/ RepairAfterCrash

\* Clients that may be paused past their lease.
SlowNext == ClientStep \/ ForceTakeover \/ Tick

Spec == Init /\ [][Next]_vars
RepairSpec == Init /\ [][RepairNext]_vars
SlowSpec == Init /\ [][SlowNext]_vars

\* Callers retry after Err(Locked) and threads keep running; a crash is never
\* obliged, and neither is the server-side takeover.
FairSpec ==
    /\ Spec
    /\ WF_vars(TimelyTick)
    /\ \A w \in Writers : WF_vars(WriterStep(w))

-----------------------------------------------------------------------------
(***************************************************************************)
(* Properties                                                              *)
(***************************************************************************)

\* Every variable has the type the code gives it.
TypeOK ==
    /\ clock \in 0 .. MaxClock
    /\ lv \in Words
    /\ cells \in [Cells -> Datum]
    /\ pc \in [Clients -> WriterSteps \cup ReaderSteps]
    /\ seen \in [Writers -> Words]
    /\ mine \in [Writers -> Words]
    /\ guard \in [Readers -> [version : 0 .. VersionMod - 1, data : [Cells -> Datum]]]
    /\ crashes \in 0 .. MaxCrashes

\* Two clients never both believe they hold the bucket: a lock is taken from
\* its holder only once the lease has run out (try_acquire_lock, force_takeover).
MutualExclusion ==
    \A w1, w2 \in Writers : Holding(w1) /\ Holding(w2) => w1 = w2

\* verify_read returns true only if the bucket still holds, byte for byte, what
\* optimistic_read copied: no writer got in between and no copy is torn.
ValidatedReadUnchanged ==
    \A r \in Readers : VerifyRead(r) => guard[r].data = cells

\* The version field never goes back (module header: "Version monotonically
\* increments"), whoever releases or takes over the lock.
VersionMonotonic == [][lv'.version >= lv.version]_vars

\* A lease that is still running is never reported expired, wherever the 24-bit
\* clock stands (now_ms: the wrap "is handled correctly").
RunningLeaseNotExpired ==
    lv.locked /\ Age(lv.lease) <= LeaseTimeout => ~IsLeaseExpired(lv.lease, clock)

Orphaned == lv.locked /\ \A w \in Writers : ~Holding(w)

\* A lock whose holder died does not block the bucket for ever: while the clock
\* has room for a lease to run out, somebody gets the bucket or frees it.
OrphanRecovered ==
    (Orphaned /\ clock + LeaseTimeout < MaxClock) ~> ~Orphaned
=============================================================================
