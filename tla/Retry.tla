-------------------------------- MODULE Retry --------------------------------
(***************************************************************************)
(* src/client/retry.rs: retry_rdma_op or retry_with_backoff around an      *)
(* operation that may fail with any RdmaError, and a PendingTracker used   *)
(* by several threads: the ones that register and complete operations, and *)
(* one that scans for timeouts, cleans up what the scan reported, and      *)
(* collects.                                                               *)
(***************************************************************************)
EXTENDS Integers, Sequences

CONSTANTS
    Limits,         \* values of RetryConfig::max_retries tried
    BaseDelay, MaxDelay,    \* in microseconds
    PowWidth,       \* bits of the integer 2u32.pow() computes in
    FutureIds,
    Timeout,
    MaxClock        \* bound on the clock

ASSUME RetryAssumption ==
    /\ Limits \subseteq Nat /\ BaseDelay \in Nat /\ MaxDelay \in Nat
    /\ PowWidth \in Nat /\ Timeout \in Nat

\* A law of arithmetic the provers do not have, where it is used.
ASSUME PowerLaw == \A l \in Limits : \A n \in 1 .. l - 1 : 2 ^ n >= 0 /\ 2 ^ (n + 1) = 2 * 2 ^ n

VARIABLES
    selective,                          \* retry_rdma_op; retry_with_backoff retries any error
    max_retries, errors, delays, rpc,   \* the retry loop: limit, errors seen, sleeps, where
    clock, pending,                     \* pending[i]: when i was registered, or NotPending
    scanned,                            \* what the last scan reported
    unscanned                           \* auxiliary: entries collected that no scan reported

retry == <<selective, max_retries, errors, delays, rpc>>
tracker == <<clock, pending, scanned, unscanned>>
rvars == <<retry, tracker>>

Retriable == {"Timeout", "CasFailed", "VersionMismatch", "NotConnected"}
Errors == Retriable \cup {"KvFull", "InvalidKey", "HardwareError",
                       "ProtocolVersionMismatch", "Internal"}
NotPending == -1

RetryInit ==
    /\ selective \in BOOLEAN
    /\ max_retries \in Limits /\ errors = <<>> /\ delays = <<>> /\ rpc = "trying"
    /\ clock = 0 /\ pending = [i \in FutureIds |-> NotPending]
    /\ scanned = {} /\ unscanned = {}

(***************************************************************************)
(* retry_rdma_op                                                           *)
(***************************************************************************)
Least(a, b) == IF a < b THEN a ELSE b

\* Without overflow checks the power wraps, to 0.
Pow2(attempt) == IF attempt < PowWidth THEN 2 ^ attempt ELSE 0

\* Before jitter.  (The product overflows, and panics, only beyond 2^64 seconds.)
Delay(attempt) == Least(BaseDelay * Pow2(attempt), MaxDelay)

\* Up to a quarter more or less, also where the delay was capped.
Jittered(delay) == {delay + jitter : jitter \in -(delay \div 4) .. delay \div 4}

SleepFor(attempt) == \E final_delay \in Jittered(Delay(attempt)) : delays' = Append(delays, final_delay)

TriedAgain(e) == selective => e \in Retriable

Succeed == rpc = "trying" /\ rpc' = "ok" /\ UNCHANGED <<selective, max_retries, errors, delays>>

\* A bug: one attempt too many.
MutFail(e) ==
    /\ rpc = "trying"
    /\ errors' = Append(errors, e)
    /\ IF ~TriedAgain(e) \/ Len(errors) > max_retries
       THEN rpc' = "err" /\ UNCHANGED delays
       ELSE rpc' = "trying" /\ SleepFor(Len(errors) + 1)
    /\ UNCHANGED <<selective, max_retries>>

\* The attempt counter is the number of errors so far.
Fail(e) ==
    /\ rpc = "trying"
    /\ errors' = Append(errors, e)
    /\ IF ~TriedAgain(e) \/ Len(errors) >= max_retries
       THEN rpc' = "err" /\ UNCHANGED delays
       ELSE rpc' = "trying" /\ SleepFor(Len(errors) + 1)
    /\ UNCHANGED <<selective, max_retries>>

(***************************************************************************)
(* PendingTracker                                                          *)
(***************************************************************************)
\* The bound leaves every entry the time to become late.
Register(i) ==
    /\ clock + Timeout < MaxClock
    /\ pending' = [pending EXCEPT ![i] = clock]
    /\ scanned' = scanned \ {i}
    /\ UNCHANGED <<clock, unscanned>>

Complete(i) ==
    /\ pending[i] # NotPending
    /\ pending' = [pending EXCEPT ![i] = NotPending]
    /\ scanned' = scanned \ {i}
    /\ UNCHANGED <<clock, unscanned>>

\* What collect_timeouts does not retain.
Late(i) == pending[i] # NotPending /\ clock - pending[i] > Timeout

ScanTimeouts ==
    /\ scanned' = {i \in FutureIds : pending[i] # NotPending /\ clock - pending[i] > Timeout}
    /\ UNCHANGED <<clock, pending, unscanned>>

\* A bug: nothing is removed.
MutCollectTimeouts == UNCHANGED tracker

CollectTimeouts ==
    /\ pending' = [i \in FutureIds |-> IF Late(i) THEN NotPending ELSE pending[i]]
    /\ unscanned' = unscanned \cup {i \in FutureIds : Late(i) /\ i \notin scanned}
    /\ scanned' = {}
    /\ UNCHANGED clock

Advance == clock < MaxClock /\ clock' = clock + 1 /\ UNCHANGED <<pending, scanned, unscanned>>

RetryLoop == Succeed \/ \E e \in Errors : Fail(e)

TrackerNext ==
    \/ \E i \in FutureIds : Register(i) \/ Complete(i)
    \/ ScanTimeouts \/ CollectTimeouts \/ Advance

RetryNext == (RetryLoop /\ UNCHANGED tracker) \/ (TrackerNext /\ UNCHANGED retry)

RetrySpec == RetryInit /\ [][RetryNext]_rvars

-----------------------------------------------------------------------------
RetryTypeOK ==
    /\ max_retries \in Limits /\ errors \in Seq(Errors) /\ delays \in Seq(Nat)
    /\ rpc \in {"trying", "ok", "err"} /\ clock \in 0 .. MaxClock
    /\ pending \in [FutureIds -> 0 .. clock \cup {NotPending}] /\ scanned \subseteq FutureIds

\* An operation is tried again only after errors that allow it, at most max_retries
\* times, and given up only when it must be.  No pause is longer than max_delay by more
\* than a quarter, and none is shorter than the one before unless max_delay was reached,
\* of which it is then at least three quarters.
RetryOutcome ==
    /\ Len(errors) <= max_retries + 1
    /\ \A k \in 1 .. Len(errors) : TriedAgain(errors[k]) \/ (rpc = "err" /\ k = Len(errors))
    /\ rpc = "err" => ~TriedAgain(errors[Len(errors)]) \/ Len(errors) = max_retries + 1
    /\ \A k \in 1 .. Len(delays) : 4 * delays[k] <= 5 * MaxDelay
    /\ \A k \in 2 .. Len(delays) : delays[k] < delays[k - 1] => 4 * delays[k] >= 3 * MaxDelay

\* max_delay is the "Maximum delay between retries".
PausesBelowMax == \A k \in 1 .. Len(delays) : delays[k] <= MaxDelay

\* Every entry leaves the tracker, even if its completion never comes.
PendingDrains == \A i \in FutureIds : pending[i] # NotPending ~> pending[i] = NotPending

\* The collector removes only what a scan reported, so nothing escapes its cleaning up.
CollectedWasScanned == unscanned = {}
=============================================================================
