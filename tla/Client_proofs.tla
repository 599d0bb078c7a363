---------------------------- MODULE Client_proofs ----------------------------
(***************************************************************************)
(* For every number of clients, sessions and restarts of the server: a     *)
(* session that has begun to reconnect never uses older metadata again,    *)
(* and the registry holds what a client was told it holds, so that the     *)
(* collector's floor is never above what a client may still use.  For any  *)
(* limits and errors the retry helpers stop when they must; for any keys   *)
(* and order of reports the Director's view of a connector is right; and   *)
(* for any callers the event driven poller never sleeps deaf.              *)
(***************************************************************************)
EXTENDS Session, Retry, Director, AsyncPoller, WellFoundedInduction, TLAPS

(***************************************************************************)
(* Reports to the Director.                                                *)
(***************************************************************************)
Reports == [n : Nat, op : {"store", "remove"}, key : CacheKeys]

\* The reports on the way are different ones, made by earlier calls.
Numbered ==
    /\ calls_made \in Nat /\ completed \in Seq(Reports) /\ tasks \in SUBSET Reports
    /\ \A i \in DOMAIN completed : completed[i].n < calls_made
    /\ \A t \in tasks : t.n < calls_made
    /\ \A i, j \in DOMAIN completed : completed[i].n = completed[j].n => i = j
    /\ \A i \in DOMAIN completed, t \in tasks : completed[i].n # t.n

Reported == Chunks \ excused

\* The last word about a hash is right: the last completion not drained, else the report
\* under way, of which there is one.
LastTrue ==
    \A h \in Reported :
        /\ \A i \in DOMAIN completed :
               /\ completed[i].key \in h
               /\ \A j \in DOMAIN completed : j > i => completed[j].key \notin h
               => Right(h, completed[i].op = "store")
        /\ \A t \in tasks : t.key \in h /\ Drained(h) => Right(h, t.op = "store")
        /\ \A t, u \in tasks : t.key \in h /\ u.key \in h => t = u

DirectorInv == Numbered /\ cache \subseteq CacheKeys /\ LastTrue /\ ViewExact

\* A hash of which two reports are under way together is excused.
LEMMA RacingPair ==
    ASSUME NEW rs, NEW h \in Chunks, NEW t \in rs, NEW u \in rs, t.key \in h, u.key \in h, t # u
    PROVE  h \in Racing(rs)
BY Zenon DEF Racing

LEMMA DirectorStarts == DirectorInit => DirectorInv
<1> SUFFICES ASSUME DirectorInit PROVE DirectorInv
    BY Zenon
<1>1. DOMAIN completed = {}
  BY DEF DirectorInit
<1>2. completed \in Seq(Reports) /\ calls_made = 0 /\ tasks = {} /\ known = {} /\ cache = {}
  BY DEF DirectorInit
<1> QED
  <2>1. \A h \in Chunks : Right(h, h \in known)
    BY <1>2, Zenon DEF Right
  <2> QED
    BY <1>1, <1>2, <2>1, Zenon DEF DirectorInv, Numbered, LastTrue, ViewExact

LEMMA CallKeeps ==
    ASSUME DirectorInv, NEW op \in {"store", "remove"}, NEW k \in CacheKeys,
           CallCompletes(op, k)
    PROVE  DirectorInv'
<1> DEFINE r == [n |-> calls_made, op |-> op, key |-> k]
           m == Len(completed)
<1>1. /\ completed' = Append(completed, r) /\ calls_made' = calls_made + 1
      /\ tasks' = tasks /\ known' = known /\ excused \subseteq excused'
  BY Zenon DEF CallCompletes
<1>2. completed \in Seq(Reports) /\ calls_made \in Nat /\ r \in Reports
  BY Zenon DEF DirectorInv, Numbered, Reports
<1>3. /\ completed' \in Seq(Reports) /\ m \in Nat /\ DOMAIN completed = 1 .. m
      /\ DOMAIN completed' = 1 .. m + 1 /\ completed'[m + 1] = r
      /\ \A i \in 1 .. m : completed'[i] = completed[i]
  BY <1>1, <1>2
<1>a. r.n = calls_made /\ r.key = k /\ r.op = op
  BY Zenon
<1> HIDE DEF r, m
<1>6. Numbered'
  <2>0. /\ \A i \in 1 .. m : completed[i].n \in Nat /\ completed[i].n < calls_made
        /\ \A t \in tasks : t.n \in Nat /\ t.n < calls_made
        /\ \A i, j \in 1 .. m : completed[i].n = completed[j].n => i = j
        /\ \A i \in 1 .. m, t \in tasks : completed[i].n # t.n
    <3>1. \A i \in 1 .. m : completed[i] \in Reports
      BY <1>2, <1>3
    <3>2. \A x \in Reports : x.n \in Nat
      BY Zenon DEF Reports
    <3>3. tasks \subseteq Reports /\ DOMAIN completed = 1 .. m
      BY <1>3, Zenon DEF DirectorInv, Numbered
    <3> QED
      BY <3>1, <3>2, <3>3, Zenon DEF DirectorInv, Numbered
  <2>1. \A i \in DOMAIN completed' : completed'[i].n < calls_made'
    BY <2>0, <1>1, <1>2, <1>3, <1>a
  <2>2. \A t \in tasks' : t.n < calls_made'
    BY <2>0, <1>1, <1>2
  <2>3. \A i, j \in DOMAIN completed' : completed'[i].n = completed'[j].n => i = j
    BY <2>0, <1>1, <1>2, <1>3, <1>a
  <2>4. \A i \in DOMAIN completed', t \in tasks' : completed'[i].n # t.n
    BY <2>0, <1>1, <1>2, <1>3, <1>a
  <2> QED
    <3>1. calls_made' \in Nat /\ tasks' \in SUBSET Reports
      BY <1>1 DEF DirectorInv, Numbered
    <3> QED
      BY <1>3, <2>1, <2>2, <2>3, <2>4, <3>1, Zenon DEF Numbered
<1>7. ASSUME NEW h \in Reported'
      PROVE  /\ h \in Reported
             /\ k \notin h => h \cap cache = h \cap cache'
             /\ k \in h => Right(h, op = "store")'
  <2>1. h \in Reported
    BY <1>1, <1>7, Zenon DEF Reported
  <2>2. CASE op = "remove"
    <3>1. cache' = cache \ {k}
      BY <2>2, Zenon DEF CallCompletes, After
    <3>2. k \notin h => h \cap cache = h \cap cache'
      BY <3>1, Zenon
    <3>3. k \in h => Right(h, FALSE)'
      BY <3>1, Zenon DEF Right
    <3> QED
      BY <2>1, <2>2, <3>2, <3>3
  <2>3. CASE op = "store"
    <3>1. cache' \subseteq cache \cup {k} /\ h \notin HashesOf((cache \cup {k}) \ cache')
      <4>1. excused' = excused \cup HashesOf((cache \cup {k}) \ cache') /\ cache' \in After(op, k)
        BY <2>3, Zenon DEF CallCompletes
      <4>2. cache' \subseteq cache \cup {k}
        BY <2>3, <4>1 DEF After
      <4> QED
        BY <4>1, <4>2, <1>7, Zenon DEF Reported
    <3>2. h \cap ((cache \cup {k}) \ cache') = {}
      BY <2>1, <3>1, Zenon DEF HashesOf, Reported
    <3>3. k \notin h => h \cap cache = h \cap cache'
      BY <3>1, <3>2
    <3>4. k \in h => Right(h, TRUE)'
      <4>1. k \in h => k \in cache'
        BY <3>2
      <4> QED
        BY <4>1, Zenon DEF Right
    <3> QED
      BY <2>1, <2>3, <3>3, <3>4, Zenon
  <2> QED
    BY <2>2, <2>3, Zenon
<1>8. ASSUME NEW h \in Reported', Drained(h)' PROVE k \notin h /\ Drained(h)
  BY <1>3, <1>8, <1>a DEF Drained
<1>9. LastTrue'
  <2> SUFFICES ASSUME NEW h \in Reported'
               PROVE  /\ \A i \in DOMAIN completed' :
                             /\ completed'[i].key \in h
                             /\ \A j \in DOMAIN completed' : j > i => completed'[j].key \notin h
                             => Right(h, completed[i].op = "store")'
                      /\ \A t \in tasks : t.key \in h /\ Drained(h)' => Right(h, t.op = "store")'
                      /\ \A t, u \in tasks : t.key \in h /\ u.key \in h => t = u
    BY <1>1, Zenon DEF LastTrue
  <2>1. ASSUME NEW i \in DOMAIN completed', completed'[i].key \in h,
               \A j \in DOMAIN completed' : j > i => completed'[j].key \notin h
        PROVE  Right(h, completed[i].op = "store")'
    <3>1. CASE k \in h
      <4>1. i = m + 1
        BY <2>1, <3>1, <1>3, <1>a
      <4>2. completed'[i].op = op
        BY <4>1, <1>3, <1>a, Zenon
      <4> QED
        BY <3>1, <4>2, <1>7, Zenon
    <3>2. CASE k \notin h
      <4>1. i \in DOMAIN completed /\ completed'[i] = completed[i]
        BY <2>1, <3>2, <1>3, <1>a
      <4>2. \A j \in DOMAIN completed : j > i => completed[j].key \notin h
        BY <2>1, <1>3
      <4>3. Right(h, completed[i].op = "store")
        BY <2>1, <4>1, <4>2, <1>7, ZenonT(40) DEF DirectorInv, LastTrue
      <4>4. h \cap cache = h \cap cache'
        BY <3>2, <1>7, Zenon
      <4> QED
        BY <4>1, <4>3, <4>4, Zenon DEF Right
    <3> QED
      BY <3>1, <3>2, Zenon
  <2>2. ASSUME NEW t \in tasks, t.key \in h, Drained(h)' PROVE Right(h, t.op = "store")'
    <3>1. h \cap cache = h \cap cache' /\ h \in Reported /\ Drained(h)
      BY <2>2, <1>7, <1>8, Zenon
    <3>2. Right(h, t.op = "store")
      BY <2>2, <3>1, Zenon DEF DirectorInv, LastTrue
    <3> QED
      BY <3>1, <3>2, Zenon DEF Right
  <2>3. \A t, u \in tasks : t.key \in h /\ u.key \in h => t = u
    BY <1>7, Zenon DEF DirectorInv, LastTrue
  <2> QED
    BY <2>1, <2>2, <2>3, Zenon
<1>10. ViewExact'
  <2> SUFFICES ASSUME NEW h \in Reported', Drained(h)', \A t \in tasks : t.key \notin h
               PROVE  Right(h, h \in known)'
    BY <1>1, Zenon DEF ViewExact, Reported
  <2>1. h \cap cache = h \cap cache' /\ h \in Reported /\ Drained(h)
    BY <1>7, <1>8, Zenon
  <2>2. Right(h, h \in known)
    BY <2>1, Zenon DEF DirectorInv, ViewExact, Reported
  <2> QED
    BY <1>1, <2>1, <2>2, Zenon DEF Right
<1>11. cache' \subseteq CacheKeys
  BY DEF CallCompletes, After, DirectorInv
<1> QED
  BY <1>6, <1>9, <1>10, <1>11, Zenon DEF DirectorInv

LEMMA DrainKeeps ==
    ASSUME DirectorInv, Drain
    PROVE  DirectorInv'
<1> DEFINE new == {completed[i] : i \in DOMAIN completed}
<1>1. /\ completed' = <<>> /\ tasks' = tasks \cup new /\ excused' = excused \cup Racing(tasks')
      /\ UNCHANGED <<cache, calls_made, known>>
  BY Zenon DEF Drain
<1>2. completed' \in Seq(Reports) /\ DOMAIN completed' = {}
  BY <1>1
<1>3. /\ completed \in Seq(Reports)
      /\ \A x \in new : x \in Reports /\ x.n < calls_made
  BY DEF DirectorInv, Numbered
<1>5. Numbered'
  BY <1>1, <1>2, <1>3, Zenon DEF DirectorInv, Numbered
<1>6. ASSUME NEW h \in Reported' PROVE h \in Reported
  BY <1>1, <1>6, Zenon DEF Reported
<1>7. ASSUME NEW h \in Reported', NEW t \in tasks', NEW u \in tasks', t.key \in h, u.key \in h
      PROVE  t = u
  <2>1. h \notin Racing(tasks')
    BY <1>1, <1>7, Zenon DEF Reported
  <2> QED
    BY <2>1, <1>7, RacingPair, Zenon DEF Reported
<1>8. ASSUME NEW h \in Reported', NEW t \in tasks', t.key \in h
      PROVE  Right(h, t.op = "store")
  <2>1. CASE Drained(h)
    <3>1. t \in tasks
      BY <1>1, <1>8, <2>1, Zenon DEF Drained
    <3> QED
      BY <2>1, <3>1, <1>6, <1>8, Zenon DEF DirectorInv, LastTrue
  <2>2. CASE ~Drained(h)
    <3>1. PICK i \in DOMAIN completed : completed[i].key \in h
      BY <2>2, Zenon DEF Drained
    <3>2. completed[i] \in tasks'
      BY <1>1, Zenon
    <3>3. t = completed[i]
      BY <1>7, <1>8, <3>1, <3>2, Zenon
    <3>4. ASSUME NEW j \in DOMAIN completed, j > i PROVE completed[j].key \notin h
      <4>1. completed[j] \in tasks'
        BY <1>1, Zenon
      <4>2. completed[j].key \in h => completed[j] = completed[i]
        BY <1>7, <3>1, <3>2, <4>1, Zenon
      <4>3. completed[j] = completed[i] => j = i
        BY Zenon DEF DirectorInv, Numbered
      <4>4. i \in Int
        BY <1>3
      <4> QED
        BY <3>4, <4>2, <4>3, <4>4
    <3> QED
      BY <1>6, <3>1, <3>3, <3>4, Zenon DEF DirectorInv, LastTrue
  <2> QED
    BY <2>1, <2>2, Zenon
<1>9. LastTrue'
  <2>1. \A h \in Reported', t \in tasks' : t.key \in h => Right(h, t.op = "store")'
    BY <1>1, <1>8, Zenon DEF Right
  <2> QED
    BY <1>2, <1>7, <2>1, Zenon DEF LastTrue
<1>10. ViewExact'
  <2> SUFFICES ASSUME NEW h \in Reported', \A t \in tasks' : t.key \notin h
               PROVE  Right(h, h \in known)'
    BY Zenon DEF ViewExact, Reported
  <2>1. Drained(h) /\ \A t \in tasks : t.key \notin h
    BY <1>1, Zenon DEF Drained
  <2>2. Right(h, h \in known)
    BY <2>1, <1>6, Zenon DEF DirectorInv, ViewExact, Reported
  <2> QED
    BY <2>2, <1>1, Zenon DEF Right
<1> QED
  BY <1>1, <1>5, <1>9, <1>10, Zenon DEF DirectorInv

LEMMA ReportKeeps ==
    ASSUME DirectorInv, NEW t \in tasks, Report(t)
    PROVE  DirectorInv'
<1>1. /\ tasks' = tasks \ {t} /\ UNCHANGED <<completed, cache, calls_made>>
      /\ excused \subseteq excused'
      /\ \/ known' = Apply(t)
         \/ known' = known /\ excused' = excused \cup HashesOf({t.key})
  BY Zenon DEF Report
<1>2. \A h, b : Right(h, b)' <=> Right(h, b)
  BY <1>1, Zenon DEF Right
<1>3. Numbered'
  BY <1>1, Zenon DEF DirectorInv, Numbered
<1>4. ASSUME NEW h \in Reported' PROVE h \in Reported
  BY <1>1, <1>4, Zenon DEF Reported
<1>5. LastTrue'
  <2> SUFFICES ASSUME NEW h \in Reported'
               PROVE  /\ \A i \in DOMAIN completed :
                             /\ completed[i].key \in h
                             /\ \A j \in DOMAIN completed : j > i => completed[j].key \notin h
                             => Right(h, completed[i].op = "store")
                      /\ \A u \in tasks : u.key \in h /\ Drained(h) => Right(h, u.op = "store")
                      /\ \A u, v \in tasks : u.key \in h /\ v.key \in h => u = v
    BY <1>1, Zenon DEF LastTrue, Drained, Right
  <2> QED
    BY <1>4, Zenon DEF DirectorInv, LastTrue
<1>6. ViewExact'
  <2> SUFFICES ASSUME NEW h \in Reported', Drained(h), \A u \in tasks' : u.key \notin h
               PROVE  Right(h, h \in known')
    BY <1>1, Zenon DEF ViewExact, Reported, Drained, Right
  <2>1. CASE t.key \in h
    <3>1. h \in HashesOf({t.key})
      BY <2>1, Zenon DEF HashesOf, Reported
    <3>2. known' = Apply(t)
      BY <1>1, <3>1, Zenon DEF Reported
    <3>3. Right(h, t.op = "store")
      BY <1>4, <2>1, Zenon DEF DirectorInv, LastTrue
    <3>4. h \in known' <=> t.op = "store"
      BY <3>1, <3>2, Zenon DEF Apply
    <3> QED
      BY <3>3, <3>4, Zenon DEF Right
  <2>2. CASE t.key \notin h
    <3>1. \A u \in tasks : u.key \notin h
      BY <1>1, <2>2, Zenon
    <3>2. Right(h, h \in known)
      BY <3>1, <1>4, Zenon DEF DirectorInv, ViewExact, Reported
    <3>3. h \notin HashesOf({t.key})
      BY <2>2, Zenon DEF HashesOf
    <3>4. h \in known' <=> h \in known
      BY <1>1, <3>3, Zenon DEF Apply
    <3> QED
      BY <3>2, <3>4, Zenon DEF Right
  <2> QED
    BY <2>1, <2>2, Zenon
<1> QED
  BY <1>1, <1>3, <1>5, <1>6, Zenon DEF DirectorInv

LEMMA DirectorQuiet ==
    ASSUME DirectorInv, UNCHANGED <<cache, completed, calls_made, tasks, known, excused>>
    PROVE  DirectorInv'
BY Zenon DEF DirectorInv, Numbered, LastTrue, ViewExact, Reported, Drained, Right

LEMMA DirectorStep == DirectorInv /\ [DirectorNext]_dvars => DirectorInv'
<1> SUFFICES ASSUME DirectorInv, [DirectorNext]_dvars PROVE DirectorInv'
    OBVIOUS
<1>1. CASE NewConnector \/ Abort \/ DeregisterInstance \/ DropConnector
  BY <1>1, DirectorQuiet, Zenon DEF NewConnector, Abort, DeregisterInstance, DropConnector
<1>2. CASE HeartbeatWakes \/ HeartbeatCalls \/ HeartbeatArrives \/ HeartbeatReturns \/ Cancelled
  BY <1>2, DirectorQuiet, Zenon
     DEF HeartbeatWakes, HeartbeatCalls, HeartbeatArrives, HeartbeatReturns, Cancelled, Quiet
<1>3. CASE UNCHANGED dvars
  BY <1>3, DirectorQuiet, Zenon DEF dvars
<1> QED
  BY <1>1, <1>2, <1>3, CallKeeps, DrainKeeps, ReportKeeps, Zenon DEF DirectorNext

\* For any keys and calls, in whatever order the report tasks that drain_completions
\* (lmcache-connector/src/lib.rs) spawns run, and however the keys are hashed: once
\* everything about a hash was drained and reported, the Director believes in it only if a
\* key with it is stored, and misses it then only if keys share it, unless a report of it
\* was lost, two were under way together, or a write cost a key of it.
THEOREM ViewAlwaysRight == DirectorSpec => []ViewExact
<1>1. DirectorInv => ViewExact
  BY Zenon DEF DirectorInv
<1> QED
  BY <1>1, DirectorStarts, DirectorStep, PTL DEF DirectorSpec

(***************************************************************************)
(* Retries.                                                                *)
(***************************************************************************)
RetryTyped ==
    /\ selective \in BOOLEAN /\ max_retries \in Limits
    /\ errors \in Seq(Errors) /\ delays \in Seq(Int) /\ rpc \in {"trying", "ok", "err"}

\* Every error but the last one of a call that failed was followed by its pause.
Paused ==
    /\ Len(errors) = Len(delays) + (IF rpc = "err" THEN 1 ELSE 0)
    /\ Len(delays) <= max_retries
    /\ \A k \in 1 .. Len(delays) : delays[k] \in Jittered(Delay(k)) /\ TriedAgain(errors[k])
    /\ rpc = "err" => ~TriedAgain(errors[Len(errors)]) \/ Len(errors) = max_retries + 1

RetryInv == RetryTyped /\ Paused

\* The delays before jitter are capped natural numbers.
LEMMA DelayNat ==
    ASSUME NEW l \in Limits, l < PowWidth, NEW k \in 1 .. l
    PROVE  Delay(k) \in Nat /\ Delay(k) <= MaxDelay
<1>1. l \in Nat /\ Pow2(k) = 2 ^ k
  BY RetryAssumption DEF Pow2
<1>2. 2 ^ k \in Int /\ 2 ^ k >= 0
  <2>1. CASE k = 1
    BY <2>1
  <2>2. CASE k # 1
    <3>1. k - 1 \in 1 .. l - 1 /\ (k - 1) + 1 = k
      BY <1>1, <2>2
    <3>2. 2 ^ (k - 1) >= 0 /\ 2 ^ k = 2 * 2 ^ (k - 1)
      BY <3>1, PowerLaw, Zenon
    <3>3. 2 ^ (k - 1) \in Int
      BY <3>1
    <3> QED
      BY <3>2, <3>3
  <2> QED
    BY <2>1, <2>2
<1> DEFINE p == 2 ^ k
<1>3. p \in Nat /\ Pow2(k) = p
  BY <1>1, <1>2
<1> HIDE DEF p
<1>4. BaseDelay * p \in Nat
  BY <1>3, RetryAssumption
<1> QED
  BY <1>3, <1>4, RetryAssumption DEF Delay, Least

\* The jitter is at most a quarter.
LEMMA JitterQuarter ==
    ASSUME NEW d \in Nat, NEW p \in Jittered(d)
    PROVE  p \in Int /\ 4 * p <= 5 * d /\ 4 * p >= 3 * d
<1>1. PICK j \in -(d \div 4) .. d \div 4 : p = d + j
  BY Zenon DEF Jittered
<1> QED
  BY <1>1

\* Below the width of the power the delays double until they are capped.
LEMMA DelayGrows ==
    ASSUME NEW l \in Limits, l < PowWidth, NEW k \in 2 .. l
    PROVE  Delay(k) = MaxDelay \/ Delay(k) >= 2 * Delay(k - 1)
<1> DEFINE p == 2 ^ (k - 1)
<1>1. p >= 0 /\ 2 ^ k = 2 * p
  <2>1. l \in Nat /\ k - 1 \in 1 .. l - 1 /\ (k - 1) + 1 = k
    BY RetryAssumption
  <2> QED
    BY <2>1, PowerLaw, Zenon
<1>2. Pow2(k - 1) = p /\ Pow2(k) = 2 * p /\ p \in Int
  BY <1>1, RetryAssumption DEF Pow2
<1> HIDE DEF p
<1>3. /\ BaseDelay * (2 * p) = 2 * (BaseDelay * p)
      /\ BaseDelay * p \in Int /\ BaseDelay * (2 * p) \in Int
  BY <1>1, <1>2, RetryAssumption
<1> QED
  BY <1>2, <1>3, RetryAssumption DEF Delay, Least

LEMMA RetryStarts == RetryInit => RetryInv
<1> SUFFICES ASSUME RetryInit PROVE RetryInv
    BY Zenon
<1>1. errors = <<>> /\ delays = <<>> /\ rpc = "trying" /\ max_retries \in Limits /\ selective \in BOOLEAN
  BY Zenon DEF RetryInit
<1>2. Len(errors) = 0 /\ Len(delays) = 0 /\ errors \in Seq(Errors) /\ delays \in Seq(Int)
  BY <1>1
<1> QED
  BY <1>1, <1>2, RetryAssumption DEF RetryInv, RetryTyped, Paused

LEMMA FailKeeps ==
    ASSUME RetryInv, NEW e \in Errors, Fail(e), \A l \in Limits : l < PowWidth
    PROVE  RetryInv'
<1> DEFINE n == Len(delays)
<1>1. /\ rpc = "trying" /\ errors' = Append(errors, e)
      /\ max_retries' = max_retries /\ selective' = selective
      /\ \/ (~TriedAgain(e) \/ Len(errors) >= max_retries) /\ rpc' = "err" /\ delays' = delays
         \/ /\ TriedAgain(e) /\ ~(Len(errors) >= max_retries)
            /\ rpc' = "trying"
            /\ \E p \in Jittered(Delay(Len(errors) + 1)) : delays' = Append(delays, p)
  BY Zenon DEF Fail, SleepFor
<1>2. /\ n \in Nat /\ Len(errors) = n /\ max_retries \in Nat /\ n <= max_retries
      /\ errors \in Seq(Errors) /\ delays \in Seq(Int)
  BY <1>1, RetryAssumption DEF RetryInv, RetryTyped, Paused
<1>3. /\ Len(errors') = n + 1 /\ errors'[n + 1] = e /\ errors' \in Seq(Errors)
      /\ \A k \in 1 .. n : errors'[k] = errors[k]
  BY <1>1, <1>2
<1>4. \A x : TriedAgain(x)' <=> TriedAgain(x)
  BY <1>1, Zenon DEF TriedAgain
<1>5. \A k \in 1 .. n : delays[k] \in Jittered(Delay(k)) /\ TriedAgain(errors[k])
  BY Zenon DEF RetryInv, Paused
<1> HIDE DEF n
<1>6. CASE /\ ~TriedAgain(e) \/ Len(errors) >= max_retries
           /\ rpc' = "err" /\ delays' = delays
  <2>1. RetryTyped'
    BY <1>1, <1>3, <1>6, SMTT(30) DEF RetryInv, RetryTyped
  <2>2. Len(delays') = n /\ Len(errors') = Len(delays') + (IF rpc' = "err" THEN 1 ELSE 0)
    BY <1>3, <1>6, Zenon DEF n
  <2>3. \A k \in 1 .. n : delays'[k] \in Jittered(Delay(k)) /\ TriedAgain(errors'[k])
    BY <1>3, <1>5, <1>6, Zenon
  <2>4. ~TriedAgain(errors'[Len(errors')]) \/ Len(errors') = max_retries' + 1
    BY <1>1, <1>2, <1>3, <1>6
  <2> QED
    BY <1>1, <1>2, <1>4, <2>1, <2>2, <2>3, <2>4, Zenon DEF RetryInv, Paused
<1>7. CASE /\ TriedAgain(e) /\ ~(Len(errors) >= max_retries)
           /\ rpc' = "trying"
           /\ \E p \in Jittered(Delay(Len(errors) + 1)) : delays' = Append(delays, p)
  <2>0. PICK p \in Jittered(Delay(n + 1)) : delays' = Append(delays, p)
    BY <1>2, <1>7, Zenon
  <2>1. p \in Int
    <3>1. n + 1 \in 1 .. max_retries /\ max_retries \in Limits /\ max_retries < PowWidth
      BY <1>2, <1>7 DEF RetryInv, RetryTyped
    <3> QED
      BY <3>1, DelayNat, JitterQuarter, Zenon
  <2>2. /\ Len(delays') = n + 1 /\ delays'[n + 1] = p /\ delays' \in Seq(Int)
        /\ \A k \in 1 .. n : delays'[k] = delays[k]
    BY <1>2, <2>0, <2>1 DEF n
  <2>3. RetryTyped'
    BY <1>1, <1>3, <1>7, <2>2 DEF RetryInv, RetryTyped
  <2>4. ASSUME NEW k \in 1 .. n + 1 PROVE delays'[k] \in Jittered(Delay(k)) /\ TriedAgain(errors'[k])
    <3>1. k = n + 1 \/ k \in 1 .. n
      BY <1>2
    <3> QED
      BY <3>1, <1>3, <1>5, <1>7, <2>0, <2>2, Zenon
  <2> QED
    BY <1>1, <1>2, <1>3, <1>4, <1>7, <2>2, <2>3, <2>4, SMTT(30) DEF RetryInv, Paused
<1> QED
  BY <1>1, <1>6, <1>7, Zenon

LEMMA RetryStep ==
    ASSUME RetryInv, [RetryNext]_rvars, \A l \in Limits : l < PowWidth
    PROVE  RetryInv'
<1>1. ASSUME UNCHANGED <<selective, max_retries, errors, delays>>,
             rpc' = rpc \/ (rpc = "trying" /\ rpc' = "ok")
      PROVE  RetryInv'
  <2>1. \A x : TriedAgain(x)' <=> TriedAgain(x)
    BY <1>1, Zenon DEF TriedAgain
  <2> QED
    BY <1>1, <2>1, Zenon DEF RetryInv, RetryTyped, Paused
<1>2. CASE Succeed
  BY <1>1, <1>2, Zenon DEF Succeed
<1>3. CASE UNCHANGED retry
  BY <1>1, <1>3, Zenon DEF retry
<1> QED
  BY <1>2, <1>3, FailKeeps, Zenon DEF RetryNext, RetryLoop, rvars

LEMMA PausedOutcome ==
    ASSUME RetryInv, \A l \in Limits : l < PowWidth
    PROVE  RetryOutcome
<1> DEFINE n == Len(delays)
<1>1. n \in Nat /\ max_retries \in Limits /\ max_retries \in Nat /\ n <= max_retries
  BY RetryAssumption DEF RetryInv, RetryTyped, Paused
<1>2. \A k \in 1 .. n : delays[k] \in Jittered(Delay(k)) /\ TriedAgain(errors[k])
  BY Zenon DEF RetryInv, Paused
<1>3. \/ rpc = "err" /\ Len(errors) = n + 1
      \/ rpc # "err" /\ Len(errors) = n
  BY <1>1 DEF RetryInv, Paused
<1>4. rpc = "err" => ~TriedAgain(errors[Len(errors)]) \/ Len(errors) = max_retries + 1
  BY Zenon DEF RetryInv, Paused
<1> HIDE DEF n
<1>a. ASSUME NEW k \in 1 .. n
      PROVE  /\ Delay(k) \in Nat /\ Delay(k) <= MaxDelay /\ delays[k] \in Int
             /\ 4 * delays[k] <= 5 * Delay(k) /\ 4 * delays[k] >= 3 * Delay(k)
  <2>1. k \in 1 .. max_retries
    BY <1>1
  <2>2. Delay(k) \in Nat /\ Delay(k) <= MaxDelay
    BY <1>1, <2>1, DelayNat, Zenon
  <2> QED
    BY <1>2, <2>2, JitterQuarter, Zenon
<1>5. \A k \in 1 .. n : 4 * delays[k] <= 5 * MaxDelay
  BY <1>a, RetryAssumption
<1>6. ASSUME NEW k \in 2 .. n, delays[k] < delays[k - 1] PROVE 4 * delays[k] >= 3 * MaxDelay
  <2>1. k \in 2 .. max_retries /\ k - 1 \in 1 .. n /\ k \in 1 .. n
    BY <1>1
  <2>2. Delay(k) = MaxDelay \/ Delay(k) >= 2 * Delay(k - 1)
    BY <1>1, <2>1, DelayGrows, Zenon
  <2> DEFINE d == Delay(k)  e == Delay(k - 1)  p == delays[k]  q == delays[k - 1]
  <2>3. /\ d \in Nat /\ e \in Nat /\ p \in Int /\ q \in Int
        /\ 4 * p >= 3 * d /\ 4 * q <= 5 * e /\ p < q /\ (d = MaxDelay \/ d >= 2 * e)
    BY <1>a, <1>6, <2>1, <2>2, Zenon
  <2> HIDE DEF d, e, p, q
  <2>4. 4 * p >= 3 * MaxDelay
    BY <2>3
  <2> QED
    BY <2>4, Zenon DEF p
<1>7. Len(errors) <= max_retries + 1
  BY <1>1, <1>3
<1>8. \A k \in 1 .. Len(errors) : TriedAgain(errors[k]) \/ (rpc = "err" /\ k = Len(errors))
  BY <1>1, <1>2, <1>3
<1> QED
  BY <1>4, <1>5, <1>6, <1>7, <1>8, Zenon DEF RetryOutcome, n

\* As long as max_retries is below the width of 2u32.pow (the default is 3), whatever errors
\* come, retry_rdma_op and retry_with_backoff (retry.rs) try again only after errors that
\* allow it and at most max_retries times and give up only when they must; no pause exceeds
\* max_delay by more than a quarter, and none is shorter than the one before unless it is
\* at least three quarters of max_delay.
THEOREM RetryAlwaysRight ==
    (\A l \in Limits : l < PowWidth) => (RetrySpec => []RetryOutcome)
<1> SUFFICES ASSUME \A l \in Limits : l < PowWidth
             PROVE  RetrySpec => []RetryOutcome
    BY Zenon
<1>1. RetryInv => RetryOutcome
  BY PausedOutcome, Zenon
<1>2. RetryInv /\ [RetryNext]_rvars => RetryInv'
  BY RetryStep, Zenon
<1> QED
  BY <1>1, <1>2, RetryStarts, PTL DEF RetrySpec

(***************************************************************************)
(* The event driven poller.                                                *)
(***************************************************************************)
\* An event is waiting, or the next completion will generate one, or the thread was
\* refused one.
Listening == armed \/ events > 0 \/ arm_failed

\* The thread is listening wherever it may reach epoll_wait without arming: at the top
\* of the loop and in the fallback, which no event precedes.
PollerInv ==
    /\ events \in Nat /\ spins \in Nat
    /\ armed \in BOOLEAN /\ arm_failed \in BOOLEAN
    /\ thread \in {"check", "epoll", "event", "poll", "dispatch", "arm", "exited"}
    /\ thread \in {"check", "epoll"} => Listening
    /\ thread = "event" => events > 0
    /\ thread \in {"poll", "dispatch"} /\ spins > 0 => Listening
    /\ thread \in {"check", "epoll", "event", "arm"} => spins = 0

LEMMA PollerStep == PollerInv /\ [Next]_vars => PollerInv'
<1> SUFFICES ASSUME PollerInv, [Next]_vars PROVE PollerInv'
    OBVIOUS
<1> USE AsyncPollerAssumption DEF PollerInv, Listening
<1>1. ASSUME NEW t \in Tasks, Post(t) PROVE PollerInv'
  BY <1>1, Zenon DEF Post, ctl
<1>0. ASSUME NEW t \in Tasks, HwComplete(t) PROVE PollerInv'
  <2>1. /\ events' \in Nat /\ events' >= events /\ (armed => events' > 0) /\ armed' \in BOOLEAN
        /\ UNCHANGED <<thread, spins, arm_failed>>
    <3>1. /\ armed => events' = events + 1
          /\ ~armed => events' = events
          /\ armed' \in BOOLEAN
          /\ UNCHANGED <<thread, spins, arm_failed>>
      BY <1>0, Zenon DEF HwComplete, ctl
    <3> QED
      BY <3>1
  <2>2. Listening => events' > 0 \/ arm_failed'
    BY <2>1
  <2> QED
    BY <2>1, <2>2
<1>2. CASE Check \/ EpollInterrupted \/ EpollReady
  BY <1>2, Zenon DEF Check, EpollInterrupted, EpollReady, hwvars, ctl
<1>3. CASE EpollTimeout
  BY <1>3, Zenon DEF EpollTimeout, hwvars, ctl
<1>4. CASE GetEvent
  BY <1>4 DEF GetEvent, ctl
<1>9. CASE GetEventFails
  BY <1>9, Zenon DEF GetEventFails, hwvars
<1>5. CASE Poll \/ PollFails \/ DeadlinePassed
  <2>1. ASSUME Poll \/ PollFails
        PROVE  /\ thread = "poll" /\ thread' = "dispatch"
               /\ UNCHANGED <<armed, events, spins, arm_failed>>
    BY <2>1, Zenon DEF Poll, PollFails, hwvars, ctl
  <2> QED
    BY <1>5, <2>1 DEF DeadlinePassed, hwvars, ctl
<1>6. CASE Dispatch
  BY <1>6 DEF Dispatch, hwvars, ctl
<1>7. CASE RequestNotification \/ Shutdown
  BY <1>7, Zenon DEF RequestNotification, Shutdown, hwvars
<1>8. CASE UNCHANGED vars
  BY <1>8, Zenon DEF vars, hwvars, ctl
<1> QED
  BY <1>0, <1>1, <1>2, <1>3, <1>4, <1>5, <1>6, <1>7, <1>8, <1>9, Zenon
     DEF Next, ThreadStep, EpollReturns

\* Whatever arrives between a harvest and the next request for a notification, and
\* however often the fallback runs, the poller's thread (poller.rs, spawn_with_config)
\* never sleeps with no event pending and none to come, unless arming failed.
THEOREM NeverGoesDeaf == Spec => []NeverDeaf
<1>1. Init => PollerInv
  <2>1. Init => /\ events = 0 /\ thread = "check" /\ spins = 0
                /\ armed \in BOOLEAN /\ arm_failed \in BOOLEAN /\ Listening
    BY Zenon DEF Init, Listening
  <2> QED
    BY <2>1 DEF PollerInv
<1>2. PollerInv => NeverDeaf
  BY Zenon DEF PollerInv, Listening, NeverDeaf
<1> QED
  BY <1>1, <1>2, PollerStep, PTL DEF Spec

(***************************************************************************)
(* Sessions.                                                               *)
(***************************************************************************)
SessionTypeOK ==
    /\ incarnation \in Nat
    /\ meta \in [Sessions -> Nat] /\ fetched \in [Sessions -> Nat] /\ since \in [Sessions -> Nat]
    /\ pc \in [Sessions -> {"closed", "control", "versioned", "discovered", "open", "refreshing",
                            "invalidated", "rediscovered"}]

\* Metadata on their way into the session are as new as the last reconnect.
FetchedFresh ==
    \A c \in Sessions :
        /\ since[c] <= incarnation
        /\ pc[c] \in {"closed", "control", "versioned", "discovered"} => since[c] = 0
        /\ pc[c] \in {"discovered", "refreshing", "rediscovered"} => fetched[c] >= since[c]

SessionInv == SessionTypeOK /\ FetchedFresh /\ ReconnectForgets

LEMMA SessionInit == SInit => SessionInv
BY DEF SInit, SessionInv, SessionTypeOK, FetchedFresh, ReconnectForgets

LEMMA SessionKept ==
    ASSUME SessionInv, UNCHANGED session, incarnation' \in {incarnation, incarnation + 1}
    PROVE  SessionInv'
<1>1. UNCHANGED <<pc, meta, fetched, since>>
  BY Zenon DEF session
<1> QED
  BY <1>1 DEF SessionInv, SessionTypeOK, FetchedFresh, ReconnectForgets

LEMMA SessionStepKeeps ==
    ASSUME SessionInv, NEW c \in Sessions, SessionStep(c), UNCHANGED incarnation
    PROVE  SessionInv'
<1> USE DEF SessionInv, SessionTypeOK, Goto
<1>1. CASE Connect(c) \/ GetVersion(c) \/ ConnectFails(c)
  BY <1>1, SMTT(30) DEF Connect, GetVersion, ConnectFails, FetchedFresh, ReconnectForgets
<1>2. ASSUME NEW from, NEW to, Discover(c, from, to),
             \/ from = "versioned" /\ to = "discovered"
             \/ from = "open" /\ to = "refreshing"
             \/ from = "invalidated" /\ to = "rediscovered"
      PROVE  SessionInv'
  BY <1>2, Zenon DEF Discover, FetchedFresh, ReconnectForgets
<1>3. ASSUME NEW from \in {"discovered", "rediscovered"}, CreateTransport(c, from)
      PROVE  SessionInv'
  BY <1>3 DEF CreateTransport, FetchedFresh, ReconnectForgets
<1>4. CASE Invalidate(c) \/ RefreshStores(c)
  BY <1>4 DEF Invalidate, RefreshStores, Exclusive, FetchedFresh, ReconnectForgets
<1>5. CASE Reconnect(c) \/ ReconnectFails(c)
  BY <1>5 DEF Reconnect, ReconnectFails, Exclusive, FetchedFresh, ReconnectForgets
<1>6. CASE DropSession(c)
  BY <1>6, SMTT(30) DEF DropSession, Exclusive, FetchedFresh, ReconnectForgets
<1> QED
  BY <1>1, <1>2, <1>3, <1>4, <1>5, <1>6, Zenon DEF SessionStep, RefreshMetadata

LEMMA SessionNextKeeps == SessionInv /\ [SessionNext \/ RegistryNext]_svars => SessionInv'
<1> SUFFICES ASSUME SessionInv, [SessionNext \/ RegistryNext]_svars PROVE SessionInv'
    BY Zenon
<1>1. CASE Stop \/ Restart
  <2>1. UNCHANGED session /\ incarnation' \in {incarnation, incarnation + 1}
    BY <1>1, Zenon DEF Stop, Restart
  <2> QED
    BY <2>1, SessionKept, Zenon
<1>2. ASSUME NEW c \in Sessions, SessionStep(c), UNCHANGED <<server, control, task>>
      PROVE  SessionInv'
  BY <1>2, SessionStepKeeps, Zenon DEF server
<1>3. CASE UNCHANGED <<server, session>>
  BY <1>3, SessionKept, Zenon DEF server
<1> QED
  BY <1>1, <1>2, <1>3, Zenon DEF SessionNext, RegistryNext, svars

\* Once reconnect has begun, the session never again uses metadata from before.
THEOREM ReconnectAlwaysForgets == SSpec => []ReconnectForgets
<1>1. SessionInv => ReconnectForgets
  BY Zenon DEF SessionInv
<1> QED
  BY <1>1, SessionInit, SessionNextKeeps, PTL DEF SSpec

(***************************************************************************)
(* The registry.                                                           *)
(***************************************************************************)
RegistryTypeOK ==
    /\ clients \in [Clients -> Nat] /\ acked \in [Clients -> Nat] /\ ts \in [Clients -> Nat]
    /\ awaiting \in [Clients -> Int] /\ flight \in SUBSET (Clients \X Nat)

\* Of a client none of whose calls was cut short, only the awaited request is on
\* its way.
OneRequest ==
    \A c \in Clients \ dropped :
        /\ \A t \in Nat : <<c, t>> \in flight => t = awaiting[c]
        /\ awaiting[c] = Free => clients[c] = acked[c]

RegistryInv == RegistryTypeOK /\ OneRequest

LEMMA RegistryInit == SInit => RegistryInv
BY DEF SInit, RegistryInv, RegistryTypeOK, OneRequest, Absent, Free

LEMMA RegistryKept ==
    ASSUME RegistryInv, UNCHANGED control
    PROVE  RegistryInv'
BY Zenon DEF RegistryInv, RegistryTypeOK, OneRequest, control

LEMMA AskKeeps ==
    ASSUME RegistryInv, NEW c \in Clients, NEW t \in Nat, Ask(c, t), UNCHANGED <<clients, acked>>
    PROVE  OneRequest' /\ awaiting' \in [Clients -> Int] /\ flight' \in SUBSET (Clients \X Nat)
<1> USE DEF RegistryInv, RegistryTypeOK
<1>1. awaiting' \in [Clients -> Int] /\ flight' \in SUBSET (Clients \X Nat)
  BY DEF Ask
<1>2. ASSUME NEW d \in Clients \ dropped'
      PROVE  /\ \A x \in Nat : <<d, x>> \in flight' => x = awaiting'[d]
             /\ awaiting'[d] = Free => clients'[d] = acked'[d]
  <2>1. CASE d = c
    <3>1. OnTheWay(c) = {}
      BY <1>2, <2>1, Zenon DEF Ask
    <3>2. \A x \in Nat : <<c, x>> \notin flight
      BY <3>1 DEF OnTheWay
    <3>3. awaiting'[c] = t
      BY Zenon DEF Ask
    <3>4. \A x \in Nat : <<c, x>> \in flight' => x = t
      BY <3>2, Zenon DEF Ask
    <3> QED
      BY <2>1, <3>3, <3>4 DEF Free
  <2>2. CASE d # c
    <3>1. d \notin dropped /\ awaiting'[d] = awaiting[d] /\ \A x \in Nat : <<d, x>> \in flight' => <<d, x>> \in flight
      BY <1>2, <2>2, Zenon DEF Ask
    <3> QED
      BY <3>1, Zenon DEF OneRequest
  <2> QED
    BY <2>1, <2>2, Zenon
<1> QED
  BY <1>1, <1>2, Zenon DEF OneRequest

LEMMA HandleKeeps ==
    ASSUME RegistryInv, NEW c \in Clients, NEW t \in Nat, Handle(c, t)
    PROVE  RegistryInv'
<1> USE DEF RegistryInv, RegistryTypeOK
<1>1. /\ flight' = flight \ {<<c, t>>} /\ <<c, t>> \in flight /\ UNCHANGED <<ts, dropped>>
      /\ clients' = [clients EXCEPT ![c] = t]
  BY Zenon DEF Handle, Enter
<1>2. \/ awaiting[c] = t /\ awaiting' = [awaiting EXCEPT ![c] = Free] /\ acked' = [acked EXCEPT ![c] = t]
      \/ awaiting[c] # t /\ UNCHANGED <<awaiting, acked>>
  BY Zenon DEF Handle
<1>3. RegistryTypeOK'
  BY <1>1, <1>2 DEF Free
<1>4. ASSUME NEW d \in Clients \ dropped
      PROVE  /\ \A x \in Nat : <<d, x>> \in flight' => x = awaiting'[d]
             /\ awaiting'[d] = Free => clients'[d] = acked'[d]
  <2>1. CASE d = c
    <3>1. awaiting[c] = t
      BY <1>1, <1>4, <2>1 DEF OneRequest
    <3>2. \A x \in Nat : <<c, x>> \notin flight'
      BY <3>1, <1>1, <1>4, <2>1, SMTT(30) DEF OneRequest
    <3>3. clients'[c] = t /\ acked'[c] = t
      BY <3>1, <1>1, <1>2
    <3> QED
      BY <2>1, <3>2, <3>3
  <2>2. CASE d # c
    BY <2>2, <1>1, <1>2, <1>4 DEF OneRequest
  <2> QED
    BY <2>1, <2>2, SMTT(30)
<1>5. OneRequest'
  BY <1>1, <1>4, Zenon DEF OneRequest
<1> QED
  BY <1>3, <1>5, Zenon

LEMMA ControlStepKeeps ==
    ASSUME RegistryInv, NEW c \in Clients, ControlStep(c)
    PROVE  RegistryInv'
<1>1. CASE Heartbeat(c)
  <2>1. ts[c] + 1 \in Nat /\ ts' \in [Clients -> Nat] /\ Ask(c, ts[c] + 1) /\ UNCHANGED <<clients, acked>>
    BY <1>1 DEF Heartbeat, RegistryInv, RegistryTypeOK
  <2> QED
    BY <2>1, AskKeeps, Zenon DEF RegistryInv, RegistryTypeOK
<1>2. CASE Deregister(c)
  <2>1. Absent \in Nat /\ Ask(c, Absent) /\ UNCHANGED <<clients, acked, ts>>
    BY <1>2, Zenon DEF Deregister, Absent
  <2> QED
    BY <2>1, AskKeeps, Zenon DEF RegistryInv, RegistryTypeOK
<1>3. CASE GiveUp(c)
  BY <1>3 DEF GiveUp, RegistryInv, RegistryTypeOK, OneRequest, Free
<1>4. CASE \E t \in 0 .. MaxTs : Handle(c, t)
  BY <1>4, HandleKeeps
<1> QED
  BY <1>1, <1>2, <1>3, <1>4 DEF ControlStep

LEMMA RegistryNextKeeps ==
    RegistryInv /\ [SessionNext \/ RegistryNext]_svars => RegistryInv'
<1> SUFFICES ASSUME RegistryInv, [SessionNext \/ RegistryNext]_svars PROVE RegistryInv'
    BY Zenon
<1>1. CASE Stop
  BY <1>1, Zenon DEF Stop, RegistryInv, RegistryTypeOK, OneRequest, Absent
<1>2. CASE \E c \in Clients : ControlStep(c)
  BY <1>2, ControlStepKeeps, Zenon
<1>3. CASE UNCHANGED control
  BY <1>3, RegistryKept, Zenon
<1>4. CASE Restart
  BY <1>4, RegistryKept, Zenon DEF Restart
<1> QED
  BY <1>1, <1>2, <1>3, <1>4, SessionAssumption, Zenon DEF SessionNext, RegistryNext, svars

LEMMA RegistryAlways == SSpec => []RegistryInv
BY RegistryInit, RegistryNextKeeps, PTL DEF SSpec

\* Unless a call of its own was cut short, a client is in the registry exactly with
\* what its last answered request says.
THEOREM RegistryAlwaysExact == SSpec => []RegistryExact
<1>1. RegistryInv => RegistryExact
  BY Zenon DEF RegistryInv, OneRequest, RegistryExact
<1> QED
  BY <1>1, RegistryAlways, PTL

\* A non-empty set of naturals has a least element, and Min is it.
LEMMA MinIsLeast ==
    ASSUME NEW S \in SUBSET Nat, S # {}
    PROVE  Min(S) \in S /\ \A x \in S : Min(S) <= x
<1>1. \E x \in S : \A y \in S : ~(<<y, x>> \in OpToRel(<, Nat))
  BY NatLessThanWellFounded, WFMin, Zenon
<1>2. \E x \in S : \A y \in S : x <= y
  <2>1. PICK x \in S : \A y \in S : ~(<<y, x>> \in OpToRel(<, Nat))
    BY <1>1, Zenon
  <2>2. ASSUME NEW y \in S PROVE x <= y
    <3>1. y \in Nat /\ x \in Nat /\ <<y, x>> \in Nat \X Nat
      BY Zenon
    <3>2. ~(y < x)
      BY <2>1, <3>1, Zenon DEF OpToRel
    <3> QED
      BY <3>1, <3>2
  <2> QED
    BY <2>2, Zenon
<1> QED
  BY <1>2, Zenon DEF Min

\* Nothing that such a client has announced it may still use lies below the
\* collector's floor.
THEOREM FloorAlwaysSafe == SSpec => []FloorSafe
<1>1. RegistryInv => FloorSafe
  <2> SUFFICES ASSUME RegistryInv, NEW c \in Clients, awaiting[c] = Free, c \notin dropped, acked[c] # Absent
               PROVE  MinActiveTs(clients) \in 1 .. acked[c]
    BY Zenon DEF FloorSafe
  <2> DEFINE S == {clients[d] : d \in Clients} \ {Absent}
  <2>1. clients[c] = acked[c] /\ clients[c] \in S
    BY Zenon DEF RegistryInv, OneRequest
  <2>2. S \in SUBSET Nat /\ 0 \notin S
    BY Zenon DEF RegistryInv, RegistryTypeOK, Absent
  <2>3. MinActiveTs(clients) = Min(S)
    BY <2>1, Zenon DEF MinActiveTs
  <2> HIDE DEF S
  <2>4. Min(S) \in S /\ Min(S) <= acked[c]
    BY <2>1, <2>2, MinIsLeast, Zenon
  <2>5. Min(S) \in Nat /\ Min(S) # 0 /\ acked[c] \in Nat
    BY <2>2, <2>4, Zenon DEF RegistryInv, RegistryTypeOK
  <2> QED
    BY <2>3, <2>4, <2>5
<1> QED
  BY <1>1, RegistryAlways, PTL

=============================================================================
