------------------------------ MODULE Connector ------------------------------
(***************************************************************************)
(* The LMCache connector (crates/lmcache-connector): Python threads submit *)
(* batches against a local table and extent region, each call leaves one   *)
(* completion in a vector and adds one to an eventfd, and a demultiplexer  *)
(* thread drains the vector.  A Director is configured: the keys a call    *)
(* writes or deletes are kept until its completion is drained, and then    *)
(* handed to a task that reports them and that nobody waits for.           *)
(*                                                                         *)
(* Every method runs with the interpreter lock (GIL) held.  It can change  *)
(* hands inside a method only where Rust calls back into Python, at        *)
(* "tobytes" in submit_batch_set, with the Rust mutexes still held.        *)
(*                                                                         *)
(* The table is what KeyMap.tla promises: an insert returns Ok, or it      *)
(* returns TableFull and one key is lost.  Extents are never freed here,   *)
(* so the region is a count of units.  A key's hash is the key, its digest *)
(* carries a second hash.                                                  *)
(***************************************************************************)
EXTENDS Integers, Sequences, FiniteSets

CONSTANTS
    Keys,        \* LMCache keys
    Threads,     \* Python threads that submit
    Workers,     \* the num_workers background threads
    Batches,     \* arguments: sequences of [key, size]; size 0 is stored inline
    Capacity,    \* units the extent region has room for
    Room,        \* keys the table always has room for
    Watermark,   \* lru_watermark
    MaxCalls,    \* bound: calls submitted
    ClearFirst   \* the demultiplexer reads the eventfd before it drains

ASSUME ConnectorAssumption ==
    /\ {Capacity, Room, Watermark, MaxCalls} \subseteq Nat
    /\ ClearFirst \in BOOLEAN
    /\ Batches \subseteq Seq([key : Keys, size : Nat])
    /\ "none" \notin Threads

VARIABLES
    table,       \* key -> how its value is stored: none, inline or extent
    used,        \* units allocated
    lost,        \* auxiliary: keys TableFull has cost since their last insert
    locks,       \* who holds the table and large_objects mutexes, or "none"
    gil,         \* who holds the interpreter lock, or "none"
    yields,      \* the caller's tobytes is code that lets other threads run
    next_id,     \* the next future_id
    call,        \* thread -> the call it is in
    completions, \* pushed and not drained
    drained,     \* auxiliary: future_id -> times it was handed to the caller
    efd,         \* the counter of the eventfd
    demux,       \* the demultiplexer: epoll, clear or drain
    lru,         \* the LruTracker: accesses, last_access, key_count, evicted, now
    victims,     \* auxiliary: candidates of the eviction that has just returned
    reports,     \* future_ids with keys to report: pending_reports, pending_removes
    closed,      \* closed (and shutdown, and event_fd closed)
    workers,     \* worker threads still running
    drop_state   \* Drop: no, joining, done

store == <<table, used, lost>>
queue == <<completions, drained, efd, demux>>
life == <<closed, workers, drop_state, yields>>
cvars == <<store, locks, gil, next_id, call, queue, lru, victims, reports, life>>

Idle == [pc |-> "idle", op |-> "none", id |-> 0, batch |-> <<>>, res |-> <<>>,
         i |-> 1, evict |-> FALSE]
Ids == 1 .. MaxCalls
KeysOf(b) == {b[i].key : i \in DOMAIN b}
NoKeys == [id \in {} |-> {}]

ConnectorInit ==
    /\ table = [k \in Keys |-> "none"] /\ used = 0 /\ lost = {}
    /\ locks = "none" /\ gil = "none" /\ next_id = 1 /\ yields \in BOOLEAN
    /\ call = [t \in Threads |-> Idle]
    /\ completions = <<>> /\ drained = [id \in Ids |-> 0] /\ efd = 0 /\ demux = "epoll"
    /\ lru = [accesses |-> <<>>, last_access |-> NoKeys, key_count |-> 0, evicted |-> 0, now |-> 0]
    /\ victims = {}
    /\ reports = [store |-> {}, remove |-> {}]
    /\ closed = FALSE /\ workers = Workers /\ drop_state = "no"

At(t, where) == gil = t /\ call[t].pc = where
MoveTo(t, where) == call' = [call EXCEPT ![t].pc = where]
Entry(t) == call[t].batch[call[t].i]

-----------------------------------------------------------------------------
\* The LRU tracker.

\* The queue holds (key_hash, now_ms) records; the clock may have moved on.
RecordAccess(l, k, now) ==
    [l EXCEPT !.accesses = Append(@, [key |-> k, ts |-> now]),
              !.key_count = @ + 1, !.now = now]

NeedsEviction(l) == l.key_count > Watermark

\* Later records overwrite earlier ones of the same key.
Merged(l) ==
    LET recs == l.accesses
        ks == {recs[i].key : i \in DOMAIN recs}
        Last(k) == CHOOSE i \in DOMAIN recs :
                       recs[i].key = k /\ \A j \in DOMAIN recs : recs[j].key = k => j <= i
    IN  [k \in ks \cup DOMAIN l.last_access |->
            IF k \in ks THEN recs[Last(k)].ts ELSE l.last_access[k]]

\* The sets of n oldest keys: the sort leaves the order of equal stamps open.
Oldest(la, n) ==
    {c \in SUBSET DOMAIN la :
        /\ Cardinality(c) = IF n < Cardinality(DOMAIN la) THEN n ELSE Cardinality(DOMAIN la)
        /\ \A k \in c, o \in DOMAIN la \ c : la[k] <= la[o]}

\* select_eviction_candidates took c, and increment_evicted has counted it.
Selected(l, c) ==
    LET la == Merged(l)
    IN  [l EXCEPT !.accesses = <<>>, !.last_access = [k \in DOMAIN la \ c |-> la[k]],
                  !.key_count = Cardinality(DOMAIN la \ c), !.evicted = @ + Cardinality(c)]

-----------------------------------------------------------------------------
\* The methods.  A call takes the GIL and an id; the keys to report are recorded.

Record(op, id) ==
    CASE op = "set" -> [reports EXCEPT !.store = @ \cup {id}]
      [] op = "delete" -> [reports EXCEPT !.remove = @ \cup {id}]
      [] OTHER -> reports

Submit(t, op, b) ==
    /\ gil = "none" /\ call[t].pc = "idle" /\ drop_state = "no"
    /\ next_id <= MaxCalls
    /\ gil' = t
    /\ next_id' = next_id + 1
    /\ reports' = Record(op, next_id)
    /\ call' = [call EXCEPT ![t] = [Idle EXCEPT !.pc = "lock", !.op = op, !.id = next_id, !.batch = b]]
    /\ UNCHANGED <<store, locks, queue, lru, victims, life>>

\* submit_batch_get and submit_batch_exists: both only test for presence.
LookupKeys(t) ==
    /\ At(t, "lock") /\ call[t].op = "get" /\ locks = "none"
    /\ LET b == call[t].batch
       IN  call' = [call EXCEPT ![t].pc = "push",
                                ![t].res = [i \in DOMAIN b |-> table[b[i].key] # "none"]]
    /\ UNCHANGED <<store, locks, gil, next_id, queue, lru, victims, reports, life>>

\* The digest of a key, and the one evict_if_needed builds from its hash alone.
Digest(k) == <<k, "h2">>
Truncated(k) == <<k, "zero">>
Deleted(ds) == [k \in Keys |-> IF Digest(k) \in ds THEN "none" ELSE table[k]]

\* The extent of a deleted key stays allocated.
DeleteKeys(t) ==
    /\ At(t, "lock") /\ call[t].op = "delete" /\ locks = "none"
    /\ LET b == call[t].batch
           Gone(i) == \E j \in 1 .. i - 1 : b[j].key = b[i].key
       IN  /\ table' = Deleted({Digest(k) : k \in KeysOf(b)})
           /\ lost' = lost \ KeysOf(b)
           /\ call' = [call EXCEPT ![t].pc = "push",
                        ![t].res = [i \in DOMAIN b |-> table[b[i].key] # "none" /\ ~Gone(i)]]
    /\ UNCHANGED <<used, locks, gil, next_id, queue, lru, victims, reports, life>>

SetLock(t) ==
    /\ At(t, "lock") /\ call[t].op = "set" /\ locks = "none"
    /\ locks' = t
    /\ MoveTo(t, "entry")
    /\ UNCHANGED <<store, gil, next_id, queue, lru, victims, reports, life>>

\* tobytes gives another Python thread its turn, and later has its own again.
YieldGil(t) ==
    /\ yields
    /\ gil = t /\ call[t].pc \in {"entry", "retry"} /\ call[t].i <= Len(call[t].batch)
    /\ gil' = "none"
    /\ UNCHANGED <<store, locks, next_id, call, queue, lru, victims, reports, life>>

RegainGil(t) ==
    /\ gil = "none" /\ call[t].pc \in {"entry", "retry"}
    /\ gil' = t
    /\ UNCHANGED <<store, locks, next_id, call, queue, lru, victims, reports, life>>

\* CuckooTable::insert: Ok, or, for a new key in a crowded table, TableFull.
Insert(k, how, ok) ==
    \/ ok /\ table' = [table EXCEPT ![k] = how] /\ lost' = lost \ {k}
    \/ /\ ~ok /\ table[k] = "none"
       /\ Cardinality({x \in Keys : table[x] # "none"}) >= Room
       /\ \E x \in {y \in Keys : table[y] # "none"} \cup {k} :
             /\ table' = [table EXCEPT ![k] = how, ![x] = "none"]
             /\ lost' = (lost \ {k}) \cup {x}

\* An extent that was allocated for an insert that fails is not given back.
AllocateAndInsert(k, size, ok) ==
    /\ used + size <= Capacity
    /\ used' = used + size
    /\ Insert(k, "extent", ok)

NextEntry(t, ok, evict) ==
    call' = [call EXCEPT ![t].res = Append(@, ok), ![t].i = @ + 1, ![t].evict = @ \/ evict]

\* A bug: the results of allocations that failed are lost.
MutSetEntry(t) ==
    /\ At(t, "entry") /\ call[t].i <= Len(call[t].batch)
    /\ LET k == Entry(t).key
       IN  /\ \E now \in {lru.now, lru.now + 1} : lru' = RecordAccess(lru, k, now)
           /\ \/ /\ Entry(t).size = 0
                 /\ \E ok \in BOOLEAN : Insert(k, "inline", ok) /\ NextEntry(t, ok, FALSE)
                 /\ UNCHANGED used
              \/ /\ Entry(t).size > 0
                 /\ \E ok \in BOOLEAN : AllocateAndInsert(k, Entry(t).size, ok) /\ NextEntry(t, ok, FALSE)
              \/ /\ Entry(t).size > 0 /\ used + Entry(t).size > Capacity
                 /\ NextEntry(t, TRUE, TRUE)
                 /\ UNCHANGED store
    /\ UNCHANGED <<locks, gil, next_id, queue, victims, reports, life>>

\* One round of the first loop of submit_batch_set.
SetEntry(t) ==
    /\ At(t, "entry") /\ call[t].i <= Len(call[t].batch)
    /\ LET k == Entry(t).key
       IN  /\ \E now \in {lru.now, lru.now + 1} : lru' = RecordAccess(lru, k, now)
           /\ \/ /\ Entry(t).size = 0
                 /\ \E ok \in BOOLEAN : Insert(k, "inline", ok) /\ NextEntry(t, ok, FALSE)
                 /\ UNCHANGED used
              \/ /\ Entry(t).size > 0
                 /\ \E ok \in BOOLEAN : AllocateAndInsert(k, Entry(t).size, ok) /\ NextEntry(t, ok, FALSE)
              \/ /\ Entry(t).size > 0 /\ used + Entry(t).size > Capacity
                 /\ NextEntry(t, FALSE, TRUE)
                 /\ UNCHANGED store
    /\ UNCHANGED <<locks, gil, next_id, queue, victims, reports, life>>

\* The mutexes are dropped, for good or for the eviction.
SetLoopEnds(t) ==
    /\ At(t, "entry") /\ call[t].i > Len(call[t].batch)
    /\ locks' = "none"
    /\ MoveTo(t, IF call[t].evict THEN "evict" ELSE "push")
    /\ UNCHANGED <<store, gil, next_id, queue, lru, victims, reports, life>>

\* evict_if_needed: the digests it deletes by lack the second hash.
EvictIfNeeded(t) ==
    /\ At(t, "evict")
    /\ \/ /\ ~NeedsEviction(lru)
          /\ victims' = {}
          /\ UNCHANGED <<store, lru>>
       \/ /\ NeedsEviction(lru) /\ locks = "none"
          /\ LET n == IF lru.key_count < 20 THEN 1 ELSE lru.key_count \div 10
             IN  \E c \in Oldest(Merged(lru), n) :
                     /\ lru' = Selected(lru, c)
                     /\ victims' = c
                     /\ table' = Deleted({Truncated(k) : k \in c})
          /\ UNCHANGED <<used, lost>>
    /\ MoveTo(t, "relock")
    /\ UNCHANGED <<locks, gil, next_id, queue, reports, life>>

Relock(t) ==
    /\ At(t, "relock") /\ locks = "none"
    /\ locks' = t
    /\ call' = [call EXCEPT ![t].pc = "retry", ![t].i = 1]
    /\ victims' = {}
    /\ UNCHANGED <<store, gil, next_id, queue, lru, reports, life>>

\* One round of the second loop: what failed before and is an extent is tried again.
RetryEntry(t) ==
    /\ At(t, "retry") /\ call[t].i <= Len(call[t].batch)
    /\ LET i == call[t].i
           again == ~call[t].res[i] /\ Entry(t).size > 0 /\ used + Entry(t).size <= Capacity
       IN  IF again
           THEN \E ok \in BOOLEAN :
                    /\ AllocateAndInsert(Entry(t).key, Entry(t).size, ok)
                    /\ call' = [call EXCEPT ![t].res[i] = ok, ![t].i = @ + 1]
           ELSE call' = [call EXCEPT ![t].i = @ + 1] /\ UNCHANGED store
    /\ UNCHANGED <<locks, gil, next_id, queue, lru, victims, reports, life>>

RetryEnds(t) ==
    /\ At(t, "retry") /\ call[t].i > Len(call[t].batch)
    /\ locks' = "none"
    /\ MoveTo(t, "push")
    /\ UNCHANGED <<store, gil, next_id, queue, lru, victims, reports, life>>

-----------------------------------------------------------------------------
Completed(t) == [id |-> call[t].id, op |-> call[t].op, res |-> call[t].res]

\* A bug: the demultiplexer is not notified.
MutPushCompletion(t) ==
    /\ At(t, "push")
    /\ completions' = Append(completions, Completed(t))
    /\ efd' = efd
    /\ call' = [call EXCEPT ![t] = Idle]
    /\ gil' = "none"
    /\ UNCHANGED <<store, locks, next_id, drained, demux, lru, victims, reports, life>>

\* push_completion, and the method returns.  ok is TRUE whatever the results are; the
\* write fails unseen once the descriptor is closed.
PushCompletion(t) ==
    /\ At(t, "push")
    /\ completions' = Append(completions, Completed(t))
    /\ efd' = IF closed THEN efd ELSE efd + 1
    /\ call' = [call EXCEPT ![t] = Idle]
    /\ gil' = "none"
    /\ UNCHANGED <<store, locks, next_id, drained, demux, lru, victims, reports, life>>

\* The demultiplexer (LMCache): epoll_wait, then eventfd_read and drain_completions in
\* the order ClearFirst says.
DemuxWakes ==
    /\ demux = "epoll" /\ efd > 0 /\ ~closed
    /\ demux' = IF ClearFirst THEN "clear" ELSE "drain"
    /\ UNCHANGED <<store, locks, gil, next_id, call, completions, drained, efd, lru, victims, reports, life>>

DemuxClears ==
    /\ demux = "clear"
    /\ efd' = 0
    /\ demux' = IF ClearFirst THEN "drain" ELSE "epoll"
    /\ UNCHANGED <<store, locks, gil, next_id, call, completions, drained, lru, victims, reports, life>>

DrainedIds == {completions[i].id : i \in DOMAIN completions}

\* A bug: the completions are copied, not taken.
MutDrainCompletions ==
    /\ demux = "drain" /\ gil = "none"
    /\ completions' = completions
    /\ drained' = [id \in Ids |-> IF id \in DrainedIds /\ drained[id] < 2 THEN drained[id] + 1 ELSE drained[id]]
    /\ reports' = [kind \in {"store", "remove"} |-> reports[kind] \ DrainedIds]
    /\ demux' = IF ClearFirst THEN "epoll" ELSE "clear"
    /\ UNCHANGED <<store, locks, gil, next_id, call, efd, lru, victims, life>>

\* drain_completions: the keys recorded for a drained call go to a spawned task.
DrainCompletions ==
    /\ demux = "drain" /\ gil = "none"
    /\ completions' = <<>>
    /\ drained' = [id \in Ids |-> IF id \in DrainedIds THEN drained[id] + 1 ELSE drained[id]]
    /\ reports' = [kind \in {"store", "remove"} |-> reports[kind] \ DrainedIds]
    /\ demux' = IF ClearFirst THEN "epoll" ELSE "clear"
    /\ UNCHANGED <<store, locks, gil, next_id, call, efd, lru, victims, life>>

\* What close and Drop share: closed and shutdown are set, the eventfd is closed.
ShutDown == closed' = TRUE /\ efd' = 0

Close ==
    /\ gil = "none" /\ ~closed /\ drop_state = "no"
    /\ ShutDown
    /\ UNCHANGED <<store, locks, gil, next_id, call, completions, drained, demux, lru, victims, reports, workers, drop_state, yields>>

\* A worker sleeps until it sees the flag.
WorkerExits(w) ==
    /\ w \in workers /\ closed
    /\ workers' = workers \ {w}
    /\ UNCHANGED <<store, locks, gil, next_id, call, queue, lru, victims, reports, closed, drop_state, yields>>

\* Drop: nobody holds a reference, so no call is in progress and no drain will follow.
Drop ==
    /\ gil = "none" /\ drop_state = "no" /\ demux = "epoll"
    /\ \A t \in Threads : call[t].pc = "idle"
    /\ IF closed THEN UNCHANGED <<closed, efd>> ELSE ShutDown
    /\ drop_state' = "joining"
    /\ UNCHANGED <<store, locks, gil, next_id, call, completions, drained, demux, lru, victims, reports, workers, yields>>

Joined ==
    /\ drop_state = "joining" /\ workers = {}
    /\ drop_state' = "done"
    /\ UNCHANGED <<store, locks, gil, next_id, call, queue, lru, victims, reports, closed, workers, yields>>

MethodStep(t) ==
    \/ LookupKeys(t) \/ DeleteKeys(t)
    \/ SetLock(t) \/ SetEntry(t) \/ SetLoopEnds(t)
    \/ EvictIfNeeded(t) \/ Relock(t) \/ RetryEntry(t) \/ RetryEnds(t)
    \/ PushCompletion(t)
DemuxStep == DemuxWakes \/ DemuxClears \/ DrainCompletions

ConnectorNext ==
    \/ \E t \in Threads :
          \/ \E op \in {"get", "set", "delete"}, b \in Batches : Submit(t, op, b)
          \/ MethodStep(t) \/ YieldGil(t) \/ RegainGil(t)
    \/ DemuxStep
    \/ \E w \in Workers : WorkerExits(w)
    \/ Close \/ Drop \/ Joined

\* Threads run, the GIL is granted in turn to whoever waits for it, and tobytes does
\* not switch threads for ever.
ConnectorSpec ==
    /\ ConnectorInit /\ [][ConnectorNext]_cvars
    /\ \A t \in Threads : SF_cvars(MethodStep(t)) /\ SF_cvars(RegainGil(t))
    /\ WF_cvars(DemuxWakes) /\ WF_cvars(DemuxClears) /\ SF_cvars(DrainCompletions)
    /\ \A w \in Workers : WF_cvars(WorkerExits(w))
    /\ WF_cvars(Joined)

-----------------------------------------------------------------------------
\* Every variable has its type: at most one thread holds the GIL and the mutexes, and
\* the results of a call never outnumber its keys.
ConnectorTypeOK ==
    /\ table \in [Keys -> {"none", "inline", "extent"}]
    /\ used \in 0 .. Capacity /\ lost \subseteq Keys
    /\ locks \in Threads \cup {"none"} /\ gil \in Threads \cup {"none"}
    /\ next_id \in 1 .. MaxCalls + 1 /\ efd \in 0 .. MaxCalls
    /\ \A t \in Threads : Len(call[t].res) <= Len(call[t].batch)
    /\ drained \in [Ids -> 0 .. 1]
    /\ demux \in {"epoll", "clear", "drain"} /\ drop_state \in {"no", "joining", "done"}
    /\ workers \subseteq Workers

\* Who has a future: the calls in progress and the completions that carry its id.
Holders(id) ==
    {<<"call", t>> : t \in {u \in Threads : call[u].id = id}}
      \cup {<<"completion", i>> : i \in {j \in DOMAIN completions : completions[j].id = id}}

\* Every future_id handed out belongs to one call in progress, or waits once among the
\* completions, or was drained once: no completion is lost, duplicated or misnamed.
FutureOnce ==
    \A id \in Ids :
        IF id < next_id /\ drained[id] = 0
        THEN \E h \in Holders(id) : Holders(id) = {h}
        ELSE Holders(id) = {} /\ drained[id] = IF id < next_id THEN 1 ELSE 0

Undrained(op) ==
    {call[t].id : t \in {u \in Threads : call[u].op = op}}
      \cup {completions[i].id : i \in {j \in DOMAIN completions : completions[j].op = op}}

\* pending_reports and pending_removes hold exactly the writes and deletes that were not
\* drained: no report is lost before its completion is, and no entry stays for ever.
PendingMatches ==
    /\ reports.store = Undrained("set")
    /\ reports.remove = Undrained("delete")

\* When submit_batch_set is about to report TRUE for a key, through eviction, retry and
\* the keys after it in the batch, the key is in the table or TableFull has cost it.
AckedIsThere ==
    \A t \in Threads : call[t].pc = "push" /\ call[t].op = "set" =>
        \A i \in DOMAIN call[t].batch :
            LET k == call[t].batch[i].key IN call[t].res[i] => table[k] # "none" \/ k \in lost

\* key_count, which needs_eviction looks at, never falls below the number of distinct
\* keys in the queue and in the map.
CountCoversTracked ==
    lru.key_count >= Cardinality(DOMAIN Merged(lru))

\* A demultiplexer that reads the eventfd before it drains collects every future that
\* was submitted, unless the connector is closed or tobytes lets other threads in.
EveryFutureDrained ==
    \A id \in Ids : next_id > id /\ ~yields ~> drained[id] = 1 \/ closed

\* Drop joins the workers: they see the flag and exit, whether close came first or not.
DropJoins == drop_state = "joining" ~> drop_state = "done"

\* evict_if_needed "deletes them from the cuckoo table": its candidates are gone
\* when it returns.
EvictedIsGone ==
    \A t \in Threads : call[t].pc = "relock" => \A k \in victims : table[k] = "none"

\* drain_completions returns "`ok`: whether the batch succeeded overall"; it is always
\* TRUE, so no completion should hold a write that failed.
OkMeansStored ==
    \A i \in DOMAIN completions : completions[i].op = "set" =>
        \A j \in DOMAIN completions[i].res : completions[i].res[j]

\* Submission is "thread-safe" and called concurrently: every call returns, also when
\* tobytes switches threads while the mutexes are held.
EveryCallReturns == \A t \in Threads : call[t].pc # "idle" ~> call[t].pc = "idle"
=============================================================================
