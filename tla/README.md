# Verification of rdmas

rdmas keeps a cuckoo hash table and an extent space in RDMA registered memory. A
server process owns the memory and works on it directly; clients reach it with
one sided READ, WRITE and CAS. This directory holds TLA+ models of the parts
whose correctness rests on ordering (locks, leases, reclamation, completions,
transports, sessions, concurrent remote writers), TLC configurations that check
them on small instances, and TLAPS proofs for arbitrary ones. Paths below are
relative to `src/`.

## The system and its parts

| part | code | operations | modules |
|---|---|---|---|
| bucket lock | `src/engine/concurrency.rs`, `layout.rs` | `try_acquire_lock`, `release_lock`, `optimistic_read`, `verify_read`, `force_takeover`, `repair_after_crash` | BucketLock |
| cuckoo table | `src/engine/cuckoo.rs` | `insert`, `lookup`, `delete`, `get_fast`, the kick chain | CuckooTable over KeyMap |
| the table shared without a lock | `src/engine/cuckoo.rs` | `insert_lock_free`, `lookup_lock_free` | LockFree |
| local client | `src/client/read.rs`, `write.rs`, `opt.rs` | `ClientReader::get`, `ClientWriter::insert`, `BatchBuilder` | ClientReader, LocalClient |
| large object region | `src/engine/extent.rs`, `layout.rs` | `allocate`, `read`, `free`, `mark_for_gc`, `sweep`, `write_extent_*` | ExtentRegion over ExtentAllocator |
| epoch collector | `src/engine/gc.rs`, `src/control/server.rs` | `schedule_deletion`, `sweep`, `maybe_sweep`, `run_gc_cycle`, `evict_lru`, heartbeats | EpochGc |
| async runtime | `src/runtime/ops.rs`, `poller.rs`, `src/rdma/cq.rs` | `rdma_read/write/cas/batch`, the `Poller` thread | Completion |
| event driven poller | `src/runtime/poller.rs` | the `AsyncPoller` thread | AsyncPoller |
| remote client | `src/client/write.rs`, `read.rs`, `src/engine/extent.rs` | `insert_remote`, `get_remote`, the shared bump allocator | RemoteTable |
| slab, watermark, replication | `src/engine/slab.rs`, `watermark.rs`, `src/control/replication.rs` | chunks, `check`, `write_with_replication`, `flush` | Slab, Replication, ServerMemory |
| transports, queue pair, verbs objects | `src/transport/rdma.rs`, `tcp.rs`, `src/rdma/*.rs`, `src/mem/region.rs` | `connect`, `read/write/cas`, the health check, `drop` | Transport over Verbs |
| session, control server | `src/client/session.rs`, `src/control/server.rs`, `client.rs` | `connect`, `refresh_metadata`, `reconnect`, `drop`, heartbeat, `deregister` | Session |
| retry, pending tracker | `src/client/retry.rs`, `src/error.rs` | `retry_rdma_op`, `retry_with_backoff`, `PendingTracker` | Retry |
| LMCache connector, LRU tracker | `crates/lmcache-connector/src/lib.rs`, `src/engine/lru.rs` | `submit_batch_*`, `drain_completions`, `evict_if_needed`, `close`, `drop` | Connector |
| reports to the Director | `crates/lmcache-connector/src/lib.rs`, `director.rs` | registration, heartbeats, one report per drained write | Director |

How they interact: the table's large values live in the large object region; the
collector sweeps that region (EpochGc extends ExtentRegion, so a sweep of the
model is the sweep of the region); the registry of the control server supplies
the collector's minimum timestamp, and Session says what is in it; remote clients
bypass the local table code and write the same memory through a transport; the
async runtime and its pollers complete the transport's requests, and a poller
thread shares the completion queue of RdmaTransport. Slab chunks are blocks of
replicated memory (ServerMemory). The connector keeps a table and a region of its
own behind a batch interface for Python, and tells a Director what it stores.

### What makes it hard

Leases that expire under a paused or dead holder; readers that copy a bucket while
it is rewritten; extents reclaimed while somebody has just looked them up; two
header formats in one buffer; kick chains that give up with a pair in hand;
completions that arrive between a harvest and the re-arming of the channel, or are
taken by another thread; futures dropped while the hardware uses their buffer;
remote inserts of which any call may fail; a server that restarts at any await of
a session; reports that overtake each other. `hazards` in `PROJECT.json` gives
each with its source line and the properties that would notice.

## The modules

* **BucketLock**: one bucket. Each load, store and CAS of the lock word and each
  call of `now_ms` is a step. The bytes behind the lock are two cells written and
  copied one at a time. `Spec` has timely clients (a holder finishes within its
  lease or is dead), `RepairSpec` adds `repair_after_crash`, `SlowSpec` lets
  holders be paused past their lease. The field widths (24 bit lease stamp, 32 bit
  arithmetic) are the constants LeaseMod, WordMod and VersionMod.
  `force_takeover` and the `repair_after_crash` that follows it are one step: both take
  the bucket as `&mut`, so nobody else has it in between.
* **CuckooTable** over **KeyMap**: `insert_raw` and every round of the kick chain
  are steps; `hand` is the pair being carried. A key is `[lo, hi, digest]`, the
  halves of its hash and its digest. KeyMap says what a table promises: a map
  which on TableFull may lose one key. `ImplementsMap` is the refinement.
* **ClientReader**, **LocalClient**: calls that hold a slice of the buckets from
  start to end, so operators on every table CuckooTable reaches.
* **LockFree**: a bucket is read and written through plain loads and stores, so
  every field is a step and the fields of one access come in any order.
* **ExtentRegion** over **ExtentAllocator**: the buffer is the headers that can be
  decoded in it; what a header decodes to follows the byte offsets of the V1 and V2
  formats, and a V2 header keeps lengths modulo 2^32 (LenWrap). ExtentAllocator
  promises disjoint blocks that account for every byte below the bump pointer.
* **EpochGc**: readers, writers and deleters around the collector. The readers
  follow the rule stated in `docs/Rust-RDMA.md:176`: `active_ts` is refreshed
  before each operation and a client is registered before it reads. Without that
  rule nothing protects a reader. `now_ms` is the clock modulo 2^32 (ClockWrap).
  `LruSpec` adds `evict_lru`.
* **Completion**: tasks, pending map, send and completion queues, poller thread.
  Registering, posting, awaiting and dropping the future are separate steps. A chain
  whose post fails may have been posted in part: those requests are not signalled, and
  the hardware completes them without a word. A poll may fail.
* **AsyncPoller**: the epoll loop. Arming, event retrieval, harvest, dispatch and
  re-arming are separate steps; both values of `busy_poll_fallback` are initial
  states. Arming affects later completions only, as with `ibv_req_notify_cq`. Each
  call on the channel and the queue may fail: a failed `get_event` leaves the event, a
  failed poll counts as an empty harvest.
* **RemoteTable**: one transport call is one step, and any call may fail, which is
  also how a dying client looks from outside. A get of an extent value reads the large
  object region at the offset found, where the server keeps values of any key.
* **Replication**: a flush takes the backup's lock, then the queue's, and replays
  one write at a time; a write beyond the backup makes it panic and poisons both.
  **Slab** is the allocator and the watermark check over its counters, with the
  thresholds in hundredths; **ServerMemory** composes the two. `free_chunk` checks
  nothing, so its users are modelled to free only what they hold.
* **Verbs**: an object is a name and `live` the ones that exist; `connect` creates
  them one by one, any step failing. A call that destroys an object may fail too: the
  wrapper logs it and goes on, and the object stays in `live` and in `failed`.
  **Transport** adds the calls: RdmaTransport's over one queue pair with its poller
  thread, or TcpTransport's over one stream behind a mutex. Init chooses which; a
  HugePageRegion is a third kind of behaviour. RdmaTransport takes `&self` and has no
  lock; that its callers take turns (`RdmaStart`) is what `src/rdma/qp_recovery.rs:9-12`
  asks of them, an assumption on the library's user.
* **Session**: metadata are the incarnation of the server they describe, and a
  transport the incarnation it is connected to. A method is one action per await,
  and the server may stop at each. A dropped heartbeat or deregister may arrive late.
* **Retry**: the loops with the delays they compute, jitter included, and the tracker
  used by several threads. Transport errors are Internal or HardwareError, which
  `retry_rdma_op` never retries, although the comment at
  `src/transport/mod.rs:58-61` has it catch them.
* **Connector**: Python threads, the demultiplexer of LMCache and the workers. A
  method runs with the interpreter lock (GIL) held, so methods interleave only at
  `tobytes`, and only when the caller's object lets threads switch there. The table
  is what KeyMap promises; extents are never freed, so the region is a count of
  units. **Director** is what happens to the drained results afterwards. A report names
  a chunk hash, one segment of a key: a hash is the set of keys that share it, and some
  keys have none. A write is reported stored whatever became of the key, and one that
  ends in TableFull costs a key.
* **MC modules** give keys and batches; MCInsert puts RemoteTable and LockFree,
  MCSession puts Session, Retry and Director into one run, of which Init chooses
  one: they share no state.

External, modelled from how the code uses it: the hardware, the network and the
peer, the clock, the interpreter, the Director, the writes a holder makes under the
bucket lock, the users of the extent region and of slab chunks.

## The runs

| run | shows |
|---|---|
| `BucketLock` | at most one client is in the critical section (`MutualExclusion`); a reader whose `verify_read` succeeds holds the bucket as it was, undivided (`ValidatedReadUnchanged`); a lock whose holder died is taken over (`OrphanRecovered`) |
| `ExtentRegion` | the region with both formats is the abstract allocator, so blocks never overlap and no byte is lost (`ImplementsAllocator`); a sweep collects only what was marked (`OnlyMarkedCollected`) |
| `EpochGc` | no registered reader loses the extent it reads (`NoUseAfterFree`); no extent in the table is collected (`LiveValuesKept`); no scheduled deletion is forgotten, though every sweep clears the list: the first sweep for which all clients have moved past the present collects it (`DeletedIsCollectable`) |
| `CuckooTable` | two probes find whatever the whole table holds, and never a value left in a tombstone in place of the live one (`LookupFinds`); the table is a map that loses at most one key, and that only on TableFull (`ImplementsMap`); `ClientReader::get` agrees with it, but for locked buckets and extents without a region (`ReaderAgrees`); an in-process insert or batch loses or mixes up no more than it reports (`ClientInsertSafe`) |
| `Completion` | a future resolves with the completion of its own request (`RightCompletion`); a waiting task's request is under way and its sender registered (`NothingStranded`); the buffer of a signalled request is still borrowed while the hardware has it, unless its future was dropped (`BufferHeld`); every operation resolves while the poller runs (`EveryOpResolves`) |
| `AsyncPoller` | the thread never sleeps unarmed with no event pending unless arming failed (`NeverDeaf`); with `busy_poll_fallback` every completion is harvested (`FallbackHarvests`) |
| `RemoteTable` | reserved space never overlaps (`ReservationsDisjoint`), a bucket refers only to complete extents (`PublishedComplete`), a get that begins with its key settled, and not deleted meanwhile, finds it, and returns the inline value of the first bucket if the key is there (`SettledIsRead`); among threads sharing a table without a lock, a key that no insert under way can overwrite stays (`SettledStays`), and a lookup begun then finds it (`PresentIsFound`) |
| `RemoteTable_claim` | a counterexample, see below (`InsertedIsThere`) |
| `Connector` | a future is in one place from submission to delivery (`FutureOnce`); a key about to be reported stored is in the table, or TableFull has cost it (`AckedIsThere`); every future is drained, unless the connector is closed or `tobytes` lets other threads in (`EveryFutureDrained`) |
| `ServerMemory` | the backup is always an earlier state of the primary (`BackupIsPrefix`) and catches up (`CatchesUp`); each holder of a chunk finds its own data in it (`HoldersData`); a full slab is reported under exactly the thresholds below 1.0 (`NoSilentExhaustion`) |
| `Transport` | RdmaTransport never reports more successes than requests were executed (`OkCounted`); while no earlier call has left its answer behind, success is the caller's own, and over TCP the answer of `cas` is true (`OkIsOwn`); the poller thread, the queue pair and the adapter never use an object or page that is gone, and only what could not be destroyed is left behind (`Lifetimes`); every call returns unless a dropped call has put the stream out of step, and the drop ends (`CallsReturn`) |
| `Session` | once a reconnect has begun no metadata from before are used (`ReconnectForgets`); the registry holds what clients were told, unless a call of theirs was cut short (`RegistryExact`); an operation is retried only after errors that allow it, within its limit, with pauses at most a quarter above the cap that shrink only once it is reached (`RetryOutcome`); the Director believes in a hash only if a key with it is stored, and misses it then only if keys share it, unless a report of it was lost or overtaken or a write cost a key of it (`ViewExact`); every pending entry leaves the tracker (`PendingDrains`) |

`tlc -config <cfg> <module>` repeats a run; `PROJECT.json` names both, and gives
for every property a mutated definition under which TLC finds it violated.

### Where the code and its documentation disagree

The violation run `RemoteTable_claim` shows that `insert_remote`, which says it
"uses CAS to claim the slot" (`src/client/write.rs:116-117`), compares and swaps
one and the same word: two clients both claim one empty slot, both return
Inserted, and one key is lost.

Other statements of the docs and comments that the models do not satisfy are kept
as properties next to the ones that hold. TLC refutes each with the configuration
named here, and with the module of the run the file is named after unless another is
given; where it is a variant of a run's cfg, the property takes the place of
the run's own and the constants change as stated.

| configuration | property | what happens |
|---|---|---|
| `BucketLock_rollover.cfg` | `RunningLeaseNotExpired` | the stamp has 24 bits and the subtraction 32: after a rollover a running lease looks expired (`concurrency.rs:36-37` has the wrap handled) |
| `BucketLock_slow.cfg` | `VersionMonotonic` | a holder paused past its lease stores an older version on release |
| `BucketLock.cfg`, RepairSpec, MaxVersion 3 | `ValidatedReadUnchanged` | `repair_after_crash` resets the version a reader compares with |
| `ExtentRegion.cfg`, Size 144 | `NoStaleRead`, `MarkedIsCollected` | `zero_magic` clears the length of a V1 header, not its magic; marking a V1 extent overwrites its magic |
| `ExtentRegion_magic.cfg` | `FormatDetected` | a V2 epoch whose low half equals the magic is read as V1 |
| `EpochGc_lru.cfg` | `NoUseAfterFree` | `evict_lru` sweeps with the present time and ignores readers |
| `EpochGc.cfg`, ClockWrap 3 | `NoUseAfterFree` | `now_ms` is cut to 32 bits: once it has wrapped, marks are older than the readers that should protect them |
| `CuckooTable_full.cfg`, module MCCuckoo | `NoPartialWrites` | TableFull has displaced pairs and dropped one (`cuckoo.rs:21`) |
| `CuckooTable.cfg` | `FastLookupAgrees`, `FastIsReadable`, `ReportedBucket` | `get_fast` returns deleted keys, and for an extent no reference to read it by (`cuckoo.rs:363`); the reported bucket is where the last displaced pair went |
| `CuckooTable.cfg` | `LockRespected`, `LatestInsertRead`, `FailedInsertInvisible` | the in-process client writes locked buckets, leaves an older copy that is read first, and leaves a failed insert readable |
| `Completion.cfg`, Outcomes {"done"} | `ResolvesThroughShutdown` | operations in flight at shutdown never resolve |
| `Completion.cfg`, BatchStart 1, Outcomes {"done"} | `RightCompletion` | counter ids that reach the batch range take a batch's completion |
| `Completion.cfg`, Outcomes {"done"} | `BufferGuaranteed` | the buffer of a dropped future, or of a chain posted in part, is released while the hardware uses it (`ops.rs:17-20`) |
| `Completion.cfg`, Outcomes {"done", "not swapped"} | `CasTruthful` | a CAS that did not swap reports success |
| `AsyncPoller_default.cfg` | `EveryCompletionHarvested` | without the fallback a completion that came before arming waits for the next one |
| `RemoteTable_bump.cfg`, module MCRemote | `BumpAdvances` | the first extent's header is written over the bump word |
| the same, with `INVARIANTS` | `FirstHeaderKept` | the next reservation moves that word, and with it the magic of the first header |
| `RemoteTable_claim.cfg`, GetSpec, Modes {"extent"} | `GetSound` | an extent value is read from the large object region, where no remote insert writes and other keys' values lie |
| `LockFree_claim.cfg`, module MCInsert | `OkIsThere` | two threads take one slot and both return Ok ("Thread-safe for concurrent writers") |
| `Connector.cfg`, ClearFirst FALSE | `EveryFutureDrained` | draining before the event is cleared, the order `lib.rs:628-629` gives, leaves a future |
| `Connector.cfg` | `EvictedIsGone`, `OkMeansStored` | eviction leaves keys in the table (`lib.rs:718-720`); ok is true with keys missing (`lib.rs:623`) |
| `Connector_gil.cfg`, module MCConnector | `EveryCallReturns` | when `tobytes` lets another thread in, that thread waits for a mutex with the GIL held (`docs/Rust-RDMA.md:388`) |
| `Transport_stale.cfg` | `OkMeansDone` | the completion of a call that ended early answers the next one |
| `Transport.cfg` | `FalseMeansKept`, `ParentsOutlive`, `NoPageLeak`, `MrWithinMapping` | an RDMA CAS reports no swap after swapping; `drop` closes the device before the protection domain; a failed registration leaks its pages; pages are unmapped under a registration that could not be undone |
| `Transport.cfg` | `AllCallsReturn` (PROPERTY) | after a dropped TCP call the next one may wait for bytes that never come, with the mutex held |
| `Session.cfg`, MaxClock 4 | `RestartDetected`, `OpenIsCompatible` (PROPERTY) | a restart goes unnoticed; the version is checked before a restart and the transport made after it |
| the same, TickSpec | `HeartbeatSends` (PROPERTY) | the heartbeat task of a session, its timer firing, sends nothing |
| `Session.cfg`, MaxClock 4 | `CollectedWasScanned`, `NoLateHeartbeat`, `RuntimeDroppedOutside` | entries time out between a scan and the collection; a heartbeat arrives after the departure; the last task drops the runtime it runs on |
| `Session.cfg` | `PausesBelowMax` | jitter is added after the cap, so that a pause exceeds "Maximum delay between retries" (`retry.rs:39`) |
| `Session.cfg`, PowWidth 2 | `RetryOutcome` | the power of the backoff overflows |
| `Director_order.cfg`, module MCSession | `ViewAlwaysExact` | a report overtakes another, or is lost |

With `RepairSpec` and MaxVersion 3, `MutualExclusion` still holds (774,051 states).

### Bounds

Every bound is a constant of its model, chosen so that the case it is about happens:

* BucketLock: 2 writers and a reader, one crash, a lease of 1, clock to 4, versions
  to 2: a lease expires while held, is stolen, and the thief finishes.
* ExtentRegion: 136 bytes and lengths 5 and 40, one V1 extent of 8: a free block is
  split, reused exactly, and too small.
* EpochGc: room for two extents, 2 keys and 3 puts, 2 clients, clock to 4: an overwrite
  is scheduled before, while and after a reader looks it up, and an extent is reused
  for another key. The clock stays below ClockWrap, as it does for 49 days.
* CuckooTable: 4 buckets, 6 keys (sharing both buckets, with coinciding buckets, with
  the hash 0), MaxKick 3: chains that succeed, come back to their key and give up.
* Completion: 2 tasks, 2 ids, a batch, harvests of 2; the ids of batches start far
  above those of the counter. AsyncPoller: 3 tasks, harvests of 2, 2 busy polls: a full
  harvest leaves one behind.
* RemoteTable: 2 clients with 2 keys in a shared bucket pair, 2 inserts, no bucket
  locked or one. LockFree: 2 threads, 3 keys, 2 slots, 2 calls (3 calls: 1,132,997
  states).
* Connector: 2 keys, 2 threads, 2 calls, capacity 2, watermark 1, room for one large
  value: eviction, retry and a full region.
* ServerMemory: 5 cells, backups of 1, 3 and 5, 3 writes, chunks of 0 to 2, 2 users;
  slab thresholds 0, 85 (the default) and 100, which no use exceeds.
* Transport: 2 callers, 2 calls: a call after one that was dropped or returned early;
  2 destructions that fail. (3 calls and one failure: 972,012 states in 7 minutes.)
* Session: 2 clients, one session, 2 incarnations, timestamps to 2; retry limits 0 and
  2, base delay 4 and cap 12, so that jitter matters and the cap is reached; 2 futures,
  timeout 1, clock to 3; 4 keys, of which two share a hash and one has none, 3 reports.

The configurations say `CHECK_DEADLOCK FALSE`: a model that has used up its calls,
clock or crashes stops.

### Fairness

* BucketLock: weak fairness of the clock and of the steps of live writers.
* Completion: the hardware completes what was posted, the poller thread and awaiting
  tasks are scheduled, and polling does not fail for ever (strong fairness of a poll
  that succeeds). AsyncPoller: likewise; epoll returns, the event is retrieved and a
  poll happens if possible again and again (strong), since the loop passes them
  repeatedly. The last rests on `epoll_timeout_ms` being positive (the default is 1):
  with 0 the window of the fallback loop is over before its first poll.
* LockFree: threads are scheduled.
* Connector: threads contend for the interpreter lock, so strong fairness of a method's
  steps, of regaining the lock and of draining; weak fairness of the workers, the
  demultiplexer's wake and clear, and the join of `drop`.
* Replication: writers take contended locks (strong); a flush with writes pending is
  started in the end and goes on. `flush_replication` is "Called periodically or on
  demand" (`src/control/replication.rs:99`), but by nobody outside the tests: that it is
  called is an assumption on the library's user.
* Transport: calls, the peer and teardown go on; the TCP mutex is fair (tokio's is FIFO),
  hence strong fairness of taking it.
* MCSession: time goes on and `collect_timeouts` is called again and again, as in "scan
  every 100 ms" of `docs/Rust-RDMA.md:480-484`; here too the caller is the library's
  user. Nothing else is fair. `TickSpec` adds the heartbeat timer.
* BucketLock's `SlowSpec`, ExtentRegion, EpochGc, CuckooTable and RemoteTable have safety
  properties only, and no fairness.

## The proofs

`tlapm <Module>_proofs.tla` checks a module's proofs. The theorems hold for all
values of the constants that satisfy the named assumptions of the modules (sizes and
bounds are natural numbers, reserved values are not in the data sets). Any further
assumption is part of the theorem and is given here. Each safety theorem follows one
scheme: the inductive invariant holds initially, one lemma per action shows that the
action keeps it, and it implies the property.

| module | theorems | about |
|---|---|---|
| `Table_proofs` | `LockExcludes`, `VersionNeverGoesBack`, `ValidatedReadsHold` | BucketLock |
| | `OneCopyAlways`, `LookupSound`, `ReaderAlwaysAgrees`, `TableImplementsMap` | CuckooTable, ClientReader |
| | `SettledAlwaysStays`, `PresentAlwaysFound` | LockFree |
| `Extent_proofs` | `AllocatorSound`, `RegionIsAllocator`, `RegionNeverOverlaps`, `FreeListAlwaysDisjoint`, `OnlyMarkedEverCollected` | ExtentAllocator, ExtentRegion |
| | `NeverUseAfterFree`, `LiveValuesAlwaysKept`, `DeletedAlwaysCollectable` | EpochGc |
| `Operations_proofs` | `CompletionAlwaysRight`, `NeverStranded`, `SendersNeverLeak`, `BufferAlwaysHeld` | Completion |
| | `ReservationsAlwaysDisjoint`, `PublishedAlwaysComplete`, `SettledAlwaysRead` | RemoteTable |
| `Connector_proofs` | `FuturesAlwaysOnce`, `AckedAlwaysThere` | Connector |
| `ServerMemory_proofs` | `BackupAlwaysPrefix`, `FlushAlwaysCovers`, `ChunksAlwaysDisjoint`, `CountsAlwaysExact`, `HoldersAlwaysData`, `ExhaustionAlwaysReported` | Replication, Slab, ServerMemory |
| `Rdma_proofs`, `Transport_proofs` | `OkAlwaysCounted`, `OkAlwaysOwn`, `LifetimesAlwaysNested` | Verbs, Transport |
| `Client_proofs` | `ReconnectAlwaysForgets`, `RegistryAlwaysExact`, `FloorAlwaysSafe` | Session |
| | `RetryAlwaysRight`, `ViewAlwaysRight`, `NeverGoesDeaf` | Retry, Director, AsyncPoller |

The inductive invariants, and why the properties need them:

* **BucketLock**, `LockInv`: that two clients are not inside follows only if each
  client inside owns the lock word, and that is kept only because whoever replaced the
  word had seen an expired lease (`SawExpiry`), and an expired lease is past for good
  (`LeasePast`, `StampRunning`). `ReaderInv` adds that a version seen unchanged means
  unchanged cells. Assumed: `[]NoRollover`, the clock does not cross the 24 bit wrap.
* **CuckooTable**, `TableInv`: `OneCopy` (a key has at most one live copy, in one of
  its two buckets) does not survive a kick by itself; `ChainInv` says that the pair in
  hand is nowhere in the table and where the next round puts it. For `get_fast`,
  `NoneBehind` adds that no tombstone of a key precedes its live copy. The refinement
  maps the pair in hand to the key the abstract map may still lose.
* **LockFree**, `LockFreeInv`: `OnTheWay` says of each lookup that must find its key
  that it has not passed the key's bucket, and that the fields it copied from that
  bucket are still what the bucket holds.
* **ExtentRegion**, `RegionInv`: the headers a sweep walks through decode to the
  extents and free blocks the allocator believes in (`HeadersSound`), and no offset is
  listed twice (`NoTwice`). Assumed: no epoch in use reads as EXTENT_MAGIC; with such
  an epoch `FormatDetected` fails; and no value has 4 GiB or more, whose length a V2
  header would cut. `AllocatorSound` is carried over by refinement.
* **EpochGc**, `GcInv`: `Live`, `Waiting` and `Protected` say for each allocated extent
  whether it is in the table, is scheduled, or is still read, and by whom, and bound its
  mark by the readers' timestamps. For `DeletedAlwaysCollectable`, `Tracked` adds that a
  deleted extent carries its mark or is listed to receive one, at a time that is not to
  come. Assumed: the clock has not wrapped and stays below that same epoch
  (`ClockInRange`), and the collector has no LRU tracker.
* **Completion**, `CompletionInv`: a request id is in exactly one stage of the pipeline
  (`Queues`), the ids to come are unused (`Fresh`), and the map holds exactly the
  senders of those stages (`CallInv`, `NoLeak`). Assumed: `MaxId < BatchStart`. Neither
  what was posted of a failed chain nor a dropped future is covered by `BufferHeld`.
* **RemoteTable**, `RemoteInv`: `Space` keeps what was reserved below the bump offset,
  `Alone` says that a client's extent is its own, `Progress` how far it is written,
  `Published` that buckets refer to finished ones. Assumed: `[]BelowMagic`, the header
  at offset 0, which overwrites the bump word (`BumpAdvances`), is written before the
  bump offset has passed the value that header reads as; later it would be put back.
  `SettledAlwaysRead` assumes nothing: `ReadInv` follows each get that must find its
  key (`Followed`): the key rests, with its value, in a bucket the get has not passed.
* **Connector**, `ConnectorInv`: `Holding` says who has the GIL and the mutexes at each
  point of a method, so that the table changes only under them; `Futures` that an id
  belongs to one call, one completion or one delivery; `Acked` that the results
  gathered so far are true of the table, while other threads run inside `tobytes`.
* **ServerMemory**: `RepInv` has the queue of pending writes as the difference between
  the backup and the primary (`Chain`, `Tip`) and the write a flush is at; `SlabInv`
  has chunks apart, inside what was carved, and counted, so that the counters of a full
  slab are all of it and over every threshold below 1.0. `MemInv` adds `Written`.
* **Transport**, `TransportInv`: over RDMA, who made each request in the queues and
  that every success consumed a completion of an executed request (`Counted`,
  `OwnAnswers`); over TCP, that requests and answers are in step while the mutex is
  held (`Locked`, `InStep`, `TcpTold`), but for calls that left their answer behind
  (`Left`). `LifeInv` gives the objects that exist at every stage: those of the stage,
  and those that could not be destroyed.
* **Session**: `FetchedFresh` relates metadata still on their way to the reconnect that
  asked for them; `OneRequest` says at most one request per client is under way unless
  one was cut short.
* **Retry**: `RetryInv` relates the pauses made to the number of attempts: each is
  within a quarter of the delay of its attempt, and the delays double up to the cap.
  Assumed:
  `max_retries` below the width of `2u32.pow`. `PowerLaw`, the recurrence of powers of
  two, is an assumption of the module, since the provers know no exponentiation; TLC
  evaluates it for the limits of the run.
* **Director**: `LastTrue` says that the last word about a hash is right: the last
  completion not drained, else the one report under way, else what the Director has.
  **AsyncPoller**: `PollerInv` says at which steps the channel may be unarmed.

### What is only model-checked

* Liveness: `OrphanRecovered`, `EveryOpResolves`,
  `FallbackHarvests`, `EveryFutureDrained`, `CatchesUp`, `CallsReturn` and
  `PendingDrains`. The proof system here does not reason about fairness and ENABLED.
* `ClientInsertSafe`: a batch is a fold over its operations, and what a fold computes
  needs induction over data.
* The disagreements above, which are counterexamples.

Every other property of the passing runs is a theorem.

### What the properties leave open

Some properties hold only with an exception, and the exception is then a case the code
does not handle. Each is refuted without it in the table of disagreements:

* `BufferHeld` exempts dropped futures (`BufferGuaranteed`), `EveryOpResolves` the time
  after a shutdown (`ResolvesThroughShutdown`), and `RightCompletion` relies on ids of
  batches apart from those of the counter (BatchStart 1).
* `NeverDeaf` does not notice a completion that came before arming: the channel is then
  armed, for later ones. `FallbackHarvests` does, where the fallback is configured
  (`EveryCompletionHarvested`).
* `OkCounted` counts: a success that answers another call's request passes it
  (`OkMeansDone`). `OkIsOwn` and `CallsReturn` exempt calls after one that was cut short
  (`OkMeansDone`, `AllCallsReturn`).
* `HoldersData` has users that free what they hold; a chunk freed twice is given to two.
* `RegistryExact` exempts a client whose own call was cut short and may arrive late.
* `PendingDrains` says that entries leave, not that each was reported by a scan
  (`CollectedWasScanned`); `ViewExact` exempts reports that overtake each other
  (`ViewAlwaysExact`).

## What is not modelled

* Tenant namespaces (a hash with a seed, no state), the GPUDirect transport (its
  operations return an error), the public trait (signatures).
* `sync_free_list` and `notify_watermark`, which change no state; TLS and gRPC framing;
  bootstrap's configuration and registration; page sizes and alignment.
* Selections of the LRU tracker that overlap: its only user holds the interpreter
  lock. `post_recv` and the guard's batch post, which have no caller.
* `try_acquire_lock` also clears the tombstone bit (`concurrency.rs:149`). It is called
  from tests only, so lock and tombstones never meet in one model.
* `verify_extent_checksum`, which has no caller.
* Values of 4 GiB and more: the modulus of a V2 header's length is modelled, and lengths
  are assumed to be below it.
* Payload bytes, hashing and formatting: values are symbols. Where the bytes matter
  (headers of two formats, lock word fields, bump word) the model keeps them.
