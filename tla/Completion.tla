----------------------------- MODULE Completion -----------------------------
(***************************************************************************)
(* How an async RDMA operation gets its completion: RdmaRuntime            *)
(* (src/runtime/ops.rs) registers a oneshot sender under the work request  *)
(* id and posts the request; the hardware completes it; the Poller thread  *)
(* (src/runtime/poller.rs) takes completions off the queue in batches and  *)
(* fires the senders it finds in the pending map.                          *)
(*                                                                         *)
(* The hardware is external: a posted request completes in order, with     *)
(* success or an error, and stays in use (its buffer is read or written)   *)
(* until then.                                                             *)
(***************************************************************************)
EXTENDS Integers, Sequences

CONSTANTS
    Tasks,          \* async callers
    BatchStart,     \* callers of rdma_batch number their last requests from here
    MaxBatches,     \* bound: batches of one behaviour
    PollMax,        \* 16: completions one poll takes
    MaxId,          \* bound: the counter stops here
    MaxPosted,      \* the queues' depth: a post on full queues fails
    Outcomes        \* how requests end: a subset of AllOutcomes

\* A request succeeds (a CAS having swapped the value or left it alone) or fails.
AllOutcomes == {"done", "not swapped", "error"}

ASSUME CompletionAssumption ==
    /\ PollMax \in Nat \ {0} /\ MaxId \in Nat /\ MaxPosted \in Nat
    /\ BatchStart \in Nat /\ MaxBatches \in Nat /\ Outcomes \subseteq AllOutcomes

VARIABLES
    next_wr_id,     \* RdmaRuntime::next_wr_id
    batches,        \* batches started so far, by callers that number them
    pending,        \* PendingMap: wr_id -> the task whose sender is stored
    stage,             \* where each task is: idle, register, post, wait
    wr_id,          \* the id of each task's request
    channel,        \* each task's oneshot: open, dropped or sent, and what was sent
    sq,             \* posted, not completed: sequence of [id, owner]
    cq,             \* completed, not polled: sequence of [id, owner, outcome]
    polled,         \* what the poller has taken and not dispatched
    poller,         \* where the poller thread is: check, poll, dispatch, exited
    shutdown,       \* the flag
    dropped,        \* auxiliary: ids of requests whose future was dropped
    partial         \* tasks of whose chain only a first part was posted, still in use

counters == <<next_wr_id, batches>>
leftover == <<dropped, partial>>
taskvars == <<counters, stage, wr_id, leftover>>
pollvars == <<poller, shutdown>>
cvars == <<taskvars, pending, channel, sq, cq, polled, pollvars>>

Without(f, S) == [x \in DOMAIN f \ S |-> f[x]]
With(f, x, v) == [y \in DOMAIN f \cup {x} |-> IF y = x THEN v ELSE f[y]]

Open == [state |-> "open", wc |-> {}]
Dropped == [state |-> "dropped", wc |-> {}]
Sent(wc) == [state |-> "sent", wc |-> {wc}]

CompletionInit ==
    /\ next_wr_id = 1 /\ batches = 0 /\ dropped = {} /\ partial = {}
    /\ pending = <<>>
    /\ stage = [t \in Tasks |-> "idle"]
    /\ wr_id = [t \in Tasks |-> 0]
    /\ channel = [t \in Tasks |-> Open]
    /\ sq = <<>> /\ cq = <<>> /\ polled = <<>>
    /\ poller = "check" /\ shutdown = FALSE

(***************************************************************************)
(* rdma_read, rdma_write, rdma_cas, rdma_batch                             *)
(***************************************************************************)
Begin(t, id) ==
    /\ stage[t] = "idle"
    /\ wr_id' = [wr_id EXCEPT ![t] = id]
    /\ channel' = [channel EXCEPT ![t] = Open]
    /\ stage' = [stage EXCEPT ![t] = "register"]
    /\ UNCHANGED <<pending, sq, cq, polled, pollvars, leftover>>

\* A bug: the counter is read and written back a step too late to matter.
MutStartOp(t) ==
    /\ next_wr_id <= MaxId
    /\ next_wr_id' \in {next_wr_id, next_wr_id + 1}
    /\ Begin(t, next_wr_id)
    /\ UNCHANGED batches

\* read, write and cas take their id from the counter.
StartOp(t) ==
    /\ next_wr_id <= MaxId
    /\ next_wr_id' = next_wr_id + 1
    /\ Begin(t, next_wr_id)
    /\ UNCHANGED batches

\* rdma_batch uses the id its caller put into the last request.
StartBatch(t) ==
    /\ batches < MaxBatches
    /\ batches' = batches + 1
    /\ Begin(t, BatchStart + batches)
    /\ UNCHANGED next_wr_id

\* A sender of another task that leaves the map under id without being fired is dropped.
DropOther(t, id) ==
    channel' = [u \in Tasks |->
        IF id \in DOMAIN pending /\ pending[id] = u /\ u # t THEN Dropped ELSE channel[u]]

Register(t) ==
    /\ stage[t] = "register"
    /\ DropOther(t, wr_id[t])
    /\ pending' = With(pending, wr_id[t], t)
    /\ stage' = [stage EXCEPT ![t] = "post"]
    /\ UNCHANGED <<counters, wr_id, leftover, sq, cq, polled, pollvars>>

PostOk(t) ==
    /\ stage[t] = "post"
    /\ Len(sq) + Len(cq) < MaxPosted
    /\ sq' = Append(sq, [id |-> wr_id[t], owner |-> t])
    /\ stage' = [stage EXCEPT ![t] = "wait"]
    /\ UNCHANGED <<counters, wr_id, leftover, pending, channel, cq, polled, pollvars>>

\* The operation returns, or its future is dropped: its receiver is gone.
ReturnCall(t) ==
    /\ stage' = [stage EXCEPT ![t] = "idle"]
    /\ wr_id' = [wr_id EXCEPT ![t] = 0]

IsBatch(t) == wr_id[t] >= BatchStart

\* A chain may have been posted up to the request that failed: none of those is signalled.
PostFailed(t) ==
    /\ stage[t] = "post"
    /\ DropOther(t, wr_id[t])
    /\ pending' = Without(pending, {wr_id[t]})
    /\ ReturnCall(t)
    /\ partial' \in {partial, IF IsBatch(t) THEN partial \cup {t} ELSE partial}
    /\ UNCHANGED <<counters, dropped, sq, cq, polled, pollvars>>

\* A bug: the future is ready before anything was sent to it.
MutAwait(t) ==
    /\ stage[t] = "wait"
    /\ ReturnCall(t)
    /\ UNCHANGED <<counters, leftover, pending, channel, sq, cq, polled, pollvars>>

\* The receiver yields a completion, or an error once its sender is gone.
Await(t) ==
    /\ stage[t] = "wait"
    /\ channel[t] # Open
    /\ ReturnCall(t)
    /\ channel' = [channel EXCEPT ![t] = Open]
    /\ UNCHANGED <<counters, leftover, pending, sq, cq, polled, pollvars>>

\* The caller drops the future; the map keeps its sender.
Cancel(t) ==
    /\ stage[t] = "wait" /\ channel[t] = Open
    /\ ReturnCall(t)
    /\ dropped' = dropped \cup {wr_id[t]}
    /\ UNCHANGED <<counters, partial, pending, channel, sq, cq, polled, pollvars>>

\* WorkCompletion::is_success, which rdma_cas returns.
IsSuccess(wc) == wc.outcome # "error"

(***************************************************************************)
(* The hardware (external)                                                 *)
(***************************************************************************)
Complete ==
    /\ sq # <<>>
    /\ \E o \in Outcomes :
          cq' = Append(cq, [id |-> Head(sq).id, owner |-> Head(sq).owner, outcome |-> o])
    /\ sq' = Tail(sq)
    /\ UNCHANGED <<taskvars, pending, channel, polled, pollvars>>

\* The part of a chain that was posted completes without a word.
CompletePartial(t) ==
    /\ t \in partial
    /\ partial' = partial \ {t}
    /\ UNCHANGED <<counters, stage, wr_id, dropped, pending, channel, sq, cq, polled, pollvars>>

(***************************************************************************)
(* The poller thread                                                       *)
(***************************************************************************)
PollerCheck ==
    /\ poller = "check"
    /\ poller' = IF shutdown THEN "exited" ELSE "poll"
    /\ UNCHANGED <<taskvars, pending, channel, sq, cq, polled, shutdown>>

PollCount == IF Len(cq) < PollMax THEN Len(cq) ELSE PollMax

PollerPoll ==
    /\ poller = "poll"
    /\ polled' = SubSeq(cq, 1, PollCount)
    /\ cq' = SubSeq(cq, PollCount + 1, Len(cq))
    /\ poller' = IF cq = <<>> THEN "check" ELSE "dispatch"
    /\ UNCHANGED <<taskvars, pending, channel, sq, shutdown>>

PollFails ==
    /\ poller = "poll" /\ poller' = "check"
    /\ UNCHANGED <<taskvars, pending, channel, sq, cq, polled, shutdown>>

\* The completion among wcs that a task is sent: the first with the id its sender is
\* found under, if its receiver is still there.
Delivered(t, wcs) ==
    {wcs[i] : i \in {j \in DOMAIN wcs : /\ wcs[j].id \in DOMAIN pending
                                        /\ \A k \in 1 .. j - 1 : wcs[k].id # wcs[j].id
                                        /\ pending[wcs[j].id] = t
                                        /\ stage[t] \in {"post", "wait"} /\ wr_id[t] = wcs[j].id}}

\* Under the lock, the senders of all completions wcs are removed and fired.
Dispatch(wcs) ==
    /\ channel' = [t \in Tasks |->
          IF Delivered(t, wcs) = {} THEN channel[t]
          ELSE Sent(CHOOSE wc \in Delivered(t, wcs) : TRUE)]
    /\ pending' = Without(pending, {wcs[i].id : i \in DOMAIN wcs})

\* A bug: only the first completion of a batch is looked at.
MutPollerDispatch ==
    /\ poller = "dispatch"
    /\ Dispatch(SubSeq(polled, 1, 1))
    /\ polled' = <<>>
    /\ poller' = "check"
    /\ UNCHANGED <<taskvars, sq, cq, shutdown>>

PollerDispatch ==
    /\ poller = "dispatch"
    /\ Dispatch(polled)
    /\ polled' = <<>>
    /\ poller' = "check"
    /\ UNCHANGED <<taskvars, sq, cq, shutdown>>

\* Poller::shutdown, or Drop.
Shutdown ==
    /\ ~shutdown
    /\ shutdown' = TRUE
    /\ UNCHANGED <<taskvars, pending, channel, sq, cq, polled, poller>>

TaskStep(t) ==
    \/ StartOp(t) \/ StartBatch(t) \/ Register(t) \/ PostOk(t) \/ PostFailed(t) \/ Await(t)
PollerStep == PollerCheck \/ PollerPoll \/ PollerDispatch

CompletionNext ==
    \/ \E t \in Tasks : TaskStep(t) \/ Cancel(t) \/ CompletePartial(t)
    \/ Complete \/ PollerStep \/ PollFails \/ Shutdown

\* Threads and hardware run, polling does not fail for ever, and a task that can go on is
\* polled by the executor.
Fairness ==
    /\ WF_cvars(Complete) /\ WF_cvars(PollerStep) /\ SF_cvars(PollerPoll)
    /\ \A t \in Tasks : WF_cvars(Await(t))

CompletionSpec == CompletionInit /\ [][CompletionNext]_cvars /\ Fairness

-----------------------------------------------------------------------------
Seqs == {sq, cq, polled}

\* Some request of task t with t's current id is under way.
UnderWay(t) ==
    \E s \in Seqs : \E i \in DOMAIN s : s[i].owner = t /\ s[i].id = wr_id[t]

\* Every variable has its type.
CompletionTypeOK ==
    /\ next_wr_id \in 1 .. MaxId + 1
    /\ DOMAIN pending \subseteq 1 .. MaxId \cup BatchStart .. BatchStart + MaxBatches
    /\ \A id \in DOMAIN pending : pending[id] \in Tasks
    /\ stage \in [Tasks -> {"idle", "register", "post", "wait"}]
    /\ \A t \in Tasks : channel[t].state \in {"open", "dropped", "sent"}
    /\ poller \in {"check", "poll", "dispatch", "exited"} /\ partial \subseteq Tasks

\* A task is woken by the completion of its own request, never by another's
\* (senders are keyed by wr_id, and completions name the wr_id only).
RightCompletion ==
    \A t \in Tasks : \A wc \in channel[t].wc : wc.owner = t

\* A waiting task is never stranded: its request is under way and the map still
\* holds the sender that will wake it, until it has been woken.
NothingStranded ==
    \A t \in Tasks : stage[t] = "wait" /\ channel[t] = Open =>
        /\ UnderWay(t)
        /\ wr_id[t] \in DOMAIN pending /\ pending[wr_id[t]] = t

\* The map keeps no sender for ever: each entry has a request that will still
\* complete, or is about to be posted, cancelled futures included.
NoLeakedSender ==
    \A id \in DOMAIN pending :
        \/ \E s \in Seqs : \E i \in DOMAIN s : s[i].id = id
        \/ \E t \in Tasks : stage[t] = "post" /\ wr_id[t] = id

\* The buffer of a signalled request the hardware has not completed is still borrowed by
\* its waiting caller, unless that caller dropped the future (rdma_read, rdma_write and
\* rdma_batch await the completion before they return).
BufferHeld ==
    \A i \in DOMAIN sq :
        \/ stage[sq[i].owner] = "wait" /\ wr_id[sq[i].owner] = sq[i].id
        \/ sq[i].id \in dropped

\* "The buffer is guaranteed valid until the HCA finishes DMA access" (ops.rs).
BufferGuaranteed ==
    /\ partial = {}
    /\ \A i \in DOMAIN sq : stage[sq[i].owner] = "wait" /\ wr_id[sq[i].owner] = sq[i].id

\* rdma_cas returns Ok(true) only when the value was swapped.
CasTruthful ==
    \A t \in Tasks : \A wc \in channel[t].wc : IsSuccess(wc) => wc.outcome = "done"

\* "The poller thread will harvest the completion, fire the oneshot, and the future
\* will resolve": while the poller runs nobody waits for ever.
EveryOpResolves == \A t \in Tasks : stage[t] = "wait" ~> stage[t] # "wait" \/ shutdown

\* The same without the condition that the poller runs.
ResolvesThroughShutdown == \A t \in Tasks : stage[t] = "wait" ~> stage[t] # "wait"
=============================================================================
