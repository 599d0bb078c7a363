------------------------------ MODULE Transport ------------------------------
(***************************************************************************)
(* One Box<dyn Transport> from connect to drop: RdmaTransport              *)
(* (src/transport/rdma.rs, over QpGuard, QueuePair, CompletionQueue and    *)
(* its own Poller) or TcpTransport (src/transport/tcp.rs).  Init chooses   *)
(* which; a third kind of behaviour is the life of a HugePageRegion, which *)
(* shares no state with either.                                            *)
(*                                                                         *)
(* A call takes a fresh id, submits a request and turns what it sees of    *)
(* the answer into its result.  The peer, the adapter and the connection   *)
(* are external: requests are executed in order, any of them may be        *)
(* refused, and a failure of the link may strike before or after the       *)
(* request in progress was executed.                                       *)
(*                                                                         *)
(* RdmaTransport calls contain no await and the caller serializes them     *)
(* (qp_recovery.rs).  TcpTransport calls run concurrently; any of them can *)
(* be dropped at an await.                                                 *)
(***************************************************************************)
EXTENDS Verbs

CONSTANTS
    Callers,        \* tasks that share the transport
    MaxCalls        \* bound on the calls made

ASSUME TransportAssumption == MaxCalls \in Nat /\ "nobody" \notin Callers

VARIABLES
    kind,           \* "rdma", "tcp" or "region"
    calls,          \* calls[c]: the call c is in
    res,            \* res[c]: the result of the last call of c
    next_id,        \* next_wr_id, request_id
    done,           \* auxiliary: what the peer did for each id
    abandoned,      \* auxiliary: ids whose call ended with the answer outstanding
    oks,            \* auxiliary: how many calls reported success
    sq, cq,         \* the send queue and the completions not yet polled
    recovery_count, \* of QpGuard
    link,           \* the connection: "down", "up", "broken"
    holder,         \* who holds the stream's mutex
    requests, replies,
    garbled         \* the two ends disagree on where a message starts

call == <<calls, res, next_id, abandoned, oks>>
rdma == <<sq, cq, recovery_count>>
tcp == <<link, holder, requests, replies, garbled>>
vars == <<kind, call, done, rdma, tcp, verbs, region>>

Ids == 1 .. MaxCalls
Ops == {"read", "write", "cas"}
Nobody == "nobody"
IdleCall == [pc |-> "idle", id |-> 0, op |-> "read"]
Elements(s) == {s[i] : i \in 1 .. Len(s)}

\* What a request can do at the peer: a CAS may find another value.
Effects(op) == IF op = "cas" THEN {"done", "kept"} ELSE {"done"}
Ran(id, e) == done' = [done EXCEPT ![id] = e]

TInit ==
    /\ kind \in {"rdma", "tcp", "region"}
    /\ calls = [c \in Callers |-> IdleCall]
    /\ res = [c \in Callers |-> [r |-> "none", id |-> 0, clean |-> TRUE]]
    /\ next_id = 1 /\ done = [i \in Ids |-> "no"] /\ abandoned = {} /\ oks = 0
    /\ sq = <<>> /\ cq = <<>> /\ recovery_count = 0
    /\ link = "down" /\ holder = Nobody /\ requests = <<>> /\ replies = <<>>
    /\ garbled = FALSE

Init == TInit /\ VerbsInit

Goto(c, pc) == calls' = [calls EXCEPT ![c].pc = pc]

Start(c, op, pc) ==
    /\ calls[c].pc = "idle" /\ next_id \in Ids
    /\ calls' = [calls EXCEPT ![c] = [pc |-> pc, id |-> next_id, op |-> op]]
    /\ next_id' = next_id + 1

Return(c, r) ==
    /\ calls' = [calls EXCEPT ![c] = IdleCall]
    /\ res' = [res EXCEPT ![c] = [r |-> r, id |-> calls[c].id, clean |-> abandoned = {}]]
    /\ oks' = oks + (IF r \in {"Ok", "true"} THEN 1 ELSE 0)

\* read and write report failure as Err, cas as Ok(false).
Outcome(op, ok) == IF op = "cas" THEN IF ok THEN "true" ELSE "false"
                   ELSE IF ok THEN "Ok" ELSE "Err"

(***************************************************************************)
(* RdmaTransport                                                           *)
(***************************************************************************)
RdmaStart(c, op) ==
    /\ stage = "ready"
    /\ \A d \in Callers : calls[d].pc = "idle"
    /\ Start(c, op, "checking")
    /\ UNCHANGED <<res, abandoned, oks, done, rdma>>

\* QpGuard::check_health; the query itself may fail.
CheckHealth(c) ==
    /\ calls[c].pc = "checking"
    /\ \/ qp_state # "ERR" /\ Goto(c, "posting") /\ UNCHANGED <<res, oks, recovery_count>>
       \/ qp_state = "ERR" /\ Return(c, "Err") /\ recovery_count' = recovery_count + 1
       \/ Return(c, "Err") /\ UNCHANGED recovery_count
    /\ UNCHANGED <<next_id, abandoned, done, sq, cq>>

\* QueuePair::post_send.  The queue pair may have failed since the check: a request
\* posted then is flushed.
PostSend(c) ==
    /\ calls[c].pc = "posting"
    /\ \/ /\ IF qp_state = "ERR"
             THEN cq' = Append(cq, [id |-> calls[c].id, ok |-> FALSE]) /\ UNCHANGED sq
             ELSE sq' = Append(sq, calls[c]) /\ UNCHANGED cq
          /\ Goto(c, "polling") /\ UNCHANGED <<res, oks>>
       \/ Return(c, "Err") /\ UNCHANGED <<sq, cq>>
    /\ UNCHANGED <<next_id, abandoned, done, recovery_count>>

\* The answer to id is still to come.
Outstanding(id, s, q) == (\E x \in Elements(s) : x.id = id) \/ \E x \in Elements(q) : x.id = id

\* A bug: the completion is looked at and left in the queue.
MutPollOnce(c) ==
    /\ calls[c].pc = "polling"
    /\ \/ Return(c, Outcome(calls[c].op, cq # <<>> /\ Head(cq).ok))
       \/ Return(c, "Err")
    /\ abandoned' = IF Outstanding(calls[c].id, sq, cq) THEN abandoned \cup {calls[c].id}
                    ELSE abandoned
    /\ UNCHANGED <<next_id, done, sq, cq, recovery_count>>

\* cq.poll(1), once: whatever completion is first decides.  The poll itself may fail,
\* which ? reports as Err for every operation and which takes nothing.
PollOnce(c) ==
    /\ calls[c].pc = "polling"
    /\ \/ /\ cq' = IF cq = <<>> THEN cq ELSE Tail(cq)
          /\ Return(c, Outcome(calls[c].op, cq # <<>> /\ Head(cq).ok))
       \/ Return(c, "Err") /\ UNCHANGED cq
    /\ abandoned' = IF Outstanding(calls[c].id, sq, cq') THEN abandoned \cup {calls[c].id}
                    ELSE abandoned
    /\ UNCHANGED <<next_id, done, sq, recovery_count>>

\* The poller thread polls up to 16 completions; none has a waiter in its map.
PollerTakes ==
    /\ poller # "none" /\ cq # <<>>
    /\ cq' = <<>>
    /\ UNCHANGED <<call, done, sq, recovery_count, verbs>>

\* The adapter executes the oldest request and completes it.
HcaCompletes ==
    /\ qp_state = "RTS" /\ sq # <<>>
    /\ \E e \in Effects(Head(sq).op) : Ran(Head(sq).id, e)
    /\ sq' = Tail(sq) /\ cq' = Append(cq, [id |-> Head(sq).id, ok |-> TRUE])
    /\ UNCHANGED <<call, recovery_count, verbs>>

\* The oldest request may have been executed before the failure.
HeadMayRun ==
    \/ UNCHANGED done
    \/ sq # <<>> /\ \E e \in Effects(Head(sq).op) : Ran(Head(sq).id, e)

\* The queue pair enters the error state; what is queued is flushed.
HcaFails ==
    /\ qp_state = "RTS"
    /\ QpTo("ERR") /\ UNCHANGED <<stage, live, failed, poller, misuse>>
    /\ HeadMayRun
    /\ sq' = <<>> /\ cq' = cq \o [i \in 1 .. Len(sq) |-> [id |-> sq[i].id, ok |-> FALSE]]
    /\ UNCHANGED <<call, recovery_count>>

\* The transport is dropped; no call borrows it then.  A queue pair that could not be
\* destroyed keeps its requests.
DropRdma ==
    /\ \A c \in Callers : calls[c].pc = "idle"
    /\ DropQp
    /\ IF "qp" \in live' THEN UNCHANGED <<sq, done>> ELSE HeadMayRun /\ sq' = <<>>
    /\ UNCHANGED <<call, cq, recovery_count>>

RdmaCall(c) == CheckHealth(c) \/ PostSend(c) \/ PollOnce(c)

Rdma ==
    /\ kind = "rdma"
    /\ \/ \E c \in Callers : (RdmaCall(c) \/ \E op \in Ops : RdmaStart(c, op)) /\ UNCHANGED verbs
       \/ PollerTakes \/ HcaCompletes \/ HcaFails \/ DropRdma
       \/ (Connect \/ Teardown) /\ UNCHANGED <<call, done, rdma>>
    /\ UNCHANGED <<kind, tcp, region>>

(***************************************************************************)
(* TcpTransport                                                            *)
(***************************************************************************)
TcpConnect ==
    /\ link = "down" /\ link' = "up"
    /\ UNCHANGED <<call, done, holder, requests, replies, garbled>>

\* The id is taken before the mutex: requests may be sent in another order.
TcpStart(c, op) ==
    /\ link # "down"
    /\ Start(c, op, "locking")
    /\ UNCHANGED <<res, abandoned, oks, done, tcp>>

\* A bug: the mutex is not awaited.
MutLock(c) ==
    /\ calls[c].pc = "locking"
    /\ holder' = c /\ Goto(c, "sending")
    /\ UNCHANGED <<res, next_id, abandoned, oks, done, link, requests, replies, garbled>>

Lock(c) ==
    /\ calls[c].pc = "locking" /\ holder = Nobody
    /\ holder' = c /\ Goto(c, "sending")
    /\ UNCHANGED <<res, next_id, abandoned, oks, done, link, requests, replies, garbled>>

\* A bug: the error path keeps the mutex.
MutIoError(c) ==
    /\ calls[c].pc \in {"sending", "receiving"} /\ link = "broken"
    /\ Return(c, "Err")
    /\ UNCHANGED <<next_id, abandoned, done, tcp>>

\* An I/O error is Err for every operation.
IoError(c) ==
    /\ calls[c].pc \in {"sending", "receiving"} /\ link = "broken"
    /\ Return(c, "Err") /\ holder' = Nobody
    /\ UNCHANGED <<next_id, abandoned, done, link, requests, replies, garbled>>

Send(c) ==
    /\ calls[c].pc = "sending" /\ link = "up"
    /\ requests' = Append(requests, calls[c])
    /\ Goto(c, "receiving")
    /\ UNCHANGED <<res, next_id, abandoned, oks, done, link, holder, replies, garbled>>

\* The next bytes are not the answer to a request of this kind.
OutOfStep(c) == garbled \/ Head(replies).op # calls[c].op

\* The id in the answer is not compared; its length depends on the operation (read
\* 13 and the data, write 9, cas 10).  An answer of another length leaves the two ends
\* out of step.  From then on any bytes can be the status, some may be left over, and
\* what has come may be fewer than read_exact waits for.
Receive(c) ==
    /\ calls[c].pc = "receiving" /\ replies # <<>>
    /\ \/ /\ ~OutOfStep(c)
          /\ Return(c, Outcome(calls[c].op, Head(replies).e = "done"))
          /\ replies' = Tail(replies) /\ holder' = Nobody /\ UNCHANGED garbled
       \/ /\ OutOfStep(c)
          /\ \E ok \in BOOLEAN : Return(c, Outcome(calls[c].op, ok))
          /\ replies' \in {replies, Tail(replies)} /\ holder' = Nobody /\ garbled' = TRUE
       \/ /\ OutOfStep(c)
          /\ replies' = Tail(replies) /\ garbled' = TRUE
          /\ UNCHANGED <<calls, res, oks, holder>>
    /\ UNCHANGED <<next_id, abandoned, done, link, requests>>

\* The future is dropped at an await: waiting for the mutex, between two write_alls,
\* or waiting for the answer, of which it may have taken a part.
Cancel(c) ==
    /\ calls[c].pc \in {"locking", "sending", "receiving"}
    /\ calls' = [calls EXCEPT ![c] = IdleCall]
    /\ holder' = IF holder = c THEN Nobody ELSE holder
    /\ \/ calls[c].pc \in {"locking", "sending"} /\ UNCHANGED <<abandoned, garbled>>
       \/ calls[c].pc = "sending" /\ abandoned' = abandoned \cup {calls[c].id} /\ garbled' = TRUE
       \/ /\ calls[c].pc = "receiving" /\ abandoned' = abandoned \cup {calls[c].id}
          /\ garbled' \in {garbled, garbled \/ replies # <<>>}
    /\ UNCHANGED <<res, next_id, oks, done, link, requests, replies>>

\* The bytes of q as the peer reads them out of step: another request, to which it
\* answers or not, or the missing half of one that was abandoned.
Misread(q) ==
    /\ UNCHANGED replies \/ replies' = Append(replies, [id |-> q.id, op |-> q.op, e |-> "no"])
    /\ UNCHANGED done \/ \E i \in abandoned : Ran(i, "done")

\* The peer answers in order: it executes the request or refuses it.
Serve ==
    /\ link = "up" /\ requests # <<>>
    /\ LET q == Head(requests) IN
       \/ \E e \in Effects(q.op) \cup {"no"} :
            Ran(q.id, e) /\ replies' = Append(replies, [id |-> q.id, op |-> q.op, e |-> e])
       \/ garbled /\ Misread(q)
    /\ requests' = Tail(requests)
    /\ UNCHANGED <<call, link, holder, garbled>>

\* The connection breaks; the request in progress may have been executed.
Break ==
    /\ link = "up" /\ link' = "broken"
    /\ \/ UNCHANGED done
       \/ requests # <<>> /\ \E e \in Effects(Head(requests).op) : Ran(Head(requests).id, e)
    /\ requests' = <<>> /\ replies' = <<>>
    /\ UNCHANGED <<call, holder, garbled>>

TcpCall(c) == IoError(c) \/ Send(c) \/ Receive(c)

Tcp ==
    /\ kind = "tcp"
    /\ \/ \E c \in Callers : Lock(c) \/ TcpCall(c) \/ Cancel(c) \/ \E op \in Ops : TcpStart(c, op)
       \/ TcpConnect \/ Serve \/ Break
    /\ UNCHANGED <<kind, rdma, verbs, region>>

RegionStep == kind = "region" /\ Region /\ UNCHANGED <<kind, call, done, rdma, tcp, verbs>>

Next == Rdma \/ Tcp \/ RegionStep

(***************************************************************************)
(* A call that can go on does, tokio's mutex is handed over in order of    *)
(* arrival, the peer answers while the connection lasts, and a thread that *)
(* was told to stop looks at the flag.                                     *)
(***************************************************************************)
Others == <<kind, rdma, verbs, region>>
Fairness ==
    /\ \A c \in Callers :
         /\ WF_vars(RdmaCall(c) /\ UNCHANGED <<kind, tcp, verbs, region>>)
         /\ WF_vars(TcpCall(c) /\ UNCHANGED Others)
         /\ SF_vars(Lock(c) /\ UNCHANGED Others)
    /\ WF_vars(Serve /\ UNCHANGED Others)
    /\ WF_vars(Teardown /\ UNCHANGED <<kind, call, done, rdma, tcp, region>>)

Spec == Init /\ [][Next]_vars /\ Fairness

-----------------------------------------------------------------------------
TypeOK ==
    /\ kind \in {"rdma", "tcp", "region"}
    /\ calls \in [Callers -> [pc : {"idle", "checking", "posting", "polling", "locking", "sending",
                                    "receiving"}, id : 0 .. MaxCalls, op : Ops]]
    /\ res \in [Callers -> [r : {"none", "Ok", "Err", "true", "false"},
                            id : 0 .. MaxCalls, clean : BOOLEAN]]
    /\ next_id \in 1 .. MaxCalls + 1 /\ oks \in 0 .. MaxCalls
    /\ done \in [Ids -> {"no", "done", "kept"}] /\ abandoned \subseteq Ids
    /\ recovery_count \in 0 .. next_id - 1
    /\ link \in {"down", "up", "broken"} /\ holder \in Callers \cup {Nobody}
    /\ live \subseteq Objects /\ failed \subseteq live /\ qp_state \in {"none", "RESET", "INIT", "RTR", "RTS", "ERR"}
    /\ pages \in {"unmapped", "mapped", "locked", "dropping", "leaked"}
    /\ mr \in {"none", "registered", "stuck"}

\* While no earlier call has ended with its answer outstanding, a call that reports
\* success had its own request executed; and over TCP the answer of cas tells whether
\* the value was swapped.
OkIsOwn ==
    \A c \in Callers : res[c].clean =>
        /\ res[c].r \in {"Ok", "true"} => done[res[c].id] # "no"
        /\ kind = "tcp" /\ res[c].r = "true" => done[res[c].id] = "done"
        /\ kind = "tcp" /\ res[c].r = "false" => done[res[c].id] # "done"

\* However completions and calls are mixed up, RdmaTransport never reports more
\* successes than requests were executed.
OkCounted == kind = "rdma" => oks <= Cardinality({i \in Ids : done[i] # "no"})

\* Every call returns, and nobody keeps the stream's mutex for ever, as long as no call
\* that was dropped has left the two ends of the stream out of step; and the drop of an
\* RdmaTransport, which joins the poller, comes to an end.
CallsReturn ==
    /\ \A c \in Callers : calls[c].pc # "idle" ~> calls[c].pc = "idle" \/ garbled
    /\ stage = "no_qp" ~> stage = "gone"

\* Every call returns, whatever became of the calls before it.
AllCallsReturn == \A c \in Callers : calls[c].pc # "idle" ~> calls[c].pc = "idle"

\* Success means that the request was executed.
OkMeansDone == \A c \in Callers : res[c].r \in {"Ok", "true"} => done[res[c].id] # "no"

\* Ok(false) means that nothing was swapped.
FalseMeansKept == \A c \in Callers : res[c].r = "false" => done[res[c].id] # "done"
=============================================================================
