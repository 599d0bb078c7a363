-------------------------------- MODULE Verbs --------------------------------
(***************************************************************************)
(* The verbs objects of src/rdma/ and who creates and destroys them:       *)
(* RdmaTransport::connect and its drop (src/transport/rdma.rs), the poller *)
(* thread that shares the completion queue, and a HugePageRegion           *)
(* (src/mem/region.rs).                                                    *)
(*                                                                         *)
(* An object is a name; live holds the ones that exist.  connect creates   *)
(* them one by one, any step may fail, and its locals are then dropped in  *)
(* reverse; a transport that is dropped drops its fields in declaration    *)
(* order, while the poller thread still runs.  Destroying an object whose  *)
(* parent is gone, or that still has children, is recorded in misuse.  A   *)
(* call that destroys may fail: the drop logs it or ignores it and goes    *)
(* on, and the object stays, owned by nobody (failed).                     *)
(***************************************************************************)
EXTENDS Integers, Sequences, FiniteSets

CONSTANT MaxFailed  \* bound on the objects that cannot be destroyed

VARIABLES
    stage,          \* how far connect or drop has come
    live,           \* the objects that exist
    failed,         \* the ones among them whose destruction failed
    qp_state,       \* ibv_qp_state of the queue pair
    poller,         \* the poller thread: "none", "running", "stopping"
    misuse,         \* auxiliary: <<object, relative>> destroyed in the wrong order
    pages, mr       \* a HugePageRegion's mapping and its registration

verbs == <<stage, live, failed, qp_state, poller, misuse>>
region == <<pages, mr>>

\* The objects each one refers to.
Parents == [context |-> {}, pd |-> {"context"}, cq |-> {"context"},
            qp |-> {"context", "pd", "cq"}]
Objects == DOMAIN Parents

\* What is wrong with destroying o now.
Wrong(o, alive) ==
    {<<o, p>> : p \in Parents[o] \ alive} \cup {<<o, ch>> : ch \in {x \in alive : o \in Parents[x]}}

VerbsInit ==
    /\ stage = "none" /\ live = {} /\ failed = {} /\ qp_state = "none"
    /\ poller = "none" /\ misuse = {}
    /\ pages = "unmapped" /\ mr = "none"

(***************************************************************************)
(* connect                                                                 *)
(***************************************************************************)
Advance(from, to) == stage = from /\ stage' = to
Make(o) == live' = live \cup {o}
QpTo(s) == qp_state' = s

\* ControlClient::connect and discover; the metadata are dropped.
Discover == Advance("none", "control") /\ UNCHANGED <<live, failed, qp_state, poller, misuse>>

\* The device list is freed on every path.
OpenContext == Advance("control", "context") /\ Make("context") /\ UNCHANGED <<failed, qp_state, poller, misuse>>
AllocatePd == Advance("context", "pd") /\ Make("pd") /\ UNCHANGED <<failed, qp_state, poller, misuse>>
CreateCq == Advance("pd", "cq") /\ Make("cq") /\ UNCHANGED <<failed, qp_state, poller, misuse>>
CreateQp == Advance("cq", "qp") /\ Make("qp") /\ QpTo("RESET") /\ UNCHANGED <<failed, poller, misuse>>
InitQp == Advance("qp", "init") /\ QpTo("INIT") /\ UNCHANGED <<live, failed, poller, misuse>>
QueryPort == Advance("init", "port") /\ UNCHANGED <<live, failed, qp_state, poller, misuse>>
ReadyToReceive == Advance("port", "rtr") /\ QpTo("RTR") /\ UNCHANGED <<live, failed, poller, misuse>>
ReadyToSend == Advance("rtr", "rts") /\ QpTo("RTS") /\ UNCHANGED <<live, failed, poller, misuse>>
SpawnPoller == Advance("rts", "ready") /\ poller' = "running" /\ UNCHANGED <<live, failed, qp_state, misuse>>

Connecting == {"none", "control", "context", "pd", "cq", "qp", "init", "port", "rtr"}

\* The locals in the order they are dropped, and what each leaves alive when the ones
\* in fail cannot be destroyed.
DropOrder == <<"qp", "cq", "pd", "context">>
Survivors(i, fail) == live \ ({DropOrder[j] : j \in 1 .. i} \ fail)

\* A step of connect fails and ? returns.
ConnectFails ==
    /\ stage \in Connecting
    /\ stage' = "failed"
    /\ \E fail \in SUBSET live :
         /\ Cardinality(fail) <= MaxFailed
         /\ live' = fail /\ failed' = fail
         /\ misuse' = misuse \cup UNION {Wrong(DropOrder[i], Survivors(i, fail)) :
                                         i \in {j \in 1 .. 4 : DropOrder[j] \in live}}
    /\ qp_state' = (IF "qp" \in live' THEN qp_state ELSE "none")
    /\ UNCHANGED poller

Connect ==
    \/ Discover \/ OpenContext \/ AllocatePd \/ CreateCq \/ CreateQp \/ InitQp
    \/ QueryPort \/ ReadyToReceive \/ ReadyToSend \/ SpawnPoller \/ ConnectFails

(***************************************************************************)
(* Dropping the transport: qp_guard, cq, pending, _poller, _context, _pd.  *)
(* The cq field is one of three references; the poller's own is the last,  *)
(* released when its thread has been joined.                               *)
(***************************************************************************)
Destroy(o) ==
    /\ \/ live' = live \ {o} /\ UNCHANGED failed
       \/ Cardinality(failed) < MaxFailed /\ failed' = failed \cup {o} /\ UNCHANGED live
    /\ misuse' = misuse \cup Wrong(o, live')

DropQp ==
    /\ Advance("ready", "no_qp")
    /\ Destroy("qp") /\ QpTo(IF "qp" \in live' THEN qp_state ELSE "none")
    /\ UNCHANGED poller

StopPoller ==
    /\ Advance("no_qp", "joining")
    /\ poller' = "stopping"
    /\ UNCHANGED <<live, failed, qp_state, misuse>>

\* The thread sees the flag between two polls.
PollerExits ==
    /\ poller = "stopping"
    /\ poller' = "none"
    /\ UNCHANGED <<stage, live, failed, qp_state, misuse>>

\* A bug: the thread is detached instead of joined.
MutJoinPoller ==
    /\ Advance("joining", "no_cq")
    /\ Destroy("cq")
    /\ UNCHANGED <<qp_state, poller>>

JoinPoller ==
    /\ poller = "none"
    /\ Advance("joining", "no_cq")
    /\ Destroy("cq")
    /\ UNCHANGED <<qp_state, poller>>

CloseContext == Advance("no_cq", "no_context") /\ Destroy("context") /\ UNCHANGED <<qp_state, poller>>
DeallocPd == Advance("no_context", "gone") /\ Destroy("pd") /\ UNCHANGED <<qp_state, poller>>

Teardown == StopPoller \/ PollerExits \/ JoinPoller \/ CloseContext \/ DeallocPd

(***************************************************************************)
(* HugePageRegion: mmap, mlock, register; deregister, munmap.  The drop    *)
(* logs a call that fails and goes on with the next.                       *)
(***************************************************************************)
RegionTo(p, m) == pages' = p /\ mr' = m

MapPages == pages = "unmapped" /\ mr = "none" /\ RegionTo("mapped", "none")
LockPages == pages = "mapped" /\ RegionTo("locked", "none")

\* mlock fails: the mapping is undone.
LockFails == pages = "mapped" /\ \E p \in {"unmapped", "leaked"} : RegionTo(p, "none")
Register == pages = "locked" /\ mr = "none" /\ RegionTo("locked", "registered")

\* ibv_reg_mr fails: ? returns, and no HugePageRegion owns the pages.
RegisterFails == pages = "locked" /\ mr = "none" /\ RegionTo("leaked", "none")

Deregister == mr = "registered" /\ \E m \in {"none", "stuck"} : RegionTo("dropping", m)
Unmap == pages = "dropping" /\ \E p \in {"unmapped", "leaked"} : RegionTo(p, mr)

Region == MapPages \/ LockPages \/ LockFails \/ Register \/ RegisterFails \/ Deregister \/ Unmap

-----------------------------------------------------------------------------
\* As long as the poller thread runs, the queue it polls and the device under it
\* exist; a queue, domain or device is destroyed under the queue pair only when the
\* queue pair's own destruction failed; a connect that fails and a transport that was
\* dropped leave no thread behind, and no object but those whose destruction failed;
\* and until it has tried to deregister a region the adapter finds its pages locked.
Lifetimes ==
    /\ poller # "none" => {"cq", "context"} \subseteq live
    /\ \A o \in Objects : <<o, "qp">> \in misuse => "qp" \in failed
    /\ stage \in {"none", "failed", "gone"} => live = failed /\ poller = "none"
    /\ mr = "registered" => pages = "locked"

\* Every object is destroyed while its parents exist ("A failed deallocation in
\* drop is a bug").
ParentsOutlive == \A x \in misuse : x[2] \notin Parents[x[1]]

\* The adapter can reach a region's pages only while they are mapped ("the MR must be
\* deregistered while the memory is still mapped").
MrWithinMapping == mr # "none" => pages \in {"locked", "dropping"}

\* An allocation that fails gives its pages back.
NoPageLeak == pages # "leaked"
=============================================================================
