----------------------------- MODULE AsyncPoller -----------------------------
(***************************************************************************)
(* The event driven poller (AsyncPoller in src/runtime/poller.rs): a       *)
(* thread that sleeps in epoll_wait on the completion channel, takes and   *)
(* acknowledges one event, harvests at most PollMax completions once, and  *)
(* only then asks for the next event.  With busy_poll_fallback a timeout   *)
(* of epoll_wait is followed by a few harvests.                            *)
(*                                                                         *)
(* Requests are what Completion.tla models in detail; here a caller posts  *)
(* one, waits, and may post the next.  The hardware is external: a         *)
(* completion that enters the queue while it is armed puts one event on    *)
(* the channel and disarms it; arming looks at later completions only.     *)
(***************************************************************************)
EXTENDS Integers, Sequences, Functions

CONSTANTS
    Tasks,              \* async callers
    PollMax,            \* 16: completions one harvest takes
    BusyPollIterations  \* AsyncPollerConfig::busy_poll_iterations

ASSUME AsyncPollerAssumption ==
    PollMax \in Nat \ {0} /\ BusyPollIterations \in Nat \ {0}

VARIABLES
    posted,     \* tasks whose request the hardware has not completed
    cq,         \* tasks whose request is completed, in order, not yet polled
    harvested,  \* tasks whose completion was polled and not dispatched
    armed,      \* the next completion generates an event
    events,     \* events on the channel that were not retrieved
    thread,     \* the thread: check, epoll, event, poll, dispatch, arm, exited
    spins,      \* iterations left of the fallback loop
    stopping,   \* the shutdown flag
    fallback,   \* AsyncPollerConfig::busy_poll_fallback, FALSE by default
    arm_failed, \* auxiliary: the last ibv_req_notify_cq failed
    cq_failed   \* auxiliary: some ibv_get_cq_event or ibv_poll_cq has failed

hwvars == <<posted, cq, armed, events>>
ctl == <<stopping, fallback, arm_failed, cq_failed>>
vars == <<hwvars, harvested, thread, spins, ctl>>

Busy == posted \cup Range(cq) \cup Range(harvested)

\* request_notification has succeeded and the loop is entered.
Init ==
    /\ posted = {} /\ cq = <<>> /\ harvested = <<>>
    /\ armed = TRUE /\ events = 0
    /\ thread = "check" /\ spins = 0
    /\ stopping = FALSE /\ fallback \in BOOLEAN /\ arm_failed = FALSE /\ cq_failed = FALSE

Post(t) ==
    /\ t \notin Busy
    /\ posted' = posted \cup {t}
    /\ UNCHANGED <<cq, armed, events, harvested, thread, spins, ctl>>

HwComplete(t) ==
    /\ t \in posted
    /\ posted' = posted \ {t}
    /\ cq' = Append(cq, t)
    /\ events' = IF armed THEN events + 1 ELSE events
    /\ armed' = FALSE
    /\ UNCHANGED <<harvested, thread, spins, ctl>>

Check ==
    /\ thread = "check"
    /\ thread' = IF stopping THEN "exited" ELSE "epoll"
    /\ UNCHANGED <<hwvars, harvested, spins, ctl>>

\* epoll_wait is interrupted, or fails: back to the top.
EpollInterrupted ==
    /\ thread = "epoll"
    /\ thread' = "check"
    /\ UNCHANGED <<hwvars, harvested, spins, ctl>>

EpollReady ==
    /\ thread = "epoll" /\ events > 0
    /\ thread' = "event"
    /\ UNCHANGED <<hwvars, harvested, spins, ctl>>

\* A bug: a timeout never falls back to polling.
MutEpollTimeout ==
    /\ thread = "epoll" /\ events = 0
    /\ thread' = "check"
    /\ UNCHANGED <<hwvars, harvested, spins, ctl>>

EpollTimeout ==
    /\ thread = "epoll" /\ events = 0
    /\ IF fallback
       THEN thread' = "poll" /\ spins' = BusyPollIterations
       ELSE thread' = "check" /\ UNCHANGED spins
    /\ UNCHANGED <<hwvars, harvested, ctl>>

\* get_event and ack_events.
GetEvent ==
    /\ thread = "event"
    /\ events' = events - 1
    /\ thread' = "poll"
    /\ UNCHANGED <<posted, cq, armed, harvested, spins, ctl>>

\* The event stays on the channel.
GetEventFails ==
    /\ thread = "event"
    /\ thread' = "check" /\ cq_failed' = TRUE
    /\ UNCHANGED <<hwvars, harvested, spins, stopping, fallback, arm_failed>>

Poll ==
    /\ thread = "poll"
    /\ LET n == IF Len(cq) < PollMax THEN Len(cq) ELSE PollMax
       IN  /\ harvested' = SubSeq(cq, 1, n)
           /\ cq' = SubSeq(cq, n + 1, Len(cq))
    /\ thread' = "dispatch"
    /\ UNCHANGED <<posted, armed, events, spins, ctl>>

\* Nothing is harvested, and the thread goes on as if nothing had been there.
PollFails ==
    /\ thread = "poll"
    /\ thread' = "dispatch" /\ cq_failed' = TRUE
    /\ UNCHANGED <<hwvars, harvested, spins, stopping, fallback, arm_failed>>

\* The window of the fallback loop is over before its iterations are.
DeadlinePassed ==
    /\ thread = "poll" /\ spins > 0
    /\ spins' = 0
    /\ thread' = "check"
    /\ UNCHANGED <<hwvars, harvested, ctl>>

\* A bug: the notification is requested only when a completion was found.
MutDispatch ==
    /\ thread = "dispatch"
    /\ harvested' = <<>>
    /\ spins' = IF spins > 0 THEN spins - 1 ELSE 0
    /\ thread' = CASE spins = 0 -> IF harvested = <<>> THEN "check" ELSE "arm"
               [] spins = 1 -> "check"
               [] OTHER -> "poll"
    /\ UNCHANGED <<hwvars, ctl>>

\* The senders of what was polled are fired; in the fallback loop the next
\* iteration follows, after an event the notification is requested.
Dispatch ==
    /\ thread = "dispatch"
    /\ harvested' = <<>>
    /\ spins' = IF spins > 0 THEN spins - 1 ELSE 0
    /\ thread' = CASE spins = 0 -> "arm"
               [] spins = 1 -> "check"
               [] OTHER -> "poll"
    /\ UNCHANGED <<hwvars, ctl>>

RequestNotification ==
    /\ thread = "arm"
    /\ \/ armed' = TRUE /\ arm_failed' = FALSE
       \/ armed' = armed /\ arm_failed' = TRUE
    /\ thread' = "check"
    /\ UNCHANGED <<posted, cq, events, harvested, spins, stopping, fallback, cq_failed>>

Shutdown ==
    /\ ~stopping
    /\ stopping' = TRUE
    /\ UNCHANGED <<hwvars, harvested, thread, spins, fallback, arm_failed, cq_failed>>

EpollReturns == EpollReady \/ EpollTimeout
ThreadStep ==
    \/ Check \/ EpollReturns \/ GetEvent \/ Poll \/ Dispatch \/ RequestNotification
Next ==
    \/ \E t \in Tasks : Post(t) \/ HwComplete(t)
    \/ ThreadStep \/ GetEventFails \/ PollFails \/ EpollInterrupted \/ DeadlinePassed \/ Shutdown

\* The thread and the hardware run; epoll_wait is not interrupted for ever, the calls on
\* the channel and the queue do not fail for ever, nor is the thread preempted past the
\* deadline before each first iteration (epoll_timeout_ms, which sets it, is positive).
Spec ==
    /\ Init /\ [][Next]_vars
    /\ WF_vars(ThreadStep) /\ SF_vars(EpollReturns) /\ SF_vars(GetEvent) /\ SF_vars(Poll)
    /\ \A t \in Tasks : WF_vars(HwComplete(t))

-----------------------------------------------------------------------------
\* Every variable has its type, and the channel holds at most one event: each
\* request for a notification is answered by one event that is retrieved once.
TypeOK ==
    /\ posted \subseteq Tasks /\ Range(cq) \subseteq Tasks /\ Range(harvested) \subseteq Tasks
    /\ armed \in BOOLEAN /\ events \in 0 .. 1 /\ stopping \in BOOLEAN
    /\ thread \in {"check", "epoll", "event", "poll", "dispatch", "arm", "exited"}
    /\ spins \in 0 .. BusyPollIterations

\* The thread never goes to sleep deaf: in epoll_wait an event is waiting already, or
\* the next completion will generate one, or the last request for one was refused.
NeverDeaf == thread = "epoll" => armed \/ events > 0 \/ arm_failed

\* With busy_poll_fallback every posted request is harvested in the end, though
\* completions arrive between harvest and arming and every call may fail.
FallbackHarvests ==
    \A t \in Tasks : fallback /\ t \in posted ~> t \notin Busy \/ stopping

\* "When the poller harvests a completion, it looks up the matching sender and fires
\* it, waking the awaiting future": under either configuration, unless a call fails.
EveryCompletionHarvested ==
    \A t \in Tasks : t \in posted ~> t \notin Busy \/ stopping \/ arm_failed \/ cq_failed
=============================================================================
