---------------------------- MODULE Rdma_proofs ----------------------------
(***************************************************************************)
(* The invariants of Transport, and why the steps of an RdmaTransport keep *)
(* them: any callers, any number of calls, connect failing anywhere and    *)
(* every outcome of the queue pair.                                        *)
(***************************************************************************)
EXTENDS Transport, FiniteSetTheorems, TLAPS

(***************************************************************************)
(* The objects: which exist and who uses them is known at every stage.     *)
(***************************************************************************)
LiveAt ==
    [none |-> {}, control |-> {}, context |-> {"context"}, pd |-> {"context", "pd"},
     cq |-> {"context", "pd", "cq"}, qp |-> Objects, init |-> Objects, port |-> Objects,
     rtr |-> Objects, rts |-> Objects, ready |-> Objects, failed |-> {},
     no_qp |-> {"context", "pd", "cq"}, joining |-> {"context", "pd", "cq"},
     no_cq |-> {"context", "pd"}, no_context |-> {"pd"}, gone |-> {}]

\* Before the drop nothing has failed to be destroyed; later, what failed is still there.
LifeInv ==
    /\ stage \in DOMAIN LiveAt /\ failed \subseteq Objects
    /\ live = LiveAt[stage] \cup failed /\ LiveAt[stage] \cap failed = {}
    /\ stage \in Connecting \cup {"rts", "ready"} => failed = {}
    /\ IF stage \in {"ready", "no_qp"} THEN poller = "running"
       ELSE poller = "none" \/ (stage = "joining" /\ poller = "stopping")
    /\ \A o \in Objects : <<o, "qp">> \in misuse => "qp" \in failed
    /\ mr = "registered" => pages = "locked"

(***************************************************************************)
(* Calls.                                                                  *)
(***************************************************************************)
Pcs == {"idle", "checking", "posting", "polling", "locking", "sending", "receiving"}
Results == {"none", "Ok", "Err", "true", "false"}
Request == [pc : Pcs, id : Ids, op : Ops]
Answers == {"no", "done", "kept"}

CallTyped ==
    /\ calls \in [Callers -> [pc : Pcs, id : Nat, op : Ops]]
    /\ res \in [Callers -> [r : Results, id : Nat, clean : BOOLEAN]]

Typed ==
    /\ CallTyped /\ kind \in {"rdma", "tcp", "region"}
    /\ next_id \in Nat \ {0} /\ oks \in Nat /\ done \in [Ids -> Answers]
    /\ sq \in Seq(Request) /\ cq \in Seq([id : Ids, ok : BOOLEAN])
    /\ requests \in Seq(Request) /\ replies \in Seq([id : Ids, op : Ops, e : Answers])

Busy(c) == calls[c].pc # "idle"
In(id, s) == \E i \in 1 .. Len(s) : s[i].id = id

\* Ids are taken once: what is under way or was executed is older than next_id, and no
\* two calls under way have the same.
Numbered ==
    /\ \A c \in Callers : Busy(c) => calls[c].id \in Ids /\ calls[c].id < next_id
    /\ \A c, d \in Callers : Busy(c) /\ Busy(d) /\ c # d => calls[c].id # calls[d].id
    /\ \A id \in Ids : done[id] # "no" \/ In(id, sq) \/ In(id, cq) \/ In(id, requests) => id < next_id
    /\ \A c \in Callers : res[c].r # "none" => res[c].id \in Ids /\ res[c].id < next_id

\* The result r of c is final: its request is in no queue and no call repeats it.
Settled(c, s) ==
    /\ ~In(res[c].id, s)
    /\ \A d \in Callers : Busy(d) => calls[d].id # res[c].id

\* The ids of the successes in a completion queue, and of the requests executed.
OkOf(q) == {id \in Ids : \E i \in 1 .. Len(q) : q[i].id = id /\ q[i].ok = TRUE}
OkIds == OkOf(cq)
RunIds == {id \in Ids : done[id] # "no"}

DistinctIds(s) == \A i, j \in 1 .. Len(s) : s[i].id = s[j].id => i = j

\* Calls of RdmaTransport do not overlap.
OneCall ==
    /\ \A c \in Callers : calls[c].pc \in {"idle", "checking", "posting", "polling"}
    /\ \A c, d \in Callers : Busy(c) /\ Busy(d) => c = d

\* A request is queued once, was not executed before it is taken from the send queue, and
\* is in no queue before it is posted.
Queues ==
    /\ DistinctIds(sq) /\ DistinctIds(cq)
    /\ \A id \in Ids : In(id, sq) => ~In(id, cq) /\ done[id] = "no"
    /\ \A c \in Callers : calls[c].pc \in {"checking", "posting"} =>
           ~In(calls[c].id, sq) /\ ~In(calls[c].id, cq) /\ done[calls[c].id] = "no"

\* Every success reported, and every one still in the completion queue, has an executed
\* request of its own.
Counted == OkIds \subseteq RunIds /\ oks + Cardinality(OkIds) <= Cardinality(RunIds)

\* As long as no call has left its answer behind, what is queued belongs to the call that
\* polls.
OwnAnswers ==
    abandoned = {} =>
        \A id \in Ids : In(id, sq) \/ In(id, cq) =>
            \E c \in Callers : calls[c].pc = "polling" /\ calls[c].id = id

\* What calls were told stays true.
RdmaTold ==
    \A c \in Callers : res[c].clean /\ res[c].r \in {"Ok", "true"} => done[res[c].id] # "no"

RdmaInv == OneCall /\ Queues /\ Counted /\ OwnAnswers /\ RdmaTold

\* Over TCP, who sends or receives holds the mutex; a broken connection carries nothing.
Locked ==
    /\ \A c \in Callers : calls[c].pc \in {"idle", "locking", "sending", "receiving"}
    /\ \A c \in Callers : calls[c].pc \in {"sending", "receiving"} => holder = c
    /\ link = "broken" => requests = <<>> /\ replies = <<>>

TcpTold ==
    \A c \in Callers : res[c].clean /\ res[c].r \in {"Ok", "true", "false"} =>
           /\ Settled(c, requests) /\ res[c].id \notin abandoned
           /\ res[c].r = "Ok" => done[res[c].id] # "no"
           /\ res[c].r = "true" => done[res[c].id] = "done"
           /\ res[c].r = "false" => done[res[c].id] # "done"

\* The call that a message on the connection belongs to.
Awaited(cs, q) == \E c \in Callers : cs[c].pc = "receiving" /\ cs[c].id = q.id /\ cs[c].op = q.op

\* As long as no call was dropped with its answer outstanding, at most one message is on
\* its way, the one the receiving call waits for.
InStep ==
    abandoned = {} =>
        /\ garbled = FALSE /\ Len(requests) + Len(replies) <= 1
        /\ \A i \in 1 .. Len(requests) : Awaited(calls, requests[i])
        /\ \A i \in 1 .. Len(replies) : Awaited(calls, replies[i]) /\ replies[i].e = done[replies[i].id]

\* The ids that were left behind are old ones.
Left == \A id \in abandoned : id \in Ids /\ id < next_id

TcpInv == Locked /\ TcpTold /\ InStep /\ Left

TransportInv ==
    /\ Typed /\ Numbered
    /\ kind = "rdma" => RdmaInv
    /\ kind = "tcp" => TcpInv
    /\ kind = "region" => \A c \in Callers : res[c].r = "none"

\* Nothing is destroyed under a queue pair that does not exist.
LEMMA NotUnderQp ==
    ASSUME NEW o \in Objects, NEW alive, "qp" \notin alive, NEW x \in Wrong(o, alive)
    PROVE  \A p \in Objects : x # <<p, "qp">>
<1>1. \A p \in Objects : "qp" \notin Parents[p]
  BY DEF Objects, Parents
<1> QED
  BY <1>1 DEF Wrong

LEMMA ConnectLives ==
    ASSUME LifeInv, Connect, mr' = mr, pages' = pages PROVE LifeInv'
<1> USE DEF Objects, Parents, LiveAt
<1>1. CASE ConnectFails
  <2>1. /\ stage \in Connecting /\ stage' = "failed" /\ poller' = poller /\ poller = "none"
        /\ \A o \in Objects : <<o, "qp">> \notin misuse
    <3>1. stage \in Connecting /\ stage' = "failed" /\ poller' = poller
      BY <1>1, Zenon DEF ConnectFails
    <3>2. failed = {} /\ \A o \in Objects : <<o, "qp">> \notin misuse
      BY <3>1, Zenon DEF LifeInv
    <3>3. poller = "none"
      BY <3>1 DEF Connecting, LifeInv
    <3> QED
      BY <3>1, <3>2, <3>3, Zenon
  <2>2. PICK fail \in SUBSET live :
          /\ live' = fail /\ failed' = fail
          /\ misuse' = misuse \cup UNION {Wrong(DropOrder[i], Survivors(i, fail)) :
                                          i \in {j \in 1 .. 4 : DropOrder[j] \in live}}
    BY <1>1, Zenon DEF ConnectFails
  <2>3. ASSUME NEW o \in Objects, <<o, "qp">> \in misuse', "qp" \notin fail PROVE FALSE
    <3>1. PICK i \in 1 .. 4 : <<o, "qp">> \in Wrong(DropOrder[i], Survivors(i, fail))
      BY <2>1, <2>2, <2>3, Zenon
    <3>2. "qp" \notin Survivors(i, fail) /\ DropOrder[i] \in Objects
      BY <2>3 DEF Survivors, DropOrder
    <3> HIDE DEF Objects, Parents, LiveAt
    <3> QED
      BY <3>1, <3>2, NotUnderQp, Zenon
  <2>4. /\ stage' \in DOMAIN LiveAt /\ failed' \subseteq Objects
        /\ live' = LiveAt[stage'] \cup failed' /\ LiveAt[stage'] \cap failed' = {}
    BY <2>1, <2>2, SMTT(30) DEF LifeInv
  <2>5. stage' \notin Connecting \cup {"rts", "ready", "no_qp"}
    BY <2>1 DEF Connecting
  <2> HIDE DEF Objects, Parents, LiveAt
  <2> QED
    BY <2>1, <2>2, <2>3, <2>4, <2>5, Zenon DEF LifeInv
<1>2. CASE ~ConnectFails
  <2>1. UNCHANGED <<misuse, failed>> /\ stage \in Connecting \cup {"rts"}
    BY <1>2, Zenon DEF Connect, Discover, OpenContext, AllocatePd, CreateCq, CreateQp, InitQp, QueryPort,
                ReadyToReceive, ReadyToSend, SpawnPoller, Advance, Connecting
  <2>4. failed = {}
    BY <2>1, Zenon DEF LifeInv
  <2>2. stage' \in DOMAIN LiveAt /\ live' = LiveAt[stage']
    BY <1>2, <2>1, <2>4, SMTT(30) DEF LifeInv, Advance, Make, Connect, Discover, OpenContext, AllocatePd, CreateCq, CreateQp, InitQp, QueryPort,
                ReadyToReceive, ReadyToSend, SpawnPoller
  <2>3. IF stage' \in {"ready", "no_qp"} THEN poller' = "running"
        ELSE poller' = "none" \/ (stage' = "joining" /\ poller' = "stopping")
    BY <1>2, Zenon DEF LifeInv, Advance, Connect, Discover, OpenContext, AllocatePd, CreateCq, CreateQp, InitQp, QueryPort,
                ReadyToReceive, ReadyToSend, SpawnPoller
  <2> HIDE DEF Objects, Parents, LiveAt
  <2> QED
    BY <2>1, <2>2, <2>3, <2>4 DEF LifeInv
<1> QED
  BY <1>1, <1>2, Zenon

LEMMA DestroyLives ==
    ASSUME LifeInv, DropQp \/ Teardown, mr' = mr, pages' = pages PROVE LifeInv'
<1> USE DEF Objects, LiveAt
<1>1. /\ stage' \in DOMAIN LiveAt /\ failed' \subseteq Objects
      /\ live' = LiveAt[stage'] \cup failed' /\ LiveAt[stage'] \cap failed' = {}
  <2>1. CASE DropQp \/ JoinPoller
    BY <2>1, SMTT(30) DEF LifeInv, Advance, Destroy, Parents, DropQp, JoinPoller
  <2>2. CASE CloseContext \/ DeallocPd
    BY <2>2, SMTT(30) DEF LifeInv, Advance, Destroy, Parents, CloseContext, DeallocPd
  <2>3. CASE StopPoller \/ PollerExits
    BY <2>3, SMTT(30) DEF LifeInv, Advance, StopPoller, PollerExits
  <2> QED
    BY <2>1, <2>2, <2>3, Zenon DEF Teardown
<1>4. /\ IF stage' \in {"ready", "no_qp"} THEN poller' = "running"
         ELSE poller' = "none" \/ (stage' = "joining" /\ poller' = "stopping")
      /\ stage' \notin Connecting \cup {"rts", "ready"}
  BY Zenon DEF LifeInv, Advance, DropQp, Teardown, StopPoller, PollerExits, JoinPoller, CloseContext, DeallocPd,
               Connecting
<1>2. failed \subseteq failed' /\ (misuse' = misuse \/ \E o \in Objects : misuse' = misuse \cup Wrong(o, live'))
  BY Zenon DEF Destroy, Parents, DropQp, Teardown, StopPoller, PollerExits, JoinPoller, CloseContext, DeallocPd
<1>5. "qp" \in live' => "qp" \in failed'
  <2>1. stage' \in {"no_qp", "joining", "no_cq", "no_context", "gone"}
    BY Zenon DEF LifeInv, Advance, DropQp, Teardown, StopPoller, PollerExits, JoinPoller, CloseContext, DeallocPd
  <2> QED
    BY <1>1, <2>1
<1> HIDE DEF Objects, LiveAt
<1>3. \A o \in Objects : <<o, "qp">> \in misuse' => "qp" \in failed'
  BY <1>2, <1>5, NotUnderQp, Zenon DEF LifeInv
<1> QED
  BY <1>1, <1>3, <1>4, Zenon DEF LifeInv

LEMMA LifeStep == LifeInv /\ [Next]_vars => LifeInv'
<1> SUFFICES ASSUME LifeInv, [Next]_vars PROVE LifeInv'
    BY Zenon
<1>1. ASSUME UNCHANGED <<stage, live, failed, poller, misuse>>, UNCHANGED region PROVE LifeInv'
  BY <1>1, Zenon DEF LifeInv, region
<1>2. CASE RegionStep
  <2>1. UNCHANGED <<stage, live, failed, poller, misuse>>
    BY <1>2, Zenon DEF RegionStep, verbs
  <2>2. mr' = "registered" => pages' = "locked"
    BY <1>2, Zenon DEF LifeInv, RegionStep, Region, RegionTo, MapPages, LockPages, LockFails, Register,
                RegisterFails, Deregister, Unmap
  <2> QED
    BY <2>1, <2>2, Zenon DEF LifeInv
<1>3. CASE UNCHANGED verbs /\ UNCHANGED region
  BY <1>1, <1>3, Zenon DEF verbs
<1>4. CASE Tcp
  BY <1>3, <1>4, Zenon DEF Tcp
<1>5. CASE Rdma
  <2>1. UNCHANGED region /\ mr' = mr /\ pages' = pages
    BY <1>5, Zenon DEF Rdma, region
  <2>2. CASE Connect \/ Teardown
    BY <2>1, <2>2, ConnectLives, DestroyLives, Zenon
  <2>3. CASE HcaFails
    BY <1>1, <2>1, <2>3, Zenon DEF HcaFails
  <2>4. CASE DropRdma
    BY <2>1, <2>4, DestroyLives, Zenon DEF DropRdma
  <2>5. CASE UNCHANGED verbs
    BY <1>3, <2>1, <2>5, Zenon
  <2> QED
    BY <1>5, <2>2, <2>3, <2>4, <2>5, Zenon DEF Rdma, PollerTakes, HcaCompletes
<1> QED
  BY <1>2, <1>3, <1>4, <1>5, Zenon DEF Next, vars

\* The queues.
LEMMA InAppend ==
    ASSUME NEW S, NEW s \in Seq(S), NEW x \in S
    PROVE  /\ \A id : In(id, Append(s, x)) <=> In(id, s) \/ x.id = id
           /\ DistinctIds(s) /\ ~In(x.id, s) => DistinctIds(Append(s, x))
<1> DEFINE t == Append(s, x)
<1>1. /\ Len(s) \in Nat /\ Len(t) = Len(s) + 1 /\ t[Len(s) + 1] = x
      /\ \A i \in 1 .. Len(s) : t[i] = s[i]
  OBVIOUS
<1> HIDE DEF t
<1>2. ASSUME NEW id PROVE In(id, t) <=> In(id, s) \/ x.id = id
  BY <1>1 DEF In
<1>3. ASSUME DistinctIds(s), ~In(x.id, s) PROVE DistinctIds(t)
  BY <1>1, <1>3 DEF DistinctIds, In
<1> QED
  BY <1>2, <1>3, Zenon DEF t

LEMMA InTail ==
    ASSUME NEW S, NEW s \in Seq(S), s # <<>>
    PROVE  /\ \A id : In(id, s) <=> Head(s).id = id \/ In(id, Tail(s))
           /\ DistinctIds(s) => DistinctIds(Tail(s)) /\ ~In(Head(s).id, Tail(s))
           /\ Head(s) \in S /\ Tail(s) \in Seq(S)
<1> DEFINE t == Tail(s)
<1>1. /\ Len(s) \in Nat \ {0} /\ Len(t) = Len(s) - 1 /\ Head(s) = s[1]
      /\ \A i \in 1 .. Len(t) : t[i] = s[i + 1]
      /\ Head(s) \in S /\ t \in Seq(S)
  OBVIOUS
<1> HIDE DEF t
<1>2. ASSUME NEW id PROVE In(id, s) <=> Head(s).id = id \/ In(id, t)
  <2>1. ASSUME NEW i \in 1 .. Len(s), s[i].id = id, i # 1 PROVE In(id, t)
    <3>1. i - 1 \in 1 .. Len(t) /\ (i - 1) + 1 = i
      BY <1>1, <2>1
    <3>2. t[i - 1] = s[i]
      BY <1>1, <3>1, Zenon
    <3> QED
      BY <2>1, <3>1, <3>2, Zenon DEF In
  <2>2. ASSUME NEW i \in 1 .. Len(t), t[i].id = id PROVE In(id, s)
    <3>1. i + 1 \in 1 .. Len(s) /\ t[i] = s[i + 1]
      BY <1>1
    <3> QED
      BY <2>2, <3>1, Zenon DEF In
  <2>3. 1 \in 1 .. Len(s)
    BY <1>1
  <2> QED
    BY <1>1, <2>1, <2>2, <2>3, Zenon DEF In
<1>3. ASSUME DistinctIds(s) PROVE DistinctIds(t) /\ ~In(Head(s).id, t)
  <2>1. \A i \in 1 .. Len(t) : i + 1 \in 1 .. Len(s) /\ i + 1 # 1 /\ i \in Int
    BY <1>1
  <2>2. 1 \in 1 .. Len(s)
    BY <1>1
  <2>3. DistinctIds(t)
    BY <1>1, <1>3, <2>1, SMTT(30) DEF DistinctIds
  <2>4. ~In(Head(s).id, t)
    BY <1>1, <1>3, <2>1, <2>2, Zenon DEF DistinctIds, In
  <2> QED
    BY <2>3, <2>4, Zenon
<1> QED
  BY <1>1, <1>2, <1>3, Zenon DEF t

LEMMA OutstandingIn == ASSUME NEW id, NEW s, NEW q PROVE Outstanding(id, s, q) <=> In(id, s) \/ In(id, q)
BY Zenon DEF Outstanding, Elements, In

(***************************************************************************)
(* What a call does to calls and results.                                  *)
(***************************************************************************)
LEMMA Moved ==
    ASSUME CallTyped, NEW c \in Callers, NEW pc \in Pcs, Goto(c, pc)
    PROVE  /\ calls' \in [Callers -> [pc : Pcs, id : Nat, op : Ops]]
           /\ calls'[c].pc = pc /\ calls'[c].id = calls[c].id /\ calls'[c].op = calls[c].op
           /\ \A d \in Callers : d # c => calls'[d] = calls[d]
           /\ \A d \in Callers : calls'[d].id = calls[d].id
BY Zenon DEF Goto, CallTyped

LEMMA Started ==
    ASSUME CallTyped, NEW c \in Callers, NEW op \in Ops, NEW pc \in Pcs, Start(c, op, pc),
           next_id \in Nat
    PROVE  /\ calls' \in [Callers -> [pc : Pcs, id : Nat, op : Ops]]
           /\ calls'[c].pc = pc /\ calls'[c].id = next_id /\ calls'[c].op = op
           /\ \A d \in Callers : d # c => calls'[d] = calls[d]
           /\ ~Busy(c) /\ next_id \in Ids /\ next_id' = next_id + 1
BY Zenon DEF Start, CallTyped, Busy

LEMMA IdleTyped == IdleCall \in [pc : Pcs, id : Nat, op : Ops] /\ IdleCall.pc = "idle"
BY Zenon DEF IdleCall, Ops, Pcs

LEMMA Returned ==
    ASSUME CallTyped, NEW c \in Callers, NEW r \in Results, Return(c, r)
    PROVE  /\ calls' \in [Callers -> [pc : Pcs, id : Nat, op : Ops]]
           /\ res' \in [Callers -> [r : Results, id : Nat, clean : BOOLEAN]]
           /\ calls'[c].pc = "idle"
           /\ \A d \in Callers : d # c => calls'[d] = calls[d] /\ res'[d] = res[d]
           /\ res'[c].r = r /\ res'[c].id = calls[c].id
           /\ res'[c].clean <=> abandoned = {}
<1> DEFINE b == abandoned = {}
           new == [r |-> r, id |-> calls[c].id, clean |-> b]
<1>1. calls' = [calls EXCEPT ![c] = IdleCall] /\ res' = [res EXCEPT ![c] = new]
  BY Zenon DEF Return
<1>2. IdleCall \in [pc : Pcs, id : Nat, op : Ops] /\ IdleCall.pc = "idle"
  BY IdleTyped, Zenon
<1>3. b \in BOOLEAN /\ (b <=> abandoned = {})
  BY Zenon
<1>4. calls[c].id \in Nat
  BY Zenon DEF CallTyped
<1> HIDE DEF b
<1>5. new \in [r : Results, id : Nat, clean : BOOLEAN]
  BY <1>3, <1>4, Zenon
<1>6. new.r = r /\ new.id = calls[c].id /\ new.clean = b
  BY Zenon
<1> HIDE DEF new
<1>7. /\ calls' \in [Callers -> [pc : Pcs, id : Nat, op : Ops]]
      /\ calls'[c] = IdleCall /\ \A d \in Callers : d # c => calls'[d] = calls[d]
  BY <1>1, <1>2, Zenon DEF CallTyped
<1>8. /\ res' \in [Callers -> [r : Results, id : Nat, clean : BOOLEAN]]
      /\ res'[c] = new /\ \A d \in Callers : d # c => res'[d] = res[d]
  <2> DEFINE R == [r : Results, id : Nat, clean : BOOLEAN]
  <2>1. new \in R /\ res \in [Callers -> R]
    BY <1>5, Zenon DEF CallTyped
  <2> HIDE DEF R
  <2>2. res' \in [Callers -> R] /\ res'[c] = new /\ \A d \in Callers : d # c => res'[d] = res[d]
    BY <1>1, <2>1, Zenon
  <2> QED
    BY <2>2, Zenon DEF R
<1> QED
  BY <1>2, <1>3, <1>6, <1>7, <1>8, Zenon

(***************************************************************************)
(* RdmaTransport.                                                          *)
(***************************************************************************)
LEMMA RdmaStartKeeps ==
    ASSUME Typed, Numbered, RdmaInv, NEW c \in Callers, NEW op \in Ops, RdmaStart(c, op),
           UNCHANGED <<kind, requests, replies>>
    PROVE  Typed' /\ Numbered' /\ RdmaInv'
<1>1. /\ Start(c, op, "checking") /\ UNCHANGED <<res, abandoned, oks, done, sq, cq>>
      /\ \A d \in Callers : ~Busy(d)
  BY Zenon DEF RdmaStart, rdma, Busy
<1>2. /\ calls' \in [Callers -> [pc : Pcs, id : Nat, op : Ops]]
      /\ calls'[c].pc = "checking" /\ calls'[c].id = next_id
      /\ \A d \in Callers : d # c => calls'[d] = calls[d]
      /\ next_id \in Ids /\ next_id' = next_id + 1 /\ next_id \in Nat \ {0}
  <2>1. "checking" \in Pcs /\ next_id \in Nat \ {0} /\ CallTyped
    BY Zenon DEF Pcs, Typed
  <2> QED
    BY <1>1, <2>1, Started, Zenon
<1>3. Typed'
  BY <1>1, <1>2 DEF Typed, CallTyped
<1>4. \A d \in Callers : Busy(d)' => d = c
  BY <1>1, <1>2, Zenon DEF Busy
<1>5. /\ \A id \in Ids : done[id] # "no" \/ In(id, sq) \/ In(id, cq) \/ In(id, requests) => id < next_id
      /\ \A d \in Callers : res[d].r # "none" => res[d].id \in Ids /\ res[d].id < next_id
  BY Zenon DEF Numbered
<1>6. Numbered'
  BY <1>1, <1>2, <1>4, <1>5, SMTT(30) DEF Numbered, Busy, Ids
<1>7. OneCall'
  BY <1>1, <1>2, <1>4, Zenon DEF OneCall, RdmaInv, Busy
<1>8. Queues'
  <2>1. ~In(next_id, sq) /\ ~In(next_id, cq) /\ done[next_id] = "no"
    BY <1>2, <1>5, SMTT(30)
  <2>2. \A d \in Callers : calls'[d].pc \in {"checking", "posting"} => d = c
    BY <1>4, Zenon DEF Busy
  <2>3. DistinctIds(sq) /\ DistinctIds(cq) /\ \A id \in Ids : In(id, sq) => ~In(id, cq) /\ done[id] = "no"
    BY Zenon DEF RdmaInv, Queues
  <2> QED
    BY <1>1, <1>2, <2>1, <2>2, <2>3, Zenon DEF Queues
<1>9. Counted'
  BY <1>1, Zenon DEF RdmaInv, Counted, OkIds, RunIds
<1>10. OwnAnswers'
  <2>1. \A d \in Callers : calls[d].pc # "polling"
    BY <1>1, Zenon DEF Busy
  <2> QED
    BY <1>1, <2>1, Zenon DEF RdmaInv, OwnAnswers
<1>11. RdmaTold'
  BY <1>1, Zenon DEF RdmaInv, RdmaTold
<1> QED
  BY <1>3, <1>6, <1>7, <1>8, <1>9, <1>10, <1>11, Zenon DEF RdmaInv

LEMMA RefusedKeeps ==
    ASSUME Typed, Numbered, RdmaInv, NEW c \in Callers, calls[c].pc \in {"checking", "posting"},
           Return(c, "Err"),
           UNCHANGED <<next_id, abandoned, done, sq, cq, kind, requests, replies>>
    PROVE  Typed' /\ Numbered' /\ RdmaInv'
<1>1. /\ calls' \in [Callers -> [pc : Pcs, id : Nat, op : Ops]]
      /\ res' \in [Callers -> [r : Results, id : Nat, clean : BOOLEAN]]
      /\ calls'[c].pc = "idle"
      /\ \A d \in Callers : d # c => calls'[d] = calls[d] /\ res'[d] = res[d]
      /\ res'[c].r = "Err" /\ res'[c].id = calls[c].id
  <2>1. "Err" \in Results /\ CallTyped
    BY Zenon DEF Results, Typed
  <2> QED
    BY <2>1, Returned, Zenon
<1>2. oks' = oks /\ oks \in Nat
  BY DEF Return, Typed
<1>3. Typed'
  BY <1>1, <1>2, Zenon DEF Typed, CallTyped
<1>4. \A d \in Callers : ~Busy(d)'
  BY <1>1 DEF RdmaInv, OneCall, Busy
<1>5. calls[c].id \in Ids /\ calls[c].id < next_id
  BY Zenon DEF Numbered, Busy
<1>6. Numbered'
  <2>1. \A d \in Callers : res'[d].r # "none" => res'[d].id \in Ids /\ res'[d].id < next_id
    BY <1>1, <1>5, Zenon DEF Numbered
  <2> QED
    BY <1>4, <2>1, Zenon DEF Numbered
<1>7. OneCall'
  BY <1>1, <1>4, Zenon DEF OneCall, RdmaInv, Busy
<1>8. Queues'
  BY <1>4, Zenon DEF RdmaInv, Queues, Busy
<1>9. Counted'
  BY <1>2, Zenon DEF RdmaInv, Counted, OkIds, RunIds
<1>10. OwnAnswers'
  <2>1. \A d \in Callers : calls[d].pc # "polling"
    BY Zenon DEF Busy, RdmaInv, OneCall
  <2> QED
    BY <2>1, Zenon DEF RdmaInv, OwnAnswers
<1>11. RdmaTold'
  BY <1>1, SMTT(30) DEF RdmaInv, RdmaTold
<1> QED
  BY <1>3, <1>6, <1>7, <1>8, <1>9, <1>10, <1>11, Zenon DEF RdmaInv

LEMMA CheckHealthKeeps ==
    ASSUME Typed, Numbered, RdmaInv, NEW c \in Callers, CheckHealth(c),
           UNCHANGED <<kind, requests, replies>>
    PROVE  Typed' /\ Numbered' /\ RdmaInv'
<1>1. /\ calls[c].pc = "checking" /\ next_id' = next_id /\ abandoned' = abandoned
      /\ done' = done /\ sq' = sq /\ cq' = cq
  BY Zenon DEF CheckHealth
<1>2. CASE Return(c, "Err")
  BY <1>1, <1>2, RefusedKeeps, Zenon
<1>3. CASE Goto(c, "posting") /\ UNCHANGED <<res, oks>>
  <2>1. /\ calls' \in [Callers -> [pc : Pcs, id : Nat, op : Ops]]
        /\ calls'[c].pc = "posting"
        /\ \A d \in Callers : d # c => calls'[d] = calls[d]
        /\ \A d \in Callers : calls'[d].id = calls[d].id
    <3>1. "posting" \in Pcs /\ CallTyped
      BY Zenon DEF Pcs, Typed
    <3> QED
      BY <1>3, <3>1, Moved, Zenon
  <2>2. Typed'
    BY <1>1, <1>3, <2>1, Zenon DEF Typed, CallTyped
  <2>3. \A d \in Callers : (Busy(d)' <=> Busy(d)) /\ (calls'[d].pc = "polling" <=> calls[d].pc = "polling")
    BY <1>1, <2>1, Zenon DEF Busy
  <2>4. Numbered'
    BY <1>1, <1>3, <2>1, <2>3, SMTT(30) DEF Numbered
  <2>5. OneCall'
    BY <2>1, <2>3, Zenon DEF OneCall, RdmaInv
  <2>6. Queues'
    BY <1>1, <2>1, SMTT(30) DEF RdmaInv, Queues
  <2>7. Counted'
    BY <1>1, <1>3, Zenon DEF RdmaInv, Counted, OkIds, RunIds
  <2>8. OwnAnswers'
    <3> SUFFICES ASSUME abandoned = {}, NEW id \in Ids, In(id, sq) \/ In(id, cq)
                 PROVE  \E d \in Callers : calls'[d].pc = "polling" /\ calls'[d].id = id
      BY <1>1, Zenon DEF OwnAnswers
    <3>1. PICK d \in Callers : calls[d].pc = "polling" /\ calls[d].id = id
      BY Zenon DEF RdmaInv, OwnAnswers
    <3> QED
      BY <2>1, <2>3, <3>1, Zenon
  <2>9. RdmaTold'
    BY <1>1, <1>3, Zenon DEF RdmaInv, RdmaTold
  <2> QED
    BY <2>2, <2>4, <2>5, <2>6, <2>7, <2>8, <2>9, Zenon DEF RdmaInv
<1> QED
  BY <1>2, <1>3, Zenon DEF CheckHealth

LEMMA PostSendKeeps ==
    ASSUME Typed, Numbered, RdmaInv, NEW c \in Callers, PostSend(c),
           UNCHANGED <<kind, requests, replies>>
    PROVE  Typed' /\ Numbered' /\ RdmaInv'
<1>1. calls[c].pc = "posting" /\ UNCHANGED <<next_id, abandoned, done>>
  BY Zenon DEF PostSend
<1>2. CASE Return(c, "Err") /\ UNCHANGED <<sq, cq>>
  BY <1>1, <1>2, RefusedKeeps, Zenon
<1>3. CASE /\ Goto(c, "polling") /\ UNCHANGED <<res, oks>>
           /\ \/ cq' = Append(cq, [id |-> calls[c].id, ok |-> FALSE]) /\ sq' = sq
              \/ sq' = Append(sq, calls[c]) /\ cq' = cq
  <2> DEFINE me == calls[c].id
             x == [id |-> calls[c].id, ok |-> FALSE]
  <2>1. /\ calls' \in [Callers -> [pc : Pcs, id : Nat, op : Ops]]
        /\ calls'[c].pc = "polling"
        /\ \A d \in Callers : d # c => calls'[d] = calls[d]
        /\ \A d \in Callers : calls'[d].id = calls[d].id
    <3>1. "polling" \in Pcs /\ CallTyped
      BY Zenon DEF Pcs, Typed
    <3> QED
      BY <1>3, <3>1, Moved, Zenon
  <2>2. me \in Ids /\ me < next_id /\ ~In(me, sq) /\ ~In(me, cq) /\ done[me] = "no"
    BY <1>1, Zenon DEF Numbered, Busy, RdmaInv, Queues
  <2>3. calls[c] \in Request /\ x \in [id : Ids, ok : BOOLEAN] /\ x.id = me /\ x.ok = FALSE
    <3>1. calls[c] \in Request
      BY <2>2, Zenon DEF Typed, CallTyped, Request
    <3>2. x \in [id : Ids, ok : BOOLEAN] /\ x.id = me /\ x.ok = FALSE
      BY <2>2, Zenon
    <3> QED
      BY <3>1, <3>2, Zenon
  <2>4. sq \in Seq(Request) /\ cq \in Seq([id : Ids, ok : BOOLEAN])
    BY Zenon DEF Typed
  <2> HIDE DEF x
  <2>5. /\ \A id : In(id, Append(sq, calls[c])) <=> In(id, sq) \/ me = id
        /\ DistinctIds(sq) => DistinctIds(Append(sq, calls[c]))
        /\ \A id : In(id, Append(cq, x)) <=> In(id, cq) \/ me = id
        /\ DistinctIds(cq) => DistinctIds(Append(cq, x))
        /\ Append(sq, calls[c]) \in Seq(Request) /\ Append(cq, x) \in Seq([id : Ids, ok : BOOLEAN])
    <3>1. /\ \A id : In(id, Append(sq, calls[c])) <=> In(id, sq) \/ me = id
          /\ DistinctIds(sq) => DistinctIds(Append(sq, calls[c]))
          /\ Append(sq, calls[c]) \in Seq(Request)
      BY <2>2, <2>3, <2>4, InAppend
    <3> DEFINE S == [id : Ids, ok : BOOLEAN]
    <3>2. x \in S /\ cq \in Seq(S)
      BY <2>3, <2>4, Zenon
    <3> HIDE DEF S
    <3>3. /\ \A id : In(id, Append(cq, x)) <=> In(id, cq) \/ me = id
          /\ DistinctIds(cq) => DistinctIds(Append(cq, x))
          /\ Append(cq, x) \in Seq(S)
      BY <2>2, <2>3, <3>2, InAppend, SMTT(30)
    <3> QED
      BY <3>1, <3>3, Zenon DEF S
  <2>6. /\ \A id : In(id, sq') => In(id, sq) \/ me = id
        /\ \A id : In(id, cq') => In(id, cq) \/ me = id
        /\ ~(In(me, sq') /\ In(me, cq'))
        /\ DistinctIds(sq') /\ DistinctIds(cq')
        /\ sq' \in Seq(Request) /\ cq' \in Seq([id : Ids, ok : BOOLEAN])
    <3>1. DistinctIds(sq) /\ DistinctIds(cq)
      BY Zenon DEF RdmaInv, Queues
    <3> QED
      BY <1>3, <2>2, <2>4, <2>5, <3>1, Zenon DEF x
  <2>7. Typed'
    <3>1. next_id \in Nat \ {0} /\ oks \in Nat /\ done \in [Ids -> Answers] /\ kind \in {"rdma", "tcp", "region"}
          /\ requests \in Seq(Request) /\ replies \in Seq([id : Ids, op : Ops, e : Answers])
          /\ res \in [Callers -> [r : Results, id : Nat, clean : BOOLEAN]]
      BY Zenon DEF Typed, CallTyped
    <3> QED
      BY <1>1, <1>3, <2>1, <2>6, <3>1, Zenon DEF Typed, CallTyped
  <2>8. \A d \in Callers : Busy(d)' <=> Busy(d)
    BY <1>1, <2>1, Zenon DEF Busy
  <2>9. Numbered'
    <3>1. \A id \in Ids : done[id] # "no" \/ In(id, sq') \/ In(id, cq') \/ In(id, requests) => id < next_id
      BY <2>2, <2>6, Zenon DEF Numbered
    <3> QED
      BY <1>1, <1>3, <2>1, <2>8, <3>1, ZenonT(40) DEF Numbered
  <2>10. OneCall'
    BY <2>1, <2>8, Zenon DEF OneCall, RdmaInv
  <2>11. \A d \in Callers : d # c => ~Busy(d)
    BY <1>1, Zenon DEF RdmaInv, OneCall, Busy
  <2>12. Queues'
    <3>1. \A d \in Callers : calls'[d].pc \notin {"checking", "posting"}
      BY <2>1, <2>8, <2>11, Zenon DEF Busy
    <3>2. \A id \in Ids : In(id, sq') => ~In(id, cq') /\ done[id] = "no"
      <4>1. \A id \in Ids : In(id, sq) => ~In(id, cq) /\ done[id] = "no"
        BY Zenon DEF RdmaInv, Queues
      <4>2. \A id \in Ids : id # me /\ In(id, sq') => In(id, sq)
        BY <2>6, Zenon
      <4>3. \A id \in Ids : id # me /\ In(id, cq') => In(id, cq)
        BY <2>6, Zenon
      <4> QED
        BY <2>2, <2>6, <4>1, <4>2, <4>3, Zenon
    <3> QED
      BY <1>1, <2>6, <3>1, <3>2, Zenon DEF Queues
  <2>13. OkIds' = OkIds
    <3>1. CASE cq' = cq
      BY <3>1, Zenon DEF OkIds
    <3>2. CASE cq' = Append(cq, x)
      <4>1. /\ Len(cq) \in Nat /\ Len(cq') = Len(cq) + 1 /\ cq'[Len(cq) + 1] = x
            /\ \A i \in 1 .. Len(cq) : cq'[i] = cq[i]
        BY <2>3, <2>4, <3>2
      <4>2. x.ok # TRUE
        BY <2>3, Zenon
      <4>3. ASSUME NEW id \in Ids
            PROVE  (\E i \in 1 .. Len(cq') : cq'[i].id = id /\ cq'[i].ok = TRUE)
                   <=> \E i \in 1 .. Len(cq) : cq[i].id = id /\ cq[i].ok = TRUE
        <5>1. \A i \in 1 .. Len(cq') : i \in 1 .. Len(cq) \/ i = Len(cq) + 1
          BY <4>1
        <5>2. \A i \in 1 .. Len(cq) : i \in 1 .. Len(cq')
          BY <4>1
        <5> QED
          BY <4>1, <4>2, <5>1, <5>2, Zenon
      <4> QED
        BY <4>3, Zenon DEF OkIds, OkOf
    <3> QED
      BY <1>3, <3>1, <3>2, Zenon DEF x
  <2>14. Counted'
    BY <1>1, <1>3, <2>13, Zenon DEF RdmaInv, Counted, RunIds
  <2>15. OwnAnswers'
    <3>1. abandoned = {} => \A id \in Ids : ~In(id, sq) /\ ~In(id, cq)
      BY <1>1, <2>11, Zenon DEF RdmaInv, OwnAnswers, Busy
    <3> QED
      BY <1>1, <2>1, <2>6, <3>1, Zenon DEF OwnAnswers
  <2>16. RdmaTold'
    BY <1>1, <1>3, Zenon DEF RdmaInv, RdmaTold
  <2> QED
    BY <2>7, <2>9, <2>10, <2>12, <2>14, <2>15, <2>16, Zenon DEF RdmaInv
<1> QED
  BY <1>2, <1>3, Zenon DEF PostSend

LEMMA OkOfTail ==
    ASSUME NEW q \in Seq([id : Ids, ok : BOOLEAN]), q # <<>>, DistinctIds(q)
    PROVE  /\ Head(q).ok = TRUE => OkOf(q) = OkOf(Tail(q)) \cup {Head(q).id} /\ Head(q).id \notin OkOf(Tail(q))
           /\ Head(q).ok # TRUE => OkOf(q) = OkOf(Tail(q))
<1> DEFINE t == Tail(q)
           S == [id : Ids, ok : BOOLEAN]
<1>1. /\ Len(q) \in Nat \ {0} /\ Len(t) = Len(q) - 1 /\ Head(q) = q[1]
      /\ \A i \in 1 .. Len(t) : t[i] = q[i + 1]
  OBVIOUS
<1>2. Head(q).id \in Ids
  <2>1. q \in Seq(S)
    BY Zenon
  <2> HIDE DEF S
  <2>2. Head(q) \in S
    BY <2>1, InTail, Zenon
  <2> QED
    BY <2>2, Zenon DEF S
<1>3. ~In(Head(q).id, t)
  <2>1. q \in Seq(S)
    BY Zenon
  <2> HIDE DEF S
  <2> QED
    BY <2>1, InTail, Zenon
<1> HIDE DEF t
<1>4. ASSUME NEW id \in Ids, NEW i \in 1 .. Len(q), q[i].id = id, q[i].ok = TRUE, i # 1
      PROVE  id \in OkOf(t)
  <2>1. i - 1 \in 1 .. Len(t) /\ (i - 1) + 1 = i
    BY <1>1, <1>4
  <2>2. t[i - 1] = q[i]
    BY <1>1, <2>1, Zenon
  <2> QED
    BY <1>4, <2>1, <2>2, Zenon DEF OkOf
<1>5. ASSUME NEW id \in Ids, NEW i \in 1 .. Len(t), t[i].id = id, t[i].ok = TRUE
      PROVE  id \in OkOf(q)
  <2>1. i + 1 \in 1 .. Len(q) /\ t[i] = q[i + 1]
    BY <1>1
  <2> QED
    BY <1>5, <2>1, Zenon DEF OkOf
<1>6. OkOf(t) \subseteq OkOf(q)
  BY <1>5, Zenon DEF OkOf
<1>7. \A id \in OkOf(q) : id \in OkOf(t) \/ (id = Head(q).id /\ Head(q).ok = TRUE)
  BY <1>1, <1>4, Zenon DEF OkOf
<1>8. Head(q).ok = TRUE => Head(q).id \in OkOf(q)
  <2>1. 1 \in 1 .. Len(q)
    BY <1>1
  <2> QED
    BY <1>1, <1>2, <2>1, Zenon DEF OkOf
<1>9. Head(q).id \notin OkOf(t)
  BY <1>3, Zenon DEF OkOf, In
<1> QED
  BY <1>6, <1>7, <1>8, <1>9, Zenon DEF t

LEMMA OkOfAppend ==
    ASSUME NEW q \in Seq([id : Ids, ok : BOOLEAN]), NEW x \in [id : Ids, ok : BOOLEAN], ~In(x.id, q)
    PROVE  /\ x.ok = TRUE => OkOf(Append(q, x)) = OkOf(q) \cup {x.id} /\ x.id \notin OkOf(q)
           /\ x.ok # TRUE => OkOf(Append(q, x)) = OkOf(q)
<1> DEFINE t == Append(q, x)
<1>1. /\ Len(q) \in Nat /\ Len(t) = Len(q) + 1 /\ t[Len(q) + 1] = x
      /\ \A i \in 1 .. Len(q) : t[i] = q[i]
  OBVIOUS
<1>2. x.id \in Ids
  BY Zenon
<1> HIDE DEF t
<1>3. /\ \A i \in 1 .. Len(t) : i \in 1 .. Len(q) \/ i = Len(q) + 1
      /\ \A i \in 1 .. Len(q) : i \in 1 .. Len(t)
      /\ Len(q) + 1 \in 1 .. Len(t)
  BY <1>1
<1>4. OkOf(q) \subseteq OkOf(t)
  BY <1>1, <1>3, Zenon DEF OkOf
<1>5. \A id \in OkOf(t) : id \in OkOf(q) \/ (id = x.id /\ x.ok = TRUE)
  BY <1>1, <1>3, Zenon DEF OkOf
<1>6. x.ok = TRUE => x.id \in OkOf(t)
  BY <1>1, <1>2, <1>3, Zenon DEF OkOf
<1>7. x.id \notin OkOf(q)
  BY Zenon DEF OkOf, In
<1> QED
  BY <1>4, <1>5, <1>6, <1>7, Zenon DEF t

LEMMA IdsFinite == IsFiniteSet(Ids) /\ \A S \in SUBSET Ids : IsFiniteSet(S) /\ Cardinality(S) \in Nat
<1>1. IsFiniteSet(Ids)
  BY TransportAssumption, FS_Interval DEF Ids
<1> QED
  BY <1>1, FS_Subset, FS_CardinalityType, Zenon

LEMMA PollOnceKeeps ==
    ASSUME Typed, Numbered, RdmaInv, NEW c \in Callers, PollOnce(c),
           UNCHANGED <<kind, requests, replies>>
    PROVE  Typed' /\ Numbered' /\ RdmaInv'
<1> DEFINE me == calls[c].id
           S == [id : Ids, ok : BOOLEAN]
<1>1. /\ calls[c].pc = "polling"
      /\ abandoned' = (IF Outstanding(me, sq, cq') THEN abandoned \cup {me} ELSE abandoned)
      /\ next_id' = next_id /\ done' = done /\ sq' = sq
      /\ kind' = kind /\ requests' = requests /\ replies' = replies
  BY Zenon DEF PollOnce
<1>2. PICK r \in Results : /\ Return(c, r) /\ r # "none"
                           /\ r \in {"Ok", "true"} => cq # <<>> /\ Head(cq).ok = TRUE /\ cq' = Tail(cq)
                           /\ \/ r \in {"Ok", "true"} \/ cq' = cq
                              \/ cq # <<>> /\ Head(cq).ok # TRUE /\ cq' = Tail(cq)
  <2>1. calls[c].op \in Ops /\ "Err" \in Results
    BY Zenon DEF Typed, CallTyped, Results
  <2>2. CASE Return(c, "Err") /\ cq' = cq
    BY <2>1, <2>2, Zenon
  <2>3. CASE /\ cq' = (IF cq = <<>> THEN cq ELSE Tail(cq))
             /\ Return(c, Outcome(calls[c].op, cq # <<>> /\ Head(cq).ok))
    <3>1. CASE cq # <<>> /\ Head(cq).ok = TRUE
      <4>1. Return(c, Outcome(calls[c].op, TRUE)) /\ cq' = Tail(cq)
        <5>1. (cq # <<>> /\ Head(cq).ok) = TRUE
          BY <3>1, Zenon
        <5> QED
          BY <2>3, <3>1, <5>1, Zenon
      <4>2. Outcome(calls[c].op, TRUE) \in Results \cap {"Ok", "true"}
        BY <2>1, Zenon DEF Outcome, Ops, Results
      <4> QED
        BY <3>1, <4>1, <4>2, Zenon
    <3>2. CASE ~(cq # <<>> /\ Head(cq).ok = TRUE)
      <4>1. (cq # <<>> /\ Head(cq).ok) = FALSE
        <5>1. CASE cq = <<>>
          BY <5>1
        <5>2. CASE cq # <<>>
          <6>1. Head(cq).ok \in BOOLEAN
            <7> HIDE DEF S
            <7>1. cq \in Seq(S)
              BY Zenon DEF Typed, S
            <7>2. Head(cq) \in S
              BY <5>2, <7>1
            <7> QED
              BY <7>2, Zenon DEF S
          <6> QED
            BY <3>2, <5>2, <6>1
        <5> QED
          BY <5>1, <5>2, Zenon
      <4>2. Return(c, Outcome(calls[c].op, FALSE))
        BY <2>3, <4>1, Zenon
      <4>3. Outcome(calls[c].op, FALSE) \in Results \ {"none", "Ok", "true"}
        BY <2>1, Zenon DEF Outcome, Ops, Results
      <4> QED
        BY <2>3, <3>2, <4>2, <4>3, Zenon
    <3> QED
      BY <3>1, <3>2, Zenon
  <2> QED
    BY <2>2, <2>3, Zenon DEF PollOnce
<1>3. cq \in Seq(S) /\ sq \in Seq(Request) /\ oks \in Nat
  BY Zenon DEF Typed
<1> DEFINE good == r \in {"Ok", "true"}
<1> HIDE DEF good
<1>4. /\ calls' \in [Callers -> [pc : Pcs, id : Nat, op : Ops]]
      /\ res' \in [Callers -> [r : Results, id : Nat, clean : BOOLEAN]]
      /\ calls'[c].pc = "idle"
      /\ \A d \in Callers : d # c => calls'[d] = calls[d] /\ res'[d] = res[d]
      /\ res'[c].r = r /\ res'[c].id = me
      /\ res'[c].clean <=> abandoned = {}
  <2>1. CallTyped
    BY Zenon DEF Typed
  <2> QED
    BY <1>1, <1>2, <2>1, Returned, Zenon
<1>5. oks' = oks + (IF r \in {"Ok", "true"} THEN 1 ELSE 0)
  BY <1>2, Zenon DEF Return
<1>6. me \in Ids /\ me < next_id
  BY <1>1, Zenon DEF Numbered, Busy
<1>7. \A d \in Callers : ~Busy(d)'
  BY <1>1, <1>4, SMTT(30) DEF RdmaInv, OneCall, Busy
<1>8. /\ cq' \in Seq(S) /\ DistinctIds(cq') /\ \A id : In(id, cq') => In(id, cq)
      /\ good => cq # <<>> /\ Head(cq).ok = TRUE /\ cq' = Tail(cq) /\ Head(cq).id \in Ids /\ In(Head(cq).id, cq)
  <2>1. DistinctIds(cq)
    BY Zenon DEF RdmaInv, Queues
  <2>2. CASE cq = <<>>
    BY <1>2, <1>3, <2>1, <2>2, Zenon DEF good
  <2>3. CASE cq # <<>>
    <3> HIDE DEF S
    <3>1. /\ \A id : In(id, cq) <=> Head(cq).id = id \/ In(id, Tail(cq))
          /\ DistinctIds(Tail(cq)) /\ Head(cq) \in S /\ Tail(cq) \in Seq(S)
      BY <1>3, <2>1, <2>3, InTail, Zenon
    <3>2. Head(cq).id \in Ids
      BY <3>1, Zenon DEF S
    <3> QED
      BY <1>2, <1>3, <2>1, <2>3, <3>1, <3>2, Zenon DEF good
  <2> QED
    BY <2>2, <2>3, Zenon
<1>9. Typed'
  <2>1. oks' \in Nat
    BY <1>3, <1>5, SMTT(30)
  <2> QED
    BY <1>1, <1>4, <1>8, <2>1, Zenon DEF Typed, CallTyped
<1>10. Numbered'
  <2>1. \A d \in Callers : res'[d].r # "none" => res'[d].id \in Ids /\ res'[d].id < next_id
    BY <1>4, <1>6, Zenon DEF Numbered
  <2>2. \A id \in Ids : done[id] # "no" \/ In(id, sq) \/ In(id, cq') \/ In(id, requests) => id < next_id
    BY <1>8, Zenon DEF Numbered
  <2> QED
    BY <1>1, <1>7, <2>1, <2>2, Zenon DEF Numbered
<1>11. OneCall'
  BY <1>7, Zenon DEF OneCall, Busy
<1>12. Queues'
  <2>1. \A id \in Ids : In(id, sq) => ~In(id, cq') /\ done[id] = "no"
    BY <1>8, Zenon DEF RdmaInv, Queues
  <2>2. DistinctIds(sq)
    BY Zenon DEF RdmaInv, Queues
  <2>3. \A d \in Callers : calls'[d].pc = "idle"
    BY <1>7, Zenon DEF Busy
  <2> QED
    BY <1>1, <1>8, <2>1, <2>2, <2>3, Zenon DEF Queues
<1>13. Counted'
  <2>1. RunIds' = RunIds
    BY <1>1, Zenon DEF RunIds
  <2>2. OkIds \subseteq RunIds /\ oks + Cardinality(OkIds) <= Cardinality(RunIds)
    BY Zenon DEF RdmaInv, Counted
  <2>3. /\ OkIds \subseteq Ids /\ OkIds' \subseteq Ids /\ RunIds \subseteq Ids
        /\ Cardinality(OkIds) \in Nat /\ Cardinality(OkIds') \in Nat /\ Cardinality(RunIds) \in Nat
        /\ IsFiniteSet(OkIds')
    <3>1. OkIds \subseteq Ids /\ OkIds' \subseteq Ids /\ RunIds \subseteq Ids
      BY Zenon DEF OkIds, OkOf, RunIds
    <3> QED
      BY <3>1, IdsFinite, Zenon
  <2>4. CASE good
    <3>1. OkIds = OkIds' \cup {Head(cq).id} /\ Head(cq).id \notin OkIds'
      <4>1. DistinctIds(cq) /\ cq # <<>> /\ Head(cq).ok = TRUE
        BY <1>8, <2>4, Zenon DEF RdmaInv, Queues
      <4>2. OkOf(cq) = OkOf(Tail(cq)) \cup {Head(cq).id} /\ Head(cq).id \notin OkOf(Tail(cq))
        BY <1>3, <4>1, OkOfTail, Zenon
      <4>3. OkIds = OkOf(cq) /\ OkIds' = OkOf(Tail(cq))
        BY <1>8, <2>4, Zenon DEF OkIds, OkOf
      <4> QED
        BY <4>2, <4>3, Zenon
    <3>2. Cardinality(OkIds) = Cardinality(OkIds') + 1
      BY <2>3, <3>1, FS_AddElement, Zenon
    <3>3. oks' = oks + 1
      BY <1>5, <2>4, Zenon DEF good
    <3> QED
      BY <1>3, <2>1, <2>2, <2>3, <3>1, <3>2, <3>3, SMTT(30) DEF Counted
  <2>5. CASE ~good
    <3>1. OkIds' = OkIds
      <4>1. CASE cq' = cq
        BY <4>1, Zenon DEF OkIds
      <4>2. CASE cq # <<>> /\ Head(cq).ok # TRUE /\ cq' = Tail(cq)
        <5>1. DistinctIds(cq)
          BY Zenon DEF RdmaInv, Queues
        <5>2. OkOf(cq) = OkOf(Tail(cq))
          BY <1>3, <4>2, <5>1, OkOfTail, Zenon
        <5> QED
          BY <4>2, <5>2, Zenon DEF OkIds, OkOf
      <4> QED
        BY <1>2, <2>5, <4>1, <4>2, Zenon DEF good
    <3>2. oks' = oks
      BY <1>3, <1>5, <2>5 DEF good
    <3> QED
      BY <2>1, <2>2, <3>1, <3>2, Zenon DEF Counted
  <2> QED
    BY <2>4, <2>5, Zenon
<1>14. ASSUME abandoned = {}, NEW id \in Ids, In(id, sq) \/ In(id, cq) PROVE id = me
  <2>1. PICK d \in Callers : calls[d].pc = "polling" /\ calls[d].id = id
    BY <1>14, Zenon DEF RdmaInv, OwnAnswers
  <2>2. d = c
    BY <1>1, <2>1, Zenon DEF RdmaInv, OneCall, Busy
  <2> QED
    BY <2>1, <2>2, Zenon
<1>15. OwnAnswers'
  <2> SUFFICES ASSUME abandoned' = {}, NEW id \in Ids, In(id, sq) \/ In(id, cq') PROVE FALSE
    BY <1>1, Zenon DEF OwnAnswers
  <2>1. abandoned = {} /\ ~Outstanding(me, sq, cq')
    BY <1>1, Zenon
  <2>2. ~In(me, sq) /\ ~In(me, cq')
    BY <2>1, OutstandingIn, Zenon
  <2>3. id = me
    BY <1>8, <1>14, <2>1, Zenon
  <2> QED
    BY <2>2, <2>3, Zenon
<1>16. RdmaTold'
  <2> SUFFICES ASSUME NEW d \in Callers, res'[d].clean, res'[d].r \in {"Ok", "true"}
               PROVE  done[res'[d].id] # "no"
    BY <1>1, Zenon DEF RdmaTold
  <2>1. CASE d # c
    BY <1>4, <2>1, Zenon DEF RdmaInv, RdmaTold
  <2>2. CASE d = c
    <3>1. abandoned = {} /\ good
      BY <1>4, <2>2, Zenon DEF good
    <3>2. Head(cq).id = me
      BY <1>8, <1>14, <3>1, Zenon
    <3>3. Head(cq).id \in OkIds
      <4>1. DistinctIds(cq) /\ cq # <<>> /\ Head(cq).ok = TRUE
        BY <1>8, <3>1, Zenon DEF RdmaInv, Queues
      <4>2. OkOf(cq) = OkOf(Tail(cq)) \cup {Head(cq).id}
        BY <1>3, <4>1, OkOfTail, Zenon
      <4> QED
        BY <4>2, Zenon DEF OkIds, OkOf
    <3>4. me \in RunIds
      BY <3>2, <3>3, Zenon DEF RdmaInv, Counted
    <3> QED
      BY <1>4, <2>2, <3>4, Zenon DEF RunIds
  <2> QED
    BY <2>1, <2>2, Zenon
<1> QED
  BY <1>9, <1>10, <1>11, <1>12, <1>13, <1>15, <1>16, Zenon DEF RdmaInv

(***************************************************************************)
(* What the adapter and the poller do to the queues.                       *)
(***************************************************************************)
LEMMA QueuesKeep ==
    ASSUME Typed, Numbered, RdmaInv,
           UNCHANGED <<calls, res, next_id, abandoned, oks, kind, requests, replies>>,
           sq' \in Seq(Request), cq' \in Seq([id : Ids, ok : BOOLEAN]), done' \in [Ids -> Answers],
           DistinctIds(sq'), DistinctIds(cq'), Counted',
           \A id \in Ids : In(id, sq') => In(id, sq) /\ ~In(id, cq') /\ done'[id] = "no",
           \A id \in Ids : In(id, cq') => In(id, cq) \/ In(id, sq),
           \A id \in Ids : done'[id] # done[id] => In(id, sq) /\ done'[id] # "no"
    PROVE  Typed' /\ Numbered' /\ RdmaInv'
<1>1. Typed'
  BY Zenon DEF Typed, CallTyped
<1>2. \A d \in Callers : Busy(d)' <=> Busy(d)
  BY Zenon DEF Busy
<1>3. Numbered'
  <2>1. \A id \in Ids : done'[id] # "no" \/ In(id, sq') \/ In(id, cq') \/ In(id, requests) => id < next_id
    BY Zenon DEF Numbered
  <2> QED
    BY <1>2, <2>1, Zenon DEF Numbered
<1>4. OneCall'
  BY <1>2, Zenon DEF RdmaInv, OneCall
<1>5. Queues'
  <2>1. \A d \in Callers : calls[d].pc \in {"checking", "posting"} =>
           ~In(calls[d].id, sq') /\ ~In(calls[d].id, cq') /\ done'[calls[d].id] = "no"
    <3> SUFFICES ASSUME NEW d \in Callers, calls[d].pc \in {"checking", "posting"}
                 PROVE  ~In(calls[d].id, sq') /\ ~In(calls[d].id, cq') /\ done'[calls[d].id] = "no"
      BY Zenon
    <3>1. calls[d].id \in Ids /\ ~In(calls[d].id, sq) /\ ~In(calls[d].id, cq) /\ done[calls[d].id] = "no"
      BY Zenon DEF Numbered, Busy, RdmaInv, Queues
    <3> QED
      BY <3>1, Zenon
  <2> QED
    BY <2>1, Zenon DEF Queues
<1>6. OwnAnswers'
  <2> SUFFICES ASSUME abandoned = {}, NEW id \in Ids, In(id, sq') \/ In(id, cq')
               PROVE  \E d \in Callers : calls'[d].pc = "polling" /\ calls'[d].id = id
    BY Zenon DEF OwnAnswers
  <2>1. In(id, sq) \/ In(id, cq)
    BY Zenon
  <2>2. PICK d \in Callers : calls[d].pc = "polling" /\ calls[d].id = id
    BY <2>1, Zenon DEF RdmaInv, OwnAnswers
  <2> QED
    BY <2>2, Zenon
<1>7. RdmaTold'
  <2> SUFFICES ASSUME NEW d \in Callers, res[d].clean, res[d].r \in {"Ok", "true"}
               PROVE  done'[res[d].id] # "no"
    BY Zenon DEF RdmaTold
  <2>1. res[d].id \in Ids /\ done[res[d].id] # "no"
    BY Zenon DEF Numbered, RdmaInv, RdmaTold
  <2> QED
    BY <2>1, Zenon
<1> QED
  BY <1>1, <1>3, <1>4, <1>5, <1>6, <1>7, Zenon DEF RdmaInv

LEMMA EmptyQueue ==
    ASSUME NEW S
    PROVE  <<>> \in Seq(S) /\ DistinctIds(<<>>) /\ OkOf(<<>>) = {} /\ \A id : ~In(id, <<>>)
BY DEF DistinctIds, OkOf, In

LEMMA PollerTakesKeeps ==
    ASSUME Typed, Numbered, RdmaInv, PollerTakes, UNCHANGED <<kind, requests, replies>>
    PROVE  Typed' /\ Numbered' /\ RdmaInv'
<1>1. cq' = <<>> /\ done' = done /\ sq' = sq /\ UNCHANGED <<calls, res, next_id, abandoned, oks>>
  BY Zenon DEF PollerTakes, call
<1>2. DistinctIds(cq') /\ OkIds' = {} /\ \A id : ~In(id, cq')
  BY <1>1, EmptyQueue, Zenon DEF OkIds
<1>3. cq' \in Seq([id : Ids, ok : BOOLEAN])
  <2> DEFINE S == [id : Ids, ok : BOOLEAN]
  <2> HIDE DEF S
  <2>1. cq' \in Seq(S)
    BY <1>1
  <2> QED
    BY <2>1, Zenon DEF S
<1>4. Counted'
  <2>1. OkIds \subseteq Ids /\ RunIds \subseteq Ids
    BY Zenon DEF OkIds, OkOf, RunIds
  <2>2. Cardinality(OkIds) \in Nat /\ Cardinality(RunIds) \in Nat /\ Cardinality({}) = 0
    BY <2>1, IdsFinite, FS_EmptySet, Zenon
  <2>3. RunIds' = RunIds /\ oks' = oks /\ oks \in Nat
    BY <1>1, Zenon DEF RunIds, Typed
  <2>4. oks + Cardinality(OkIds) <= Cardinality(RunIds)
    BY Zenon DEF RdmaInv, Counted
  <2> QED
    BY <1>2, <2>2, <2>3, <2>4 DEF Counted
<1>5. /\ sq' \in Seq(Request) /\ done' \in [Ids -> Answers] /\ DistinctIds(sq')
      /\ \A id \in Ids : In(id, sq') => In(id, sq) /\ done'[id] = "no"
  BY <1>1, Zenon DEF Typed, RdmaInv, Queues
<1> QED
  BY <1>1, <1>2, <1>3, <1>4, <1>5, QueuesKeep, Zenon

LEMMA HeadRan ==
    ASSUME Typed, RdmaInv, sq # <<>>, NEW e \in Effects(Head(sq).op), Ran(Head(sq).id, e)
    PROVE  /\ Head(sq).id \in Ids /\ In(Head(sq).id, sq) /\ done' \in [Ids -> Answers]
           /\ done'[Head(sq).id] # "no"
           /\ \A id \in Ids : id # Head(sq).id => done'[id] = done[id]
           /\ RunIds' = RunIds \cup {Head(sq).id} /\ Head(sq).id \notin RunIds
<1>1. sq \in Seq(Request) /\ done \in [Ids -> Answers]
  BY Zenon DEF Typed
<1>2. Head(sq) \in Request /\ In(Head(sq).id, sq)
  BY <1>1, InTail, Zenon
<1>3. Head(sq).id \in Ids
  BY <1>2, Zenon DEF Request
<1>4. e \in {"done", "kept"}
  BY Zenon DEF Effects
<1>5. /\ done' \in [Ids -> Answers] /\ done'[Head(sq).id] = e
      /\ \A id \in Ids : id # Head(sq).id => done'[id] = done[id]
  BY <1>1, <1>3, <1>4, Zenon DEF Ran, Answers
<1>6. done[Head(sq).id] = "no"
  BY <1>2, <1>3, Zenon DEF RdmaInv, Queues
<1> QED
  BY <1>2, <1>3, <1>4, <1>5, <1>6, Zenon DEF RunIds

LEMMA HcaCompletesKeeps ==
    ASSUME Typed, Numbered, RdmaInv, HcaCompletes, UNCHANGED <<kind, requests, replies>>
    PROVE  Typed' /\ Numbered' /\ RdmaInv'
<1> DEFINE h == Head(sq).id
           x == [id |-> Head(sq).id, ok |-> TRUE]
           S == [id : Ids, ok : BOOLEAN]
<1>1. /\ sq # <<>> /\ sq' = Tail(sq) /\ cq' = Append(cq, x)
      /\ UNCHANGED <<calls, res, next_id, abandoned, oks>>
  BY Zenon DEF HcaCompletes, call
<1>2. PICK e \in Effects(Head(sq).op) : Ran(Head(sq).id, e)
  BY Zenon DEF HcaCompletes
<1>3. /\ h \in Ids /\ In(h, sq) /\ done' \in [Ids -> Answers] /\ done'[h] # "no"
      /\ \A id \in Ids : id # h => done'[id] = done[id]
      /\ RunIds' = RunIds \cup {h} /\ h \notin RunIds
  BY <1>1, <1>2, HeadRan, Zenon
<1>4. x \in S /\ x.id = h /\ x.ok = TRUE
  BY <1>3, Zenon
<1>5. cq \in Seq(S) /\ sq \in Seq(Request)
  BY Zenon DEF Typed
<1>6. DistinctIds(sq) /\ DistinctIds(cq) /\ ~In(h, cq)
  BY <1>3, Zenon DEF RdmaInv, Queues
<1> HIDE DEF x
<1>7. OkIds' = OkIds \cup {h} /\ h \notin OkIds
  <2>1. OkOf(Append(cq, x)) = OkOf(cq) \cup {h} /\ h \notin OkOf(cq)
    BY <1>4, <1>5, <1>6, OkOfAppend, Zenon
  <2> QED
    BY <1>1, <2>1, Zenon DEF OkIds
<1>8. /\ cq' \in Seq(S) /\ DistinctIds(cq') /\ \A id : In(id, cq') => In(id, cq) \/ h = id
  <2> HIDE DEF S
  <2> QED
    BY <1>1, <1>4, <1>5, <1>6, InAppend, SMTT(30)
<1>9. /\ sq' \in Seq(Request) /\ DistinctIds(sq') /\ \A id : In(id, sq') => In(id, sq) /\ id # h
  BY <1>1, <1>5, <1>6, InTail, Zenon
<1>10. Counted'
  <2>1. OkIds \subseteq Ids /\ RunIds \subseteq Ids
    BY Zenon DEF OkIds, OkOf, RunIds
  <2>2. /\ Cardinality(OkIds) \in Nat /\ Cardinality(RunIds) \in Nat
        /\ IsFiniteSet(OkIds) /\ IsFiniteSet(RunIds)
    BY <2>1, IdsFinite, Zenon
  <2>3. Cardinality(OkIds') = Cardinality(OkIds) + 1 /\ Cardinality(RunIds') = Cardinality(RunIds) + 1
    BY <1>3, <1>7, <2>2, FS_AddElement, Zenon
  <2>4. OkIds \subseteq RunIds /\ oks + Cardinality(OkIds) <= Cardinality(RunIds)
    BY Zenon DEF RdmaInv, Counted
  <2>5. oks' = oks /\ oks \in Nat
    BY <1>1, Zenon DEF Typed
  <2> QED
    BY <1>3, <1>7, <2>2, <2>3, <2>4, <2>5, SMTT(30) DEF Counted
<1>11. \A id \in Ids : In(id, sq') => In(id, sq) /\ ~In(id, cq') /\ done'[id] = "no"
  <2>1. \A id \in Ids : In(id, sq) => ~In(id, cq) /\ done[id] = "no"
    BY Zenon DEF RdmaInv, Queues
  <2> QED
    BY <1>3, <1>8, <1>9, <2>1, Zenon
<1>12. \A id \in Ids : In(id, cq') => In(id, cq) \/ In(id, sq)
  BY <1>3, <1>8, Zenon
<1>13. \A id \in Ids : done'[id] # done[id] => In(id, sq) /\ done'[id] # "no"
  BY <1>3, Zenon
<1> QED
  BY <1>1, <1>3, <1>8, <1>9, <1>10, <1>11, <1>12, <1>13, QueuesKeep, SMTT(30)

LEMMA HeadMayHaveRun ==
    ASSUME Typed, RdmaInv, HeadMayRun
    PROVE  /\ done' \in [Ids -> Answers]
           /\ \A id \in Ids : done'[id] # done[id] => In(id, sq) /\ done'[id] # "no"
           /\ RunIds \subseteq RunIds' /\ Cardinality(RunIds) <= Cardinality(RunIds')
           /\ Cardinality(RunIds) \in Nat /\ Cardinality(RunIds') \in Nat
<1>1. RunIds \subseteq Ids /\ RunIds' \subseteq Ids
  BY Zenon DEF RunIds
<1>2. Cardinality(RunIds) \in Nat /\ Cardinality(RunIds') \in Nat /\ IsFiniteSet(RunIds')
  BY <1>1, IdsFinite, Zenon
<1>3. CASE done' = done
  <2>1. RunIds' = RunIds /\ done \in [Ids -> Answers]
    BY <1>3, Zenon DEF RunIds, Typed
  <2> QED
    BY <1>2, <1>3, <2>1
<1>4. CASE sq # <<>> /\ \E e \in Effects(Head(sq).op) : Ran(Head(sq).id, e)
  <2>1. PICK e \in Effects(Head(sq).op) : Ran(Head(sq).id, e)
    BY <1>4, Zenon
  <2>2. /\ Head(sq).id \in Ids /\ In(Head(sq).id, sq) /\ done' \in [Ids -> Answers]
        /\ done'[Head(sq).id] # "no" /\ RunIds \subseteq RunIds'
        /\ \A id \in Ids : id # Head(sq).id => done'[id] = done[id]
    BY <1>4, <2>1, HeadRan, Zenon
  <2>3. Cardinality(RunIds) <= Cardinality(RunIds')
    BY <1>2, <2>2, FS_Subset, Zenon
  <2> QED
    BY <1>2, <2>2, <2>3, Zenon
<1> QED
  BY <1>3, <1>4, Zenon DEF HeadMayRun

\* Flushing a queue of requests into the completion queue.
Flushed(s) == [i \in 1 .. Len(s) |-> [id |-> s[i].id, ok |-> FALSE]]

LEMMA Flushes ==
    ASSUME NEW s \in Seq(Request), NEW q \in Seq([id : Ids, ok : BOOLEAN]),
           DistinctIds(s), DistinctIds(q), \A id \in Ids : In(id, s) => ~In(id, q)
    PROVE  /\ q \o Flushed(s) \in Seq([id : Ids, ok : BOOLEAN])
           /\ DistinctIds(q \o Flushed(s)) /\ OkOf(q \o Flushed(s)) = OkOf(q)
           /\ \A id : In(id, q \o Flushed(s)) => In(id, q) \/ In(id, s)
<1> DEFINE f == Flushed(s)
           t == q \o f
           S == [id : Ids, ok : BOOLEAN]
<1>1. Len(s) \in Nat /\ Len(q) \in Nat /\ \A i \in 1 .. Len(s) : s[i].id \in Ids
  <2>1. Len(s) \in Nat /\ Len(q) \in Nat /\ \A i \in 1 .. Len(s) : s[i] \in Request
    OBVIOUS
  <2> QED
    BY <2>1, SMTT(30) DEF Request
<1>2. /\ f \in Seq(S) /\ Len(f) = Len(s)
      /\ \A i \in 1 .. Len(s) : f[i].id = s[i].id /\ f[i].ok = FALSE
  <2>1. \A i \in 1 .. Len(s) : [id |-> s[i].id, ok |-> FALSE] \in S
    BY <1>1, Zenon
  <2>2. f = [i \in 1 .. Len(s) |-> [id |-> s[i].id, ok |-> FALSE]]
    BY Zenon DEF Flushed
  <2>3. \A i \in 1 .. Len(s) : f[i] = [id |-> s[i].id, ok |-> FALSE]
    BY <2>2, Zenon
  <2>4. ASSUME NEW i \in 1 .. Len(s) PROVE f[i].id = s[i].id /\ f[i].ok = FALSE
    <3> DEFINE y == [id |-> s[i].id, ok |-> FALSE]
    <3>1. y.id = s[i].id /\ y.ok = FALSE
      BY Zenon
    <3>2. f[i] = y
      BY <2>3, Zenon
    <3> HIDE DEF f, y
    <3> QED
      BY <3>1, <3>2, Zenon
  <2>5. f \in [1 .. Len(s) -> S]
    BY <2>1, <2>2, Zenon
  <2> HIDE DEF S, f
  <2>6. f \in Seq(S) /\ Len(f) = Len(s)
    BY <1>1, <2>5
  <2> QED
    BY <2>4, <2>6, Zenon
<1> HIDE DEF f
<1>3. /\ t \in Seq(S) /\ Len(t) = Len(q) + Len(s)
      /\ \A i \in 1 .. Len(q) : t[i] = q[i]
      /\ \A i \in Len(q) + 1 .. Len(q) + Len(s) : t[i] = f[i - Len(q)]
  <2>1. q \in Seq(S)
    BY Zenon
  <2>2. f \in Seq(S) /\ Len(f) = Len(s)
    BY <1>2, Zenon
  <2> HIDE DEF S
  <2> QED
    BY ONLY <2>1, <2>2, SMTT(20)
<1> HIDE DEF t, S
<1>4. ASSUME NEW i \in 1 .. Len(t)
      PROVE  \/ i \in 1 .. Len(q) /\ t[i] = q[i]
             \/ i \notin 1 .. Len(q) /\ i - Len(q) \in 1 .. Len(s) /\ t[i].id = s[i - Len(q)].id /\ t[i].ok = FALSE
  <2>1. CASE i \in 1 .. Len(q)
    BY <1>3, <2>1, Zenon
  <2>2. CASE i \notin 1 .. Len(q)
    <3>1. i - Len(q) \in 1 .. Len(s) /\ i \in Len(q) + 1 .. Len(q) + Len(s)
      BY <1>1, <1>3, <2>2
    <3> QED
      BY <1>2, <1>3, <2>2, <3>1, Zenon
  <2> QED
    BY <2>1, <2>2, Zenon
<1>5. \A id : In(id, t) => In(id, q) \/ In(id, s)
  BY <1>4, ZenonT(40) DEF In
<1>6. DistinctIds(t)
  <2> SUFFICES ASSUME NEW i \in 1 .. Len(t), NEW j \in 1 .. Len(t), t[i].id = t[j].id PROVE i = j
    BY Zenon DEF DistinctIds
  <2>1. CASE i \in 1 .. Len(q) /\ j \in 1 .. Len(q)
    BY <1>4, <2>1, Zenon DEF DistinctIds
  <2>2. CASE i \notin 1 .. Len(q) /\ j \notin 1 .. Len(q)
    <3>1. i - Len(q) = j - Len(q)
      BY <1>4, <2>2, ZenonT(40) DEF DistinctIds
    <3> QED
      BY <1>1, <3>1
  <2>3. CASE i \in 1 .. Len(q) /\ j \notin 1 .. Len(q)
    <3>1. In(t[i].id, q) /\ In(t[i].id, s) /\ t[i].id \in Ids
      BY <1>1, <1>4, <2>3, Zenon DEF In
    <3> QED
      BY <3>1, Zenon
  <2>4. CASE i \notin 1 .. Len(q) /\ j \in 1 .. Len(q)
    <3>1. In(t[j].id, q) /\ In(t[j].id, s) /\ t[j].id \in Ids
      BY <1>1, <1>4, <2>4, Zenon DEF In
    <3> QED
      BY <3>1, Zenon
  <2> QED
    BY <2>1, <2>2, <2>3, <2>4, Zenon
<1>7. OkOf(t) = OkOf(q)
  <2>1. \A i \in 1 .. Len(q) : i \in 1 .. Len(t) /\ t[i] = q[i]
    BY <1>1, <1>3
  <2>2. \A i \in 1 .. Len(t) : t[i].ok = TRUE => i \in 1 .. Len(q) /\ t[i] = q[i]
    BY <1>4, Zenon
  <2> QED
    BY <2>1, <2>2, Zenon DEF OkOf
<1> QED
  BY <1>3, <1>5, <1>6, <1>7, Zenon DEF t, f, S

LEMMA HcaFailsKeeps ==
    ASSUME Typed, Numbered, RdmaInv, HcaFails, UNCHANGED <<kind, requests, replies>>
    PROVE  Typed' /\ Numbered' /\ RdmaInv'
<1>1. /\ HeadMayRun /\ sq' = <<>> /\ cq' = cq \o Flushed(sq)
      /\ UNCHANGED <<calls, res, next_id, abandoned, oks>>
  BY Zenon DEF HcaFails, call, Flushed
<1>2. /\ done' \in [Ids -> Answers]
      /\ \A id \in Ids : done'[id] # done[id] => In(id, sq) /\ done'[id] # "no"
      /\ RunIds \subseteq RunIds' /\ Cardinality(RunIds) <= Cardinality(RunIds')
      /\ Cardinality(RunIds) \in Nat /\ Cardinality(RunIds') \in Nat
  BY <1>1, HeadMayHaveRun, Zenon
<1>3. /\ cq' \in Seq([id : Ids, ok : BOOLEAN]) /\ DistinctIds(cq') /\ OkIds' = OkIds
      /\ \A id \in Ids : In(id, cq') => In(id, cq) \/ In(id, sq)
  <2>1. /\ sq \in Seq(Request) /\ cq \in Seq([id : Ids, ok : BOOLEAN])
        /\ DistinctIds(sq) /\ DistinctIds(cq) /\ \A id \in Ids : In(id, sq) => ~In(id, cq)
    BY Zenon DEF Typed, RdmaInv, Queues
  <2> QED
    BY <1>1, <2>1, Flushes, Zenon DEF OkIds
<1>4. sq' \in Seq(Request) /\ DistinctIds(sq') /\ \A id : ~In(id, sq')
  BY <1>1, EmptyQueue, Zenon
<1>5. Counted'
  <2>1. OkIds \subseteq Ids
    BY Zenon DEF OkIds, OkOf
  <2>2. Cardinality(OkIds) \in Nat /\ oks' = oks /\ oks \in Nat
    BY <1>1, <2>1, IdsFinite, Zenon DEF Typed
  <2>3. OkIds \subseteq RunIds /\ oks + Cardinality(OkIds) <= Cardinality(RunIds)
    BY Zenon DEF RdmaInv, Counted
  <2> QED
    BY <1>2, <1>3, <2>2, <2>3 DEF Counted
<1> QED
  BY <1>1, <1>2, <1>3, <1>4, <1>5, QueuesKeep, Zenon

LEMMA DropEmpties ==
    ASSUME Typed, Numbered, RdmaInv, DropRdma, HeadMayRun, sq' = <<>>, UNCHANGED <<kind, requests, replies>>
    PROVE  Typed' /\ Numbered' /\ RdmaInv'
<1>1. cq' = cq /\ UNCHANGED <<calls, res, next_id, abandoned, oks>>
  BY Zenon DEF DropRdma, call
<1>2. /\ done' \in [Ids -> Answers]
      /\ \A id \in Ids : done'[id] # done[id] => In(id, sq) /\ done'[id] # "no"
      /\ RunIds \subseteq RunIds' /\ Cardinality(RunIds) <= Cardinality(RunIds')
      /\ Cardinality(RunIds) \in Nat /\ Cardinality(RunIds') \in Nat
  BY <1>1, HeadMayHaveRun, Zenon
<1>3. cq' \in Seq([id : Ids, ok : BOOLEAN]) /\ DistinctIds(cq') /\ OkIds' = OkIds
  BY <1>1, Zenon DEF Typed, RdmaInv, Queues, OkIds
<1>4. sq' \in Seq(Request) /\ DistinctIds(sq') /\ \A id : ~In(id, sq')
  BY <1>1, EmptyQueue, Zenon
<1>5. Counted'
  <2>1. OkIds \subseteq Ids
    BY Zenon DEF OkIds, OkOf
  <2>2. Cardinality(OkIds) \in Nat /\ oks' = oks /\ oks \in Nat
    BY <1>1, <2>1, IdsFinite, Zenon DEF Typed
  <2>3. OkIds \subseteq RunIds /\ oks + Cardinality(OkIds) <= Cardinality(RunIds)
    BY Zenon DEF RdmaInv, Counted
  <2> QED
    BY <1>2, <1>3, <2>2, <2>3 DEF Counted
<1> QED
  BY <1>1, <1>2, <1>3, <1>4, <1>5, QueuesKeep, Zenon

LEMMA CallsRest ==
    ASSUME Typed, Numbered, RdmaInv, UNCHANGED <<call, done, sq, cq, kind, requests, replies>>
    PROVE  Typed' /\ Numbered' /\ RdmaInv'
<1>1. UNCHANGED <<calls, res, next_id, abandoned, oks, done, sq, cq>>
  BY Zenon DEF call
<1>2. /\ sq \in Seq(Request) /\ cq \in Seq([id : Ids, ok : BOOLEAN]) /\ done \in [Ids -> Answers]
      /\ DistinctIds(sq) /\ DistinctIds(cq)
      /\ \A id \in Ids : In(id, sq) => ~In(id, cq) /\ done[id] = "no"
  BY Zenon DEF Typed, RdmaInv, Queues
<1>3. Counted'
  BY <1>1, Zenon DEF RdmaInv, Counted, OkIds, OkOf, RunIds
<1>4. /\ sq' \in Seq(Request) /\ cq' \in Seq([id : Ids, ok : BOOLEAN]) /\ done' \in [Ids -> Answers]
      /\ DistinctIds(sq') /\ DistinctIds(cq')
      /\ \A id \in Ids : In(id, sq') => In(id, sq) /\ ~In(id, cq') /\ done'[id] = "no"
      /\ \A id \in Ids : In(id, cq') => In(id, cq) \/ In(id, sq)
      /\ \A id \in Ids : done'[id] # done[id] => In(id, sq) /\ done'[id] # "no"
  BY <1>1, <1>2, Zenon
<1> QED
  BY <1>1, <1>3, <1>4, QueuesKeep, Zenon

LEMMA DropRdmaKeeps ==
    ASSUME Typed, Numbered, RdmaInv, DropRdma, UNCHANGED <<kind, requests, replies>>
    PROVE  Typed' /\ Numbered' /\ RdmaInv'
<1>1. CASE HeadMayRun /\ sq' = <<>>
  BY <1>1, DropEmpties, Zenon
<1>2. CASE UNCHANGED <<sq, done>>
  <2>1. UNCHANGED <<call, done, sq, cq, kind, requests, replies>>
    BY <1>2, Zenon DEF DropRdma
  <2> QED
    BY <2>1, CallsRest, Zenon
<1> QED
  BY <1>1, <1>2, Zenon DEF DropRdma

LEMMA RdmaStep ==
    ASSUME Typed, Numbered, RdmaInv, Rdma PROVE Typed' /\ Numbered' /\ RdmaInv'
<1>1. UNCHANGED <<kind, requests, replies>>
  BY Zenon DEF Rdma, tcp
<1>2. CASE \E c \in Callers : RdmaCall(c) \/ \E op \in Ops : RdmaStart(c, op)
  <2>1. PICK c \in Callers : RdmaCall(c) \/ \E op \in Ops : RdmaStart(c, op)
    BY <1>2, Zenon
  <2>2. CASE \E op \in Ops : RdmaStart(c, op)
    BY <1>1, <2>2, RdmaStartKeeps, Zenon
  <2>3. CASE CheckHealth(c)
    BY <1>1, <2>3, CheckHealthKeeps, Zenon
  <2>4. CASE PostSend(c)
    BY <1>1, <2>4, PostSendKeeps, Zenon
  <2>5. CASE PollOnce(c)
    BY <1>1, <2>5, PollOnceKeeps, Zenon
  <2> QED
    BY <2>1, <2>2, <2>3, <2>4, <2>5, Zenon DEF RdmaCall
<1>3. CASE PollerTakes \/ HcaCompletes \/ HcaFails \/ DropRdma
  BY <1>1, <1>3, PollerTakesKeeps, HcaCompletesKeeps, HcaFailsKeeps, DropRdmaKeeps, Zenon
<1>4. CASE UNCHANGED <<call, done, rdma>>
  <2>1. UNCHANGED <<call, done, sq, cq, kind, requests, replies>>
    BY <1>1, <1>4, Zenon DEF rdma
  <2> QED
    BY <2>1, CallsRest, Zenon
<1> QED
  BY <1>2, <1>3, <1>4, Zenon DEF Rdma
=============================================================================
