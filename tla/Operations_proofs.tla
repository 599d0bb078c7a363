-------------------------- MODULE Operations_proofs --------------------------
(***************************************************************************)
(* Proofs about a client's operations: how a task gets its completion, and *)
(* what the verbs it posts do to the remote table.                         *)
(*   Completion, for every number of tasks, batches and completions taken  *)
(*   at a time, as long as the ids of the counter stay below those of the  *)
(*   batches: a task is woken by its own completion, nobody is stranded,   *)
(*   no sender leaks and the buffer of a posted request is held.           *)
(*   RemoteTable, for any clients, keys, values, table size and number of  *)
(*   inserts: the bump allocator gives no space twice, a bucket points to  *)
(*   complete extents only, and a get returns no other key's value.        *)
(***************************************************************************)
EXTENDS Completion, RemoteTable, TLAPS

(***************************************************************************)
(* Sequences.                                                              *)
(***************************************************************************)
LEMMA Cut ==
    ASSUME NEW S, NEW s \in Seq(S), NEW m \in 1 .. Len(s) + 1, NEW n \in 0 .. Len(s)
    PROVE  /\ SubSeq(s, m, n) \in Seq(S) /\ Len(SubSeq(s, m, n)) = IF m <= n THEN n - m + 1 ELSE 0
           /\ \A i \in 1 .. n - m + 1 : SubSeq(s, m, n)[i] = s[m + i - 1]
OBVIOUS

LEMMA Front ==
    ASSUME NEW S, NEW s \in Seq(S), s # <<>>
    PROVE  /\ Len(s) \in Nat /\ Len(s) >= 1 /\ Head(s) = s[1] /\ Head(s) \in S
           /\ Tail(s) \in Seq(S) /\ Len(Tail(s)) = Len(s) - 1
           /\ \A i \in 1 .. Len(Tail(s)) : Tail(s)[i] = s[i + 1]
OBVIOUS

LEMMA Rest == ASSUME NEW S, NEW s \in Seq(S), s # <<>> PROVE Tail(s) = SubSeq(s, 2, Len(s))
OBVIOUS

LEMMA ElementType == ASSUME NEW S, NEW s \in Seq(S), NEW i \in 1 .. Len(s) PROVE s[i] \in S
OBVIOUS

(***************************************************************************)
(* Completion                                                              *)
(***************************************************************************)

Reqs == [id : Nat, owner : Tasks]
Wcs == [id : Nat, owner : Tasks, outcome : AllOutcomes]

Elts(s) == {s[i] : i \in DOMAIN s}
Distinct(s) == \A i, j \in DOMAIN s : s[i].id = s[j].id => i = j
ApartIn(s, q) == \A x \in Elts(s), y \in Elts(q) : x.id # y.id

(***************************************************************************)
(* Queues of requests with distinct ids.                                   *)
(***************************************************************************)
LEMMA AppendElts ==
    ASSUME NEW R, NEW s \in Seq(R), NEW r \in R, Distinct(s), \A x \in Elts(s) : x.id # r.id
    PROVE  /\ Append(s, r) \in Seq(R) /\ Elts(Append(s, r)) = Elts(s) \cup {r}
           /\ Distinct(Append(s, r))
<1> DEFINE n == Len(s)
           q == Append(s, r)
<1>1. /\ n \in Nat /\ DOMAIN s = 1 .. n /\ q \in Seq(R) /\ DOMAIN q = 1 .. n + 1
      /\ q[n + 1] = r /\ \A i \in 1 .. n : q[i] = s[i]
  OBVIOUS
<1> HIDE DEF n, q
<1>2. \A i \in 1 .. n + 1 : i \in 1 .. n \/ i = n + 1
  BY <1>1
<1>3. Elts(q) = Elts(s) \cup {r}
  <2>1. ASSUME NEW x \in Elts(q) PROVE x \in Elts(s) \cup {r}
    <3>1. PICK i \in 1 .. n + 1 : x = q[i]
      BY <1>1, Zenon DEF Elts
    <3> QED
      BY <3>1, <1>1, <1>2, Zenon DEF Elts
  <2>2. ASSUME NEW x \in Elts(s) PROVE x \in Elts(q)
    <3>1. PICK i \in 1 .. n : x = s[i]
      BY <1>1, Zenon DEF Elts
    <3>2. i \in 1 .. n + 1
      BY <1>1
    <3> QED
      BY <3>1, <3>2, <1>1, Zenon DEF Elts
  <2>3. r \in Elts(q)
    <3>1. n + 1 \in 1 .. n + 1
      BY <1>1
    <3> QED
      BY <3>1, <1>1, Zenon DEF Elts
  <2> QED
    BY <2>1, <2>2, <2>3, Zenon
<1>4. Distinct(q)
  <2>1. \A i \in 1 .. n : s[i] \in Elts(s)
    BY <1>1, Zenon DEF Elts
  <2>2. ASSUME NEW i \in 1 .. n + 1, NEW j \in 1 .. n + 1, q[i].id = q[j].id PROVE i = j
    BY <2>1, <2>2, <1>1, <1>2, Zenon DEF Distinct
  <2> QED
    BY <2>2, <1>1, Zenon DEF Distinct
<1> QED
  BY <1>1, <1>3, <1>4, Zenon DEF q

\* Taking some elements off the front leaves the rest.
LEMMA SplitElts ==
    ASSUME NEW R, NEW s \in Seq(R), NEW n \in 0 .. Len(s), Distinct(s)
    PROVE  LET pre == SubSeq(s, 1, n)
               suf == SubSeq(s, n + 1, Len(s))
           IN  /\ pre \in Seq(R) /\ suf \in Seq(R) /\ Elts(pre) \cup Elts(suf) = Elts(s)
               /\ ApartIn(pre, suf) /\ Distinct(pre) /\ Distinct(suf)
<1> DEFINE m == Len(s)
           pre == SubSeq(s, 1, n)
           suf == SubSeq(s, n + 1, m)
<1>1. m \in Nat /\ n \in Nat /\ n <= m /\ DOMAIN s = 1 .. m /\ \A i \in 1 .. m : s[i] \in R
  OBVIOUS
<1>2. pre \in Seq(R) /\ DOMAIN pre = 1 .. n /\ \A i \in 1 .. n : pre[i] = s[i]
  <2>1. 1 \in 1 .. m + 1 /\ n \in 0 .. m
    BY <1>1
  <2>2. /\ pre \in Seq(R) /\ Len(pre) = IF 1 <= n THEN n - 1 + 1 ELSE 0
        /\ \A i \in 1 .. n - 1 + 1 : pre[i] = s[1 + i - 1]
    BY <2>1, <1>1, Cut
  <2> QED
    BY <2>2, <1>1
<1>3. suf \in Seq(R) /\ DOMAIN suf = 1 .. m - n /\ \A i \in 1 .. m - n : suf[i] = s[n + i]
  <2>1. n + 1 \in 1 .. m + 1 /\ m \in 0 .. m
    BY <1>1
  <2>2. /\ suf \in Seq(R) /\ Len(suf) = IF n + 1 <= m THEN m - (n + 1) + 1 ELSE 0
        /\ \A i \in 1 .. m - (n + 1) + 1 : suf[i] = s[n + 1 + i - 1]
    BY <2>1, <1>1, Cut
  <2> QED
    BY <2>2, <1>1
<1> HIDE DEF m, pre, suf
<1>4. Elts(pre) \cup Elts(suf) = Elts(s)
  <2>1. ASSUME NEW x \in Elts(s) PROVE x \in Elts(pre) \cup Elts(suf)
    <3>1. PICK i \in 1 .. m : x = s[i]
      BY <1>1, Zenon DEF Elts
    <3>2. CASE i <= n
      BY <3>1, <3>2, <1>1, <1>2 DEF Elts
    <3>3. CASE i > n
      <4>1. i - n \in 1 .. m - n /\ suf[i - n] = s[i]
        BY <3>3, <1>1, <1>3
      <4> QED
        BY <4>1, <3>1, <1>3, Zenon DEF Elts
    <3> QED
      BY <3>2, <3>3, <1>1
  <2>2. ASSUME NEW x \in Elts(pre) PROVE x \in Elts(s)
    BY <1>1, <1>2 DEF Elts
  <2>3. ASSUME NEW x \in Elts(suf) PROVE x \in Elts(s)
    <3>1. PICK i \in 1 .. m - n : x = suf[i]
      BY <1>3, Zenon DEF Elts
    <3>2. n + i \in 1 .. m /\ x = s[n + i]
      BY <3>1, <1>1, <1>3
    <3> QED
      BY <3>2, <1>1, Zenon DEF Elts
  <2> QED
    BY <2>1, <2>2, <2>3, Zenon
<1>5. ApartIn(pre, suf)
  <2>1. ASSUME NEW i \in 1 .. n, NEW j \in 1 .. m - n PROVE pre[i].id # suf[j].id
    <3>1. i \in 1 .. m /\ n + j \in 1 .. m /\ i # n + j
      BY <1>1
    <3> QED
      BY <3>1, <1>1, <1>2, <1>3, Zenon DEF Distinct
  <2> QED
    BY <2>1, <1>2, <1>3 DEF ApartIn, Elts
<1>6. Distinct(pre)
  BY <1>1, <1>2 DEF Distinct
<1>7. Distinct(suf)
  <2>1. ASSUME NEW i \in 1 .. m - n, NEW j \in 1 .. m - n, suf[i].id = suf[j].id PROVE i = j
    <3>1. n + i \in 1 .. m /\ n + j \in 1 .. m /\ s[n + i].id = s[n + j].id
      BY <2>1, <1>1, <1>3
    <3>2. n + i = n + j
      BY <3>1, <1>1, Zenon DEF Distinct
    <3> QED
      BY <3>2, <1>1
  <2> QED
    BY <2>1, <1>3, Zenon DEF Distinct
<1> QED
  BY <1>2, <1>3, <1>4, <1>5, <1>6, <1>7, Zenon DEF pre, suf, m

LEMMA TailElts ==
    ASSUME NEW R, NEW s \in Seq(R), s # <<>>, Distinct(s)
    PROVE  /\ Head(s) \in R /\ Head(s) \in Elts(s)
           /\ Tail(s) \in Seq(R) /\ Elts(s) = Elts(Tail(s)) \cup {Head(s)}
           /\ \A x \in Elts(Tail(s)) : x.id # Head(s).id
           /\ Distinct(Tail(s))
<1>1. /\ Len(s) \in Nat /\ Len(s) >= 1 /\ DOMAIN s = 1 .. Len(s) /\ Head(s) = s[1] /\ Head(s) \in R
      /\ Tail(s) = SubSeq(s, 2, Len(s))
  BY Front, Rest
<1>2. /\ Tail(s) \in Seq(R) /\ Elts(SubSeq(s, 1, 1)) \cup Elts(Tail(s)) = Elts(s)
      /\ ApartIn(SubSeq(s, 1, 1), Tail(s)) /\ Distinct(Tail(s))
  <2>1. 1 \in 0 .. Len(s) /\ Tail(s) = SubSeq(s, 1 + 1, Len(s))
    BY <1>1
  <2>2. /\ SubSeq(s, 1 + 1, Len(s)) \in Seq(R)
        /\ Elts(SubSeq(s, 1, 1)) \cup Elts(SubSeq(s, 1 + 1, Len(s))) = Elts(s)
        /\ ApartIn(SubSeq(s, 1, 1), SubSeq(s, 1 + 1, Len(s))) /\ Distinct(SubSeq(s, 1 + 1, Len(s)))
    BY <2>1, SplitElts, Zenon
  <2> QED
    BY <2>1, <2>2, Zenon
<1>3. Elts(SubSeq(s, 1, 1)) = {Head(s)}
  <2> DEFINE q == SubSeq(s, 1, 1)
  <2>1. q \in Seq(R) /\ Len(q) = 1 /\ q[1] = s[1]
    <3>1. 1 \in 1 .. Len(s) + 1 /\ 1 \in 0 .. Len(s)
      BY <1>1
    <3>2. /\ q \in Seq(R) /\ Len(q) = IF 1 <= 1 THEN 1 - 1 + 1 ELSE 0
          /\ \A i \in 1 .. 1 - 1 + 1 : q[i] = s[1 + i - 1]
      BY <3>1, Cut
    <3> QED
      BY <3>2
  <2>2. DOMAIN q = {1}
    BY <2>1
  <2> QED
    BY <2>1, <2>2, <1>1, Zenon DEF Elts
<1> QED
  BY <1>1, <1>2, <1>3, Zenon DEF ApartIn

(***************************************************************************)
(* The invariant.                                                          *)
(***************************************************************************)
Pipe == Elts(sq) \cup Elts(cq) \cup Elts(polled)
InPipe(id) == \E x \in Pipe : x.id = id

\* Ids given out so far.
Used(id) == id \in 1 .. next_wr_id - 1 \/ id \in BatchStart .. BatchStart + batches - 1

CTypeOK ==
    /\ next_wr_id \in Nat \ {0} /\ next_wr_id <= MaxId + 1 /\ batches \in Nat
    /\ stage \in [Tasks -> {"idle", "register", "post", "wait"}] /\ wr_id \in [Tasks -> Nat]
    /\ channel \in [Tasks -> {Open} \cup {Sent(wc) : wc \in Wcs}]
    /\ sq \in Seq(Reqs) /\ cq \in Seq(Wcs) /\ polled \in Seq(Wcs)
    /\ \A id \in DOMAIN pending : id \in Nat /\ pending[id] \in Tasks
    /\ poller # "dispatch" => polled = <<>>

\* An id is in one place of the pipeline.
Queues ==
    /\ Distinct(sq) /\ Distinct(cq) /\ Distinct(polled)
    /\ ApartIn(sq, cq) /\ ApartIn(sq, polled) /\ ApartIn(cq, polled)

\* Ids belong to one call.
Fresh ==
    /\ \A t \in Tasks : stage[t] # "idle" => Used(wr_id[t])
    /\ \A t, u \in Tasks : stage[t] # "idle" /\ stage[u] # "idle" /\ wr_id[t] = wr_id[u] => t = u
    /\ \A x \in Pipe : Used(x.id)
    /\ \A id \in DOMAIN pending : Used(id)

\* What a call has at each of its steps.
CallInv ==
    \A t \in Tasks :
        /\ stage[t] # "wait" => channel[t] = Open
        /\ stage[t] = "register" => wr_id[t] \notin DOMAIN pending
        /\ stage[t] = "post" \/ (stage[t] = "wait" /\ channel[t] = Open) =>
                wr_id[t] \in DOMAIN pending /\ pending[wr_id[t]] = t
        /\ stage[t] \in {"register", "post"} \/ channel[t] # Open => ~InPipe(wr_id[t])
        /\ stage[t] = "wait" /\ channel[t] = Open => InPipe(wr_id[t])
        /\ stage[t] = "wait" => \A x \in Pipe : x.id = wr_id[t] => x.owner = t
        /\ \A wc \in channel[t].wc : wc.owner = t

NoLeak == \A id \in DOMAIN pending : InPipe(id) \/ \E t \in Tasks : stage[t] = "post" /\ wr_id[t] = id

Held == \A x \in Elts(sq) : (stage[x.owner] = "wait" /\ wr_id[x.owner] = x.id) \/ x.id \in dropped

CompletionInv == CTypeOK /\ Queues /\ Fresh /\ CallInv /\ NoLeak /\ Held

LEMMA Channels == Open.wc = {} /\ \A wc : Sent(wc) # Open /\ Sent(wc).wc = {wc}
BY Zenon DEF Open, Sent

LEMMA EltsType == ASSUME NEW R, NEW s \in Seq(R) PROVE Elts(s) \subseteq R
BY ElementType DEF Elts

LEMMA PipeTypes ==
    ASSUME CTypeOK
    PROVE  /\ Elts(sq) \subseteq Reqs /\ Elts(cq) \subseteq Wcs /\ Elts(polled) \subseteq Wcs
           /\ \A x \in Pipe : x.id \in Nat /\ x.owner \in Tasks
<1>1. /\ Elts(sq) \subseteq Reqs /\ Elts(cq) \subseteq Wcs /\ Elts(polled) \subseteq Wcs
  BY EltsType, Zenon DEF CTypeOK
<1> QED
  BY <1>1, Zenon DEF Pipe, Reqs, Wcs

LEMMA InitCompletion == CompletionInit => CompletionInv
<1> SUFFICES ASSUME CompletionInit PROVE CompletionInv
    BY Zenon
<1>1. Elts(sq) = {} /\ Elts(cq) = {} /\ Elts(polled) = {} /\ Pipe = {}
  BY DEF CompletionInit, Elts, Pipe
<1>2. CTypeOK
  BY CompletionAssumption DEF CompletionInit, CTypeOK
<1>3. Queues
  BY <1>1 DEF CompletionInit, Queues, Distinct, ApartIn
<1>4. DOMAIN pending = {}
  BY DEF CompletionInit
<1> QED
  BY <1>1, <1>2, <1>3, <1>4, Channels, Zenon DEF CompletionInit, CompletionInv, Fresh, CallInv, NoLeak, Held, InPipe

LEMMA BeginKeeps ==
    ASSUME CompletionInv, NEW t \in Tasks, NEW n \in Nat, Begin(t, n), ~Used(n),
           next_wr_id' \in Nat \ {0}, next_wr_id' <= MaxId + 1, batches' \in Nat,
           \A id \in Nat : Used(id)' <=> Used(id) \/ id = n
    PROVE  CompletionInv'
<1> USE DEF CompletionInv
<1>1. /\ UNCHANGED <<pending, sq, cq, polled, poller, dropped>> /\ stage[t] = "idle"
      /\ wr_id' = [wr_id EXCEPT ![t] = n] /\ channel' = [channel EXCEPT ![t] = Open]
      /\ stage' = [stage EXCEPT ![t] = "register"]
  BY Zenon DEF Begin, pollvars, leftover
<1>2. Pipe' = Pipe
  BY <1>1, Zenon DEF Pipe, Elts
<1>3. \A x \in Pipe : x.id \in Nat /\ x.id # n
  BY PipeTypes, Zenon DEF Fresh
<1>4. \A u \in Tasks : u # t => stage'[u] = stage[u] /\ wr_id'[u] = wr_id[u] /\ channel'[u] = channel[u]
  BY <1>1, Zenon DEF CTypeOK
<1>5. stage'[t] = "register" /\ wr_id'[t] = n /\ channel'[t] = Open
  BY <1>1, Zenon DEF CTypeOK
<1>6. CTypeOK'
  BY <1>1, Zenon DEF CTypeOK
<1>7. Queues'
  BY <1>1 DEF Queues, Distinct, ApartIn, Elts
<1>8. Fresh'
  <2>1. \A u \in Tasks : wr_id[u] \in Nat /\ wr_id'[u] \in Nat
    BY <1>6, Zenon DEF CTypeOK
  <2>2. (\A u \in Tasks : stage[u] # "idle" => Used(wr_id[u]))'
    BY <2>1, <1>4, <1>5, Zenon DEF Fresh, Used
  <2>3. \A u, v \in Tasks : stage'[u] # "idle" /\ stage'[v] # "idle" /\ wr_id'[u] = wr_id'[v] => u = v
    BY <2>1, <1>4, <1>5 DEF Fresh
  <2>4. (\A x \in Pipe : Used(x.id))'
    BY <1>2, <1>3, Zenon DEF Fresh, Used
  <2>5. (\A id \in DOMAIN pending : Used(id))'
    BY <1>1, Zenon DEF Fresh, CTypeOK, Used
  <2> QED
    BY <2>2, <2>3, <2>4, <2>5, Zenon DEF Fresh
<1>9. CallInv'
  <2>1. n \notin DOMAIN pending
    BY Zenon DEF Fresh
  <2>2. ~InPipe(n)
    BY <1>3, Zenon DEF InPipe
  <2>3. \A id : InPipe(id)' <=> InPipe(id)
    BY <1>2, Zenon DEF InPipe
  <2> QED
    BY <2>1, <2>2, <2>3, <1>1, <1>2, <1>4, <1>5, Channels DEF CallInv
<1>10. NoLeak'
  BY <1>1, <1>2, <1>4 DEF NoLeak, InPipe
<1>11. Held'
  <2>1. \A x \in Elts(sq) : x.owner \in Tasks
    BY PipeTypes, Zenon DEF Pipe
  <2> QED
    BY <2>1, <1>1, <1>4, SMTT(30) DEF Held, Elts
<1> QED
  BY <1>6, <1>7, <1>8, <1>9, <1>10, <1>11, Zenon

LEMMA StartKeeps ==
    ASSUME MaxId < BatchStart, CompletionInv, NEW t \in Tasks, StartOp(t) \/ StartBatch(t)
    PROVE  CompletionInv'
<1>1. next_wr_id \in Nat \ {0} /\ next_wr_id <= MaxId + 1 /\ batches \in Nat /\ BatchStart \in Nat /\ MaxId \in Nat
  BY CompletionAssumption, Zenon DEF CompletionInv, CTypeOK
<1>2. CASE StartOp(t)
  <2>1. Begin(t, next_wr_id) /\ next_wr_id' = next_wr_id + 1 /\ next_wr_id <= MaxId /\ batches' = batches
    BY <1>2, Zenon DEF StartOp
  <2>2. ~Used(next_wr_id) /\ \A id \in Nat : Used(id)' <=> Used(id) \/ id = next_wr_id
    BY <1>1, <2>1 DEF Used
  <2>3. next_wr_id' \in Nat \ {0} /\ next_wr_id' <= MaxId + 1 /\ next_wr_id \in Nat /\ batches' \in Nat
    BY <1>1, <2>1
  <2> QED
    BY <2>1, <2>2, <2>3, BeginKeeps, Zenon
<1>3. CASE StartBatch(t)
  <2>1. Begin(t, BatchStart + batches) /\ next_wr_id' = next_wr_id /\ batches' = batches + 1
    BY <1>3, Zenon DEF StartBatch
  <2>2. ~Used(BatchStart + batches) /\ \A id \in Nat : Used(id)' <=> Used(id) \/ id = BatchStart + batches
    BY <1>1, <2>1 DEF Used
  <2>3. BatchStart + batches \in Nat /\ batches' \in Nat
    BY <1>1, <2>1
  <2> QED
    BY <1>1, <2>1, <2>2, <2>3, BeginKeeps, Zenon
<1> QED
  BY <1>2, <1>3, Zenon

LEMMA RegisterKeeps ==
    ASSUME CompletionInv, NEW t \in Tasks, Register(t)
    PROVE  CompletionInv'
<1> USE DEF CompletionInv
<1> DEFINE id == wr_id[t]
<1>1. /\ UNCHANGED <<next_wr_id, batches, wr_id, dropped, sq, cq, polled, poller>>
      /\ stage[t] = "register" /\ stage' = [stage EXCEPT ![t] = "post"] /\ pending' = With(pending, id, t)
  BY Zenon DEF Register, counters, pollvars, leftover
<1>2. id \notin DOMAIN pending /\ id \in Nat /\ Used(id) /\ ~InPipe(id)
  BY <1>1, Zenon DEF CallInv, CTypeOK, Fresh
<1>3. channel' = channel
  <2>1. channel' = [u \in Tasks |-> channel[u]]
    BY <1>2, Zenon DEF Register, DropOther
  <2> QED
    BY <2>1, Zenon DEF CTypeOK
<1>4. /\ DOMAIN pending' = DOMAIN pending \cup {id} /\ pending'[id] = t
      /\ \A i \in DOMAIN pending : pending'[i] = pending[i]
  BY <1>1, <1>2, Zenon DEF With
<1>5. stage'[t] = "post" /\ \A u \in Tasks : u # t => stage'[u] = stage[u]
  BY <1>1, Zenon DEF CTypeOK
<1>6. \A u \in Tasks : u # t /\ stage[u] # "idle" => wr_id[u] # id
  BY <1>1, Zenon DEF Fresh
<1>7. Pipe' = Pipe /\ \A i : InPipe(i)' <=> InPipe(i)
  BY <1>1 DEF Pipe, Elts, InPipe
<1> HIDE DEF id
<1>8. CTypeOK'
  BY <1>1, <1>2, <1>3, <1>4, Zenon DEF CTypeOK
<1>9. Queues'
  BY <1>1 DEF Queues, Distinct, ApartIn, Elts
<1>10. Fresh'
  BY <1>1, <1>2, <1>4, <1>5, <1>7 DEF Fresh, Used
<1>11. CallInv'
  <2> SUFFICES ASSUME NEW u \in Tasks PROVE
        (/\ stage[u] # "wait" => channel[u] = Open
         /\ stage[u] = "register" => wr_id[u] \notin DOMAIN pending
         /\ stage[u] = "post" \/ (stage[u] = "wait" /\ channel[u] = Open) =>
                wr_id[u] \in DOMAIN pending /\ pending[wr_id[u]] = u
         /\ stage[u] \in {"register", "post"} \/ channel[u] # Open => ~InPipe(wr_id[u])
         /\ stage[u] = "wait" /\ channel[u] = Open => InPipe(wr_id[u])
         /\ stage[u] = "wait" => \A x \in Pipe : x.id = wr_id[u] => x.owner = u
         /\ \A wc \in channel[u].wc : wc.owner = u)'
    BY Zenon DEF CallInv
  <2>1. CASE u = t
    BY <2>1, <1>1, <1>2, <1>3, <1>4, <1>5, <1>7, Zenon DEF CallInv, id
  <2>2. CASE u # t
    BY <2>2, <1>1, <1>3, <1>4, <1>5, <1>6, <1>7, ZenonT(40) DEF CallInv
  <2> QED
    BY <2>1, <2>2, Zenon
<1>12. NoLeak'
  BY <1>1, <1>4, <1>5, <1>7, SMTT(30) DEF NoLeak, id
<1>13. Held'
  <2>1. \A x \in Elts(sq) : x.owner \in Tasks
    BY PipeTypes, Zenon DEF Pipe
  <2> QED
    BY <2>1, <1>1, <1>5, ZenonT(40) DEF Held, Elts
<1> QED
  BY <1>8, <1>9, <1>10, <1>11, <1>12, <1>13, Zenon

LEMMA PostKeeps ==
    ASSUME CompletionInv, NEW t \in Tasks, PostOk(t)
    PROVE  CompletionInv'
<1> USE DEF CompletionInv
<1> DEFINE r == [id |-> wr_id[t], owner |-> t]
<1>1. /\ UNCHANGED <<next_wr_id, batches, wr_id, dropped, pending, channel, cq, polled, poller>>
      /\ stage[t] = "post" /\ stage' = [stage EXCEPT ![t] = "wait"] /\ sq' = Append(sq, r)
  BY Zenon DEF PostOk, counters, pollvars, leftover
<1>2. /\ wr_id[t] \in Nat /\ Used(wr_id[t]) /\ ~InPipe(wr_id[t]) /\ channel[t] = Open
      /\ wr_id[t] \in DOMAIN pending /\ pending[wr_id[t]] = t
  BY <1>1, Zenon DEF CallInv, CTypeOK, Fresh
<1>3. r \in Reqs /\ r.id = wr_id[t] /\ r.owner = t
  BY <1>2, Zenon DEF Reqs
<1> HIDE DEF r
<1>4. \A x \in Pipe : x.id # r.id
  BY <1>2, <1>3, Zenon DEF InPipe
<1>5. sq' \in Seq(Reqs) /\ Elts(sq') = Elts(sq) \cup {r} /\ Distinct(sq')
  <2>1. sq \in Seq(Reqs) /\ Distinct(sq) /\ \A x \in Elts(sq) : x.id # r.id
    BY <1>4, Zenon DEF CTypeOK, Queues, Pipe
  <2>2. /\ Append(sq, r) \in Seq(Reqs) /\ Elts(Append(sq, r)) = Elts(sq) \cup {r}
        /\ Distinct(Append(sq, r))
    BY <2>1, <1>3, AppendElts, Zenon
  <2> QED
    BY <2>2, <1>1, Zenon
<1>6. Pipe' = Pipe \cup {r} /\ Elts(cq') = Elts(cq) /\ Elts(polled') = Elts(polled)
  BY <1>1, <1>5, Zenon DEF Pipe, Elts
<1>7. \A i : InPipe(i)' <=> InPipe(i) \/ i = wr_id[t]
  BY <1>3, <1>6, Zenon DEF InPipe
<1>8. stage'[t] = "wait" /\ \A u \in Tasks : u # t => stage'[u] = stage[u]
  BY <1>1, Zenon DEF CTypeOK
<1>9. \A u \in Tasks : u # t /\ stage[u] # "idle" => wr_id[u] # wr_id[t]
  BY <1>1, Zenon DEF Fresh
<1>10. CTypeOK'
  BY <1>1, <1>5, Zenon DEF CTypeOK
<1>11. Queues'
  BY <1>1, <1>4, <1>5, <1>6, SMTT(30) DEF Queues, Distinct, ApartIn, Pipe
<1>12. Fresh'
  BY <1>1, <1>2, <1>3, <1>6, <1>8, SMTT(30) DEF Fresh, Used
<1>13. CallInv'
  <2>1. \A u \in Tasks : channel[u] # Open => u # t /\ stage[u] = "wait"
    BY <1>2, Zenon DEF CallInv
  <2> QED
    BY <2>1, <1>1, <1>2, <1>3, <1>4, <1>6, <1>7, <1>8, <1>9, Channels, SMTT(30) DEF CallInv, InPipe
<1>14. NoLeak'
  BY <1>1, <1>7, <1>8, SMTT(30) DEF NoLeak
<1>15. Held'
  <2>1. \A x \in Elts(sq) : x.owner \in Tasks
    BY PipeTypes, Zenon DEF Pipe
  <2> QED
    BY <2>1, <1>1, <1>3, <1>5, <1>8, Zenon DEF Held
<1> QED
  BY <1>10, <1>11, <1>12, <1>13, <1>14, <1>15, Zenon

\* What ReturnCall does to the tasks.
LEMMA ReturnTasks ==
    ASSUME CTypeOK, NEW t \in Tasks, ReturnCall(t)
    PROVE  /\ stage' \in [Tasks -> {"idle", "register", "post", "wait"}] /\ wr_id' \in [Tasks -> Nat]
           /\ stage'[t] = "idle" /\ \A u \in Tasks : u # t => stage'[u] = stage[u] /\ wr_id'[u] = wr_id[u]
BY Zenon DEF CTypeOK, ReturnCall

LEMMA PostFailedKeeps ==
    ASSUME CompletionInv, NEW t \in Tasks, PostFailed(t)
    PROVE  CompletionInv'
<1> USE DEF CompletionInv
<1> DEFINE id == wr_id[t]
<1>1. /\ UNCHANGED <<next_wr_id, batches, dropped, sq, cq, polled, poller>>
      /\ stage[t] = "post" /\ pending' = Without(pending, {id}) /\ ReturnCall(t)
  BY Zenon DEF PostFailed, counters, pollvars
<1>2. id \in DOMAIN pending /\ pending[id] = t /\ channel[t] = Open
  BY <1>1, Zenon DEF CallInv
<1>3. channel' = channel
  <2>1. channel' = [u \in Tasks |-> channel[u]]
    BY <1>2, Zenon DEF PostFailed, DropOther
  <2> QED
    BY <2>1, Zenon DEF CTypeOK
<1>4. DOMAIN pending' = DOMAIN pending \ {id} /\ \A i \in DOMAIN pending' : pending'[i] = pending[i]
  BY <1>1, Zenon DEF Without
<1>5. \A u \in Tasks : u # t /\ stage[u] # "idle" => wr_id[u] # id
  BY <1>1, Zenon DEF Fresh
<1>6. Pipe' = Pipe /\ \A i : InPipe(i)' <=> InPipe(i)
  BY <1>1, SMTT(30) DEF Pipe, Elts, InPipe
<1> HIDE DEF id
<1>7. CTypeOK'
  BY <1>1, <1>3, <1>4, ReturnTasks, Zenon DEF CTypeOK
<1>8. Queues'
  BY <1>1 DEF Queues, Distinct, ApartIn, Elts
<1>9. Fresh'
  BY <1>1, <1>4, <1>6, ReturnTasks, SMTT(30) DEF Fresh, Used
<1>10. CallInv'
  <2>1. /\ stage'[t] = "idle"
        /\ \A u \in Tasks : u # t => stage'[u] = stage[u] /\ wr_id'[u] = wr_id[u]
    BY <1>1, ReturnTasks, Zenon
  <2>2. \A u \in Tasks : u # t /\ stage[u] # "idle" =>
            /\ wr_id[u] \in DOMAIN pending' <=> wr_id[u] \in DOMAIN pending
            /\ wr_id[u] \in DOMAIN pending => pending'[wr_id[u]] = pending[wr_id[u]]
    BY <1>4, <1>5, Zenon
  <2> QED
    BY <2>1, <2>2, <1>2, <1>3, <1>6, Channels, SMTT(30) DEF CallInv
<1>11. NoLeak'
  <2> SUFFICES ASSUME NEW i \in DOMAIN pending'
               PROVE  InPipe(i)' \/ \E u \in Tasks : stage'[u] = "post" /\ wr_id'[u] = i
    BY Zenon DEF NoLeak
  <2>1. i \in DOMAIN pending /\ i # id
    BY <1>4, Zenon
  <2>2. CASE InPipe(i)
    BY <2>2, <1>6, Zenon
  <2>3. ASSUME NEW u \in Tasks, stage[u] = "post", wr_id[u] = i
        PROVE  stage'[u] = "post" /\ wr_id'[u] = i
    BY <2>1, <2>3, <1>1, ReturnTasks, Zenon DEF id
  <2> QED
    BY <2>1, <2>2, <2>3, Zenon DEF NoLeak
<1>12. Held'
  <2>1. \A x \in Elts(sq) : x.owner \in Tasks
    BY PipeTypes, Zenon DEF Pipe
  <2> QED
    BY <2>1, <1>1, ReturnTasks, SMTT(30) DEF Held, Elts
<1> QED
  BY <1>7, <1>8, <1>9, <1>10, <1>11, <1>12, Zenon

LEMMA AwaitKeeps ==
    ASSUME CompletionInv, NEW t \in Tasks, Await(t) \/ Cancel(t)
    PROVE  CompletionInv'
<1> USE DEF CompletionInv
<1>1. /\ UNCHANGED <<next_wr_id, batches, pending, sq, cq, polled, poller>>
      /\ stage[t] = "wait" /\ ReturnCall(t) /\ dropped \subseteq dropped'
      /\ InPipe(wr_id[t]) => wr_id[t] \in dropped'
  BY Zenon DEF Await, Cancel, counters, pollvars, leftover, CallInv
<1>2. channel' = [channel EXCEPT ![t] = Open]
  BY Zenon DEF Await, Cancel, CTypeOK
<1>3. channel'[t] = Open /\ \A u \in Tasks : u # t => channel'[u] = channel[u]
  BY <1>2, SMTT(30) DEF CTypeOK
<1>4. Pipe' = Pipe /\ \A i : InPipe(i)' <=> InPipe(i)
  BY <1>1, SMTT(30) DEF Pipe, Elts, InPipe
<1>5. CTypeOK'
  BY <1>1, <1>2, ReturnTasks, Zenon DEF CTypeOK
<1>6. Queues'
  BY <1>1 DEF Queues, Distinct, ApartIn, Elts
<1>7. Fresh'
  <2>1. /\ stage'[t] = "idle"
        /\ \A u \in Tasks : u # t => stage'[u] = stage[u] /\ wr_id'[u] = wr_id[u]
    BY <1>1, ReturnTasks, Zenon
  <2> QED
    BY <2>1, <1>1, <1>4, Zenon DEF Fresh, Used
<1>8. CallInv'
  <2>1. /\ stage'[t] = "idle" /\ pending' = pending
        /\ \A u \in Tasks : u # t => stage'[u] = stage[u] /\ wr_id'[u] = wr_id[u]
    BY <1>1, ReturnTasks, Zenon
  <2> QED
    BY <2>1, <1>3, <1>4, Channels, SMTT(30) DEF CallInv
<1>9. NoLeak'
  <2>1. \A u \in Tasks : stage[u] = "post" => stage'[u] = "post" /\ wr_id'[u] = wr_id[u]
    BY <1>1, ReturnTasks, Zenon
  <2> QED
    BY <2>1, <1>1, <1>4, ZenonT(40) DEF NoLeak
<1>10. Held'
  <2>1. \A x \in Elts(sq) : x.owner \in Tasks /\ InPipe(x.id)
    BY PipeTypes, Zenon DEF Pipe, InPipe
  <2> QED
    BY <2>1, <1>1, ReturnTasks, SMTT(30) DEF Held, Elts
<1> QED
  BY <1>5, <1>6, <1>7, <1>8, <1>9, <1>10, Zenon

LEMMA CompleteKeeps ==
    ASSUME CompletionInv, Complete
    PROVE  CompletionInv'
<1> USE DEF CompletionInv
<1>1. PICK o \in Outcomes :
          cq' = Append(cq, [id |-> Head(sq).id, owner |-> Head(sq).owner, outcome |-> o])
  BY Zenon DEF Complete
<1> DEFINE h == Head(sq)
           w == [id |-> h.id, owner |-> h.owner, outcome |-> o]
<1>2. /\ UNCHANGED <<next_wr_id, batches, stage, wr_id, dropped, pending, channel, polled, poller>>
      /\ sq # <<>> /\ sq' = Tail(sq) /\ cq' = Append(cq, w)
  BY <1>1, Zenon DEF Complete, taskvars, counters, leftover, pollvars
<1>3. sq \in Seq(Reqs) /\ cq \in Seq(Wcs) /\ Distinct(sq) /\ Distinct(cq)
  BY Zenon DEF CTypeOK, Queues
<1>4. /\ h \in Reqs /\ h \in Elts(sq) /\ sq' \in Seq(Reqs) /\ Elts(sq) = Elts(sq') \cup {h}
      /\ (\A x \in Elts(sq') : x.id # h.id) /\ Distinct(sq')
  BY <1>2, <1>3, TailElts, Zenon
<1>5. w \in Wcs /\ w.id = h.id /\ w.owner = h.owner
  BY <1>4, CompletionAssumption, Zenon DEF Reqs, Wcs
<1> HIDE DEF h, w
<1>6. cq' \in Seq(Wcs) /\ Elts(cq') = Elts(cq) \cup {w} /\ Distinct(cq')
  <2>1. \A x \in Elts(cq) : x.id # w.id
    BY <1>4, <1>5, Zenon DEF Queues, ApartIn
  <2>2. Append(cq, w) \in Seq(Wcs) /\ Elts(Append(cq, w)) = Elts(cq) \cup {w} /\ Distinct(Append(cq, w))
    BY <2>1, <1>3, <1>5, AppendElts, Zenon
  <2> QED
    BY <2>2, <1>2, Zenon
<1>7. Elts(polled') = Elts(polled)
  BY <1>2, Zenon DEF Elts
<1>8. Pipe' \cup {h} = Pipe \cup {w} /\ w \in Pipe' /\ h \in Pipe
  BY <1>4, <1>6, <1>7, Zenon DEF Pipe
<1>9. \A i : InPipe(i)' <=> InPipe(i)
  BY <1>5, <1>8, Zenon DEF InPipe
<1>10. \A x \in Pipe' : \E y \in Pipe : x.id = y.id /\ x.owner = y.owner
  BY <1>5, <1>8, Zenon
<1>11. CTypeOK'
  BY <1>2, <1>4, <1>6, Zenon DEF CTypeOK
<1>12. Queues'
  BY <1>2, <1>4, <1>5, <1>6, <1>7, SMTT(30) DEF Queues, ApartIn, Distinct
<1>13. Fresh'
  BY <1>2, <1>10, Zenon DEF Fresh, Used
<1>14. CallInv'
  BY <1>2, <1>9, <1>10, SMTT(30) DEF CallInv
<1>15. NoLeak'
  BY <1>2, <1>9, Zenon DEF NoLeak
<1>16. Held'
  BY <1>2, <1>4, Zenon DEF Held
<1> QED
  BY <1>11, <1>12, <1>13, <1>14, <1>15, <1>16, Zenon

LEMMA PollKeeps ==
    ASSUME CompletionInv, PollerPoll
    PROVE  CompletionInv'
<1> USE DEF CompletionInv
<1> DEFINE n == PollCount
<1>1. /\ UNCHANGED <<next_wr_id, batches, stage, wr_id, dropped, pending, channel, sq>>
      /\ polled' = SubSeq(cq, 1, n) /\ cq' = SubSeq(cq, n + 1, Len(cq))
      /\ poller' = IF cq = <<>> THEN "check" ELSE "dispatch"
  BY Zenon DEF PollerPoll, taskvars, counters, leftover
<1>2. polled = <<>> /\ Elts(polled) = {}
  BY DEF PollerPoll, CTypeOK, Elts
<1>3. cq \in Seq(Wcs) /\ Distinct(cq) /\ n \in 0 .. Len(cq)
  BY CompletionAssumption DEF CTypeOK, Queues, PollCount
<1>4. cq = <<>> => polled' = <<>>
  <2> SUFFICES ASSUME cq = <<>> PROVE polled' = <<>>
    BY Zenon
  <2>1. n = 0
    BY <1>3
  <2> QED
    BY <2>1, <1>1
<1> HIDE DEF n
<1>5. /\ polled' \in Seq(Wcs) /\ cq' \in Seq(Wcs) /\ Elts(polled') \cup Elts(cq') = Elts(cq)
      /\ ApartIn(polled', cq') /\ Distinct(polled') /\ Distinct(cq')
  <2>1. LET pre == SubSeq(cq, 1, n)
            suf == SubSeq(cq, n + 1, Len(cq))
        IN  /\ pre \in Seq(Wcs) /\ suf \in Seq(Wcs) /\ Elts(pre) \cup Elts(suf) = Elts(cq)
            /\ ApartIn(pre, suf) /\ Distinct(pre) /\ Distinct(suf)
    BY <1>3, SplitElts, Zenon
  <2> QED
    BY <2>1, <1>1, Zenon
<1>6. Elts(sq') = Elts(sq)
  BY <1>1, Zenon DEF Elts
<1>7. Pipe' = Pipe /\ \A i : InPipe(i)' <=> InPipe(i)
  BY <1>2, <1>5, <1>6, Zenon DEF Pipe, InPipe
<1>8. CTypeOK'
  BY <1>1, <1>4, <1>5, Zenon DEF CTypeOK
<1>9. Queues'
  BY <1>1, <1>5, <1>6, SMTT(30) DEF Queues, ApartIn, Distinct
<1>10. Fresh'
  BY <1>1, <1>7, Zenon DEF Fresh, Used
<1>11. CallInv'
  BY <1>1, <1>7, Zenon DEF CallInv
<1>12. NoLeak'
  BY <1>1, <1>7, Zenon DEF NoLeak
<1>13. Held'
  BY <1>1, <1>6, Zenon DEF Held
<1> QED
  BY <1>8, <1>9, <1>10, <1>11, <1>12, <1>13, Zenon

\* What the poller delivers, and to whom.
LEMMA DeliveredIsOwn ==
    ASSUME CompletionInv, NEW t \in Tasks
    PROVE  /\ \A x \in Delivered(t, polled) :
                /\ x \in Elts(polled) /\ x \in Wcs /\ x.id = wr_id[t] /\ x.owner = t
                /\ stage[t] = "wait" /\ channel[t] = Open
           /\ stage[t] = "wait" /\ channel[t] = Open /\ (\E x \in Elts(polled) : x.id = wr_id[t])
                => Delivered(t, polled) # {}
<1> USE DEF CompletionInv
<1>1. Elts(polled) \subseteq Wcs /\ Elts(polled) \subseteq Pipe
  BY PipeTypes, Zenon DEF Pipe
<1>2. ASSUME NEW x \in Delivered(t, polled)
      PROVE  /\ x \in Elts(polled) /\ x \in Wcs /\ x.id = wr_id[t] /\ x.owner = t
             /\ stage[t] = "wait" /\ channel[t] = Open
  <2>1. x \in Elts(polled) /\ stage[t] \in {"post", "wait"} /\ wr_id[t] = x.id
    BY <1>2, Zenon DEF Delivered, Elts
  <2>2. InPipe(wr_id[t])
    BY <2>1, <1>1, Zenon DEF InPipe
  <2> QED
    BY <2>1, <2>2, <1>1, Zenon DEF CallInv
<1>3. ASSUME stage[t] = "wait", channel[t] = Open, NEW x \in Elts(polled), x.id = wr_id[t]
      PROVE  Delivered(t, polled) # {}
  <2>1. PICK j \in DOMAIN polled : x = polled[j]
    BY Zenon DEF Elts
  <2>2. polled[j].id \in DOMAIN pending /\ pending[polled[j].id] = t
    BY <2>1, <1>3, Zenon DEF CallInv
  <2>3. \A k \in 1 .. j - 1 : polled[k].id # polled[j].id
    <3>1. polled \in Seq(Wcs) /\ DOMAIN polled = 1 .. Len(polled) /\ Len(polled) \in Nat
      BY DEF CTypeOK
    <3>2. \A k \in 1 .. j - 1 : k \in DOMAIN polled /\ k # j
      BY <3>1
    <3> QED
      BY <3>2, Zenon DEF Queues, Distinct
  <2>4. polled[j] \in Delivered(t, polled)
    BY <2>1, <2>2, <2>3, <1>3, Zenon DEF Delivered
  <2> QED
    BY <2>4, Zenon
<1> QED
  BY <1>2, <1>3, Zenon

LEMMA DispatchKeeps ==
    ASSUME CompletionInv, PollerDispatch
    PROVE  CompletionInv'
<1> USE DEF CompletionInv
<1> DEFINE Got(i) == \E x \in Elts(polled) : x.id = i
<1>1. UNCHANGED <<next_wr_id, batches, stage, wr_id, dropped, sq, cq>> /\ polled' = <<>>
  BY Zenon DEF PollerDispatch, taskvars, counters, leftover
<1>2. /\ \A i : i \in DOMAIN pending' <=> i \in DOMAIN pending /\ ~Got(i)
      /\ \A i \in DOMAIN pending' : pending'[i] = pending[i]
  BY Zenon DEF PollerDispatch, Dispatch, Without, Elts
<1>3. channel' = [t \in Tasks |-> IF Delivered(t, polled) = {} THEN channel[t]
                                 ELSE Sent(CHOOSE wc \in Delivered(t, polled) : TRUE)]
  BY Zenon DEF PollerDispatch, Dispatch
<1>4. ASSUME NEW t \in Tasks
      PROVE  \/ /\ channel'[t] = channel[t]
                /\ ~(stage[t] = "wait" /\ channel[t] = Open /\ Got(wr_id[t]))
             \/ \E x \in Wcs : /\ channel'[t] = Sent(x) /\ x.owner = t
                               /\ stage[t] = "wait" /\ Got(wr_id[t])
  <2>1. CASE Delivered(t, polled) = {}
    BY <2>1, <1>3, DeliveredIsOwn, Zenon
  <2>2. CASE Delivered(t, polled) # {}
    <3> DEFINE x == CHOOSE wc \in Delivered(t, polled) : TRUE
    <3>1. x \in Delivered(t, polled)
      BY <2>2, Zenon
    <3>2. channel'[t] = Sent(x)
      BY <2>2, <1>3, Zenon
    <3> HIDE DEF x
    <3>3. x \in Elts(polled) /\ x \in Wcs /\ x.id = wr_id[t] /\ x.owner = t /\ stage[t] = "wait"
      BY <3>1, DeliveredIsOwn, Zenon
    <3> QED
      BY <3>2, <3>3, Zenon
  <2> QED
    BY <2>1, <2>2, Zenon
<1>5. Elts(polled') = {} /\ Elts(sq') = Elts(sq) /\ Elts(cq') = Elts(cq)
  BY <1>1, SMTT(30) DEF Elts
<1>6. Pipe' \subseteq Pipe
  BY <1>5, Zenon DEF Pipe
<1>7. \A i : InPipe(i)' <=> InPipe(i) /\ ~Got(i)
  <2>1. \A x \in Elts(polled), y \in Elts(sq) \cup Elts(cq) : x.id # y.id
    BY Zenon DEF Queues, ApartIn
  <2>2. Pipe' = Elts(sq) \cup Elts(cq) /\ Pipe = Elts(sq) \cup Elts(cq) \cup Elts(polled)
    BY <1>5, Zenon DEF Pipe
  <2> QED
    BY <2>1, <2>2, Zenon DEF InPipe
<1>8. \A i : Got(i) => InPipe(i)
  BY Zenon DEF InPipe, Pipe
<1> HIDE DEF Got
<1>9. CTypeOK'
  <2>1. channel' \in [Tasks -> {Open} \cup {Sent(wc) : wc \in Wcs}]
    <3> DEFINE C == {Open} \cup {Sent(wc) : wc \in Wcs}
    <3>1. \A t \in Tasks : channel[t] \in C
      BY Zenon DEF CTypeOK
    <3>2. ASSUME NEW t \in Tasks PROVE channel'[t] \in C
      BY <3>1, <1>4
    <3> HIDE DEF C
    <3>3. channel' = [t \in Tasks |-> channel'[t]]
      BY <1>3
    <3>4. channel' \in [Tasks -> C]
      BY <3>2, <3>3, Zenon
    <3> QED
      BY <3>4, Zenon DEF C
  <2>2. polled' \in Seq(Wcs)
    BY <1>1
  <2> QED
    BY <2>1, <2>2, <1>1, <1>2, Zenon DEF CTypeOK
<1>10. Queues'
  BY <1>1, <1>5 DEF Queues, ApartIn, Distinct
<1>11. Fresh'
  BY <1>1, <1>2, <1>6, SMTT(30) DEF Fresh, Used
<1>12. CallInv'
  <2> SUFFICES ASSUME NEW t \in Tasks PROVE
        (/\ stage[t] # "wait" => channel[t] = Open
         /\ stage[t] = "register" => wr_id[t] \notin DOMAIN pending
         /\ stage[t] = "post" \/ (stage[t] = "wait" /\ channel[t] = Open) =>
                wr_id[t] \in DOMAIN pending /\ pending[wr_id[t]] = t
         /\ stage[t] \in {"register", "post"} \/ channel[t] # Open => ~InPipe(wr_id[t])
         /\ stage[t] = "wait" /\ channel[t] = Open => InPipe(wr_id[t])
         /\ stage[t] = "wait" => \A x \in Pipe : x.id = wr_id[t] => x.owner = t
         /\ \A wc \in channel[t].wc : wc.owner = t)'
    BY Zenon DEF CallInv
  <2>1. CASE /\ channel'[t] = channel[t]
             /\ ~(stage[t] = "wait" /\ channel[t] = Open /\ Got(wr_id[t]))
    BY <2>1, <1>1, <1>2, <1>6, <1>7, <1>8, ZenonT(30) DEF CallInv
  <2>2. ASSUME NEW x \in Wcs, channel'[t] = Sent(x), x.owner = t, stage[t] = "wait", Got(wr_id[t])
        PROVE  /\ channel'[t] # Open /\ ~InPipe(wr_id[t])' /\ stage'[t] = "wait" /\ wr_id'[t] = wr_id[t]
               /\ \A wc \in channel'[t].wc : wc.owner = t
    <3>1. stage' = stage /\ wr_id' = wr_id
      BY <1>1, Zenon
    <3>2. ~InPipe(wr_id[t])'
      BY <2>2, <3>1, <1>7, Zenon
    <3>3. channel'[t] # Open /\ channel'[t].wc = {x}
      BY <2>2, Channels, Zenon
    <3> QED
      BY <2>2, <3>1, <3>2, <3>3, Zenon
  <2> QED
    BY <2>1, <2>2, <1>1, <1>4, <1>6, Zenon DEF CallInv
<1>13. NoLeak'
  BY <1>1, <1>2, <1>7, Zenon DEF NoLeak
<1>14. Held'
  BY <1>1, <1>5, Zenon DEF Held
<1> QED
  BY <1>9, <1>10, <1>11, <1>12, <1>13, <1>14, Zenon

LEMMA UntouchedKeeps ==
    ASSUME CompletionInv, UNCHANGED <<counters, stage, wr_id, dropped, pending, channel, sq, cq, polled>>,
           poller = "dispatch" => poller' = "dispatch"
    PROVE  CompletionInv'
<1> USE DEF CompletionInv, counters
<1>1. Pipe' = Pipe /\ Elts(sq') = Elts(sq) /\ \A i : InPipe(i)' <=> InPipe(i)
  BY ZenonT(40) DEF Pipe, Elts, InPipe
<1>2. CTypeOK'
  BY Zenon DEF CTypeOK
<1>3. Queues'
  <2>1. Queues /\ sq' = sq /\ cq' = cq /\ polled' = polled
    BY Zenon
  <2> QED
    BY <2>1, Zenon DEF Queues
<1>4. Fresh'
  BY <1>1, Zenon DEF Fresh, Used
<1>5. CallInv'
  BY <1>1, Zenon DEF CallInv
<1>6. NoLeak' /\ Held'
  BY <1>1, Zenon DEF NoLeak, Held
<1> QED
  BY <1>2, <1>3, <1>4, <1>5, <1>6, Zenon

LEMMA StepKeepsCompletion ==
    ASSUME MaxId < BatchStart, CompletionInv, [CompletionNext]_cvars
    PROVE  CompletionInv'
<1>1. CASE CompletionNext
  <2>1. CASE \E t \in Tasks : TaskStep(t) \/ Cancel(t)
    <3>1. PICK t \in Tasks : TaskStep(t) \/ Cancel(t)
      BY <2>1, Zenon
    <3>2. CASE StartOp(t) \/ StartBatch(t)
      BY <3>2, StartKeeps, Zenon
    <3>3. CASE Register(t)
      BY <3>3, RegisterKeeps, Zenon
    <3>4. CASE PostOk(t)
      BY <3>4, PostKeeps, Zenon
    <3>5. CASE PostFailed(t)
      BY <3>5, PostFailedKeeps, Zenon
    <3>6. CASE Await(t) \/ Cancel(t)
      BY <3>6, AwaitKeeps, Zenon
    <3> QED
      BY <3>1, <3>2, <3>3, <3>4, <3>5, <3>6, Zenon DEF TaskStep
  <2>2. CASE Complete
    BY <2>2, CompleteKeeps, Zenon
  <2>3. CASE PollerCheck \/ PollFails \/ Shutdown
    BY <2>3, UntouchedKeeps, Zenon DEF PollerCheck, PollFails, Shutdown, taskvars, leftover
  <2>6. CASE \E t \in Tasks : CompletePartial(t)
    BY <2>6, UntouchedKeeps, Zenon DEF CompletePartial, pollvars
  <2>4. CASE PollerPoll
    BY <2>4, PollKeeps, Zenon
  <2>5. CASE PollerDispatch
    BY <2>5, DispatchKeeps, Zenon
  <2> QED
    BY <1>1, <2>1, <2>2, <2>3, <2>4, <2>5, <2>6, Zenon DEF CompletionNext, PollerStep
<1>2. CASE UNCHANGED cvars
  BY <1>2, UntouchedKeeps, Zenon DEF cvars, taskvars, leftover, pollvars
<1> QED
  BY <1>1, <1>2, Zenon

LEMMA AlwaysCompletion ==
    ASSUME MaxId < BatchStart
    PROVE  CompletionSpec => []CompletionInv
BY InitCompletion, StepKeepsCompletion, PTL DEF CompletionSpec

LEMMA PipeSeqs ==
    \A x : x \in Pipe <=> \E s \in Seqs : \E i \in DOMAIN s : s[i] = x
BY Zenon DEF Pipe, Elts, Seqs

\* A task is woken by the completion of its own request and no other: ids of calls
\* that are not over are distinct, and none is reused while it is in the pipeline.
THEOREM CompletionAlwaysRight ==
    ASSUME MaxId < BatchStart
    PROVE  CompletionSpec => []RightCompletion
<1>1. CompletionInv => RightCompletion
  BY Zenon DEF CompletionInv, CallInv, RightCompletion
<1> QED
  BY <1>1, AlwaysCompletion, PTL

\* The request of a task that waits is under way and its sender is in the map.
THEOREM NeverStranded ==
    ASSUME MaxId < BatchStart
    PROVE  CompletionSpec => []NothingStranded
<1>1. ASSUME CompletionInv PROVE NothingStranded
  <2> SUFFICES ASSUME NEW t \in Tasks, stage[t] = "wait", channel[t] = Open
               PROVE  UnderWay(t) /\ wr_id[t] \in DOMAIN pending /\ pending[wr_id[t]] = t
    BY Zenon DEF NothingStranded
  <2>1. PICK x \in Pipe : x.id = wr_id[t]
    BY <1>1, Zenon DEF CompletionInv, CallInv, InPipe
  <2>2. x.owner = t
    BY <1>1, <2>1, Zenon DEF CompletionInv, CallInv
  <2>3. UnderWay(t)
    BY <2>1, <2>2, PipeSeqs, ZenonT(40) DEF UnderWay
  <2> QED
    BY <1>1, <2>3, Zenon DEF CompletionInv, CallInv
<1> QED
  BY <1>1, AlwaysCompletion, PTL

\* The map of senders holds none whose request is neither under way nor about to be.
THEOREM SendersNeverLeak ==
    ASSUME MaxId < BatchStart
    PROVE  CompletionSpec => []NoLeakedSender
<1>1. ASSUME CompletionInv PROVE NoLeakedSender
  <2> SUFFICES ASSUME NEW id \in DOMAIN pending
               PROVE  \/ \E s \in Seqs : \E i \in DOMAIN s : s[i].id = id
                      \/ \E t \in Tasks : stage[t] = "post" /\ wr_id[t] = id
    BY Zenon DEF NoLeakedSender
  <2>1. CASE InPipe(id)
    BY <2>1, PipeSeqs, Zenon DEF InPipe
  <2> QED
    BY <1>1, <2>1, Zenon DEF CompletionInv, NoLeak
<1> QED
  BY <1>1, AlwaysCompletion, PTL

\* The buffer of a signalled request is held by its waiting caller until the hardware has
\* completed it (post_and_wait, rdma_batch in ops.rs), or its future was dropped.
THEOREM BufferAlwaysHeld ==
    ASSUME MaxId < BatchStart
    PROVE  CompletionSpec => []BufferHeld
<1>1. CompletionInv => BufferHeld
  BY Zenon DEF CompletionInv, Held, BufferHeld, Elts
<1> QED
  BY <1>1, AlwaysCompletion, PTL

(***************************************************************************)
(* RemoteTable                                                             *)
(***************************************************************************)

Vals == [for : Keys \cup {NoKey}, v : Values \cup {"none"}]
Extents == [hdr : BOOLEAN, data : Vals, sum : Vals]
Bodies == [key : Keys \cup {NoKey}, val : Vals, off : Nat]
Calls == [key : Keys \cup {NoKey}, val : Vals, mode : {"inline", "extent"}]
Gets == [key : Keys \cup {NoKey}, mode : {"inline", "extent"}, val : Vals]
Inserting == {"read", "bump", "reserve", "header", "payload", "checksum", "claim", "write"}

RemoteTyped ==
    /\ body \in [Index -> Bodies] /\ bump \in Nat
    /\ extent \in [DOMAIN extent -> Extents]
    /\ pc \in [Clients -> Inserting \cup {"idle", "probe", "extent"}]
    /\ op \in [Clients -> Calls] /\ off \in [Clients -> Nat]
    /\ slot \in [Clients -> {"h1", "h2"}]
    /\ got \in [Clients -> SUBSET Gets]

\* Whatever the bump offset does: an insert carries a value of its own key.
Honest ==
    /\ RemoteTyped
    /\ \A c \in Clients : pc[c] \in Inserting => op[c].key \in Keys /\ op[c].val.for = op[c].key

\* A client between its reservation and its return works on the extent it reserved.
Owns(c) ==
    \/ pc[c] \in {"header", "payload", "checksum"}
    \/ pc[c] \in {"claim", "write"} /\ op[c].mode = "extent"

\* Space below the bump offset was given out once.
Space ==
    /\ \A r \in reserved : r.at \in Nat /\ r.at + ExtentTotal <= bump
    /\ ReservationsDisjoint
    /\ \A o \in DOMAIN extent : \E r \in reserved : r.at = o

\* Nobody else works on the extent a client works on, and no bucket points to it.
Alone ==
    \A c \in Clients : Owns(c) =>
        /\ \E r \in reserved : r.at = off[c]
        /\ \A d \in Clients : Owns(d) /\ off[d] = off[c] => d = c
        /\ \A i \in Index : HasHash(body[i]) /\ body[i].val = NoVal => body[i].off # off[c]
        /\ pc[c] = "header" <=> off[c] \notin DOMAIN extent

\* What the extent of a client holds, step by step.
Progress ==
    \A c \in Clients :
        Owns(c) /\ pc[c] # "header" =>
            /\ extent[off[c]].hdr
            /\ pc[c] # "payload" => extent[off[c]].data = op[c].val
            /\ pc[c] \in {"claim", "write"} => extent[off[c]].sum = op[c].val

\* A bucket that holds no value points to a finished extent.
Published ==
    \A i \in Index : HasHash(body[i]) /\ body[i].val = NoVal =>
        /\ body[i].off \in DOMAIN extent
        /\ extent[body[i].off].hdr
        /\ extent[body[i].off].data.for = body[i].key
        /\ extent[body[i].off].sum = extent[body[i].off].data

\* The header at offset 0, which overwrites the bump offset, is written before the
\* offset has passed the value the header reads as.
BelowMagic == 0 \notin DOMAIN extent => bump <= Magic

RemoteInv == Honest /\ Space /\ Alone /\ Progress /\ Published

\* An empty key is no key, and a value written for a key is not NoVal.
LEMMA NoKeyApart ==
    /\ NoKey \notin Keys /\ NoVal \in Vals
    /\ \A w \in Vals : w.for \in Keys => w # NoVal
BY RemoteAssumption DEF NoKey, NoVal, Vals

\* The buckets of a key, and of a client, are buckets of the table.
LEMMA PlaceIn ==
    ASSUME NEW k \in Keys \cup {NoKey}, NEW s PROVE Place(k, s) \in Index
<1>1. k.lo \in Nat /\ k.hi \in Nat
  BY RemoteAssumption DEF NoKey
<1>2. k.lo % BucketCount \in Index /\ k.hi % BucketCount \in Index
  BY <1>1, RemoteAssumption DEF Index
<1>3. ASSUME NEW i \in Index PROVE Odd(i) \in Index
  <2>1. BucketCount = 2 * (BucketCount \div 2) /\ i = 2 * (i \div 2) + (i % 2) /\ i % 2 \in {0, 1}
    BY RemoteAssumption DEF Index
  <2> QED
    BY <2>1, RemoteAssumption DEF Odd, Index
<1> QED
  BY <1>2, <1>3, Zenon DEF Place, H1, H2

LEMMA AddrIn ==
    ASSUME RemoteTyped, NEW c \in Clients PROVE Addr(c) \in Index
<1>1. op[c].key \in Keys \cup {NoKey}
  BY Zenon DEF RemoteTyped, Calls
<1> QED
  BY <1>1, PlaceIn, Zenon DEF Addr

LEMMA InitRemote == Init => RemoteInv
<1> SUFFICES ASSUME Init PROVE RemoteInv
    BY Zenon
<1>1. RemoteTyped
  BY NoKeyApart, Zenon DEF Init, RemoteTyped, Bodies, Calls, NoOp, Inserting
<1>2. \A i \in Index : body[i].val = NoVal /\ ~HasHash(body[i])
  BY DEF Init, HasHash, NoKey
<1>3. \A c \in Clients : ~Owns(c) /\ pc[c] \notin Inserting
  BY Zenon DEF Init, Owns, Inserting
<1>4. Space
  BY Zenon DEF Init, Space, ReservationsDisjoint
<1> QED
  BY <1>1, <1>2, <1>3, <1>4, Zenon DEF RemoteInv, Honest, Alone, Progress, Published

\* A call returns; it may have written its bucket.
LEMMA HonestReturn ==
    ASSUME Honest, NEW c \in Clients, Return(c), got' \in [Clients -> SUBSET Gets],
           extent' = extent, bump' \in Nat,
           \/ body' = body
           \/ \E b \in Bodies : body' = [body EXCEPT ![Addr(c)] = b]
    PROVE  Honest'
<1>1. NoOp \in Calls
  BY NoKeyApart, Zenon DEF NoOp, Calls
<1>2. body' \in [Index -> Bodies]
  BY AddrIn, Zenon DEF Honest, RemoteTyped
<1>3. pc'[c] = "idle" /\ \A d \in Clients \ {c} : pc'[d] = pc[d] /\ op'[d] = op[d]
  BY Zenon DEF Return, Goto, Honest, RemoteTyped
<1>4. RemoteTyped'
  BY <1>1, <1>2, Zenon DEF Honest, RemoteTyped, Return, Goto, Gets
<1> QED
  BY <1>2, <1>3, <1>4, Zenon DEF Honest, Inserting

\* A call goes on.
LEMMA HonestGoto ==
    ASSUME Honest, NEW c \in Clients, NEW l \in Inserting \cup {"probe", "extent"},
           Goto(c, l), l \in Inserting => pc[c] \in Inserting, op' = op, body' = body, got' = got,
           extent' \in [DOMAIN extent' -> Extents], bump' \in Nat,
           off' \in [Clients -> Nat], slot' \in [Clients -> {"h1", "h2"}]
    PROVE  Honest'
BY Zenon DEF Goto, Honest, RemoteTyped, Inserting

LEMMA HonestNextSlot ==
    ASSUME Honest, NEW c \in Clients, NextSlot(c), pc[c] \in Inserting,
           UNCHANGED <<body, bump, extent, got>>
    PROVE  Honest'
<1>1. CASE slot[c] # "h1"
  <2>1. Return(c)
    BY <1>1, Zenon DEF NextSlot
  <2> QED
    BY <2>1, HonestReturn, Zenon DEF Honest, RemoteTyped, Gets
<1>2. CASE slot[c] = "h1"
  <2>1. slot' = [slot EXCEPT ![c] = "h2"] /\ Goto(c, "read") /\ op' = op /\ off' = off
    BY <1>2, Zenon DEF NextSlot
  <2> QED
    BY <2>1, HonestGoto, Zenon DEF Honest, RemoteTyped, Inserting
<1> QED
  BY <1>1, <1>2, Zenon

\* A call begins.
LEMMA HonestCall ==
    ASSUME Honest, NEW c \in Clients, NEW o \in Calls, NEW l \in {"read", "probe"}, Goto(c, l),
           op' = [op EXCEPT ![c] = o], got' = [got EXCEPT ![c] = {}],
           l = "read" => o.key \in Keys /\ o.val.for = o.key,
           UNCHANGED <<body, bump, extent, slot, off>>
    PROVE  Honest'
BY Zenon DEF Goto, Honest, RemoteTyped, Inserting

LEMMA HonestInsert ==
    ASSUME Honest, NEW c \in Clients, InsertStep(c) PROVE Honest'
<1>1. CASE InsertRemote(c)
  <2>1. PICK k \in Keys, v \in Values, m \in Modes :
            op' = [op EXCEPT ![c] = [key |-> k, val |-> [for |-> k, v |-> v], mode |-> m]]
    BY <1>1, Zenon DEF InsertRemote
  <2> DEFINE o == [key |-> k, val |-> [for |-> k, v |-> v], mode |-> m]
  <2>2. o \in Calls /\ o.key \in Keys /\ o.val.for = o.key
    BY RemoteAssumption, Zenon DEF Calls, Vals
  <2>3. /\ Goto(c, "read") /\ op' = [op EXCEPT ![c] = o] /\ got' = [got EXCEPT ![c] = {}]
        /\ UNCHANGED <<body, bump, extent, slot, off>>
    BY <1>1, <2>1, Zenon DEF InsertRemote, table, space
  <2> HIDE DEF o
  <2> QED
    BY <2>2, <2>3, HonestCall, Zenon
<1>2. CASE ReadBucket(c)
  <2>1. pc[c] \in Inserting /\ UNCHANGED <<body, bump, extent, got>>
    BY <1>2, Zenon DEF ReadBucket, Inserting, table, space, history
  <2>2. CASE ~NextSlot(c)
    <3>1. /\ Goto(c, IF op[c].mode = "inline" THEN "claim" ELSE "bump")
          /\ UNCHANGED <<op, slot, off>>
      BY <1>2, <2>2, Zenon DEF ReadBucket
    <3> QED
      BY <2>1, <3>1, HonestGoto, Zenon DEF Honest, RemoteTyped, Inserting
  <2> QED
    BY <2>1, <2>2, HonestNextSlot, Zenon
<1>3. CASE ReadBump(c)
  <2>1. /\ Goto(c, "reserve") /\ off' = [off EXCEPT ![c] = bump] /\ pc[c] = "bump"
        /\ UNCHANGED <<op, slot, got, body, bump, extent>>
    BY <1>3, Zenon DEF ReadBump, table, space, history
  <2> QED
    BY <2>1, HonestGoto, Zenon DEF Honest, RemoteTyped, Inserting
<1>4. CASE CasBump(c)
  <2>1. UNCHANGED <<body, extent, got>> /\ bump' \in {bump, off[c] + ExtentTotal} /\ pc[c] = "reserve"
    BY <1>4, Zenon DEF CasBump, table
  <2>2. bump' \in Nat
    BY <2>1, RemoteAssumption DEF Honest, RemoteTyped
  <2>3. Return(c) \/ (Goto(c, "header") /\ UNCHANGED <<op, slot, off>>)
    BY <1>4, Zenon DEF CasBump
  <2>4. CASE Return(c)
    BY <2>1, <2>2, <2>4, HonestReturn, Zenon DEF Honest, RemoteTyped, Gets
  <2>5. CASE Goto(c, "header") /\ UNCHANGED <<op, slot, off>>
    BY <2>1, <2>2, <2>5, HonestGoto, Zenon DEF Honest, RemoteTyped, Inserting
  <2> QED
    BY <2>3, <2>4, <2>5, Zenon
<1>5. CASE WriteHeader(c) \/ WritePayload(c) \/ WriteChecksum(c)
  <2>1. \E e \in Extents : WriteExtent(off[c], e)
    <3>1. ExtentAt(off[c]) \in Extents /\ op[c].val \in Vals
      BY NoKeyApart, Zenon DEF Honest, RemoteTyped, ExtentAt, Extents, Calls
    <3>2. /\ [hdr |-> TRUE, data |-> ExtentAt(off[c]).data, sum |-> NoVal] \in Extents
          /\ [ExtentAt(off[c]) EXCEPT !.data = op[c].val] \in Extents
          /\ [ExtentAt(off[c]) EXCEPT !.sum = op[c].val] \in Extents
      BY <3>1, NoKeyApart, Zenon DEF Extents
    <3> QED
      BY <1>5, <3>2, Zenon DEF WriteHeader, WritePayload, WriteChecksum
  <2>2. extent' \in [DOMAIN extent' -> Extents]
    BY <2>1, Zenon DEF WriteExtent, Honest, RemoteTyped
  <2>3. /\ \E l \in {"payload", "checksum", "claim"} : Goto(c, l)
        /\ pc[c] \in Inserting /\ bump' \in {bump, Magic}
        /\ UNCHANGED <<op, slot, off, got, body>>
    BY <1>5, Zenon DEF WriteHeader, WritePayload, WriteChecksum, Inserting, table, history
  <2>4. bump' \in Nat
    BY <2>3, RemoteAssumption, Zenon DEF Honest, RemoteTyped
  <2> QED
    BY <2>2, <2>3, <2>4, HonestGoto, Zenon DEF Honest, RemoteTyped, Inserting
<1>6. CASE CasSlot(c)
  <2>1. pc[c] \in Inserting /\ UNCHANGED <<body, bump, extent, got>>
    BY <1>6, Zenon DEF CasSlot, Inserting, space, history
  <2>2. CASE ~NextSlot(c)
    <3>1. Goto(c, "write") /\ UNCHANGED <<op, slot, off>>
      BY <1>6, <2>2, Zenon DEF CasSlot
    <3> QED
      BY <2>1, <3>1, HonestGoto, Zenon DEF Honest, RemoteTyped, Inserting
  <2> QED
    BY <2>1, <2>2, HonestNextSlot, Zenon
<1>7. CASE WriteBucket(c)
  <2> DEFINE b == IF op[c].mode = "inline" THEN [key |-> op[c].key, val |-> op[c].val, off |-> 0]
                  ELSE [key |-> op[c].key, val |-> NoVal, off |-> off[c]]
  <2>1. /\ Return(c) /\ UNCHANGED <<bump, extent, got>> /\ body' = [body EXCEPT ![Addr(c)] = b]
        /\ pc[c] \in Inserting
    BY <1>7, Zenon DEF WriteBucket, space, Inserting
  <2>2. b \in Bodies
    BY <2>1, NoKeyApart, Zenon DEF Bodies, Calls, Honest, RemoteTyped
  <2> HIDE DEF b
  <2> QED
    BY <2>1, <2>2, HonestReturn, Zenon DEF Honest, RemoteTyped, Gets
<1>8. CASE Fail(c)
  BY <1>8, HonestReturn, Zenon DEF Fail, table, space, history, Honest, RemoteTyped, Gets
<1> QED
  BY <1>1, <1>2, <1>3, <1>4, <1>5, <1>6, <1>7, <1>8, Zenon DEF InsertStep

LEMMA AnswerTyped ==
    ASSUME Honest, NEW c \in Clients, NEW m \in {"inline", "extent"}, NEW w \in Vals, Answer(c, m, w)
    PROVE  got' \in [Clients -> SUBSET Gets]
<1>1. [key |-> op[c].key, mode |-> m, val |-> w] \in Gets
  BY Zenon DEF Honest, RemoteTyped, Calls, Gets
<1> QED
  BY <1>1, Zenon DEF Answer, Honest, RemoteTyped

LEMMA HonestGet ==
    ASSUME Honest, NEW c \in Clients, GetStep(c) PROVE Honest'
<1>1. CASE GetRemote(c)
  <2>1. PICK k \in Keys : op' = [op EXCEPT ![c] = [NoOp EXCEPT !.key = k]]
    BY <1>1, Zenon DEF GetRemote
  <2>2. [NoOp EXCEPT !.key = k] \in Calls
    BY NoKeyApart, Zenon DEF NoOp, Calls
  <2> QED
    BY <1>1, <2>1, <2>2, HonestCall, Zenon DEF GetRemote, table, space
<1>2. CASE Probe(c)
  <2>0. UNCHANGED <<body, bump, extent>> /\ Addr(c) \in Index
    BY <1>2, AddrIn, Zenon DEF Probe, table, space, Honest
  <2>1. CASE Return(c)
    <3>1. got' = got \/ Answer(c, "inline", body[Addr(c)].val)
      BY <1>2, <2>1, Zenon DEF Probe, ProbeHit
    <3>2. body[Addr(c)].val \in Vals
      BY <2>0, Zenon DEF Honest, RemoteTyped, Bodies
    <3>3. got' \in [Clients -> SUBSET Gets]
      BY <3>1, <3>2, AnswerTyped, Zenon DEF Honest, RemoteTyped
    <3> QED
      BY <2>0, <2>1, <3>3, HonestReturn, Zenon DEF Honest, RemoteTyped
  <2>2. CASE ~Return(c)
    <3>1. /\ UNCHANGED <<op, got>> /\ pc[c] = "probe"
          /\ \/ off' = [off EXCEPT ![c] = body[Addr(c)].off] /\ Goto(c, "extent") /\ slot' = slot
             \/ slot' = [slot EXCEPT ![c] = "h2"] /\ pc' = pc /\ off' = off
      BY <1>2, <2>2, Zenon DEF Probe, ProbeHit
    <3> QED
      BY <2>0, <3>1, ZenonT(40) DEF Honest, RemoteTyped, Bodies, Inserting, Goto
  <2> QED
    BY <2>1, <2>2, Zenon
<1>3. CASE ReadExtent(c)
  <2>1. PICK w \in LargeObject : Answer(c, "extent", w)
    BY <1>3, Zenon DEF ReadExtent
  <2>2. w \in Vals
    BY NoKeyApart, Zenon DEF LargeObject, Vals
  <2>4. got' \in [Clients -> SUBSET Gets]
    BY <2>1, <2>2, AnswerTyped, Zenon
  <2> QED
    BY <1>3, <2>4, HonestReturn, Zenon DEF ReadExtent, Honest, RemoteTyped, table, space
<1> QED
  BY <1>1, <1>2, <1>3, Zenon DEF GetStep

LEMMA HonestStep == Honest /\ [NextWithGets]_vars => Honest'
<1>1. ASSUME Honest, UNCHANGED <<body, space, local, got>> PROVE Honest'
  BY <1>1, Zenon DEF Honest, RemoteTyped, space, local
<1> QED
  BY <1>1, HonestInsert, HonestGet, Zenon DEF NextWithGets, Next, Delete, vars, table, history

-----------------------------------------------------------------------------
\* A step of client c leaves the others where they are.
Apart(c) ==
    \A d \in Clients \ {c} :
        pc'[d] = pc[d] /\ op'[d] = op[d] /\ off'[d] = off[d] /\ slot'[d] = slot[d]

LEMMA StepsApart ==
    ASSUME Honest, NEW c \in Clients, InsertStep(c) \/ GetStep(c) PROVE Apart(c)
<1>1. Return(c) => Apart(c)
  BY Zenon DEF Return, Goto, Apart, Honest, RemoteTyped
<1>2. ASSUME NEW l, Goto(c, l), op' = op \/ (\E o : op' = [op EXCEPT ![c] = o]),
             off' = off \/ (\E n : off' = [off EXCEPT ![c] = n]),
             slot' = slot \/ (\E x : slot' = [slot EXCEPT ![c] = x])
      PROVE  Apart(c)
  BY <1>2, Zenon DEF Goto, Apart, Honest, RemoteTyped
<1>3. NextSlot(c) => Apart(c)
  BY <1>1, <1>2, Zenon DEF NextSlot
<1>4. CASE InsertRemote(c) \/ GetRemote(c)
  BY <1>2, <1>4, Zenon DEF InsertRemote, GetRemote
<1>5. CASE ReadBucket(c) \/ CasSlot(c)
  BY <1>2, <1>3, <1>5, Zenon DEF ReadBucket, CasSlot
<1>6. CASE ReadBump(c) \/ CasBump(c)
  BY <1>1, <1>2, <1>6, Zenon DEF ReadBump, CasBump
<1>7. CASE WriteHeader(c) \/ WritePayload(c) \/ WriteChecksum(c)
  BY <1>2, <1>7, Zenon DEF WriteHeader, WritePayload, WriteChecksum
<1>8. CASE WriteBucket(c) \/ Fail(c) \/ ReadExtent(c)
  BY <1>1, <1>8, Zenon DEF WriteBucket, Fail, ReadExtent
<1>9. CASE Probe(c)
  <2>1. CASE UNCHANGED <<pc, op, off>> /\ slot' = [slot EXCEPT ![c] = "h2"]
    BY <2>1, Zenon DEF Apart, Honest, RemoteTyped
  <2> QED
    BY <1>1, <1>2, <1>9, <2>1, Zenon DEF Probe, ProbeHit
<1> QED
  BY <1>4, <1>5, <1>6, <1>7, <1>8, <1>9, Zenon DEF InsertStep, GetStep

\* A step of client c that leaves it without an extent and changes no shared state.
LEMMA LocalStep ==
    ASSUME RemoteInv, Honest', NEW c \in Clients, ~Owns(c)', Apart(c),
           UNCHANGED <<body, bump, extent, reserved>>
    PROVE  RemoteInv'
<1>1. \A d \in Clients : Owns(d)' => d # c /\ Owns(d) /\ pc'[d] = pc[d] /\ op'[d] = op[d] /\ off'[d] = off[d]
  BY Zenon DEF Owns, Apart
<1>2. Space'
  BY Zenon DEF RemoteInv, Space, ReservationsDisjoint
<1>3. Alone'
  BY <1>1, SMTT(30) DEF RemoteInv, Alone
<1>4. Progress'
  BY <1>1, SMTT(30) DEF RemoteInv, Progress
<1>5. Published'
  BY Zenon DEF RemoteInv, Published
<1> QED
  BY <1>2, <1>3, <1>4, <1>5, Zenon DEF RemoteInv

\* The steps that touch neither the table nor the extent space.
LEMMA LocalSteps ==
    ASSUME RemoteInv, Honest', NEW c \in Clients, Apart(c),
           \/ InsertRemote(c) \/ ReadBucket(c) \/ ReadBump(c) \/ Fail(c)
           \/ GetRemote(c) \/ Probe(c) \/ ReadExtent(c)
    PROVE  RemoteInv'
<1>0. UNCHANGED <<body, bump, extent, reserved>>
  BY Zenon DEF InsertRemote, ReadBucket, ReadBump, Fail, GetRemote, Probe, ReadExtent, table, space, history
<1>1. Return(c) => ~Owns(c)'
  BY Zenon DEF Return, Goto, Owns, RemoteInv, Honest, RemoteTyped
<1>2. ASSUME NEW l \in {"read", "bump", "reserve", "probe", "extent"}, Goto(c, l) PROVE ~Owns(c)'
  BY <1>2, Zenon DEF Goto, Owns, RemoteInv, Honest, RemoteTyped
<1>3. CASE ReadBucket(c)
  <2>1. NextSlot(c) => ~Owns(c)'
    BY <1>1, <1>2, Zenon DEF NextSlot
  <2>2. ASSUME Goto(c, "claim"), op[c].mode = "inline", op' = op PROVE ~Owns(c)'
    BY <2>2, Zenon DEF Goto, Owns, RemoteInv, Honest, RemoteTyped
  <2>3. \/ NextSlot(c) \/ Goto(c, "bump")
        \/ Goto(c, "claim") /\ op[c].mode = "inline" /\ op' = op
    BY <1>3, Zenon DEF ReadBucket
  <2>4. ~Owns(c)'
    BY <1>2, <2>1, <2>2, <2>3, Zenon
  <2> QED
    BY <1>0, <2>4, LocalStep, Zenon
<1>4. CASE Probe(c)
  <2>1. pc' = pc => ~Owns(c)'
    BY <1>4, Zenon DEF Probe, Owns
  <2>2. Return(c) \/ Goto(c, "extent") \/ pc' = pc
    BY <1>4, Zenon DEF Probe, ProbeHit
  <2> QED
    BY <1>0, <1>1, <1>2, <2>1, <2>2, LocalStep, Zenon
<1>5. CASE InsertRemote(c) \/ ReadBump(c) \/ GetRemote(c)
  <2>1. Goto(c, "read") \/ Goto(c, "reserve") \/ Goto(c, "probe")
    BY <1>5, Zenon DEF InsertRemote, ReadBump, GetRemote
  <2> QED
    BY <1>0, <1>2, <2>1, LocalStep, Zenon
<1>6. CASE Fail(c) \/ ReadExtent(c)
  <2>1. Return(c)
    BY <1>6, Zenon DEF Fail, ReadExtent
  <2> QED
    BY <1>0, <1>1, <2>1, LocalStep, Zenon
<1> QED
  BY <1>3, <1>4, <1>5, <1>6, Zenon

\* The bump offset is advanced over the space that c reserves.
LEMMA ReserveStep ==
    ASSUME RemoteInv, Honest', NEW c \in Clients, Apart(c), CasBump(c) PROVE RemoteInv'
<1>1. CASE bump # off[c]
  <2>1. Return(c) /\ UNCHANGED <<body, bump, extent, reserved>>
    BY <1>1, Zenon DEF CasBump, table
  <2>2. ~Owns(c)'
    BY <2>1, Zenon DEF Return, Goto, Owns, RemoteInv, Honest, RemoteTyped
  <2> QED
    BY <2>1, <2>2, LocalStep, Zenon
<1>2. CASE bump = off[c]
  <2>1. /\ pc[c] = "reserve" /\ bump' = off[c] + ExtentTotal
        /\ reserved' = reserved \cup {Reservation(c)}
        /\ pc' = [pc EXCEPT ![c] = "header"]
        /\ UNCHANGED <<op, off, body, extent>>
    BY <1>2, Zenon DEF CasBump, Goto, table
  <2>2. /\ Reservation(c).at = bump /\ bump' = bump + ExtentTotal /\ ExtentTotal \in Nat
        /\ ExtentTotal > 0 /\ bump \in Nat
    BY <1>2, <2>1, RemoteAssumption, Zenon DEF Reservation, RemoteInv, Honest, RemoteTyped
  <2>3. \A r \in reserved : r.at \in Nat /\ r.at + ExtentTotal <= bump
    BY Zenon DEF RemoteInv, Space
  <2>4. Space'
    BY <2>1, <2>2, <2>3 DEF RemoteInv, Space, ReservationsDisjoint
  <2>5. off[c] \notin DOMAIN extent /\ \A d \in Clients : Owns(d) => off[d] # off[c]
    BY <1>2, <2>2, <2>3, SMTT(30) DEF RemoteInv, Space, Alone
  <2>6. \A i \in Index : HasHash(body[i]) /\ body[i].val = NoVal => body[i].off # off[c]
    BY <2>5, Zenon DEF RemoteInv, Published
  <2>7. /\ pc'[c] = "header" /\ ~Owns(c)
        /\ \A d \in Clients \ {c} : pc'[d] = pc[d]
        /\ \A d \in Clients : Owns(d)' <=> d = c \/ Owns(d)
    BY <2>1, Zenon DEF RemoteInv, Honest, RemoteTyped, Owns
  <2>8. Alone'
    <3>1. /\ off' = off /\ body' = body /\ extent' = extent
          /\ reserved \subseteq reserved' /\ Reservation(c) \in reserved' /\ Reservation(c).at = off[c]
      BY <1>2, <2>1, <2>2, Zenon
    <3>2. ASSUME NEW d \in Clients, Owns(d)', d # c
          PROVE  /\ \E r \in reserved' : r.at = off[d]
                 /\ \A e \in Clients : Owns(e)' /\ off[e] = off[d] => e = d
                 /\ \A i \in Index : HasHash(body[i]) /\ body[i].val = NoVal => body[i].off # off[d]
                 /\ pc'[d] = "header" <=> off[d] \notin DOMAIN extent
      <4>1. Owns(d) /\ pc'[d] = pc[d]
        BY <2>7, <3>2, Zenon
      <4>2. \A e \in Clients : Owns(e)' /\ off[e] = off[d] => e = d
        BY <2>5, <2>7, <3>2, <4>1, Zenon DEF RemoteInv, Alone
      <4> QED
        BY <3>1, <4>1, <4>2, Zenon DEF RemoteInv, Alone
    <3>3. \A e \in Clients : Owns(e)' /\ off[e] = off[c] => e = c
      BY <2>5, <2>7, Zenon
    <3> QED
      BY <2>5, <2>6, <2>7, <3>1, <3>2, <3>3, Zenon DEF Alone, HasHash
  <2>9. Progress' /\ Published'
    BY <2>1, <2>7, ZenonT(40) DEF RemoteInv, Progress, Published, HasHash
  <2> QED
    BY <2>4, <2>8, <2>9, Zenon DEF RemoteInv
<1> QED
  BY <1>1, <1>2, Zenon

\* A client writes into the extent it owns.
LEMMA WriteStep ==
    ASSUME RemoteInv, Honest', NEW c \in Clients, pc[c] \in {"header", "payload", "checksum"},
           NEW e \in Extents, NEW l \in {"payload", "checksum", "claim"},
           WriteExtent(off[c], e), Goto(c, l), bump' \in Nat, bump' >= bump,
           UNCHANGED <<body, op, off, reserved>>,
           e.hdr, l # "payload" => e.data = op[c].val, l = "claim" => e.sum = op[c].val
    PROVE  RemoteInv'
<1> DEFINE o == off[c]
<1>1. /\ DOMAIN extent' = DOMAIN extent \cup {o} /\ extent'[o] = e
      /\ \A x \in DOMAIN extent \ {o} : extent'[x] = extent[x]
  BY Zenon DEF WriteExtent
<1>2. Owns(c) /\ pc'[c] = l /\ \A d \in Clients \ {c} : pc'[d] = pc[d]
  BY Zenon DEF RemoteInv, Honest, RemoteTyped, Goto, Owns
<1>3. \A d \in Clients : Owns(d)' => Owns(d)
  BY <1>2, Zenon DEF Owns
<1>4. /\ \A d \in Clients \ {c} : Owns(d) => off[d] # o
      /\ \E r \in reserved : r.at = o
      /\ \A i \in Index : HasHash(body[i]) /\ body[i].val = NoVal => body[i].off # o
  BY <1>2, Zenon DEF RemoteInv, Alone
<1>5. Space'
  <2>1. \A r \in reserved : r.at + ExtentTotal <= bump'
    BY RemoteAssumption, SMTT(30) DEF RemoteInv, Space, Honest, RemoteTyped
  <2> QED
    BY <1>1, <1>4, <2>1, Zenon DEF RemoteInv, Space, ReservationsDisjoint
<1>6. Alone'
  <2>1. ASSUME NEW d \in Clients, Owns(d)'
        PROVE  pc'[d] = "header" <=> off[d] \notin DOMAIN extent'
    BY <1>1, <1>2, <1>3, <1>4, <2>1, Zenon DEF RemoteInv, Alone
  <2> QED
    BY <1>3, <2>1, Zenon DEF RemoteInv, Alone, HasHash
<1>7. Progress'
  <2>1. ASSUME NEW d \in Clients, Owns(d)', pc'[d] # "header", d # c
        PROVE  /\ extent'[off[d]].hdr
               /\ pc'[d] # "payload" => extent'[off[d]].data = op[d].val
               /\ pc'[d] \in {"claim", "write"} => extent'[off[d]].sum = op[d].val
    <3>1. off[d] \in DOMAIN extent \ {o} /\ pc'[d] = pc[d] /\ Owns(d)
      BY <1>2, <1>3, <1>4, <2>1, ZenonT(40) DEF RemoteInv, Alone
    <3> QED
      BY <1>1, <2>1, <3>1, Zenon DEF RemoteInv, Progress
  <2> QED
    BY <1>1, <1>2, <2>1, Zenon DEF Progress
<1>8. Published'
  BY <1>1, <1>4, SMTT(30) DEF RemoteInv, Published, HasHash
<1> QED
  BY <1>5, <1>6, <1>7, <1>8, Zenon DEF RemoteInv

LEMMA ExtentSteps ==
    ASSUME RemoteInv, Honest', BelowMagic, NEW c \in Clients,
           WriteHeader(c) \/ WritePayload(c) \/ WriteChecksum(c)
    PROVE  RemoteInv'
<1> DEFINE x == ExtentAt(off[c])
<1>0. /\ x \in Extents /\ op[c].val \in Vals /\ bump \in Nat /\ NoVal \in Vals
      /\ UNCHANGED <<body, op, off, reserved>>
  BY NoKeyApart, Zenon DEF RemoteInv, Honest, RemoteTyped, ExtentAt, Extents, Calls, WriteHeader,
     WritePayload, WriteChecksum, table, history
<1>1. CASE WriteHeader(c)
  <2> DEFINE e == [hdr |-> TRUE, data |-> x.data, sum |-> NoVal]
  <2>1. e \in Extents /\ e.hdr
    BY <1>0, Zenon DEF Extents
  <2>2. /\ pc[c] = "header" /\ WriteExtent(off[c], e) /\ Goto(c, "payload")
        /\ bump' = (IF off[c] = 0 THEN Magic ELSE bump) /\ Magic \in Nat
    BY <1>1, RemoteAssumption, Zenon DEF WriteHeader
  <2>3. off[c] \notin DOMAIN extent
    BY <2>2, Zenon DEF RemoteInv, Alone, Owns
  <2>4. bump' \in Nat /\ bump' >= bump
    <3>1. off[c] = 0 => bump <= Magic
      BY <2>3, Zenon DEF BelowMagic
    <3>2. bump' = (IF off[c] = 0 THEN Magic ELSE bump) /\ bump \in Nat /\ Magic \in Nat
      BY <1>0, <2>2, Zenon
    <3> QED
      BY ONLY <3>1, <3>2, SMTT(20)
  <2> HIDE DEF e
  <2> QED
    BY <1>0, <2>1, <2>2, <2>4, WriteStep, Zenon
<1>2. CASE WritePayload(c)
  <2> DEFINE e == [x EXCEPT !.data = op[c].val]
  <2>1. pc[c] = "payload" /\ WriteExtent(off[c], e) /\ Goto(c, "checksum") /\ bump' = bump
    BY <1>2, Zenon DEF WritePayload
  <2>2. x = extent[off[c]] /\ extent[off[c]].hdr
    BY <2>1, Zenon DEF RemoteInv, Alone, Progress, ExtentAt, Owns
  <2>3. e \in Extents /\ e.hdr /\ e.data = op[c].val
    BY <1>0, <2>2, Zenon DEF Extents
  <2>4. bump' \in Nat /\ bump' >= bump
    BY <1>0, <2>1
  <2> HIDE DEF e
  <2> QED
    BY <1>0, <2>1, <2>3, <2>4, WriteStep, Zenon
<1>3. CASE WriteChecksum(c)
  <2> DEFINE e == [x EXCEPT !.sum = op[c].val]
  <2>1. pc[c] = "checksum" /\ WriteExtent(off[c], e) /\ Goto(c, "claim") /\ bump' = bump
    BY <1>3, Zenon DEF WriteChecksum
  <2>2. x = extent[off[c]] /\ extent[off[c]].hdr /\ extent[off[c]].data = op[c].val
    BY <2>1, Zenon DEF RemoteInv, Alone, Progress, ExtentAt, Owns
  <2>3. e \in Extents /\ e.hdr /\ e.data = op[c].val /\ e.sum = op[c].val
    BY <1>0, <2>2, Zenon DEF Extents
  <2>4. bump' \in Nat /\ bump' >= bump
    BY <1>0, <2>1
  <2> HIDE DEF e
  <2> QED
    BY <1>0, <2>1, <2>3, <2>4, WriteStep, Zenon
<1> QED
  BY <1>1, <1>2, <1>3, Zenon

\* A claimed word changes no bucket; the client keeps its extent.
LEMMA ClaimStep ==
    ASSUME RemoteInv, Honest', NEW c \in Clients, Apart(c), CasSlot(c) PROVE RemoteInv'
<1>0. pc[c] = "claim" /\ UNCHANGED <<body, bump, extent, reserved>>
  BY Zenon DEF CasSlot, space, history
<1>1. CASE NextSlot(c)
  <2>1. ~Owns(c)'
    BY <1>1, SMTT(30) DEF NextSlot, Return, Goto, Owns, RemoteInv, Honest, RemoteTyped
  <2> QED
    BY <1>0, <2>1, LocalStep, Zenon
<1>2. CASE ~NextSlot(c)
  <2>1. pc' = [pc EXCEPT ![c] = "write"] /\ UNCHANGED <<op, off>>
    BY <1>2, Zenon DEF CasSlot, Goto
  <2>2. pc'[c] = "write" /\ \A d \in Clients \ {c} : pc'[d] = pc[d]
    BY <2>1, Zenon DEF RemoteInv, Honest, RemoteTyped
  <2>3. \A d \in Clients : Owns(d)' <=> Owns(d)
    BY <1>0, <2>1, <2>2, Zenon DEF Owns
  <2>4. Space' /\ Published'
    BY <1>0, Zenon DEF RemoteInv, Space, ReservationsDisjoint, Published, HasHash
  <2>5. Alone'
    BY <1>0, <2>1, <2>2, <2>3, ZenonT(40) DEF RemoteInv, Alone, HasHash
  <2>6. Progress'
    BY <1>0, <2>1, <2>2, <2>3, Zenon DEF RemoteInv, Progress
  <2> QED
    BY <2>4, <2>5, <2>6, Zenon DEF RemoteInv
<1> QED
  BY <1>1, <1>2, Zenon

\* The bucket is written: it holds the value, or points to the extent that its writer
\* finished and now gives up.
LEMMA PublishStep ==
    ASSUME RemoteInv, Honest', NEW c \in Clients, Apart(c), WriteBucket(c) PROVE RemoteInv'
<1> DEFINE i == Addr(c)
           b == IF op[c].mode = "inline" THEN [key |-> op[c].key, val |-> op[c].val, off |-> 0]
                ELSE [key |-> op[c].key, val |-> NoVal, off |-> off[c]]
<1>0. /\ pc[c] = "write" /\ Return(c) /\ bump' = bump /\ extent' = extent /\ reserved' = reserved
      /\ body' = [body EXCEPT ![i] = b]
  BY Zenon DEF WriteBucket, space
<1>1. /\ op[c].key \in Keys /\ op[c].val \in Vals /\ op[c].val.for = op[c].key
      /\ op[c].mode \in {"inline", "extent"} /\ i \in Index
  BY <1>0, AddrIn, Zenon DEF RemoteInv, Honest, RemoteTyped, Inserting, Calls
<1>2. op[c].val # NoVal
  BY <1>1, NoKeyApart, Zenon
<1>3. b.key = op[c].key /\ (b.val = NoVal => b.off = off[c] /\ op[c].mode = "extent")
  BY <1>1, <1>2, Zenon
<1> HIDE DEF i, b
<1>4. body'[i] = b /\ \A j \in Index \ {i} : body'[j] = body[j]
  BY <1>0, <1>1, Zenon DEF RemoteInv, Honest, RemoteTyped
<1>5. ~Owns(c)'
  BY <1>0, Zenon DEF Return, Goto, Owns, RemoteInv, Honest, RemoteTyped
<1>6. \A d \in Clients : Owns(d)' => d # c /\ Owns(d) /\ pc'[d] = pc[d] /\ op'[d] = op[d] /\ off'[d] = off[d]
  BY <1>5, Zenon DEF Owns, Apart
<1>7. Space'
  BY <1>0, Zenon DEF RemoteInv, Space, ReservationsDisjoint
<1>8. b.val = NoVal => Owns(c) /\ off[c] \in DOMAIN extent
  BY <1>0, <1>3, Zenon DEF Owns, RemoteInv, Alone
<1>9. Alone'
  <2>1. ASSUME NEW d \in Clients, Owns(d)', NEW j \in Index, HasHash(body'[j]), body'[j].val = NoVal
        PROVE  body'[j].off # off'[d]
    <3>1. CASE j = i
      BY <1>3, <1>4, <1>6, <1>8, <2>1, <3>1, Zenon DEF RemoteInv, Alone
    <3>2. CASE j # i
      BY <1>4, <1>6, <2>1, <3>2, SMTT(30) DEF RemoteInv, Alone
    <3> QED
      BY <3>1, <3>2, Zenon
  <2>2. ASSUME NEW d \in Clients, Owns(d)'
        PROVE  /\ \E r \in reserved : r.at = off'[d]
               /\ \A x \in Clients : Owns(x)' /\ off'[x] = off'[d] => x = d
               /\ pc'[d] = "header" <=> off'[d] \notin DOMAIN extent
    BY <1>6, <2>2, ZenonT(40) DEF RemoteInv, Alone
  <2> QED
    BY <1>0, <2>1, <2>2, Zenon DEF Alone, HasHash
<1>10. Progress'
  BY <1>0, <1>6, SMTT(30) DEF RemoteInv, Progress
<1>11. Published'
  <2>1. ASSUME NEW j \in Index, j # i, HasHash(body'[j]), body'[j].val = NoVal
        PROVE  /\ body'[j].off \in DOMAIN extent
               /\ extent[body'[j].off].hdr
               /\ extent[body'[j].off].data.for = body'[j].key
               /\ extent[body'[j].off].sum = extent[body'[j].off].data
    BY <1>4, <2>1, Zenon DEF RemoteInv, Published
  <2>2. b.val = NoVal => /\ b.off \in DOMAIN extent /\ extent[b.off].hdr
                         /\ extent[b.off].data.for = b.key /\ extent[b.off].sum = extent[b.off].data
    BY <1>0, <1>1, <1>3, <1>8, Zenon DEF RemoteInv, Progress
  <2> QED
    BY <1>0, <1>4, <2>1, <2>2, ZenonT(40) DEF Published, HasHash
<1> QED
  BY <1>7, <1>9, <1>10, <1>11, Zenon DEF RemoteInv

LEMMA RemoteStep == RemoteInv /\ BelowMagic /\ [NextWithGets]_vars => RemoteInv'
<1> SUFFICES ASSUME RemoteInv, BelowMagic, [NextWithGets]_vars PROVE RemoteInv'
    BY Zenon
<1>0. Honest'
  BY HonestStep, Zenon DEF RemoteInv
<1>1. ASSUME UNCHANGED <<body, space, local, reserved>> PROVE RemoteInv'
  <2>1. Space' /\ Published'
    BY <1>1, Zenon DEF RemoteInv, Space, ReservationsDisjoint, Published, HasHash, space
  <2>2. \A c \in Clients : Owns(c)' <=> Owns(c)
    BY <1>1, Zenon DEF Owns, local
  <2>3. Alone' /\ Progress'
    BY <1>1, <2>2, Zenon DEF RemoteInv, Alone, Progress, HasHash, space, local
  <2> QED
    BY <1>0, <2>1, <2>3, Zenon DEF RemoteInv
<1>2. ASSUME NEW c \in Clients, InsertStep(c) \/ GetStep(c) PROVE RemoteInv'
  <2>1. Apart(c)
    BY <1>2, StepsApart, Zenon DEF RemoteInv
  <2> QED
    BY <1>0, <1>2, <2>1, LocalSteps, ReserveStep, ExtentSteps, ClaimStep, PublishStep, Zenon
    DEF InsertStep, GetStep
<1> QED
  BY <1>1, <1>2, Zenon DEF NextWithGets, Next, Delete, vars, table, history

\* However the READs, CASes and WRITEs of any number of remote inserts interleave and
\* wherever they fail, no byte of the extent space is reserved twice (write.rs,
\* try_insert_remote_at), as long as the header at offset 0 is written before the bump
\* offset has passed the value that header reads as.
THEOREM ReservationsAlwaysDisjoint == GetSpec /\ []BelowMagic => []ReservationsDisjoint
<1>1. RemoteInv => ReservationsDisjoint
  BY Zenon DEF RemoteInv, Space
<1> QED
  BY InitRemote, RemoteStep, <1>1, PTL DEF GetSpec

\* Every bucket that points to an extent points to a complete one, written for its key.
THEOREM PublishedAlwaysComplete == GetSpec /\ []BelowMagic => []PublishedComplete
<1>1. RemoteInv => PublishedComplete
  BY Zenon DEF RemoteInv, Published, PublishedComplete, ExtentAt, HeaderAt
<1> QED
  BY InitRemote, RemoteStep, <1>1, PTL DEF GetSpec

-----------------------------------------------------------------------------
\* What is due to the get of client c: its key still rests where it was, and the get has
\* not passed that bucket.
Owed(c, d) ==
    /\ op[c].key \in Keys
    /\ Resting(op[c].key, Place(op[c].key, d.at))
    /\ word[Place(op[c].key, d.at)].mode = d.mode
    /\ body[Place(op[c].key, d.at)].val = d.val
    /\ slot[c] = "h2" => d.at = "h2"

Answered(c, d) == \E g \in got[c] : d.at = "h1" /\ d.mode = "inline" => g.val = d.val

Followed(c) ==
    \A d \in due[c] :
        /\ d.at \in {"h1", "h2"} /\ pc[c] \in {"idle", "probe", "extent"}
        /\ pc[c] = "probe" => Owed(c, d)
        /\ pc[c] = "extent" => ~(d.at = "h1" /\ d.mode = "inline")
        /\ pc[c] = "idle" => Answered(c, d)

ReadInv ==
    /\ Honest
    /\ DOMAIN word = Index /\ DOMAIN due = Clients
    /\ \A c \in Clients : (pc[c] = "idle" => slot[c] = "h1") /\ Followed(c)

\* The client that moves does not turn to a bucket where a key rests.
LEMMA KeepsOff ==
    ASSUME Honest, NEW c \in Clients, InsertStep(c) \/ GetStep(c),
           NEW k \in Keys, NEW i \in Index, Resting(k, i), pc'[c] \in Working
    PROVE  Addr(c)' # i
<1>1. Return(c) => FALSE
  BY Zenon DEF Return, Goto, Working, Honest, RemoteTyped
<1>2. ASSUME NEW l, l \notin Working, Goto(c, l) PROVE FALSE
  BY <1>2, Zenon DEF Goto, Honest, RemoteTyped
<1>3. "read" \notin Working /\ "probe" \notin Working /\ "extent" \notin Working
  BY Zenon DEF Working
<1>4. NextSlot(c) => FALSE
  BY <1>1, <1>2, <1>3, Zenon DEF NextSlot
<1>5. UNCHANGED <<op, slot>> => Addr(c)' = Addr(c)
  BY Zenon DEF Addr, Place, H1, H2
<1>6. CASE pc[c] \in Working
  <2>1. Addr(c) # i
    BY <1>6, Zenon DEF Resting
  <2>2. UNCHANGED <<op, slot>>
    BY <1>1, <1>4, <1>6, Zenon DEF InsertStep, GetStep, InsertRemote, ReadBucket, ReadBump, CasBump,
       WriteHeader, WritePayload, WriteChecksum, CasSlot, WriteBucket, Fail, GetRemote, Probe,
       ReadExtent, Working
  <2> QED
    BY <1>5, <2>1, <2>2, Zenon
<1>7. CASE ReadBucket(c)
  <2>1. IsEmpty(Addr(c)) \/ word[Addr(c)].tomb
    BY <1>4, <1>7, Zenon DEF ReadBucket
  <2>2. UNCHANGED <<op, slot>>
    BY <1>4, <1>7, Zenon DEF ReadBucket
  <2>3. HasHash(body[i])
    BY RemoteAssumption DEF Resting, HasHash
  <2>4. Addr(c) # i
    BY <2>1, <2>3, Zenon DEF Resting, IsEmpty
  <2> QED
    BY <1>5, <2>2, <2>4, Zenon
<1>8. CASE pc[c] \notin Working /\ ~ReadBucket(c)
  <2>1. pc[c] \in {"idle", "read", "probe", "extent"}
    BY <1>8, Zenon DEF Honest, RemoteTyped, Inserting, Working
  <2>2. InsertRemote(c) \/ Fail(c) \/ GetRemote(c) \/ Probe(c) \/ ReadExtent(c)
    BY <1>8, Zenon DEF InsertStep, GetStep, ReadBump, CasBump, WriteHeader, WritePayload,
       WriteChecksum, CasSlot, WriteBucket, Working
  <2>3. CASE Probe(c)
    BY <1>1, <1>2, <1>3, <1>8, <2>3, Zenon DEF Probe, ProbeHit
  <2> QED
    BY <1>1, <1>2, <1>3, <2>2, <2>3, Zenon DEF InsertRemote, Fail, GetRemote, ReadExtent
<1> QED
  BY <1>6, <1>7, <1>8, Zenon

\* A key at rest stays, with its bucket as it is, until it is deleted.
LEMMA RestingStays ==
    ASSUME Honest, DOMAIN word = Index, NEW c \in Clients, InsertStep(c) \/ GetStep(c),
           NEW k \in Keys, NEW i \in Index, Resting(k, i)
    PROVE  Resting(k, i)' /\ word'[i] = word[i] /\ body'[i] = body[i]
<1>1. word'[i] = word[i] /\ body'[i] = body[i]
  <2>1. CASE CasSlot(c) \/ WriteBucket(c)
    <3>1. Addr(c) # i
      BY <2>1, Zenon DEF CasSlot, WriteBucket, Resting, Working
    <3>2. \/ word' = word \/ \E w : word' = [word EXCEPT ![Addr(c)] = w]
      BY <2>1, Zenon DEF CasSlot, WriteBucket
    <3>3. \/ body' = body \/ \E b : body' = [body EXCEPT ![Addr(c)] = b]
      BY <2>1, Zenon DEF CasSlot, WriteBucket
    <3> QED
      BY <3>1, <3>2, <3>3, Zenon DEF Honest, RemoteTyped
  <2>2. CASE UNCHANGED table
    BY <2>2, Zenon DEF table
  <2> QED
    BY <2>1, <2>2, Zenon DEF InsertStep, GetStep, InsertRemote, ReadBucket, ReadBump, CasBump, WriteHeader,
       WritePayload, WriteChecksum, Fail, GetRemote, Probe, ReadExtent
<1>2. Addr(c)' # i \/ pc'[c] \notin Working
  BY KeepsOff, Zenon
<1>3. ASSUME NEW d \in Clients \ {c} PROVE pc'[d] = pc[d] /\ Addr(d)' = Addr(d)
  BY <1>3, StepsApart, Zenon DEF Apart, Addr, Place, H1, H2
<1> QED
  BY <1>1, <1>2, <1>3, Zenon DEF Resting

LEMMA InitRead == Init => ReadInv
<1> SUFFICES ASSUME Init PROVE ReadInv
    BY Zenon
<1>1. Honest
  BY InitRemote, Zenon DEF RemoteInv
<1>2. DOMAIN word = Index /\ due = [c \in Clients |-> {}] /\ slot = [c \in Clients |-> "h1"]
  BY Zenon DEF Init
<1> QED
  BY <1>1, <1>2, Zenon DEF ReadInv, Followed

\* What the get of another client is due stays due.
LEMMA OthersFollowed ==
    ASSUME ReadInv, NEW c \in Clients, InsertStep(c) \/ GetStep(c), NEW d \in Clients \ {c}
    PROVE  Followed(d)' /\ (pc'[d] = "idle" => slot'[d] = "h1")
<1>1. pc'[d] = pc[d] /\ op'[d] = op[d] /\ slot'[d] = slot[d]
  BY StepsApart, Zenon DEF Apart, ReadInv
<1>2. due'[d] = due[d]
  <2>1. due' = due \/ \E x : due' = [due EXCEPT ![c] = x]
    BY Zenon DEF InsertStep, GetStep, InsertRemote, ReadBucket, ReadBump, CasBump, WriteHeader,
       WritePayload, WriteChecksum, CasSlot, WriteBucket, Fail, GetRemote, Probe, ReadExtent, history
  <2> QED
    BY <2>1, Zenon DEF ReadInv
<1>3. got'[d] = got[d]
  <2>1. got' = got \/ \E x : got' = [got EXCEPT ![c] = x]
    BY Zenon DEF InsertStep, GetStep, InsertRemote, ReadBucket, ReadBump, CasBump, WriteHeader,
       WritePayload, WriteChecksum, CasSlot, WriteBucket, Fail, GetRemote, Probe, ProbeHit, ReadExtent,
       Answer, history
  <2> QED
    BY <2>1, Zenon DEF ReadInv, Honest, RemoteTyped
<1>4. ASSUME NEW x \in due[d], Owed(d, x) PROVE Owed(d, x)'
  <2> DEFINE k == op[d].key
             i == Place(k, x.at)
  <2>1. k \in Keys /\ i \in Index /\ Resting(k, i)
    BY <1>4, PlaceIn, Zenon DEF Owed
  <2>2. Resting(k, i)' /\ word'[i] = word[i] /\ body'[i] = body[i]
    <3>1. op'[d] = op[d]
      BY <1>1
    <3>2. PICK kk \in Keys, ii \in Index : kk = k /\ ii = i
      BY <2>1, Zenon
    <3>3. Resting(kk, ii)' /\ word'[ii] = word[ii] /\ body'[ii] = body[ii]
      BY <2>1, <3>2, RestingStays, Zenon DEF ReadInv
    <3> QED
      BY <3>1, <3>2, <3>3, Zenon DEF Place, H1, H2, Resting
  <2> QED
    BY <1>1, <1>4, <2>2, Zenon DEF Owed, Place, H1, H2
<1> QED
  BY <1>1, <1>2, <1>3, <1>4, Zenon DEF ReadInv, Followed, Answered

\* A get begins: what is due is what rests now, and the get starts at the first bucket.
LEMMA GetBegins ==
    ASSUME ReadInv, NEW c \in Clients, GetRemote(c)
    PROVE  Followed(c)' /\ (pc'[c] = "idle" => slot'[c] = "h1")
<1> DEFINE Due(k) == {[at |-> s, mode |-> word[Place(k, s)].mode, val |-> body[Place(k, s)].val] :
                        s \in {s \in {"h1", "h2"} : Resting(k, Place(k, s))}}
<1>1. PICK k \in Keys :
          op' = [op EXCEPT ![c] = [NoOp EXCEPT !.key = k]] /\ due' = [due EXCEPT ![c] = Due(k)]
  BY Zenon DEF GetRemote
<1>2. due'[c] = Due(k)
  BY <1>1, Zenon DEF ReadInv
<1>3. op'[c].key = k /\ pc'[c] = "probe" /\ slot'[c] = "h1"
  <2>1. op'[c] = [NoOp EXCEPT !.key = k]
    BY <1>1, Zenon DEF ReadInv, Honest, RemoteTyped
  <2>2. op'[c].key = k
    BY <2>1, Zenon DEF NoOp
  <2> QED
    BY <2>2, Zenon DEF GetRemote, Goto, ReadInv, Honest, RemoteTyped
<1>4. ASSUME NEW d \in due'[c] PROVE d.at \in {"h1", "h2"} /\ Owed(c, d)'
  <2>1. PICK s \in {"h1", "h2"} :
            /\ Resting(k, Place(k, s))
            /\ d = [at |-> s, mode |-> word[Place(k, s)].mode, val |-> body[Place(k, s)].val]
    BY <1>2, <1>4, Zenon
  <2>2. d.at = s /\ d.mode = word[Place(k, s)].mode /\ d.val = body[Place(k, s)].val
    BY <2>1
  <2>3. PICK i \in Index : i = Place(k, s)
    BY PlaceIn, Zenon
  <2>4. Resting(k, i)' /\ word'[i] = word[i] /\ body'[i] = body[i]
    BY <2>1, <2>3, RestingStays, Zenon DEF ReadInv, GetStep
  <2>5. Place(k, s)' = i
    BY <2>3, Zenon DEF Place, H1, H2
  <2> QED
    BY <1>3, <2>2, <2>3, <2>4, <2>5, Zenon DEF Owed, Place, H1, H2, Resting
<1> QED
  BY <1>3, <1>4, Zenon DEF Followed

\* A get probes a bucket: where its key rests it hits.
LEMMA GetProbes ==
    ASSUME ReadInv, NEW c \in Clients, Probe(c)
    PROVE  Followed(c)' /\ (pc'[c] = "idle" => slot'[c] = "h1")
<1>0. pc[c] = "probe" /\ due' = due /\ slot[c] \in {"h1", "h2"} /\ UNCHANGED table
  BY Zenon DEF Probe, ReadInv, Honest, RemoteTyped
<1>1. \A d \in due[c] : d.at \in {"h1", "h2"} /\ Owed(c, d)
  BY <1>0, Zenon DEF ReadInv, Followed
<1>2. \A d \in due[c] : d.at = slot[c] =>
          Hits(c) /\ word[Addr(c)].mode = d.mode /\ body[Addr(c)].val = d.val
  <2>1. ASSUME NEW d \in due[c], d.at = slot[c]
        PROVE  Hits(c) /\ word[Addr(c)].mode = d.mode /\ body[Addr(c)].val = d.val
    <3>1. Place(op[c].key, d.at) = Addr(c)
      BY <2>1, Zenon DEF Addr
    <3>2. Resting(op[c].key, Addr(c)) /\ word[Addr(c)].mode = d.mode /\ body[Addr(c)].val = d.val
      BY <1>1, <3>1, Zenon DEF Owed
    <3> QED
      BY <3>2, Zenon DEF Hits, MatchesKey, Resting
  <2> QED
    BY <2>1, Zenon
<1>3. \A d \in due[c] : slot[c] = "h2" => d.at = "h2"
  BY <1>1, Zenon DEF Owed
<1>4. Return(c) => pc'[c] = "idle" /\ slot'[c] = "h1"
  BY Zenon DEF Return, Goto, ReadInv, Honest, RemoteTyped
<1>5. CASE Hits(c) /\ word[Addr(c)].mode = "inline"
  <2> DEFINE g == [key |-> op[c].key, mode |-> "inline", val |-> body[Addr(c)].val]
  <2>1. Return(c) /\ got' = [got EXCEPT ![c] = {g}]
    BY <1>5, Zenon DEF Probe, ProbeHit, Answer
  <2>2. g \in got'[c] /\ g.val = body[Addr(c)].val
    BY <2>1, Zenon DEF ReadInv, Honest, RemoteTyped
  <2> HIDE DEF g
  <2>3. \A d \in due[c] : d.at = "h1" => g.val = d.val
    BY <1>0, <1>2, <1>3, <2>2, Zenon
  <2>4. \A d \in due'[c] : Answered(c, d)'
    BY <1>0, <2>2, <2>3, Zenon DEF Answered
  <2> QED
    BY <1>0, <1>1, <1>4, <2>1, <2>4, Zenon DEF Followed
<1>6. CASE Hits(c) /\ word[Addr(c)].mode # "inline"
  <2>1. pc'[c] = "extent"
    BY <1>6, Zenon DEF Probe, ProbeHit, Goto, ReadInv, Honest, RemoteTyped
  <2>2. \A d \in due[c] : ~(d.at = "h1" /\ d.mode = "inline")
    BY <1>0, <1>2, <1>3, <1>6, Zenon
  <2> QED
    BY <1>0, <1>1, <2>1, <2>2, Zenon DEF Followed
<1>7. CASE ~Hits(c) /\ slot[c] = "h1"
  <2>1. /\ slot' = [slot EXCEPT ![c] = "h2"] /\ UNCHANGED <<pc, op>>
    BY <1>7, Zenon DEF Probe
  <2>2. ASSUME NEW d \in due[c] PROVE Owed(c, d)'
    <3>1. d.at = "h2"
      BY <1>1, <1>2, <1>7, Zenon
    <3>2. PICK k \in Keys, i \in Index :
              k = op[c].key /\ i = Place(op[c].key, d.at) /\ Resting(k, i)
      BY <1>1, PlaceIn, Zenon DEF Owed
    <3>3. Resting(k, i)'
      BY <3>2, RestingStays, Zenon DEF ReadInv, GetStep
    <3> QED
      BY <1>0, <1>1, <2>1, <3>1, <3>2, <3>3, Zenon DEF Owed, Place, H1, H2, Resting, table
  <2> QED
    BY <1>0, <1>1, <2>1, <2>2, Zenon DEF Followed
<1>8. CASE ~Hits(c) /\ slot[c] = "h2"
  <2>1. due[c] = {}
    BY <1>2, <1>3, <1>8, Zenon
  <2>2. Return(c)
    BY <1>8 DEF Probe
  <2> QED
    BY <1>0, <1>4, <2>1, <2>2, Zenon DEF Followed
<1> QED
  BY <1>0, <1>5, <1>6, <1>7, <1>8, Zenon

LEMMA ReadClient ==
    ASSUME ReadInv, NEW c \in Clients, InsertStep(c) \/ GetStep(c)
    PROVE  Followed(c)' /\ (pc'[c] = "idle" => slot'[c] = "h1")
<1>1. Return(c) => pc'[c] = "idle" /\ slot'[c] = "h1"
  BY Zenon DEF Return, Goto, ReadInv, Honest, RemoteTyped
<1>2. ASSUME NEW l, l # "idle", Goto(c, l) PROVE pc'[c] # "idle"
  BY <1>2, Zenon DEF Goto, ReadInv, Honest, RemoteTyped
<1>3. CASE InsertRemote(c) \/ Fail(c)
  <2>1. due'[c] = {}
    BY <1>3, Zenon DEF InsertRemote, Fail, ReadInv
  <2> QED
    BY <1>1, <1>2, <1>3, <2>1, Zenon DEF Followed, InsertRemote, Fail
<1>4. CASE GetRemote(c)
  BY <1>4, GetBegins, Zenon
<1>5. CASE Probe(c)
  BY <1>5, GetProbes, Zenon
<1>6. CASE ReadExtent(c)
  <2>1. /\ pc[c] = "extent" /\ Return(c) /\ due' = due
        /\ \E g : got' = [got EXCEPT ![c] = {g}]
    BY <1>6, Zenon DEF ReadExtent, Answer
  <2>2. \E g : g \in got'[c]
    BY <2>1, Zenon DEF ReadInv, Honest, RemoteTyped
  <2>3. \A d \in due'[c] : d.at \in {"h1", "h2"} /\ Answered(c, d)'
    BY <2>1, <2>2, Zenon DEF ReadInv, Followed, Answered
  <2> QED
    BY <1>1, <2>1, <2>3, Zenon DEF Followed
<1>7. CASE pc[c] \in Inserting /\ ~Fail(c)
  <2>1. due'[c] = {}
    <3>1. due[c] = {}
      BY <1>7, Zenon DEF ReadInv, Followed, Inserting
    <3>2. due' = due
      BY <1>7, Zenon DEF InsertStep, GetStep, InsertRemote, ReadBucket, ReadBump, CasBump, WriteHeader,
         WritePayload, WriteChecksum, CasSlot, WriteBucket, GetRemote, Probe, ReadExtent, history, Inserting
    <3> QED
      BY <3>1, <3>2, Zenon
  <2>2. NextSlot(c) => (pc'[c] = "idle" => slot'[c] = "h1")
    BY <1>1, <1>2, Zenon DEF NextSlot
  <2>3. pc'[c] = "idle" => slot'[c] = "h1"
    BY <1>1, <1>2, <1>7, <2>2, ZenonT(40) DEF InsertStep, GetStep, InsertRemote, ReadBucket, ReadBump, CasBump,
       WriteHeader, WritePayload, WriteChecksum, CasSlot, WriteBucket, GetRemote, Probe, ReadExtent, Inserting
  <2> QED
    BY <2>1, <2>3, Zenon DEF Followed
<1> QED
  <2>1. ReadBucket(c) \/ ReadBump(c) \/ CasBump(c) \/ WriteHeader(c) \/ WritePayload(c) \/ WriteChecksum(c)
        \/ CasSlot(c) \/ WriteBucket(c) => pc[c] \in Inserting
    BY Zenon DEF ReadBucket, ReadBump, CasBump, WriteHeader, WritePayload, WriteChecksum, CasSlot,
       WriteBucket, Inserting
  <2> QED
    BY <1>3, <1>4, <1>5, <1>6, <1>7, <2>1, Zenon DEF InsertStep, GetStep

\* A delete ends what is due to gets of its key, and leaves the other keys at rest.
LEMMA ReadDelete ==
    ASSUME ReadInv, NEW k \in Keys, Delete(k), NEW c \in Clients
    PROVE  Followed(c)' /\ (pc'[c] = "idle" => slot'[c] = "h1")
<1>1. PICK i \in {H1(k), H2(k)} : body[i].key = k /\ word' = [word EXCEPT ![i].tomb = TRUE]
  BY Zenon DEF Delete
<1>2. UNCHANGED <<body, pc, op, slot, got>>
  BY Zenon DEF Delete, local
<1>3. due'[c] = IF op[c].key = k THEN {} ELSE due[c]
  BY Zenon DEF Delete
<1>4. ASSUME NEW d \in due[c], op[c].key # k, Owed(c, d) PROVE Owed(c, d)'
  <2>1. PICK j \in Index : j = Place(op[c].key, d.at)
    BY <1>4, PlaceIn, Zenon DEF Owed
  <2>2. j # i
    BY <1>1, <1>4, <2>1, Zenon DEF Owed, Resting
  <2>3. word'[j] = word[j]
    BY <1>1, <2>2, Zenon DEF ReadInv
  <2>4. Place(op[c].key, d.at)' = j /\ \A e \in Clients : Addr(e)' = Addr(e)
    BY <1>2, <2>1, Zenon DEF Place, Addr, H1, H2
  <2> QED
    BY <1>2, <1>4, <2>1, <2>3, <2>4, Zenon DEF Owed, Resting
<1> QED
  BY <1>2, <1>3, <1>4, Zenon DEF ReadInv, Followed, Answered

LEMMA ReadStep == ReadInv /\ [NextWithGets]_vars => ReadInv'
<1> SUFFICES ASSUME ReadInv, [NextWithGets]_vars PROVE ReadInv'
    BY Zenon
<1>1. Honest'
  BY HonestStep, Zenon DEF ReadInv
<1>2. ASSUME NEW c \in Clients, InsertStep(c) \/ GetStep(c) PROVE ReadInv'
  <2>1. DOMAIN word' = Index
    <3>1. word' = word \/ \E i, w : word' = [word EXCEPT ![i] = w]
      BY <1>2, Zenon DEF InsertStep, GetStep, InsertRemote, ReadBucket, ReadBump, CasBump, WriteHeader,
         WritePayload, WriteChecksum, CasSlot, WriteBucket, Fail, GetRemote, Probe, ReadExtent, table
    <3> QED
      BY <3>1, Zenon DEF ReadInv
  <2>2. DOMAIN due' = Clients
    <3>1. due' = due \/ \E x : due' = [due EXCEPT ![c] = x]
      BY <1>2, Zenon DEF InsertStep, GetStep, InsertRemote, ReadBucket, ReadBump, CasBump, WriteHeader,
         WritePayload, WriteChecksum, CasSlot, WriteBucket, Fail, GetRemote, Probe, ReadExtent, history
    <3> QED
      BY <3>1, Zenon DEF ReadInv
  <2> QED
    BY <1>1, <1>2, <2>1, <2>2, ReadClient, OthersFollowed, Zenon DEF ReadInv
<1>3. ASSUME NEW k \in Keys, Delete(k) PROVE ReadInv'
  <2>1. DOMAIN word' = Index /\ DOMAIN due' = Clients
    BY <1>3, Zenon DEF Delete, ReadInv
  <2> QED
    BY <1>1, <1>3, <2>1, ReadDelete, Zenon DEF ReadInv
<1>4. CASE UNCHANGED vars
  <2>1. UNCHANGED <<word, body, pc, op, slot, got, due>>
    BY <1>4, Zenon DEF vars, table, local, history
  <2>2. \A c \in Clients : Addr(c)' = Addr(c)
    BY <2>1, Zenon DEF Addr, Place, H1, H2
  <2>3. ASSUME NEW c \in Clients, NEW d \in due[c], Owed(c, d) PROVE Owed(c, d)'
    <3>1. Place(op[c].key, d.at)' = Place(op[c].key, d.at)
      BY <2>1, Zenon DEF Place, H1, H2
    <3> QED
      BY <2>1, <2>2, <2>3, <3>1, Zenon DEF Owed, Resting
  <2> QED
    <3>1. \A c \in Clients : Followed(c)'
      BY <2>1, <2>3, ZenonT(40) DEF ReadInv, Followed, Answered
    <3> QED
      BY <1>1, <2>1, <3>1, Zenon DEF ReadInv
<1> QED
  BY <1>2, <1>3, <1>4, Zenon DEF NextWithGets, Next

\* A get of get_remote (read.rs) that begins with its key settled in one of its buckets,
\* and not deleted meanwhile, never answers None, and answers the inline value of the
\* first bucket when the key is there, whatever any number of inserts do to the buckets
\* around it and wherever they fail.
THEOREM SettledAlwaysRead == GetSpec => []SettledIsRead
<1>1. ReadInv => SettledIsRead
  BY Zenon DEF ReadInv, Followed, Answered, SettledIsRead
<1> QED
  BY InitRead, ReadStep, <1>1, PTL DEF GetSpec
=============================================================================
