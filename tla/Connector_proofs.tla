-------------------------- MODULE Connector_proofs --------------------------
(***************************************************************************)
(* For any threads, keys and batches, with the GIL changing hands in the   *)
(* middle of a call: every submit of the connector is one completion,      *)
(* delivered once, and a key it was acknowledged for is in its table.      *)
(***************************************************************************)
EXTENDS Connector, TLAPS

Batch == Seq([key : Keys, size : Nat])
Flags == BOOLEAN
Results == Seq(BOOLEAN)
Pcs == {"idle", "lock", "entry", "evict", "relock", "retry", "push"}
CallRecord ==
    [pc : Pcs, op : {"none", "get", "set", "delete"}, id : Nat, batch : Batch, res : Results,
     i : Nat \ {0}, evict : Flags]
Finished == [id : Nat, op : {"none", "get", "set", "delete"}, res : Results]

ConnectorTyped ==
    /\ call \in [Threads -> CallRecord] /\ completions \in Seq(Finished)
    /\ table \in [Keys -> {"none", "inline", "extent"}]
    /\ next_id \in Nat \ {0} /\ drained \in [Ids -> Nat]

\* A call holds the GIL, or it is among its keys and holds the mutexes.
Holding ==
    \A t \in Threads :
        /\ call[t].pc \in {"lock", "evict", "relock", "push"} => gil = t
        /\ call[t].pc \in {"entry", "retry"} => locks = t

InCall(id) == \E t \in Threads : call[t].id = id
InQueue(id) == \E i \in 1 .. Len(completions) : completions[i].id = id

\* An id belongs to one call, then to one completion, then it was drained once.
Futures ==
    /\ \A t \in Threads : IF call[t].pc = "idle" THEN call[t].id = 0 ELSE call[t].id \in Ids
    /\ \A t, u \in Threads : call[t].id = call[u].id /\ call[t].id # 0 => t = u
    /\ \A i, j \in 1 .. Len(completions) : completions[i].id = completions[j].id => i = j
    /\ \A id \in Ids :
          /\ InCall(id) \/ InQueue(id) \/ drained[id] = 1 <=> id < next_id
          /\ ~(InCall(id) /\ InQueue(id))
          /\ InCall(id) \/ InQueue(id) => drained[id] = 0
          /\ drained[id] \in {0, 1}

Kept(tb, ls, k) == tb[k] # "none" \/ k \in ls

\* The keys a set has been successful with so far are in the table, or TableFull has
\* cost them.
Acked ==
    \A t \in Threads : call[t].op = "set" =>
        /\ call[t].pc = "lock" => call[t].res = <<>> /\ call[t].i = 1
        /\ call[t].pc = "entry" => Len(call[t].res) = call[t].i - 1 /\ call[t].i <= Len(call[t].batch) + 1
        /\ call[t].pc \in {"evict", "relock", "retry", "push"} => Len(call[t].res) = Len(call[t].batch)
        /\ call[t].pc # "idle" => \A j \in 1 .. Len(call[t].res) : call[t].res[j] => Kept(table, lost, call[t].batch[j].key)

ConnectorInv == ConnectorTyped /\ Holding /\ Futures /\ Acked

\* A step of t inside its call.
Moves(t) ==
    /\ call' \in [Threads -> CallRecord] /\ \A u \in Threads \ {t} : call'[u] = call[u]
    /\ call'[t].id = call[t].id /\ call'[t].op = call[t].op /\ call'[t].batch = call[t].batch
    /\ call[t].pc # "idle" /\ call'[t].pc # "idle"
    /\ UNCHANGED <<next_id, completions, drained>>

\* What the invariant says of t after the step.
AckedNext(t) ==
    call[t].op = "set" =>
        /\ call'[t].pc = "lock" => call'[t].res = <<>> /\ call'[t].i = 1
        /\ call'[t].pc = "entry" => Len(call'[t].res) = call'[t].i - 1 /\ call'[t].i <= Len(call[t].batch) + 1
        /\ call'[t].pc \in {"evict", "relock", "retry", "push"} => Len(call'[t].res) = Len(call[t].batch)
        /\ \A j \in 1 .. Len(call'[t].res) : call'[t].res[j] => Kept(table', lost', call[t].batch[j].key)

HoldingNext(t) ==
    /\ call'[t].pc \in {"lock", "evict", "relock", "push"} => gil' = t
    /\ call'[t].pc \in {"entry", "retry"} => locks' = t
    /\ \A u \in Threads \ {t} : /\ call[u].pc \in {"lock", "evict", "relock", "push"} => gil' = u
                                /\ call[u].pc \in {"entry", "retry"} => locks' = u

KeptNext(t) ==
    \/ \A k \in Keys : Kept(table, lost, k) => Kept(table', lost', k)
    \/ \A u \in Threads \ {t} : call[u].pc = "idle"

LEMMA MovesFutures ==
    ASSUME ConnectorTyped, Futures, NEW t \in Threads, Moves(t) PROVE Futures'
<1>1. \A u \in Threads : call'[u].id = call[u].id /\ (call'[u].pc = "idle" <=> call[u].pc = "idle")
  BY Zenon DEF Moves
<1>2. next_id' = next_id /\ completions' = completions /\ drained' = drained
  BY DEF Moves
<1>3. \A id \in Ids : (InCall(id)' <=> InCall(id)) /\ (InQueue(id)' <=> InQueue(id))
  BY <1>1, <1>2, Zenon DEF InCall, InQueue
<1>4. \A u \in Threads : IF call'[u].pc = "idle" THEN call'[u].id = 0 ELSE call'[u].id \in Ids
  BY <1>1, Zenon DEF Futures
<1>5. \A u, v \in Threads : call'[u].id = call'[v].id /\ call'[u].id # 0 => u = v
  <2> SUFFICES ASSUME NEW u \in Threads, NEW v \in Threads, call'[u].id = call'[v].id, call'[u].id # 0 PROVE u = v
    OBVIOUS
  <2>1. call[u].id = call[v].id /\ call[u].id # 0
    BY <1>1, Zenon
  <2> QED
    BY <2>1, Zenon DEF Futures
<1> QED
  BY <1>2, <1>3, <1>4, <1>5, Zenon DEF Futures, Ids

LEMMA Elements == ASSUME NEW S, NEW s \in Seq(S) PROVE Len(s) \in Nat /\ \A j \in 1 .. Len(s) : s[j] \in S
OBVIOUS

LEMMA BatchKeys == ASSUME ConnectorTyped, NEW t \in Threads
                   PROVE  \A j \in 1 .. Len(call[t].batch) : call[t].batch[j].key \in Keys
<1>1. call[t].batch \in Batch
  BY Zenon DEF ConnectorTyped, CallRecord
<1>2. \A b \in Batch : \A j \in 1 .. Len(b) : b[j] \in [key : Keys, size : Nat]
  BY Elements, Zenon DEF Batch
<1> QED
  BY <1>1, <1>2, Zenon

\* No more results than keys.
LEMMA ResultKeys ==
    ASSUME ConnectorTyped, Acked, NEW t \in Threads, call[t].op = "set", call[t].pc # "idle"
    PROVE  \A j \in 1 .. Len(call[t].res) : call[t].batch[j].key \in Keys
<1>0. /\ call[t].pc \in Pcs /\ call[t].i \in Nat \ {0} /\ Len(call[t].batch) \in Nat
  BY DEF ConnectorTyped, CallRecord, Batch
<1>1. CASE call[t].pc = "lock"
  BY <1>1 DEF Acked
<1>2. CASE call[t].pc = "entry"
  <2>1. Len(call[t].res) = call[t].i - 1 /\ call[t].i <= Len(call[t].batch) + 1
    BY <1>2, Zenon DEF Acked
  <2> QED
    BY <1>0, <2>1, BatchKeys
<1>3. CASE call[t].pc \in {"evict", "relock", "retry", "push"}
  BY <1>3, BatchKeys, Zenon DEF Acked
<1> QED
  BY <1>0, <1>1, <1>2, <1>3, Zenon DEF Pcs

LEMMA MethodKeeps ==
    ASSUME ConnectorInv, NEW t \in Threads, Moves(t), HoldingNext(t), KeptNext(t), AckedNext(t),
           table' \in [Keys -> {"none", "inline", "extent"}]
    PROVE  ConnectorInv'
<1>1. ConnectorTyped'
  BY Zenon DEF ConnectorInv, ConnectorTyped, Moves
<1>2. Futures'
  BY MovesFutures, Zenon DEF ConnectorInv
<1>3. Holding'
  BY Zenon DEF Holding, Moves, HoldingNext
<1>4. ASSUME NEW u \in Threads, u # t, call[u].op = "set"
      PROVE  /\ call[u].pc = "lock" => call[u].res = <<>> /\ call[u].i = 1
             /\ call[u].pc = "entry" => Len(call[u].res) = call[u].i - 1 /\ call[u].i <= Len(call[u].batch) + 1
             /\ call[u].pc \in {"evict", "relock", "retry", "push"} => Len(call[u].res) = Len(call[u].batch)
             /\ call[u].pc # "idle" => \A j \in 1 .. Len(call[u].res) : call[u].res[j] => Kept(table', lost', call[u].batch[j].key)
  <2>1. ASSUME call[u].pc # "idle", NEW j \in 1 .. Len(call[u].res), call[u].res[j]
        PROVE  Kept(table', lost', call[u].batch[j].key)
    <3>1. call[u].batch[j].key \in Keys /\ Kept(table, lost, call[u].batch[j].key)
      BY <1>4, <2>1, ResultKeys, Zenon DEF ConnectorInv, Acked
    <3>2. \A k \in Keys : Kept(table, lost, k) => Kept(table', lost', k)
      BY <1>4, <2>1, Zenon DEF KeptNext
    <3> QED
      BY <3>1, <3>2, Zenon
  <2> QED
    BY <1>4, <2>1, Zenon DEF ConnectorInv, Acked
<1>5. Acked'
  <2> SUFFICES ASSUME NEW u \in Threads, call'[u].op = "set"
               PROVE  /\ call'[u].pc = "lock" => call'[u].res = <<>> /\ call'[u].i = 1
                      /\ call'[u].pc = "entry" => Len(call'[u].res) = call'[u].i - 1 /\ call'[u].i <= Len(call'[u].batch) + 1
                      /\ call'[u].pc \in {"evict", "relock", "retry", "push"} => Len(call'[u].res) = Len(call'[u].batch)
                      /\ call'[u].pc # "idle" => \A j \in 1 .. Len(call'[u].res) : call'[u].res[j] => Kept(table', lost', call'[u].batch[j].key)
    BY Zenon DEF Acked, Kept
  <2>1. CASE u = t
    <3>1. call'[u].batch = call[t].batch /\ call[t].op = "set"
      BY <2>1, Zenon DEF Moves
    <3> QED
      BY <2>1, <3>1, Zenon DEF AckedNext
  <2>2. CASE u # t
    <3>1. call'[u] = call[u]
      BY <2>2, Zenon DEF Moves
    <3> QED
      BY <2>2, <3>1, <1>4, Zenon
  <2> QED
    BY <2>1, <2>2, Zenon
<1> QED
  BY <1>1, <1>2, <1>3, <1>5, Zenon DEF ConnectorInv

\* What EXCEPT leaves of a call.
Same(t) ==
    /\ call' \in [Threads -> CallRecord] /\ \A u \in Threads \ {t} : call'[u] = call[u]
    /\ call'[t].id = call[t].id /\ call'[t].op = call[t].op /\ call'[t].batch = call[t].batch

LEMMA Moved ==
    ASSUME ConnectorTyped, NEW t \in Threads, NEW where \in Pcs, MoveTo(t, where)
    PROVE  /\ Same(t) /\ call'[t].pc = where
           /\ call'[t].res = call[t].res /\ call'[t].i = call[t].i
<1>1. call \in [Threads -> CallRecord]
  BY Zenon DEF ConnectorTyped
<1>2. call[t] \in CallRecord
  BY <1>1, Zenon
<1> DEFINE r == [call[t] EXCEPT !.pc = where]
<1>3. /\ r \in CallRecord /\ r.pc = where /\ r.id = call[t].id /\ r.op = call[t].op /\ r.batch = call[t].batch
      /\ r.res = call[t].res /\ r.i = call[t].i
  BY <1>2 DEF CallRecord
<1>4. call' = [call EXCEPT ![t] = r]
  BY DEF MoveTo
<1> HIDE DEF r
<1> QED
  BY <1>1, <1>3, <1>4, Zenon DEF Same

LEMMA SameMoves ==
    ASSUME NEW t \in Threads, Same(t), call[t].pc # "idle", call'[t].pc # "idle",
           UNCHANGED <<next_id, completions, drained>>
    PROVE  Moves(t)
BY Zenon DEF Same, Moves

LEMMA SetLockKeeps ==
    ASSUME ConnectorInv, NEW t \in Threads, SetLock(t) PROVE ConnectorInv'
<1>0. /\ call[t].pc = "lock" /\ call[t].op = "set" /\ locks = "none" /\ locks' = t /\ gil = t /\ gil' = gil
      /\ table' = table /\ lost' = lost
      /\ UNCHANGED <<next_id, completions, drained>>
  BY DEF SetLock, At, store, queue
<1>1. Same(t) /\ call'[t].pc = "entry" /\ call'[t].res = call[t].res /\ call'[t].i = call[t].i
  BY Moved, Zenon DEF SetLock, ConnectorInv, Pcs
<1>2. Moves(t)
  BY <1>0, <1>1, SameMoves
<1>3. HoldingNext(t)
  BY <1>0, <1>1, ConnectorAssumption, Zenon DEF ConnectorInv, Holding, HoldingNext
<1>4. KeptNext(t)
  BY <1>0, Zenon DEF KeptNext
<1>5. AckedNext(t)
  <2>1. call[t].res = <<>> /\ call[t].i = 1
    BY <1>0, Zenon DEF ConnectorInv, Acked
  <2>2. Len(call[t].batch) \in Nat
    BY Elements, Zenon DEF ConnectorInv, ConnectorTyped, CallRecord, Batch
  <2>3. Len(<<>>) = 0 /\ 1 .. 0 = {} /\ 0 = 1 - 1 /\ \A n \in Nat : 1 <= n + 1
    OBVIOUS
  <2> QED
    BY <1>0, <1>1, <2>1, <2>2, <2>3, Zenon DEF AckedNext
<1> QED
  BY <1>0, <1>2, <1>3, <1>4, <1>5, MethodKeeps, Zenon DEF ConnectorInv, ConnectorTyped

LEMMA FunSeq == ASSUME NEW S, NEW n \in Nat, NEW f \in [1 .. n -> S] PROVE f \in Seq(S) /\ Len(f) = n
OBVIOUS

LEMMA Answered ==
    ASSUME ConnectorTyped, NEW t \in Threads, NEW where \in Pcs, NEW f \in Results,
           call' = [call EXCEPT ![t].pc = where, ![t].res = f]
    PROVE  Same(t) /\ call'[t].pc = where /\ call'[t].res = f
<1>1. call \in [Threads -> CallRecord]
  BY Zenon DEF ConnectorTyped
<1>2. call[t] \in CallRecord
  BY <1>1, Zenon
<1> DEFINE r == [call[t] EXCEPT !.pc = where, !.res = f]
<1>3. /\ r \in CallRecord /\ r.pc = where /\ r.id = call[t].id /\ r.op = call[t].op /\ r.batch = call[t].batch
      /\ r.res = f
  BY <1>2, ZenonT(40) DEF CallRecord
<1>4. call' = [call EXCEPT ![t] = r]
  BY <1>1, ZenonT(40)
<1> HIDE DEF r
<1> QED
  BY <1>1, <1>3, <1>4, ZenonT(40) DEF Same

\* The batch of a call is a sequence.
LEMMA BatchTyped ==
    ASSUME ConnectorTyped, NEW t \in Threads
    PROVE  /\ call[t].batch \in Batch /\ Len(call[t].batch) \in Nat /\ DOMAIN call[t].batch = 1 .. Len(call[t].batch)
<1>1. call[t].batch \in Batch
  BY Zenon DEF ConnectorTyped, CallRecord
<1>2. \A S : \A s \in Seq(S) : Len(s) \in Nat /\ DOMAIN s = 1 .. Len(s)
  OBVIOUS
<1> QED
  BY <1>1, <1>2, Zenon DEF Batch

\* Everybody else is idle when t holds the GIL and the mutexes are free.
LEMMA OthersIdle ==
    ASSUME ConnectorInv, NEW t \in Threads, gil = t, locks = "none"
    PROVE  \A u \in Threads \ {t} : call[u].pc = "idle"
<1> SUFFICES ASSUME NEW u \in Threads \ {t}, call[u].pc # "idle" PROVE FALSE
  OBVIOUS
<1>1. call[u].pc \in Pcs
  BY Zenon DEF ConnectorInv, ConnectorTyped, CallRecord
<1> QED
  BY <1>1, ConnectorAssumption, Zenon DEF ConnectorInv, Holding, Pcs

LEMMA PresenceKeeps ==
    ASSUME ConnectorInv, NEW t \in Threads, LookupKeys(t) \/ DeleteKeys(t) PROVE ConnectorInv'
<1>0. /\ call[t].pc = "lock" /\ call[t].op # "set" /\ locks = "none" /\ locks' = locks /\ gil = t /\ gil' = gil
      /\ UNCHANGED <<next_id, completions, drained>>
  BY SMTT(30) DEF LookupKeys, DeleteKeys, At, store, queue
<1>1. PICK f \in Results : call' = [call EXCEPT ![t].pc = "push", ![t].res = f]
  <2> DEFINE b == call[t].batch
             Gone(i) == \E j \in 1 .. i - 1 : b[j].key = b[i].key
             f1 == [i \in DOMAIN b |-> table[b[i].key] # "none"]
             f2 == [i \in DOMAIN b |-> table[b[i].key] # "none" /\ ~Gone(i)]
  <2>1. Len(b) \in Nat /\ DOMAIN b = 1 .. Len(b)
    BY BatchTyped, Zenon DEF ConnectorInv
  <2>2. f1 \in [1 .. Len(b) -> BOOLEAN] /\ f2 \in [1 .. Len(b) -> BOOLEAN]
    BY <2>1, Zenon
  <2>3. f1 \in Results /\ f2 \in Results
    BY <2>1, <2>2, FunSeq, Zenon DEF Results
  <2>4. \/ call' = [call EXCEPT ![t].pc = "push", ![t].res = f1]
        \/ call' = [call EXCEPT ![t].pc = "push", ![t].res = f2]
    BY Zenon DEF LookupKeys, DeleteKeys
  <2> HIDE DEF f1, f2
  <2> QED
    BY <2>3, <2>4, Zenon
<1>2. Same(t) /\ call'[t].pc = "push"
  BY <1>1, Answered, Zenon DEF ConnectorInv, Pcs
<1>3. Moves(t)
  BY <1>0, <1>2, SameMoves
<1>4. HoldingNext(t)
  BY <1>0, <1>2, Zenon DEF ConnectorInv, Holding, HoldingNext
<1>5. KeptNext(t)
  BY <1>0, OthersIdle, Zenon DEF KeptNext
<1>6. AckedNext(t)
  BY <1>0, Zenon DEF AckedNext
<1>7. table' \in [Keys -> {"none", "inline", "extent"}]
  <2>1. table \in [Keys -> {"none", "inline", "extent"}]
    BY Zenon DEF ConnectorInv, ConnectorTyped
  <2>2. CASE table' = table
    BY <2>1, <2>2, Zenon
  <2>3. CASE DeleteKeys(t)
    <3>1. PICK ds : table' = Deleted(ds)
      BY <2>3, Zenon DEF DeleteKeys
    <3> QED
      BY <2>1, <3>1 DEF Deleted
  <2> QED
    BY <2>2, <2>3 DEF LookupKeys, store
<1> QED
  BY <1>3, <1>4, <1>5, <1>6, <1>7, MethodKeeps, Zenon

LEMMA Appended ==
    ASSUME NEW S, NEW s \in Seq(S), NEW x \in S
    PROVE  /\ Append(s, x) \in Seq(S) /\ Len(Append(s, x)) = Len(s) + 1
           /\ \A j \in 1 .. Len(s) : Append(s, x)[j] = s[j]
           /\ Append(s, x)[Len(s) + 1] = x
OBVIOUS

\* CuckooTable::insert takes from no key what was promised: a key it pushes out is
\* counted as lost, and its own is stored or is.
LEMMA InsertKeeps ==
    ASSUME table \in [Keys -> {"none", "inline", "extent"}], NEW k \in Keys, NEW how \in {"inline", "extent"},
           NEW ok, Insert(k, how, ok)
    PROVE  /\ table' \in [Keys -> {"none", "inline", "extent"}]
           /\ \A x \in Keys : Kept(table, lost, x) => Kept(table', lost', x)
           /\ Kept(table', lost', k)
<1>1. CASE table' = [table EXCEPT ![k] = how] /\ lost' = lost \ {k}
  BY <1>1 DEF Kept
<1>2. ASSUME NEW x \in Keys, table' = [table EXCEPT ![k] = how, ![x] = "none"], lost' = (lost \ {k}) \cup {x}
      PROVE  /\ table' \in [Keys -> {"none", "inline", "extent"}]
             /\ \A y \in Keys : Kept(table, lost, y) => Kept(table', lost', y)
             /\ Kept(table', lost', k)
  BY <1>2 DEF Kept
<1> QED
  BY <1>1, <1>2, Zenon DEF Insert

LEMMA Entered ==
    ASSUME ConnectorTyped, NEW t \in Threads, NEW ok \in BOOLEAN, NEW e \in BOOLEAN, NextEntry(t, ok, e)
    PROVE  /\ Same(t) /\ call'[t].pc = call[t].pc /\ call'[t].i = call[t].i + 1
           /\ call'[t].res = Append(call[t].res, ok)
<1>1. call \in [Threads -> CallRecord]
  BY Zenon DEF ConnectorTyped
<1>2. call[t] \in CallRecord
  BY <1>1, Zenon
<1> DEFINE f == Append(call[t].res, ok)
           g == call[t].evict \/ e
           m == call[t].i + 1
           r == [call[t] EXCEPT !.res = f, !.i = m, !.evict = g]
<1>3. f \in Results
  <2>1. call[t].res \in Seq(BOOLEAN)
    BY <1>2, Zenon DEF CallRecord, Results
  <2> QED
    BY <2>1, Appended, Zenon DEF Results
<1>4. g \in Flags
  BY Zenon DEF Flags
<1>5. call' = [call EXCEPT ![t] = r]
  BY <1>1, ZenonT(40) DEF NextEntry
<1>7. m \in Nat \ {0}
  <2>1. call[t].i \in Nat
    BY <1>2, Zenon DEF CallRecord
  <2> QED
    BY <2>1
<1> HIDE DEF f, g, m
<1>6. /\ r \in CallRecord /\ r.pc = call[t].pc /\ r.id = call[t].id /\ r.op = call[t].op /\ r.batch = call[t].batch
      /\ r.res = f /\ r.i = m
  BY ONLY <1>2, <1>3, <1>4, <1>7, ZenonT(40) DEF CallRecord
<1> HIDE DEF r
<1> QED
  BY <1>1, <1>5, <1>6, Zenon DEF Same, f, m

LEMMA SetEntryKeeps ==
    ASSUME ConnectorInv, NEW t \in Threads, SetEntry(t) PROVE ConnectorInv'
<1> DEFINE n == call[t].i
           k == call[t].batch[n].key
<1>0. /\ call[t].pc = "entry" /\ n <= Len(call[t].batch) /\ locks' = locks /\ gil' = gil
      /\ UNCHANGED <<next_id, completions, drained>>
  BY DEF SetEntry, At, queue
<1>1. n \in Nat \ {0} /\ Len(call[t].batch) \in Nat /\ call[t].res \in Seq(BOOLEAN)
  BY BatchTyped, Zenon DEF ConnectorInv, ConnectorTyped, CallRecord, Results
<1>2. k \in Keys
  <2>1. n \in 1 .. Len(call[t].batch)
    BY <1>0, <1>1
  <2> QED
    BY <2>1, BatchKeys, Zenon DEF ConnectorInv
<1>3. table \in [Keys -> {"none", "inline", "extent"}]
  BY Zenon DEF ConnectorInv, ConnectorTyped
<1>4. PICK ok \in BOOLEAN, e \in BOOLEAN :
        /\ NextEntry(t, ok, e)
        /\ \/ \E how \in {"inline", "extent"} : Insert(k, how, ok)
           \/ ok = FALSE /\ table' = table /\ lost' = lost
  <2>1. CASE \E ok \in BOOLEAN : Insert(k, "inline", ok) /\ NextEntry(t, ok, FALSE)
    BY <2>1, Zenon
  <2>2. CASE \E ok \in BOOLEAN : Insert(k, "extent", ok) /\ NextEntry(t, ok, FALSE)
    BY <2>2, Zenon
  <2>3. CASE NextEntry(t, FALSE, TRUE) /\ UNCHANGED store
    <3>1. table' = table /\ lost' = lost
      BY <2>3 DEF store
    <3> QED
      BY <2>3, <3>1, Zenon
  <2> QED
    BY <2>1, <2>2, <2>3, Zenon DEF SetEntry, AllocateAndInsert, Entry
<1>5. /\ table' \in [Keys -> {"none", "inline", "extent"}]
      /\ \A x \in Keys : Kept(table, lost, x) => Kept(table', lost', x)
      /\ ok => Kept(table', lost', k)
  <2>1. CASE \E how \in {"inline", "extent"} : Insert(k, how, ok)
    BY <1>2, <1>3, <2>1, InsertKeeps, Zenon
  <2>2. CASE ok = FALSE /\ table' = table /\ lost' = lost
    BY <1>3, <2>2, Zenon
  <2> QED
    BY <1>4, <2>1, <2>2, Zenon
<1>6. /\ Same(t) /\ call'[t].pc = "entry" /\ call'[t].i = n + 1 /\ call'[t].res = Append(call[t].res, ok)
  BY <1>0, <1>4, Entered, Zenon DEF ConnectorInv
<1>7. Moves(t)
  BY <1>0, <1>6, SameMoves
<1>8. HoldingNext(t)
  BY <1>0, <1>6, Zenon DEF ConnectorInv, Holding, HoldingNext
<1>9. AckedNext(t)
  <2> SUFFICES ASSUME call[t].op = "set" PROVE AckedNext(t)
    BY Zenon DEF AckedNext
  <2>1. Len(call[t].res) = n - 1 /\ \A j \in 1 .. Len(call[t].res) : call[t].res[j] => Kept(table, lost, call[t].batch[j].key)
    BY <1>0, Zenon DEF ConnectorInv, Acked
  <2> DEFINE f == Append(call[t].res, ok)
  <2>2. Len(f) = Len(call[t].res) + 1 /\ f[Len(call[t].res) + 1] = ok /\ \A j \in 1 .. Len(call[t].res) : f[j] = call[t].res[j]
    <3>1. ok \in BOOLEAN
      BY Zenon
    <3> DEFINE S == BOOLEAN
    <3>2. call[t].res \in Seq(S) /\ ok \in S
      BY <1>1, <3>1, Zenon
    <3> HIDE DEF S
    <3> QED
      BY ONLY <3>2, Appended
  <2> HIDE DEF f
  <2>3. Len(call[t].res) + 1 = n /\ n = (n + 1) - 1 /\ n + 1 <= Len(call[t].batch) + 1
    BY <1>0, <1>1, <2>1, SMTT(30)
  <2>4. \A j \in 1 .. n : j = n \/ j \in 1 .. Len(call[t].res)
    BY <1>1, <2>1
  <2>5. ASSUME NEW j \in 1 .. Len(f), f[j] PROVE Kept(table', lost', call[t].batch[j].key)
    <3>1. CASE j = n
      BY <1>5, <2>2, <2>3, <2>5, <3>1, Zenon
    <3>2. CASE j \in 1 .. Len(call[t].res)
      <4>1. call[t].batch[j].key \in Keys /\ Kept(table, lost, call[t].batch[j].key)
        BY <1>0, <2>1, <2>2, <2>5, <3>2, ResultKeys, Zenon DEF ConnectorInv
      <4> QED
        BY <1>5, <4>1, Zenon
    <3> QED
      BY <2>2, <2>3, <2>4, <3>1, <3>2, Zenon
  <2>6. call'[t].res = f
    BY <1>6, Zenon DEF f
  <2> QED
    BY <1>6, <2>2, <2>3, <2>5, <2>6, Zenon DEF AckedNext
<1> QED
  BY <1>5, <1>7, <1>8, <1>9, MethodKeeps, Zenon DEF KeptNext

\* The steps that leave the store alone and only move a set on.
LEMMA OnwardKeeps ==
    ASSUME ConnectorInv, NEW t \in Threads, Same(t), call[t].pc \in Pcs \ {"idle", "lock"},
           call'[t].pc \in {"evict", "relock", "retry", "push"}, call'[t].res = call[t].res,
           call[t].pc = "entry" => call[t].i > Len(call[t].batch),
           HoldingNext(t), table' = table, lost' = lost, UNCHANGED <<next_id, completions, drained>>
    PROVE  ConnectorInv'
<1>1. Moves(t)
  BY SameMoves, Zenon
<1>2. AckedNext(t)
  <2> SUFFICES ASSUME call[t].op = "set" PROVE AckedNext(t)
    BY Zenon DEF AckedNext
  <2>1. Len(call[t].res) = Len(call[t].batch)
    <3>1. call[t].i \in Nat /\ Len(call[t].batch) \in Nat
      BY BatchTyped, Zenon DEF ConnectorInv, ConnectorTyped, CallRecord
    <3>2. CASE call[t].pc = "entry"
      <4>1. Len(call[t].res) = call[t].i - 1 /\ call[t].i <= Len(call[t].batch) + 1 /\ call[t].i > Len(call[t].batch)
        BY <3>2, Zenon DEF ConnectorInv, Acked
      <4> QED
        BY <3>1, <4>1, SMTT(30)
    <3>3. CASE call[t].pc \in {"evict", "relock", "retry", "push"}
      BY <3>3, Zenon DEF ConnectorInv, Acked
    <3> QED
      BY <3>2, <3>3, Zenon DEF Pcs
  <2>2. \A j \in 1 .. Len(call[t].res) : call[t].res[j] => Kept(table, lost, call[t].batch[j].key)
    BY Zenon DEF ConnectorInv, Acked
  <2> QED
    BY <2>1, <2>2, Zenon DEF AckedNext
<1> QED
  BY <1>1, <1>2, MethodKeeps, Zenon DEF KeptNext, ConnectorInv, ConnectorTyped

LEMMA LoopEndsKeeps ==
    ASSUME ConnectorInv, NEW t \in Threads, SetLoopEnds(t) \/ RetryEnds(t) PROVE ConnectorInv'
<1>0. /\ call[t].pc \in {"entry", "retry"} /\ locks' = "none" /\ gil = t /\ gil' = gil
      /\ call[t].pc = "entry" => call[t].i > Len(call[t].batch)
      /\ table' = table /\ lost' = lost
      /\ UNCHANGED <<next_id, completions, drained>>
  BY DEF SetLoopEnds, RetryEnds, At, store, queue
<1>1. PICK where \in {"evict", "push"} : MoveTo(t, where)
  BY Zenon DEF SetLoopEnds, RetryEnds
<1>2. Same(t) /\ call'[t].pc \in {"evict", "push"} /\ call'[t].res = call[t].res
  BY <1>1, Moved, Zenon DEF ConnectorInv, Pcs
<1>3. HoldingNext(t)
  BY <1>0, <1>2, Zenon DEF ConnectorInv, Holding, HoldingNext
<1> QED
  BY <1>0, <1>2, <1>3, OnwardKeeps, Zenon DEF Pcs

\* The digests evict_if_needed deletes by are those of no key.
LEMMA TruncatedDeletesNothing ==
    ASSUME table \in [Keys -> {"none", "inline", "extent"}], NEW c PROVE Deleted({Truncated(k) : k \in c}) = table
<1>1. \A k \in Keys : Digest(k) \notin {Truncated(x) : x \in c}
  BY DEF Digest, Truncated
<1> QED
  BY <1>1 DEF Deleted

LEMMA EvictKeeps ==
    ASSUME ConnectorInv, NEW t \in Threads, EvictIfNeeded(t) PROVE ConnectorInv'
<1>0. /\ call[t].pc = "evict" /\ locks' = locks /\ gil = t /\ gil' = gil /\ MoveTo(t, "relock")
      /\ UNCHANGED <<next_id, completions, drained>>
  BY DEF EvictIfNeeded, At, queue
<1>1. table' = table /\ lost' = lost
  <2>1. CASE UNCHANGED store
    BY <2>1 DEF store
  <2>2. CASE \E c : table' = Deleted({Truncated(k) : k \in c}) /\ UNCHANGED <<used, lost>>
    <3>1. PICK c : table' = Deleted({Truncated(k) : k \in c}) /\ UNCHANGED <<used, lost>>
      BY <2>2, Zenon
    <3>2. table \in [Keys -> {"none", "inline", "extent"}]
      BY Zenon DEF ConnectorInv, ConnectorTyped
    <3>3. table' = table
      BY <3>1, <3>2, TruncatedDeletesNothing, Zenon
    <3> QED
      BY <3>1, <3>3
  <2>3. UNCHANGED <<store, lru>> => UNCHANGED store
    BY DEF store
  <2> QED
    BY <2>1, <2>2, <2>3, Zenon DEF EvictIfNeeded
<1>2. Same(t) /\ call'[t].pc = "relock" /\ call'[t].res = call[t].res
  BY <1>0, Moved, Zenon DEF ConnectorInv, Pcs
<1>3. HoldingNext(t)
  BY <1>0, <1>2, Zenon DEF ConnectorInv, Holding, HoldingNext
<1> QED
  BY <1>0, <1>1, <1>2, <1>3, OnwardKeeps, Zenon DEF Pcs

LEMMA RelockKeeps ==
    ASSUME ConnectorInv, NEW t \in Threads, Relock(t) PROVE ConnectorInv'
<1>0. /\ call[t].pc = "relock" /\ locks = "none" /\ locks' = t /\ gil = t /\ gil' = gil
      /\ table' = table /\ lost' = lost
      /\ UNCHANGED <<next_id, completions, drained>>
  BY DEF Relock, At, store, queue
<1>1. Same(t) /\ call'[t].pc = "retry" /\ call'[t].res = call[t].res
  <2>1. call \in [Threads -> CallRecord]
    BY Zenon DEF ConnectorInv, ConnectorTyped
  <2>2. call[t] \in CallRecord
    BY <2>1, Zenon
  <2> DEFINE r == [call[t] EXCEPT !.pc = "retry", !.i = 1]
  <2>3. /\ r \in CallRecord /\ r.pc = "retry" /\ r.id = call[t].id /\ r.op = call[t].op /\ r.batch = call[t].batch
        /\ r.res = call[t].res
    <3>1. 1 \in Nat \ {0}
      OBVIOUS
    <3>2. "retry" \in Pcs
      BY Zenon DEF Pcs
    <3> QED
      BY ONLY <2>2, <3>1, <3>2, ZenonT(40) DEF CallRecord
  <2>4. call' = [call EXCEPT ![t] = r]
    BY <2>1, ZenonT(40) DEF Relock
  <2> HIDE DEF r
  <2> QED
    BY <2>1, <2>3, <2>4, Zenon DEF Same
<1>3. HoldingNext(t)
  BY <1>0, <1>1, ConnectorAssumption, Zenon DEF ConnectorInv, Holding, HoldingNext
<1> QED
  BY <1>0, <1>1, <1>3, OnwardKeeps, Zenon DEF Pcs

LEMMA Replaced ==
    ASSUME NEW S, NEW s \in Seq(S), NEW n, NEW x \in S
    PROVE  /\ [s EXCEPT ![n] = x] \in Seq(S) /\ Len([s EXCEPT ![n] = x]) = Len(s)
           /\ \A j \in 1 .. Len(s) : [s EXCEPT ![n] = x][j] = IF j = n THEN x ELSE s[j]
<1>1. Len(s) \in Nat /\ s \in [1 .. Len(s) -> S]
  OBVIOUS
<1>2. [s EXCEPT ![n] = x] \in [1 .. Len(s) -> S]
  BY <1>1, Zenon
<1>3. \A j \in 1 .. Len(s) : [s EXCEPT ![n] = x][j] = IF j = n THEN x ELSE s[j]
  BY <1>1, Zenon
<1> QED
  BY <1>1, <1>2, <1>3, FunSeq, Zenon

\* call with the result at i replaced and i advanced.
LEMMA Retried ==
    ASSUME ConnectorTyped, NEW t \in Threads, NEW ok \in BOOLEAN,
           call' = [call EXCEPT ![t].res[call[t].i] = ok, ![t].i = @ + 1]
    PROVE  /\ Same(t) /\ call'[t].pc = call[t].pc
           /\ call'[t].res = [call[t].res EXCEPT ![call[t].i] = ok]
<1>1. call \in [Threads -> CallRecord]
  BY Zenon DEF ConnectorTyped
<1>2. call[t] \in CallRecord
  BY <1>1, Zenon
<1> DEFINE f == [call[t].res EXCEPT ![call[t].i] = ok]
           m == call[t].i + 1
           r == [call[t] EXCEPT !.res = f, !.i = m]
<1>3. f \in Results
  <2>1. call[t].res \in Seq(BOOLEAN)
    BY <1>2, Zenon DEF CallRecord, Results
  <2> QED
    BY <2>1, Replaced, Zenon DEF Results
<1>5. call' = [call EXCEPT ![t] = r]
  BY <1>1, ZenonT(40)
<1>7. m \in Nat \ {0}
  <2>1. call[t].i \in Nat
    BY <1>2, Zenon DEF CallRecord
  <2> QED
    BY <2>1
<1> HIDE DEF f, m
<1>6. /\ r \in CallRecord /\ r.pc = call[t].pc /\ r.id = call[t].id /\ r.op = call[t].op /\ r.batch = call[t].batch
      /\ r.res = f
  BY ONLY <1>2, <1>3, <1>7, ZenonT(40) DEF CallRecord
<1> HIDE DEF r
<1> QED
  BY <1>1, <1>5, <1>6, ZenonT(40) DEF Same, f

LEMMA SkippedEntry ==
    ASSUME ConnectorTyped, NEW t \in Threads, call' = [call EXCEPT ![t].i = @ + 1]
    PROVE  Same(t) /\ call'[t].pc = call[t].pc /\ call'[t].res = call[t].res
<1>1. call \in [Threads -> CallRecord]
  BY Zenon DEF ConnectorTyped
<1>2. call[t] \in CallRecord
  BY <1>1, Zenon
<1> DEFINE m == call[t].i + 1
           r == [call[t] EXCEPT !.i = m]
<1>5. call' = [call EXCEPT ![t] = r]
  BY <1>1
<1>7. m \in Nat \ {0}
  <2>1. call[t].i \in Nat
    BY <1>2, Zenon DEF CallRecord
  <2> QED
    BY <2>1
<1> HIDE DEF m
<1>6. /\ r \in CallRecord /\ r.pc = call[t].pc /\ r.id = call[t].id /\ r.op = call[t].op /\ r.batch = call[t].batch
      /\ r.res = call[t].res
  BY ONLY <1>2, <1>7 DEF CallRecord
<1> HIDE DEF r
<1> QED
  BY <1>1, <1>5, <1>6, Zenon DEF Same

LEMMA RetryEntryKeeps ==
    ASSUME ConnectorInv, NEW t \in Threads, RetryEntry(t) PROVE ConnectorInv'
<1> DEFINE n == call[t].i
           k == call[t].batch[n].key
<1>0. /\ call[t].pc = "retry" /\ n <= Len(call[t].batch) /\ locks' = locks /\ gil' = gil
      /\ UNCHANGED <<next_id, completions, drained>>
  BY DEF RetryEntry, At, queue
<1>1. CASE call' = [call EXCEPT ![t].i = @ + 1] /\ UNCHANGED store
  <2>1. Same(t) /\ call'[t].pc = "retry" /\ call'[t].res = call[t].res
    BY <1>0, <1>1, SkippedEntry, Zenon DEF ConnectorInv
  <2>2. table' = table /\ lost' = lost
    BY <1>1 DEF store
  <2>3. HoldingNext(t)
    BY <1>0, <2>1, Zenon DEF ConnectorInv, Holding, HoldingNext
  <2> QED
    BY <1>0, <2>1, <2>2, <2>3, OnwardKeeps, Zenon DEF Pcs
<1>2. CASE \E ok \in BOOLEAN : /\ AllocateAndInsert(Entry(t).key, Entry(t).size, ok)
                               /\ call' = [call EXCEPT ![t].res[n] = ok, ![t].i = @ + 1]
  <2>1. PICK ok \in BOOLEAN : Insert(k, "extent", ok) /\ call' = [call EXCEPT ![t].res[n] = ok, ![t].i = @ + 1]
    BY <1>2, Zenon DEF AllocateAndInsert, Entry
  <2>2. n \in Nat \ {0} /\ Len(call[t].batch) \in Nat /\ call[t].res \in Seq(BOOLEAN)
    BY BatchTyped, Zenon DEF ConnectorInv, ConnectorTyped, CallRecord, Results
  <2>3. k \in Keys
    <3>1. n \in 1 .. Len(call[t].batch)
      BY <1>0, <2>2
    <3> QED
      BY <3>1, BatchKeys, Zenon DEF ConnectorInv
  <2>4. /\ table' \in [Keys -> {"none", "inline", "extent"}]
        /\ \A x \in Keys : Kept(table, lost, x) => Kept(table', lost', x)
        /\ Kept(table', lost', k)
    BY <2>1, <2>3, InsertKeeps, Zenon DEF ConnectorInv, ConnectorTyped
  <2> DEFINE f == [call[t].res EXCEPT ![n] = ok]
  <2>5. Same(t) /\ call'[t].pc = "retry" /\ call'[t].res = f
    BY <1>0, <2>1, Retried, Zenon DEF ConnectorInv
  <2>6. Moves(t)
    BY <1>0, <2>5, SameMoves
  <2>7. HoldingNext(t)
    BY <1>0, <2>5, Zenon DEF ConnectorInv, Holding, HoldingNext
  <2>8. Len(f) = Len(call[t].res) /\ \A j \in 1 .. Len(call[t].res) : j # n => f[j] = call[t].res[j]
    <3> DEFINE S == BOOLEAN
    <3>1. call[t].res \in Seq(S) /\ ok \in S
      BY <2>2, Zenon
    <3> HIDE DEF S
    <3> QED
      BY ONLY <3>1, Replaced
  <2>9. AckedNext(t)
    <3> HIDE DEF f
    <3> SUFFICES ASSUME call[t].op = "set" PROVE AckedNext(t)
      BY Zenon DEF AckedNext
    <3>1. Len(call[t].res) = Len(call[t].batch) /\ \A j \in 1 .. Len(call[t].res) : call[t].res[j] => Kept(table, lost, call[t].batch[j].key)
      BY <1>0, Zenon DEF ConnectorInv, Acked
    <3>2. ASSUME NEW j \in 1 .. Len(f), f[j] PROVE Kept(table', lost', call[t].batch[j].key)
      <4>1. CASE j = n
        BY <2>4, <4>1, Zenon
      <4>2. CASE j # n
        <5>1. call[t].batch[j].key \in Keys /\ Kept(table, lost, call[t].batch[j].key)
          BY <1>0, <2>8, <3>1, <3>2, <4>2, ResultKeys, Zenon DEF ConnectorInv
        <5> QED
          BY <2>4, <5>1, Zenon
      <4> QED
        BY <4>1, <4>2, Zenon
    <3> QED
      BY <2>5, <2>8, <3>1, <3>2, Zenon DEF AckedNext
  <2> QED
    BY <2>4, <2>6, <2>7, <2>9, MethodKeeps, Zenon DEF KeptNext
<1> QED
  BY <1>1, <1>2, Zenon DEF RetryEntry

LEMMA IdleTyped == Idle \in CallRecord /\ Idle.pc = "idle" /\ Idle.id = 0 /\ Idle.op = "none" /\ Idle.res = <<>> /\ Idle.i = 1
<1>1. \A S : <<>> \in Seq(S)
  OBVIOUS
<1>2. <<>> \in Batch /\ <<>> \in Results
  BY <1>1, Zenon DEF Batch, Results
<1> DEFINE f == FALSE
<1>3. f \in Flags
  BY Zenon DEF Flags
<1>4. Idle = [pc |-> "idle", op |-> "none", id |-> 0, batch |-> <<>>, res |-> <<>>, i |-> 1, evict |-> f]
  BY Zenon DEF Idle
<1> HIDE DEF f
<1> QED
  BY ONLY <1>2, <1>3, <1>4 DEF CallRecord, Pcs

\* The other calls after t has begun or ended one.
LEMMA OthersAcked ==
    ASSUME ConnectorInv, NEW t \in Threads, \A u \in Threads \ {t} : call'[u] = call[u],
           table' = table, lost' = lost,
           call'[t].op = "set" => call'[t].pc = "lock" /\ call'[t].res = <<>> /\ call'[t].i = 1
    PROVE  Acked'
<1> SUFFICES ASSUME NEW u \in Threads, call'[u].op = "set"
             PROVE  /\ call'[u].pc = "lock" => call'[u].res = <<>> /\ call'[u].i = 1
                    /\ call'[u].pc = "entry" => Len(call'[u].res) = call'[u].i - 1 /\ call'[u].i <= Len(call'[u].batch) + 1
                    /\ call'[u].pc \in {"evict", "relock", "retry", "push"} => Len(call'[u].res) = Len(call'[u].batch)
                    /\ call'[u].pc # "idle" => \A j \in 1 .. Len(call'[u].res) : call'[u].res[j] => Kept(table', lost', call'[u].batch[j].key)
  BY Zenon DEF Acked, Kept
<1>1. CASE u = t
  <2>1. call'[u].pc = "lock" /\ call'[u].res = <<>> /\ call'[u].i = 1
    BY <1>1, Zenon
  <2>2. 1 .. Len(<<>>) = {}
    OBVIOUS
  <2> QED
    BY <2>1, <2>2, Zenon
<1>2. CASE u # t
  <2>1. call'[u] = call[u]
    BY <1>2, Zenon
  <2> QED
    BY <2>1, Zenon DEF ConnectorInv, Acked
<1> QED
  BY <1>1, <1>2, Zenon

LEMMA SubmitKeeps ==
    ASSUME ConnectorInv, NEW t \in Threads, NEW op \in {"get", "set", "delete"}, NEW b \in Batches, Submit(t, op, b)
    PROVE  ConnectorInv'
<1>0. /\ gil = "none" /\ gil' = t /\ locks' = locks /\ call[t].pc = "idle" /\ next_id <= MaxCalls /\ next_id' = next_id + 1
      /\ table' = table /\ lost' = lost /\ completions' = completions /\ drained' = drained
  BY DEF Submit, store, queue
<1>1. /\ next_id \in Nat \ {0} /\ MaxCalls \in Nat /\ b \in Batch
  BY ConnectorAssumption, ZenonT(40) DEF ConnectorInv, ConnectorTyped, Batch
<1>2. next_id \in Ids /\ 0 \notin Ids /\ \A id \in Ids : id < next_id + 1 <=> id < next_id \/ id = next_id
  BY <1>0, <1>1 DEF Ids
<1> DEFINE r == [Idle EXCEPT !.pc = "lock", !.op = op, !.id = next_id, !.batch = b]
<1>3. /\ r \in CallRecord /\ r.pc = "lock" /\ r.op = op /\ r.id = next_id /\ r.res = <<>> /\ r.i = 1
  <2>1. "lock" \in Pcs /\ next_id \in Nat /\ op \in {"none", "get", "set", "delete"}
    BY <1>1, Zenon DEF Pcs
  <2> QED
    BY ONLY <1>1, <2>1, IdleTyped, ZenonT(40) DEF CallRecord
<1>4. call' = [call EXCEPT ![t] = r]
  BY Zenon DEF Submit
<1>5. call \in [Threads -> CallRecord]
  BY Zenon DEF ConnectorInv, ConnectorTyped
<1> HIDE DEF r
<1>6. call' \in [Threads -> CallRecord] /\ call'[t] = r /\ \A u \in Threads \ {t} : call'[u] = call[u]
  BY <1>3, <1>4, <1>5, Zenon
<1>7. ConnectorTyped'
  <2>1. next_id' \in Nat \ {0}
    BY <1>0, <1>1
  <2> QED
    BY <1>0, <1>6, <2>1, Zenon DEF ConnectorInv, ConnectorTyped, Ids
<1>8. Holding'
  BY <1>0, <1>3, <1>6, ConnectorAssumption, Zenon DEF ConnectorInv, Holding
<1>9. Acked'
  BY <1>0, <1>3, <1>6, OthersAcked, Zenon
<1>10. Futures'
  <2>0. call[t].id = 0 /\ call'[t].id = next_id /\ call'[t].pc = "lock"
    BY <1>0, <1>3, <1>6, Zenon DEF ConnectorInv, Futures
  <2>1. ~InCall(next_id) /\ ~InQueue(next_id) /\ drained[next_id] = 0
    <3>1. ~(next_id < next_id)
      BY <1>1
    <3>2. ~InCall(next_id) /\ ~InQueue(next_id) /\ drained[next_id] # 1 /\ drained[next_id] \in {0, 1}
      BY <1>2, <3>1, Zenon DEF ConnectorInv, Futures
    <3> QED
      BY <3>2, Zenon
  <2>2. ASSUME NEW u \in Threads PROVE IF call'[u].pc = "idle" THEN call'[u].id = 0 ELSE call'[u].id \in Ids
    <3>1. CASE u = t
      BY <1>2, <2>0, <3>1, Zenon
    <3>2. CASE u # t
      <4>1. call'[u] = call[u]
        BY <1>6, <3>2, Zenon
      <4> QED
        BY <4>1, Zenon DEF ConnectorInv, Futures
    <3> QED
      BY <3>1, <3>2, Zenon
  <2>3. \A u \in Threads \ {t} : call'[u].id # next_id
    BY <1>6, <2>1, Zenon DEF InCall
  <2>4. ASSUME NEW u \in Threads, NEW v \in Threads, call'[u].id = call'[v].id, call'[u].id # 0 PROVE u = v
    <3>1. CASE u = t \/ v = t
      BY <2>0, <2>3, <2>4, <3>1, Zenon
    <3>2. CASE u # t /\ v # t
      <4>1. call[u].id = call[v].id /\ call[u].id # 0
        BY <1>6, <2>4, <3>2, Zenon
      <4> QED
        BY <4>1, Zenon DEF ConnectorInv, Futures
    <3> QED
      BY <3>1, <3>2, Zenon
  <2>5. ASSUME NEW id \in Ids
        PROVE  (InCall(id)' <=> InCall(id) \/ id = next_id) /\ (InQueue(id)' <=> InQueue(id))
    <3>1. InQueue(id)' <=> InQueue(id)
      BY <1>0, Zenon DEF InQueue
    <3>2. call[t].id # id
      BY <1>2, <2>0, Zenon
    <3> QED
      BY <1>6, <2>0, <3>1, <3>2, Zenon DEF InCall
  <2>6. ASSUME NEW id \in Ids
        PROVE  /\ InCall(id)' \/ InQueue(id)' \/ drained'[id] = 1 <=> id < next_id'
               /\ ~(InCall(id)' /\ InQueue(id)')
               /\ InCall(id)' \/ InQueue(id)' => drained'[id] = 0
               /\ drained'[id] \in {0, 1}
    <3>1. /\ InCall(id) \/ InQueue(id) \/ drained[id] = 1 <=> id < next_id
          /\ ~(InCall(id) /\ InQueue(id))
          /\ InCall(id) \/ InQueue(id) => drained[id] = 0
          /\ drained[id] \in {0, 1}
      BY Zenon DEF ConnectorInv, Futures
    <3>2. id < next_id' <=> id < next_id \/ id = next_id
      BY <1>0, <1>2, Zenon
    <3> QED
      BY <1>0, <2>1, <2>5, <3>1, <3>2, Zenon
  <2>7. \A i, j \in 1 .. Len(completions') : completions'[i].id = completions'[j].id => i = j
    BY <1>0, Zenon DEF ConnectorInv, Futures
  <2> QED
    BY <2>2, <2>4, <2>6, <2>7, Zenon DEF Futures, Ids
<1> QED
  BY <1>7, <1>8, <1>9, <1>10, Zenon DEF ConnectorInv

LEMMA PushKeeps ==
    ASSUME ConnectorInv, NEW t \in Threads, PushCompletion(t) PROVE ConnectorInv'
<1> DEFINE id == call[t].id
           x == Completed(t)
<1>0. /\ gil = t /\ gil' = "none" /\ locks' = locks /\ call[t].pc = "push" /\ next_id' = next_id
      /\ table' = table /\ lost' = lost /\ completions' = Append(completions, x) /\ drained' = drained
  BY DEF PushCompletion, At, store
<1>1. call \in [Threads -> CallRecord] /\ call[t] \in CallRecord /\ completions \in Seq(Finished)
  BY Zenon DEF ConnectorInv, ConnectorTyped
<1>2. x \in Finished /\ x.id = id
  BY ONLY <1>1 DEF CallRecord, Finished, Completed
<1>3. call' \in [Threads -> CallRecord] /\ call'[t] = Idle /\ \A u \in Threads \ {t} : call'[u] = call[u]
  BY <1>1, IdleTyped, Zenon DEF PushCompletion
<1> HIDE DEF x
<1>4. /\ completions' \in Seq(Finished) /\ Len(completions') = Len(completions) + 1 /\ Len(completions) \in Nat
      /\ \A j \in 1 .. Len(completions) : completions'[j] = completions[j]
      /\ completions'[Len(completions) + 1] = x
  <2>1. Len(completions) \in Nat
    BY <1>1, Elements, Zenon
  <2>2. completions' = Append(completions, x) /\ completions \in Seq(Finished) /\ x \in Finished
    BY <1>0, <1>1, <1>2, Zenon
  <2> QED
    BY ONLY <2>1, <2>2, Appended
<1>5. ConnectorTyped'
  BY <1>0, <1>3, <1>4, Zenon DEF ConnectorInv, ConnectorTyped, Ids
<1>6. Holding'
  BY <1>0, <1>3, IdleTyped, Zenon DEF ConnectorInv, Holding
<1>7. Acked'
  BY <1>0, <1>3, IdleTyped, OthersAcked, Zenon
<1>8. Futures'
  <2>0. id \in Ids /\ call'[t].id = 0 /\ call'[t].pc = "idle"
    BY <1>0, <1>3, IdleTyped, Zenon DEF ConnectorInv, Futures
  <2>1. 0 \notin Ids /\ id # 0
    BY <2>0 DEF Ids
  <2>2. ASSUME NEW u \in Threads PROVE IF call'[u].pc = "idle" THEN call'[u].id = 0 ELSE call'[u].id \in Ids
    <3>1. CASE u = t
      BY <2>0, <3>1, Zenon
    <3>2. CASE u # t
      <4>1. call'[u] = call[u]
        BY <1>3, <3>2, Zenon
      <4> QED
        BY <4>1, Zenon DEF ConnectorInv, Futures
    <3> QED
      BY <3>1, <3>2, Zenon
  <2>3. \A u \in Threads \ {t} : call[u].id # id
    BY <2>1, Zenon DEF ConnectorInv, Futures
  <2>4. ASSUME NEW u \in Threads, NEW v \in Threads, call'[u].id = call'[v].id, call'[u].id # 0 PROVE u = v
    <3>1. u # t /\ v # t
      BY <2>0, <2>4, Zenon
    <3>2. call[u].id = call[v].id /\ call[u].id # 0
      BY <1>3, <2>4, <3>1, Zenon
    <3> QED
      BY <3>2, Zenon DEF ConnectorInv, Futures
  <2>5. InCall(id) /\ ~InQueue(id) /\ drained[id] = 0
    <3>1. InCall(id)
      BY Zenon DEF InCall
    <3> QED
      BY <2>0, <3>1, Zenon DEF ConnectorInv, Futures
  <2>6. /\ \A j \in 1 .. Len(completions') : j = Len(completions) + 1 \/ j \in 1 .. Len(completions)
        /\ \A j \in 1 .. Len(completions) : j \in 1 .. Len(completions')
        /\ Len(completions) + 1 \in 1 .. Len(completions')
    BY <1>4
  <2>7. ASSUME NEW y PROVE InQueue(y)' <=> InQueue(y) \/ y = id
    BY <1>2, <1>4, <2>6, Zenon DEF InQueue
  <2>8. ASSUME NEW y \in Ids PROVE InCall(y)' <=> InCall(y) /\ y # id
    <3>1. CASE y = id
      BY <1>3, <2>0, <2>1, <2>3, <3>1, Zenon DEF InCall
    <3>2. CASE y # id
      <4>1. y # 0
        BY <2>1, Zenon
      <4> QED
        BY <1>3, <2>0, <3>2, <4>1, Zenon DEF InCall
    <3> QED
      BY <3>1, <3>2, Zenon
  <2>9. ASSUME NEW i \in 1 .. Len(completions'), NEW j \in 1 .. Len(completions'), completions'[i].id = completions'[j].id
        PROVE  i = j
    <3>1. \A m \in 1 .. Len(completions) : completions'[m].id # id
      BY <1>4, <2>5, Zenon DEF InQueue
    <3>2. CASE i = Len(completions) + 1 \/ j = Len(completions) + 1
      BY <1>2, <1>4, <2>6, <2>9, <3>1, <3>2, Zenon
    <3>3. CASE i \in 1 .. Len(completions) /\ j \in 1 .. Len(completions)
      <4>1. completions[i].id = completions[j].id
        BY <1>4, <2>9, <3>3, Zenon
      <4> QED
        BY <3>3, <4>1, Zenon DEF ConnectorInv, Futures
    <3> QED
      BY <2>6, <3>2, <3>3, Zenon
  <2>10. ASSUME NEW y \in Ids
        PROVE  /\ InCall(y)' \/ InQueue(y)' \/ drained'[y] = 1 <=> y < next_id'
               /\ ~(InCall(y)' /\ InQueue(y)')
               /\ InCall(y)' \/ InQueue(y)' => drained'[y] = 0
               /\ drained'[y] \in {0, 1}
    <3>1. /\ InCall(y) \/ InQueue(y) \/ drained[y] = 1 <=> y < next_id
          /\ ~(InCall(y) /\ InQueue(y))
          /\ InCall(y) \/ InQueue(y) => drained[y] = 0
          /\ drained[y] \in {0, 1}
      BY Zenon DEF ConnectorInv, Futures
    <3> QED
      BY <1>0, <2>5, <2>7, <2>8, <3>1, Zenon
  <2> QED
    BY <2>2, <2>4, <2>9, <2>10, Zenon DEF Futures, Ids
<1> QED
  BY <1>5, <1>6, <1>7, <1>8, Zenon DEF ConnectorInv

LEMMA DrainKeepsFutures ==
    ASSUME ConnectorInv, DrainCompletions PROVE ConnectorInv'
<1>0. /\ gil' = gil /\ locks' = locks /\ call' = call /\ next_id' = next_id
      /\ table' = table /\ lost' = lost /\ completions' = <<>>
  BY DEF DrainCompletions, store
<1>1. completions \in Seq(Finished) /\ drained \in [Ids -> Nat]
  BY Zenon DEF ConnectorInv, ConnectorTyped
<1>2. \A y \in Ids : drained'[y] = IF InQueue(y) THEN drained[y] + 1 ELSE drained[y]
  <2>1. DOMAIN completions = 1 .. Len(completions)
    BY <1>1
  <2>2. \A y : y \in DrainedIds <=> InQueue(y)
    BY <2>1, Zenon DEF DrainedIds, InQueue
  <2>3. drained' = [y \in Ids |-> IF y \in DrainedIds THEN drained[y] + 1 ELSE drained[y]]
    BY Zenon DEF DrainCompletions
  <2> QED
    BY <2>2, <2>3, Zenon
<1>3. \A y : ~InQueue(y)'
  <2>1. 1 .. Len(<<>>) = {}
    OBVIOUS
  <2> QED
    BY <1>0, <2>1, Zenon DEF InQueue
<1>4. ASSUME NEW y \in Ids
      PROVE  /\ InCall(y)' \/ InQueue(y)' \/ drained'[y] = 1 <=> y < next_id'
             /\ ~(InCall(y)' /\ InQueue(y)')
             /\ InCall(y)' \/ InQueue(y)' => drained'[y] = 0
             /\ drained'[y] \in {0, 1}
  <2>1. /\ InCall(y) \/ InQueue(y) \/ drained[y] = 1 <=> y < next_id
        /\ ~(InCall(y) /\ InQueue(y))
        /\ InCall(y) \/ InQueue(y) => drained[y] = 0
        /\ drained[y] \in {0, 1}
    BY Zenon DEF ConnectorInv, Futures
  <2>2. InCall(y)' <=> InCall(y)
    BY <1>0, Zenon DEF InCall
  <2>3. CASE InQueue(y)
    <3>1. drained[y] = 0 /\ ~InCall(y) /\ y < next_id
      BY <2>1, <2>3, Zenon
    <3>2. drained'[y] = 1
      <4>1. drained'[y] = 0 + 1
        BY <1>2, <2>3, <3>1, Zenon
      <4> QED
        BY <4>1
    <3> QED
      BY <1>0, <1>3, <2>2, <3>1, <3>2, Zenon
  <2>4. CASE ~InQueue(y)
    BY <1>0, <1>2, <1>3, <2>1, <2>2, <2>4, Zenon
  <2> QED
    BY <2>3, <2>4, Zenon
<1>5. ConnectorTyped'
  <2>1. drained' \in [Ids -> Nat]
    <3>1. drained' = [y \in Ids |-> IF y \in DrainedIds THEN drained[y] + 1 ELSE drained[y]]
      BY Zenon DEF DrainCompletions
    <3> QED
      BY <1>1, <3>1
  <2>2. \A S : <<>> \in Seq(S)
    OBVIOUS
  <2> QED
    BY <1>0, <2>1, <2>2, Zenon DEF ConnectorInv, ConnectorTyped, Ids
<1>6. Holding' /\ Acked'
  BY <1>0, Zenon DEF ConnectorInv, Holding, Acked, Kept
<1>7. Futures'
  <2>1. 1 .. Len(<<>>) = {}
    OBVIOUS
  <2>2. \A i, j \in 1 .. Len(completions') : completions'[i].id = completions'[j].id => i = j
    BY <1>0, <2>1, Zenon
  <2>3. /\ \A u \in Threads : IF call'[u].pc = "idle" THEN call'[u].id = 0 ELSE call'[u].id \in Ids
        /\ \A u, v \in Threads : call'[u].id = call'[v].id /\ call'[u].id # 0 => u = v
    BY <1>0, Zenon DEF ConnectorInv, Futures
  <2> QED
    BY <1>4, <2>2, <2>3, Zenon DEF Futures, Ids
<1> QED
  BY <1>5, <1>6, <1>7, Zenon DEF ConnectorInv

\* The rest moves the locks at most.
LEMMA QuietKeeps ==
    ASSUME ConnectorInv, UNCHANGED <<call, completions, drained, next_id, table, lost>>, Holding'
    PROVE  ConnectorInv'
<1>0. /\ call' = call /\ completions' = completions /\ drained' = drained /\ next_id' = next_id
      /\ table' = table /\ lost' = lost
  OBVIOUS
<1>1. ConnectorTyped' /\ Acked'
  BY <1>0, ZenonT(40) DEF ConnectorInv, ConnectorTyped, Acked, Kept, Ids
<1>2. \A y : (InCall(y)' <=> InCall(y)) /\ (InQueue(y)' <=> InQueue(y))
  BY <1>0, Zenon DEF InCall, InQueue
<1>3. Futures'
  BY <1>0, <1>2, ZenonT(40) DEF ConnectorInv, Futures, Ids
<1> QED
  BY <1>1, <1>3, Zenon DEF ConnectorInv

LEMMA GilKeeps ==
    ASSUME ConnectorInv, NEW t \in Threads, YieldGil(t) \/ RegainGil(t) PROVE ConnectorInv'
<1>0. /\ UNCHANGED <<call, completions, drained, next_id, table, lost>> /\ call' = call /\ locks' = locks
      /\ call[t].pc \in {"entry", "retry"}
      /\ gil = t \/ gil = "none"
  BY DEF YieldGil, RegainGil, store, queue
<1>1. \A u \in Threads : call[u].pc \in {"lock", "evict", "relock", "push"} => FALSE
  BY <1>0, ConnectorAssumption, Zenon DEF ConnectorInv, Holding
<1>2. Holding'
  BY <1>0, <1>1, Zenon DEF ConnectorInv, Holding
<1> QED
  BY <1>0, <1>2, QuietKeeps, Zenon

LEMMA ConnectorStarts == ConnectorInit => ConnectorInv
<1> SUFFICES ASSUME ConnectorInit PROVE ConnectorInv
  OBVIOUS
<1>0. /\ call = [t \in Threads |-> Idle] /\ completions = <<>> /\ drained = [id \in Ids |-> 0] /\ next_id = 1
      /\ table = [k \in Keys |-> "none"]
  BY Zenon DEF ConnectorInit
<1>1. \A t \in Threads : call[t] = Idle
  BY <1>0, Zenon
<1>2. ConnectorTyped
  <2>1. call \in [Threads -> CallRecord]
    BY <1>0, IdleTyped, Zenon
  <2>2. \A S : <<>> \in Seq(S)
    OBVIOUS
  <2>3. drained \in [Ids -> Nat] /\ 1 \in Nat \ {0} /\ table \in [Keys -> {"none", "inline", "extent"}]
    BY <1>0
  <2> QED
    BY <1>0, <2>1, <2>2, <2>3, Zenon DEF ConnectorTyped
<1>3. Holding /\ Acked
  BY <1>1, IdleTyped, Zenon DEF Holding, Acked
<1>4. Futures
  <2>1. 0 \notin Ids /\ 1 .. Len(<<>>) = {} /\ \A id \in Ids : ~(id < 1)
    BY ConnectorAssumption DEF Ids
  <2>2. \A id \in Ids : ~InCall(id) /\ ~InQueue(id) /\ drained[id] = 0
    BY <1>0, <1>1, <2>1, IdleTyped, Zenon DEF InCall, InQueue
  <2>3. 0 # 1
    OBVIOUS
  <2> QED
    BY <1>0, <1>1, <2>1, <2>2, <2>3, IdleTyped, Zenon DEF Futures
<1> QED
  BY <1>2, <1>3, <1>4, Zenon DEF ConnectorInv

LEMMA ConnectorStep == ConnectorInv /\ [ConnectorNext]_cvars => ConnectorInv'
<1> SUFFICES ASSUME ConnectorInv, [ConnectorNext]_cvars PROVE ConnectorInv'
  OBVIOUS
<1>1. ASSUME NEW t \in Threads, MethodStep(t) PROVE ConnectorInv'
  BY <1>1, PresenceKeeps, SetLockKeeps, SetEntryKeeps, LoopEndsKeeps, EvictKeeps, RelockKeeps, RetryEntryKeeps,
     PushKeeps, Zenon DEF MethodStep
<1>2. ASSUME NEW t \in Threads, \E op \in {"get", "set", "delete"}, b \in Batches : Submit(t, op, b) PROVE ConnectorInv'
  BY <1>2, SubmitKeeps, Zenon
<1>3. ASSUME \/ DemuxWakes \/ DemuxClears \/ Close \/ Drop \/ Joined \/ UNCHANGED cvars
             \/ \E w \in Workers : WorkerExits(w)
      PROVE  ConnectorInv'
  <2>1. UNCHANGED <<call, completions, drained, next_id, table, lost>> /\ call' = call /\ gil' = gil /\ locks' = locks
    BY <1>3, SMTT(30) DEF DemuxWakes, DemuxClears, Close, Drop, Joined, WorkerExits, cvars, store, queue
  <2>2. Holding'
    BY <2>1, Zenon DEF ConnectorInv, Holding
  <2> QED
    BY <2>1, <2>2, QuietKeeps, Zenon
<1> QED
  BY <1>1, <1>2, <1>3, GilKeeps, DrainKeepsFutures, Zenon DEF ConnectorNext, DemuxStep

LEMMA ConnectorAlways == ConnectorSpec => []ConnectorInv
BY ConnectorStarts, ConnectorStep, PTL DEF ConnectorSpec

\* For any threads, batches and number of calls, with the GIL changing hands in the middle
\* of submit_batch_set: every future_id belongs to one call in progress, or waits once
\* among the completions, or was drained once (lmcache-connector/src/lib.rs).
THEOREM FuturesAlwaysOnce == ConnectorSpec => []FutureOnce
<1>1. ASSUME ConnectorInv, NEW id \in Ids
      PROVE  IF id < next_id /\ drained[id] = 0
             THEN \E h \in Holders(id) : Holders(id) = {h}
             ELSE Holders(id) = {} /\ drained[id] = IF id < next_id THEN 1 ELSE 0
  <2>1. /\ InCall(id) \/ InQueue(id) \/ drained[id] = 1 <=> id < next_id
        /\ ~(InCall(id) /\ InQueue(id))
        /\ InCall(id) \/ InQueue(id) => drained[id] = 0
        /\ drained[id] \in {0, 1}
    BY <1>1, Zenon DEF ConnectorInv, Futures
  <2>2. id # 0 /\ 0 # 1
    BY DEF Ids
  <2>3. DOMAIN completions = 1 .. Len(completions)
    <3>1. completions \in Seq(Finished)
      BY <1>1, Zenon DEF ConnectorInv, ConnectorTyped
    <3> QED
      BY <3>1
  <2> DEFINE T == {t \in Threads : call[t].id = id}
             Q == {i \in DOMAIN completions : completions[i].id = id}
  <2>4. Holders(id) = {<<"call", t>> : t \in T} \cup {<<"completion", i>> : i \in Q}
    BY Zenon DEF Holders
  <2>5. ~InCall(id) => T = {}
    BY Zenon DEF InCall
  <2>6. ~InQueue(id) => Q = {}
    BY <2>3, Zenon DEF InQueue
  <2>7. CASE InCall(id)
    <3>1. PICK t \in Threads : call[t].id = id
      BY <2>7, Zenon DEF InCall
    <3>2. T = {t}
      BY <1>1, <2>2, <3>1, Zenon DEF ConnectorInv, Futures
    <3>3. Holders(id) = {<<"call", t>>}
      BY <2>1, <2>4, <2>6, <2>7, <3>2, Zenon
    <3>4. id < next_id /\ drained[id] = 0
      BY <2>1, <2>7, Zenon
    <3> QED
      BY <3>3, <3>4, Zenon
  <2>8. CASE InQueue(id)
    <3>1. PICK i \in 1 .. Len(completions) : completions[i].id = id
      BY <2>8, Zenon DEF InQueue
    <3>2. Q = {i}
      BY <1>1, <2>3, <3>1, Zenon DEF ConnectorInv, Futures
    <3>3. Holders(id) = {<<"completion", i>>}
      BY <2>1, <2>4, <2>5, <2>8, <3>2, Zenon
    <3>4. id < next_id /\ drained[id] = 0
      BY <2>1, <2>8, Zenon
    <3> QED
      BY <3>3, <3>4, Zenon
  <2>9. CASE ~InCall(id) /\ ~InQueue(id)
    <3>1. Holders(id) = {}
      BY <2>4, <2>5, <2>6, <2>9, Zenon
    <3> QED
      BY <2>1, <2>2, <2>9, <3>1, Zenon
  <2> QED
    BY <2>7, <2>8, <2>9, Zenon
<1>2. ConnectorInv => FutureOnce
  BY <1>1, Zenon DEF FutureOnce
<1> QED
  BY <1>2, ConnectorAlways, PTL

\* When submit_batch_set reports TRUE for a key, through eviction, retry and the calls of
\* other threads in between, the key is in the table or TableFull has cost it.
THEOREM AckedAlwaysThere == ConnectorSpec => []AckedIsThere
<1>1. ASSUME ConnectorInv PROVE AckedIsThere
  <2> SUFFICES ASSUME NEW t \in Threads, call[t].pc = "push", call[t].op = "set",
                      NEW i \in DOMAIN call[t].batch, call[t].res[i]
               PROVE  table[call[t].batch[i].key] # "none" \/ call[t].batch[i].key \in lost
    BY Zenon DEF AckedIsThere
  <2>1. i \in 1 .. Len(call[t].res)
    BY <1>1, BatchTyped, Zenon DEF ConnectorInv, Acked
  <2> QED
    BY <1>1, <2>1, Zenon DEF ConnectorInv, Acked, Kept
<1> QED
  BY <1>1, ConnectorAlways, PTL

=============================================================================
