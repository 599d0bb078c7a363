-------------------------- MODULE Transport_proofs --------------------------
(***************************************************************************)
(* Why the steps of a TcpTransport keep the invariants, and the theorems   *)
(* about both transports.                                                  *)
(***************************************************************************)
EXTENDS Rdma_proofs

(***************************************************************************)
(* Steps of TcpTransport, the peer and the connection.                     *)
(***************************************************************************)
LEMMA TcpStartKeeps ==
    ASSUME Typed, Numbered, TcpInv, NEW c \in Callers, NEW op \in Ops, TcpStart(c, op),
           UNCHANGED <<kind, sq, cq>>
    PROVE  Typed' /\ Numbered' /\ TcpInv'
<1>1. /\ Start(c, op, "locking") /\ res' = res /\ abandoned' = abandoned /\ oks' = oks /\ done' = done
      /\ link' = link /\ holder' = holder /\ requests' = requests /\ replies' = replies
      /\ garbled' = garbled /\ kind' = kind /\ sq' = sq /\ cq' = cq
  BY Zenon DEF TcpStart, tcp
<1>2. /\ calls' \in [Callers -> [pc : Pcs, id : Nat, op : Ops]]
      /\ calls'[c].pc = "locking" /\ calls'[c].id = next_id
      /\ \A d \in Callers : d # c => calls'[d] = calls[d]
      /\ ~Busy(c) /\ next_id \in Ids /\ next_id' = next_id + 1 /\ next_id \in Nat \ {0}
  <2>1. CallTyped /\ next_id \in Nat \ {0} /\ "locking" \in Pcs
    BY Zenon DEF Typed, Pcs
  <2> QED
    BY <1>1, <2>1, Started, Zenon
<1>3. Typed'
  BY <1>1, <1>2 DEF Typed, CallTyped
<1>4. Ids \subseteq Nat
  BY DEF Ids
<1>5. Numbered'
  <2>1. \A d \in Callers : Busy(d)' => calls'[d].id \in Ids /\ calls'[d].id < next_id'
    BY <1>2, <1>4, SMTT(30) DEF Numbered, Busy
  <2>2. \A d, f \in Callers : Busy(d)' /\ Busy(f)' /\ d # f => calls'[d].id # calls'[f].id
    BY <1>2, <1>4 DEF Numbered, Busy
  <2>3. \A id \in Ids : done[id] # "no" \/ In(id, sq) \/ In(id, cq) \/ In(id, requests) => id < next_id'
    BY <1>2, <1>4 DEF Numbered
  <2>4. \A d \in Callers : res[d].r # "none" => res[d].id \in Ids /\ res[d].id < next_id'
    <3>1. \A id \in Ids : id < next_id => id < next_id'
      BY <1>2, <1>4
    <3> QED
      BY <3>1, Zenon DEF Numbered
  <2> QED
    BY <1>1, <2>1, <2>2, <2>3, <2>4, Zenon DEF Numbered
<1>6. Locked'
  BY <1>1, <1>2, Zenon DEF TcpInv, Locked
<1>7. TcpTold'
  <2>1. \A d \in Callers : res[d].r \in {"Ok", "true", "false"} /\ Settled(d, requests) => Settled(d, requests)'
    BY <1>1, <1>2, <1>4, SMTT(30) DEF Settled, Busy, Numbered
  <2> QED
    BY <1>1, <2>1, Zenon DEF TcpInv, TcpTold
<1>8. InStep'
  <2>1. \A q : Awaited(calls, q) => Awaited(calls', q)
    BY <1>2, Zenon DEF Awaited, Busy
  <2> QED
    BY <1>1, <2>1, Zenon DEF TcpInv, InStep
<1>9. Left'
  <2>1. \A id \in Ids : id < next_id => id < next_id'
    BY <1>2, <1>4
  <2> QED
    BY <1>1, <2>1, Zenon DEF TcpInv, Left
<1> QED
  BY <1>3, <1>5, <1>6, <1>7, <1>8, <1>9, Zenon DEF TcpInv

LEMMA LockKeeps ==
    ASSUME Typed, Numbered, TcpInv, NEW c \in Callers, Lock(c), UNCHANGED <<kind, sq, cq>>
    PROVE  Typed' /\ Numbered' /\ TcpInv'
<1>1. /\ calls[c].pc = "locking" /\ holder = Nobody /\ Goto(c, "sending") /\ holder' = c
      /\ next_id' = next_id /\ res' = res /\ abandoned' = abandoned /\ oks' = oks /\ done' = done
      /\ link' = link /\ requests' = requests /\ replies' = replies
      /\ garbled' = garbled /\ kind' = kind /\ sq' = sq /\ cq' = cq
  BY Zenon DEF Lock
<1>2. /\ calls' \in [Callers -> [pc : Pcs, id : Nat, op : Ops]]
      /\ calls'[c].pc = "sending"
      /\ \A d \in Callers : d # c => calls'[d] = calls[d]
      /\ \A d \in Callers : calls'[d].id = calls[d].id
  <2>1. CallTyped /\ "sending" \in Pcs
    BY Zenon DEF Typed, Pcs
  <2> QED
    BY <1>1, <2>1, Moved, Zenon
<1>3. Typed'
  BY <1>1, <1>2, Zenon DEF Typed, CallTyped
<1>4. \A d \in Callers : Busy(d)' <=> Busy(d)
  BY <1>1, <1>2, Zenon DEF Busy
<1>5. Numbered'
  BY <1>1, <1>2, <1>4, ZenonT(40) DEF Numbered
<1>6. Locked'
  <2>1. Nobody \notin Callers
    BY TransportAssumption, Zenon DEF Nobody
  <2> QED
    BY <1>1, <1>2, <2>1, SMTT(30) DEF TcpInv, Locked
<1>7. TcpTold'
  <2>1. \A d \in Callers : Settled(d, requests) => Settled(d, requests)'
    BY <1>1, <1>2, <1>4 DEF Settled
  <2> QED
    BY <1>1, <2>1, Zenon DEF TcpInv, TcpTold
<1>8. InStep'
  <2>1. \A q : Awaited(calls, q) => Awaited(calls', q)
    BY <1>1, <1>2, Zenon DEF Awaited
  <2> QED
    BY <1>1, <2>1, Zenon DEF TcpInv, InStep
<1>9. Left'
  BY <1>1, Zenon DEF TcpInv, Left
<1> QED
  BY <1>3, <1>5, <1>6, <1>7, <1>8, <1>9, Zenon DEF TcpInv

LEMMA SendKeeps ==
    ASSUME Typed, Numbered, TcpInv, NEW c \in Callers, Send(c), UNCHANGED <<kind, sq, cq>>
    PROVE  Typed' /\ Numbered' /\ TcpInv'
<1> DEFINE me == calls[c].id
<1>1. /\ calls[c].pc = "sending" /\ link = "up" /\ Goto(c, "receiving") /\ holder' = holder
      /\ requests' = Append(requests, calls[c])
      /\ next_id' = next_id /\ res' = res /\ abandoned' = abandoned /\ oks' = oks /\ done' = done
      /\ link' = link /\ replies' = replies
      /\ garbled' = garbled /\ kind' = kind /\ sq' = sq /\ cq' = cq
  BY Zenon DEF Send
<1>2. /\ calls' \in [Callers -> [pc : Pcs, id : Nat, op : Ops]]
      /\ calls'[c].pc = "receiving" /\ calls'[c].op = calls[c].op
      /\ \A d \in Callers : d # c => calls'[d] = calls[d]
      /\ \A d \in Callers : calls'[d].id = calls[d].id
  <2>1. CallTyped /\ "receiving" \in Pcs
    BY Zenon DEF Typed, Pcs
  <2> QED
    BY <1>1, <2>1, Moved, Zenon
<1>3. me \in Ids /\ me < next_id /\ calls[c] \in Request /\ requests \in Seq(Request)
  BY <1>1, Zenon DEF Numbered, Busy, Typed, CallTyped, Request
<1>4. /\ \A id : In(id, requests') <=> In(id, requests) \/ me = id
      /\ requests' \in Seq(Request) /\ requests'[Len(requests) + 1] = calls[c]
      /\ Len(requests) \in Nat /\ Len(requests') = Len(requests) + 1
  BY <1>1, <1>3, InAppend
<1>5. Typed'
  BY <1>1, <1>2, <1>4, Zenon DEF Typed, CallTyped
<1>6. \A d \in Callers : Busy(d)' <=> Busy(d)
  BY <1>1, <1>2, Zenon DEF Busy
<1>7. Numbered'
  <2>1. \A id \in Ids : done[id] # "no" \/ In(id, sq) \/ In(id, cq) \/ In(id, requests') => id < next_id
    BY <1>3, <1>4, Zenon DEF Numbered
  <2> QED
    BY <1>1, <1>2, <1>6, <2>1, SMTT(30) DEF Numbered
<1>8. Locked'
  BY <1>1, <1>2, Zenon DEF TcpInv, Locked
<1>9. TcpTold'
  <2>1. \A d \in Callers : Settled(d, requests) => Settled(d, requests)'
    BY <1>1, <1>2, <1>4, <1>6, ZenonT(40) DEF Settled, Busy
  <2> QED
    BY <1>1, <2>1, Zenon DEF TcpInv, TcpTold
<1>10. InStep'
  <2> SUFFICES ASSUME abandoned = {}
               PROVE  /\ garbled = FALSE /\ Len(requests') + Len(replies) <= 1
                      /\ \A i \in 1 .. Len(requests') : Awaited(calls', requests'[i])
                      /\ \A i \in 1 .. Len(replies) : Awaited(calls', replies[i]) /\ replies[i].e = done[replies[i].id]
    BY <1>1, Zenon DEF InStep
  <2>1. \A q : ~Awaited(calls, q)
    BY <1>1, Zenon DEF TcpInv, Locked, Awaited
  <2>2. garbled = FALSE /\ Len(requests) = 0 /\ Len(replies) = 0
    <3>1. Len(replies) \in Nat /\ Len(requests) \in Nat
      BY DEF Typed
    <3> QED
      BY <2>1, <3>1 DEF TcpInv, InStep
  <2>3. Awaited(calls', calls[c])
    BY <1>2, Zenon DEF Awaited
  <2> QED
    BY <1>4, <2>2, <2>3, SMTT(30)
<1>11. Left'
  BY <1>1, Zenon DEF TcpInv, Left
<1> QED
  BY <1>5, <1>7, <1>8, <1>9, <1>10, <1>11, Zenon DEF TcpInv

LEMMA IoErrorKeeps ==
    ASSUME Typed, Numbered, TcpInv, NEW c \in Callers, IoError(c), UNCHANGED <<kind, sq, cq>>
    PROVE  Typed' /\ Numbered' /\ TcpInv'
<1>1. /\ calls[c].pc \in {"sending", "receiving"} /\ link = "broken" /\ Return(c, "Err") /\ holder' = Nobody
      /\ next_id' = next_id /\ abandoned' = abandoned /\ done' = done
      /\ link' = link /\ requests' = requests /\ replies' = replies
      /\ garbled' = garbled /\ kind' = kind /\ sq' = sq /\ cq' = cq
  BY SMTT(30) DEF IoError
<1>2. /\ calls' \in [Callers -> [pc : Pcs, id : Nat, op : Ops]]
      /\ res' \in [Callers -> [r : Results, id : Nat, clean : BOOLEAN]]
      /\ calls'[c].pc = "idle"
      /\ \A d \in Callers : d # c => calls'[d] = calls[d] /\ res'[d] = res[d]
      /\ res'[c].r = "Err" /\ res'[c].id = calls[c].id
  <2>1. CallTyped /\ "Err" \in Results
    BY SMTT(30) DEF Typed, Results
  <2> QED
    BY <1>1, <2>1, Returned, Zenon
<1>3. Typed'
  <2>1. oks' = oks /\ oks \in Nat
    BY <1>1, SMTT(30) DEF Return, Typed
  <2> QED
    BY <1>1, <1>2, <2>1, Zenon DEF Typed, CallTyped
<1>4. \A d \in Callers : Busy(d)' <=> Busy(d) /\ d # c
  BY <1>2, Zenon DEF Busy
<1>5. Numbered'
  <2>1. calls[c].id \in Ids /\ calls[c].id < next_id
    BY <1>1, SMTT(30) DEF Numbered, Busy
  <2>2. \A d \in Callers : res'[d].r # "none" => res'[d].id \in Ids /\ res'[d].id < next_id
    BY <1>2, <2>1 DEF Numbered
  <2>3. \A d \in Callers : Busy(d)' => calls'[d].id \in Ids /\ calls'[d].id < next_id
    BY <1>2, <1>4, Zenon DEF Numbered
  <2>4. \A d, f \in Callers : Busy(d)' /\ Busy(f)' /\ d # f => calls'[d].id # calls'[f].id
    BY <1>2, <1>4, SMTT(30) DEF Numbered
  <2>5. \A id \in Ids : done[id] # "no" \/ In(id, sq) \/ In(id, cq) \/ In(id, requests) => id < next_id
    BY Zenon DEF Numbered
  <2> QED
    BY <1>1, <2>2, <2>3, <2>4, <2>5, Zenon DEF Numbered
<1>6. Locked'
  BY <1>1, <1>2, Zenon DEF TcpInv, Locked
<1>7. TcpTold'
  <2>1. \A d \in Callers : d # c /\ Settled(d, requests) => Settled(d, requests)'
    BY <1>1, <1>2, <1>4, SMTT(30) DEF Settled
  <2>3. res'[c].r \notin {"Ok", "true", "false"}
    BY <1>2, Zenon
  <2> QED
    BY <1>1, <1>2, <2>1, <2>3, ZenonT(40) DEF TcpInv, TcpTold
<1>8. InStep'
  <2>1. requests = <<>> /\ replies = <<>> /\ Len(requests) = 0 /\ Len(replies) = 0
    BY <1>1, Zenon DEF TcpInv, Locked
  <2> QED
    BY <1>1, <2>1 DEF TcpInv, InStep
<1>9. Left'
  BY <1>1, Zenon DEF TcpInv, Left
<1> QED
  BY <1>3, <1>5, <1>6, <1>7, <1>8, <1>9, Zenon DEF TcpInv

LEMMA CancelKeeps ==
    ASSUME Typed, Numbered, TcpInv, NEW c \in Callers, Cancel(c), UNCHANGED <<kind, sq, cq>>
    PROVE  Typed' /\ Numbered' /\ TcpInv'
<1>1. /\ calls' = [calls EXCEPT ![c] = IdleCall]
      /\ holder' = (IF holder = c THEN Nobody ELSE holder)
      /\ res' = res /\ oks' = oks
      /\ next_id' = next_id /\ done' = done /\ link' = link /\ requests' = requests /\ replies' = replies
      /\ kind' = kind /\ sq' = sq /\ cq' = cq
  BY Zenon DEF Cancel
<1>2. /\ calls' \in [Callers -> [pc : Pcs, id : Nat, op : Ops]]
      /\ calls'[c].pc = "idle" /\ \A d \in Callers : d # c => calls'[d] = calls[d]
  BY <1>1, IdleTyped, Zenon DEF Typed, CallTyped
<1>3. Typed'
  BY <1>1, <1>2, Zenon DEF Typed, CallTyped
<1>4. \A d \in Callers : Busy(d)' <=> Busy(d) /\ d # c
  BY <1>2, Zenon DEF Busy
<1>5. Numbered'
  <2>1. \A d \in Callers : Busy(d)' => calls'[d].id \in Ids /\ calls'[d].id < next_id
    BY <1>2, <1>4, SMTT(30) DEF Numbered
  <2>2. \A d, f \in Callers : Busy(d)' /\ Busy(f)' /\ d # f => calls'[d].id # calls'[f].id
    BY <1>2, <1>4, Zenon DEF Numbered
  <2>3. /\ \A id \in Ids : done[id] # "no" \/ In(id, sq) \/ In(id, cq) \/ In(id, requests) => id < next_id
        /\ \A d \in Callers : res[d].r # "none" => res[d].id \in Ids /\ res[d].id < next_id
    BY Zenon DEF Numbered
  <2> QED
    BY <1>1, <2>1, <2>2, <2>3, Zenon DEF Numbered
<1>6. Locked'
  BY <1>1, <1>2, Zenon DEF TcpInv, Locked
<1>9. Busy(c) /\ (abandoned' = abandoned \/ abandoned' = abandoned \cup {calls[c].id})
  BY Zenon DEF Cancel, Busy
<1>7. TcpTold'
  <2>1. \A d \in Callers : Settled(d, requests) => Settled(d, requests)'
    BY <1>1, <1>2, <1>4, SMTT(30) DEF Settled
  <2> QED
    <3> SUFFICES ASSUME NEW d \in Callers, res[d].clean, res[d].r \in {"Ok", "true", "false"}
                 PROVE  /\ Settled(d, requests)' /\ res[d].id \notin abandoned'
                        /\ res[d].r = "Ok" => done[res[d].id] # "no"
                        /\ res[d].r = "true" => done[res[d].id] = "done"
                        /\ res[d].r = "false" => done[res[d].id] # "done"
      BY <1>1, Zenon DEF TcpTold
    <3>1. /\ Settled(d, requests) /\ res[d].id \notin abandoned
          /\ res[d].r = "Ok" => done[res[d].id] # "no"
          /\ res[d].r = "true" => done[res[d].id] = "done"
          /\ res[d].r = "false" => done[res[d].id] # "done"
      BY Zenon DEF TcpInv, TcpTold
    <3>2. res[d].id # calls[c].id
      BY <1>9, <3>1, Zenon DEF Settled
    <3> QED
      BY <1>9, <2>1, <3>1, <3>2, Zenon
<1>8. InStep'
  <2>1. CASE abandoned' # {}
    BY <2>1, Zenon DEF InStep
  <2>2. CASE calls[c].pc \in {"locking", "sending"} /\ abandoned' = abandoned /\ garbled' = garbled
    <3>1. \A q : Awaited(calls, q) => Awaited(calls', q)
      BY <1>2, <2>2, Zenon DEF Awaited
    <3> QED
      BY <1>1, <2>2, <3>1, Zenon DEF TcpInv, InStep
  <2>3. \/ calls[c].pc \in {"locking", "sending"} /\ abandoned' = abandoned /\ garbled' = garbled
        \/ abandoned' = abandoned \cup {calls[c].id}
    BY Zenon DEF Cancel
  <2> QED
    BY <2>1, <2>2, <2>3, Zenon
<1>10. Left'
  <2>1. calls[c].id \in Ids /\ calls[c].id < next_id
    BY <1>9, Zenon DEF Numbered
  <2> QED
    BY <1>1, <1>9, <2>1, Zenon DEF TcpInv, Left
<1> QED
  BY <1>3, <1>5, <1>6, <1>7, <1>8, <1>10, Zenon DEF TcpInv

\* A receiving call returns: the status is its own answer's, unless an earlier call left its
\* answer behind.
LEMMA ReturnsKeeps ==
    ASSUME Typed, Numbered, TcpInv, NEW c \in Callers, Receive(c), UNCHANGED <<kind, sq, cq>>,
           NEW ok \in BOOLEAN, Return(c, Outcome(calls[c].op, ok)), holder' = Nobody,
           \/ ~OutOfStep(c) /\ ok = (Head(replies).e = "done") /\ replies' = Tail(replies) /\ garbled' = garbled
           \/ OutOfStep(c) /\ replies' \in {replies, Tail(replies)}
    PROVE  Typed' /\ Numbered' /\ TcpInv'
<1> DEFINE me == calls[c].id
           a == Head(replies)
           out == OutOfStep(c)
           A == [id : Ids, op : Ops, e : Answers]
<1>1. /\ calls[c].pc = "receiving" /\ replies # <<>>
      /\ next_id' = next_id /\ abandoned' = abandoned /\ done' = done
      /\ link' = link /\ requests' = requests /\ kind' = kind /\ sq' = sq /\ cq' = cq
  BY Zenon DEF Receive
<1> DEFINE r == Outcome(calls[c].op, ok)
<1>3. /\ r \in Results /\ r # "none" /\ (r \in {"Ok", "true"} => ok)
      /\ r = "false" => ~ok
  <2>1. calls[c].op \in Ops
    BY Zenon DEF Typed, CallTyped
  <2> QED
    BY <2>1, Zenon DEF Outcome, Ops, Results
<1> HIDE DEF r
<1>4. /\ calls' \in [Callers -> [pc : Pcs, id : Nat, op : Ops]]
      /\ res' \in [Callers -> [r : Results, id : Nat, clean : BOOLEAN]]
      /\ calls'[c].pc = "idle"
      /\ \A d \in Callers : d # c => calls'[d] = calls[d] /\ res'[d] = res[d]
      /\ res'[c].r = r /\ res'[c].id = me
      /\ res'[c].clean <=> abandoned = {}
  <2>1. CallTyped /\ Return(c, r)
    BY Zenon DEF Typed, r
  <2> QED
    BY <1>3, <2>1, Returned, Zenon
<1>5. /\ replies \in Seq(A) /\ a \in A /\ replies' \in Seq(A) /\ Len(replies) \in Nat \ {0}
      /\ ~out => Len(replies') = Len(replies) - 1
      /\ a = replies[1]
  <2>1. replies \in Seq(A)
    BY Zenon DEF Typed
  <2> HIDE DEF A
  <2>2. Tail(replies) \in Seq(A) /\ Len(Tail(replies)) = Len(replies) - 1 /\ Len(replies) \in Nat \ {0}
        /\ a \in A /\ a = replies[1]
    BY <1>1, <2>1
  <2> QED
    BY <2>1, <2>2, Zenon
<1>6. Typed'
  <2>1. oks' \in Nat
    <3>1. oks' = oks + (IF r \in {"Ok", "true"} THEN 1 ELSE 0) /\ oks \in Nat
      BY Zenon DEF Return, Typed, r
    <3> QED
      BY <3>1, SMTT(30)
  <2> QED
    BY <1>1, <1>4, <1>5, <2>1, Zenon DEF Typed, CallTyped
<1>7. \A d \in Callers : Busy(d)' <=> Busy(d) /\ d # c
  BY <1>4, Zenon DEF Busy
<1>8. me \in Ids /\ me < next_id
  BY <1>1, Zenon DEF Numbered, Busy
<1>9. Numbered'
  <2>2. \A d \in Callers : res'[d].r # "none" => res'[d].id \in Ids /\ res'[d].id < next_id
    BY <1>4, <1>8, ZenonT(40) DEF Numbered
  <2>3. \A d \in Callers : Busy(d)' => calls'[d].id \in Ids /\ calls'[d].id < next_id
    BY <1>4, <1>7, Zenon DEF Numbered
  <2>4. \A d, f \in Callers : Busy(d)' /\ Busy(f)' /\ d # f => calls'[d].id # calls'[f].id
    BY <1>4, <1>7, SMTT(30) DEF Numbered
  <2>5. \A id \in Ids : done[id] # "no" \/ In(id, sq) \/ In(id, cq) \/ In(id, requests) => id < next_id
    BY Zenon DEF Numbered
  <2> QED
    BY <1>1, <2>2, <2>3, <2>4, <2>5, SMTT(30) DEF Numbered
<1>10. Locked'
  <2>1. link # "broken"
    BY <1>1, Zenon DEF TcpInv, Locked
  <2> QED
    BY <1>1, <1>4, <2>1, Zenon DEF TcpInv, Locked
<1>11. ASSUME abandoned = {}
       PROVE  /\ a.id = me /\ a.op = calls[c].op /\ a.e = done[me] /\ garbled = FALSE /\ out = FALSE
              /\ Len(requests) = 0 /\ Len(replies) = 1
  <2>1. /\ garbled = FALSE /\ Len(requests) + Len(replies) <= 1
        /\ Awaited(calls, a) /\ a.e = done[a.id]
    <3>1. 1 \in 1 .. Len(replies)
      BY <1>5
    <3> QED
      BY <1>5, <1>11, <3>1, SMTT(30) DEF TcpInv, InStep
  <2>2. PICK d \in Callers : calls[d].pc = "receiving" /\ calls[d].id = a.id /\ calls[d].op = a.op
    BY <2>1, Zenon DEF Awaited
  <2>3. d = c
    BY <1>1, <2>2, Zenon DEF TcpInv, Locked
  <2>4. Len(requests) \in Nat
    BY SMTT(30) DEF Typed
  <2>5. Len(requests) = 0 /\ Len(replies) = 1
    <3> DEFINE m == Len(requests)
               n == Len(replies)
    <3>1. m \in Nat /\ n \in Nat \ {0} /\ m + n <= 1
      BY <1>5, <2>1, <2>4, Zenon
    <3> HIDE DEF m, n
    <3>2. m = 0 /\ n = 1
      BY <3>1
    <3> QED
      BY <3>2, Zenon DEF m, n
  <2>6. a.op = calls[c].op /\ a.id = me
    BY <2>2, <2>3, SMTT(30)
  <2>7. out = FALSE
    BY <2>1, <2>6 DEF OutOfStep
  <2> QED
    BY <2>1, <2>5, <2>6, <2>7, Zenon
<1>12. InStep'
  <2>1. abandoned = {} => garbled' = FALSE
    BY <1>11, Zenon
  <2>2. abandoned = {} => Len(requests') = 0 /\ Len(replies') = 0
    BY <1>1, <1>5, <1>11, SMTT(30)
  <2>3. abandoned' = abandoned
    BY <1>1, Zenon
  <2> QED
    BY <2>1, <2>2, <2>3, SMTT(30) DEF InStep
<1>13. TcpTold'
  <2>2. ASSUME NEW d \in Callers, d # c, res'[d].clean, res'[d].r \in {"Ok", "true", "false"}
        PROVE  /\ Settled(d, requests)' /\ res'[d].id \notin abandoned
               /\ res'[d].r = "Ok" => done'[res'[d].id] # "no"
               /\ res'[d].r = "true" => done'[res'[d].id] = "done"
               /\ res'[d].r = "false" => done'[res'[d].id] # "done"
    <3>1. res'[d] = res[d]
      BY <1>4, <2>2, Zenon
    <3>2. /\ Settled(d, requests) /\ res[d].id \notin abandoned
          /\ res[d].r = "Ok" => done[res[d].id] # "no"
          /\ res[d].r = "true" => done[res[d].id] = "done"
          /\ res[d].r = "false" => done[res[d].id] # "done"
      BY <2>2, <3>1, Zenon DEF TcpInv, TcpTold
    <3>3. Settled(d, requests)'
      <4>1. ~In(res[d].id, requests) /\ \A f \in Callers : Busy(f) => calls[f].id # res[d].id
        BY <3>2, Zenon DEF Settled
      <4>2. \A f \in Callers : Busy(f)' => calls'[f].id # res[d].id
        BY <1>4, <1>7, <4>1, Zenon
      <4>3. requests' = requests
        BY <1>1, Zenon
      <4> QED
        BY <3>1, <4>1, <4>2, <4>3, SMTT(30) DEF Settled
    <3> QED
      BY <1>1, <3>1, <3>2, <3>3, Zenon
  <2>3. ASSUME res'[c].clean, res'[c].r \in {"Ok", "true", "false"}
        PROVE  /\ Settled(c, requests)' /\ res'[c].id \notin abandoned
               /\ res'[c].r = "Ok" => done'[res'[c].id] # "no"
               /\ res'[c].r = "true" => done'[res'[c].id] = "done"
               /\ res'[c].r = "false" => done'[res'[c].id] # "done"
    <3>1. abandoned = {}
      BY <1>4, <2>3, Zenon
    <3>2. ok <=> done[me] = "done"
      <4>1. ok = (a.e = "done")
        BY <1>11, <3>1, Zenon
      <4> QED
        BY <1>11, <3>1, <4>1, Zenon
    <3>3. Settled(c, requests)'
      <4>1. ~In(me, requests)
        BY <1>11, <3>1, SMTT(30) DEF In
      <4>2. \A d \in Callers : Busy(d)' => calls'[d].id # me
        BY <1>1, <1>4, <1>7, ZenonT(40) DEF Numbered, Busy
      <4> QED
        BY <1>1, <1>4, <4>1, <4>2, Zenon DEF Settled
    <3> QED
      BY <1>1, <1>3, <1>4, <3>1, <3>2, <3>3, SMTT(30)
  <2>4. ASSUME NEW d \in Callers, res'[d].clean, res'[d].r \in {"Ok", "true", "false"}
        PROVE  /\ Settled(d, requests)' /\ res'[d].id \notin abandoned
               /\ res'[d].r = "Ok" => done'[res'[d].id] # "no"
               /\ res'[d].r = "true" => done'[res'[d].id] = "done"
               /\ res'[d].r = "false" => done'[res'[d].id] # "done"
    BY <2>2, <2>3, <2>4, Zenon
  <2> QED
    BY <1>1, <2>4, Zenon DEF TcpTold
<1>14. Left'
  BY <1>1, Zenon DEF TcpInv, Left
<1> QED
  BY <1>6, <1>9, <1>10, <1>12, <1>13, <1>14, Zenon DEF TcpInv

\* Out of step, a call takes bytes and goes on waiting.
LEMMA WaitsKeeps ==
    ASSUME Typed, Numbered, TcpInv, NEW c \in Callers, Receive(c), UNCHANGED <<kind, sq, cq>>,
           OutOfStep(c), replies' = Tail(replies), UNCHANGED <<calls, res, oks, holder>>
    PROVE  Typed' /\ Numbered' /\ TcpInv'
<1> DEFINE A == [id : Ids, op : Ops, e : Answers]
<1>1. /\ calls[c].pc = "receiving" /\ replies # <<>> /\ next_id' = next_id /\ abandoned' = abandoned
      /\ done' = done /\ link' = link /\ requests' = requests /\ calls' = calls /\ res' = res
      /\ oks' = oks /\ holder' = holder /\ kind' = kind /\ sq' = sq /\ cq' = cq
  BY Zenon DEF Receive
<1>2. replies \in Seq(A)
  BY Zenon DEF Typed
<1>3. replies' \in Seq(A) /\ Head(replies) = replies[1] /\ 1 \in 1 .. Len(replies)
  <2> HIDE DEF A
  <2> QED
    BY <1>1, <1>2
<1>4. Typed'
  BY <1>1, <1>3, Zenon DEF Typed, CallTyped
<1>5. \A d \in Callers : (Busy(d)' <=> Busy(d)) /\ (Settled(d, requests)' <=> Settled(d, requests))
  BY <1>1, Zenon DEF Busy, Settled
<1>6. Numbered'
  BY <1>1, <1>5, Zenon DEF Numbered
<1>7. Locked'
  <2>1. link # "broken"
    BY <1>1, Zenon DEF TcpInv, Locked
  <2> QED
    BY <1>1, <2>1, Zenon DEF TcpInv, Locked
<1>8. TcpTold'
  BY <1>1, <1>5, Zenon DEF TcpInv, TcpTold
<1>9. abandoned # {}
  <2> SUFFICES ASSUME abandoned = {} PROVE FALSE
    BY Zenon
  <2>1. garbled = FALSE /\ Awaited(calls, Head(replies))
    BY <1>3, Zenon DEF TcpInv, InStep
  <2>2. PICK d \in Callers : calls[d].pc = "receiving" /\ calls[d].op = Head(replies).op
    BY <2>1, Zenon DEF Awaited
  <2>3. d = c
    BY <1>1, <2>2, Zenon DEF TcpInv, Locked
  <2> QED
    BY <2>1, <2>2, <2>3 DEF OutOfStep
<1>10. InStep' /\ Left'
  BY <1>1, <1>9, Zenon DEF TcpInv, InStep, Left
<1> QED
  BY <1>4, <1>6, <1>7, <1>8, <1>10, Zenon DEF TcpInv

LEMMA ReceiveKeeps ==
    ASSUME Typed, Numbered, TcpInv, NEW c \in Callers, Receive(c), UNCHANGED <<kind, sq, cq>>
    PROVE  Typed' /\ Numbered' /\ TcpInv'
<1>1. CASE /\ ~OutOfStep(c) /\ Return(c, Outcome(calls[c].op, Head(replies).e = "done"))
           /\ replies' = Tail(replies) /\ holder' = Nobody /\ UNCHANGED garbled
  <2> DEFINE ok == Head(replies).e = "done"
  <2>1. ok \in BOOLEAN
    BY Zenon
  <2> QED
    BY <1>1, <2>1, ReturnsKeeps, Zenon
<1>2. CASE /\ OutOfStep(c) /\ \E ok \in BOOLEAN : Return(c, Outcome(calls[c].op, ok))
           /\ replies' \in {replies, Tail(replies)} /\ holder' = Nobody
  BY <1>2, ReturnsKeeps, Zenon
<1>3. CASE OutOfStep(c) /\ replies' = Tail(replies) /\ UNCHANGED <<calls, res, oks, holder>>
  BY <1>3, WaitsKeeps, Zenon
<1> QED
  BY <1>1, <1>2, <1>3, Zenon DEF Receive

\* What the peer does for the oldest request disturbs nothing that was told.
LEMMA ServedTold ==
    ASSUME Typed, Numbered, TcpTold, requests # <<>>, UNCHANGED <<calls, res, abandoned>>,
           \A id \in Ids : id # Head(requests).id /\ id \notin abandoned => done'[id] = done[id],
           \A id : In(id, requests') => In(id, requests)
    PROVE  TcpTold'
<1>1. In(Head(requests).id, requests)
  <2>1. requests \in Seq(Request)
    BY Zenon DEF Typed
  <2> QED
    BY <2>1, InTail, Zenon
<1>2. \A d \in Callers : Settled(d, requests) => Settled(d, requests)' /\ res[d].id # Head(requests).id
  BY <1>1, Zenon DEF Settled, Busy
<1>3. \A d \in Callers : res[d].r \in {"Ok", "true", "false"} => res[d].id \in Ids
  BY Zenon DEF Numbered
<1>4. \A d \in Callers : res'[d] = res[d]
  BY Zenon
<1>5. ASSUME NEW d \in Callers, res[d].clean, res[d].r \in {"Ok", "true", "false"}
      PROVE  /\ Settled(d, requests)' /\ res[d].id \notin abandoned
             /\ res[d].r = "Ok" => done'[res[d].id] # "no"
             /\ res[d].r = "true" => done'[res[d].id] = "done"
             /\ res[d].r = "false" => done'[res[d].id] # "done"
  <2>1. /\ Settled(d, requests) /\ res[d].id \notin abandoned
        /\ res[d].r = "Ok" => done[res[d].id] # "no"
        /\ res[d].r = "true" => done[res[d].id] = "done"
        /\ res[d].r = "false" => done[res[d].id] # "done"
    BY <1>5, Zenon DEF TcpTold
  <2>2. done'[res[d].id] = done[res[d].id] /\ Settled(d, requests)'
    BY <1>2, <1>3, <1>5, <2>1, Zenon
  <2> QED
    BY <2>1, <2>2, Zenon
<1> QED
  BY <1>4, <1>5, Zenon DEF TcpTold

\* The peer reads the request, or something else when the two ends are out of step.
LEMMA ServesKeeps ==
    ASSUME Typed, Numbered, TcpInv, Serve, UNCHANGED <<kind, sq, cq>>,
           NEW e \in Answers, replies' = Append(replies, [id |-> Head(requests).id, op |-> Head(requests).op, e |-> e]),
           \/ Ran(Head(requests).id, e)
           \/ garbled /\ (done' = done \/ \E i \in abandoned : Ran(i, "done"))
    PROVE  Typed' /\ Numbered' /\ TcpInv'
<1> DEFINE q == Head(requests)
           A == [id : Ids, op : Ops, e : Answers]
<1>1. /\ link = "up" /\ requests # <<>> /\ requests' = Tail(requests) /\ link' = link /\ holder' = holder
      /\ calls' = calls /\ res' = res /\ next_id' = next_id /\ abandoned' = abandoned /\ oks' = oks
      /\ garbled' = garbled /\ kind' = kind /\ sq' = sq /\ cq' = cq
  BY Zenon DEF Serve, call
<1> DEFINE x == [id |-> q.id, op |-> q.op, e |-> e]
<1>3. /\ requests \in Seq(Request) /\ replies \in Seq(A) /\ done \in [Ids -> Answers]
      /\ Len(requests) \in Nat /\ Len(replies) \in Nat
  BY DEF Typed
<1>4. /\ q \in Request /\ requests' \in Seq(Request) /\ In(q.id, requests)
      /\ \A id : In(id, requests') => In(id, requests)
      /\ Len(requests) \in Nat \ {0} /\ Len(requests') = Len(requests) - 1 /\ q = requests[1]
  <2>1. /\ q \in Request /\ requests' \in Seq(Request) /\ In(q.id, requests)
        /\ \A id : In(id, requests') => In(id, requests)
    BY <1>1, <1>3, InTail, Zenon
  <2> QED
    BY <1>1, <1>3, <2>1
<1>5. q.id \in Ids /\ q.op \in Ops /\ e \in Answers
  BY <1>4, Zenon DEF Request
<1>6. x \in A /\ x.id = q.id /\ x.op = q.op /\ x.e = e
  BY <1>5, Zenon
<1>7. /\ done' \in [Ids -> Answers] /\ \A id \in Ids : id # q.id /\ id \notin abandoned => done'[id] = done[id]
      /\ garbled = FALSE => done'[q.id] = e
  <2>1. CASE Ran(q.id, e)
    BY <1>3, <1>5, <2>1, Zenon DEF Ran
  <2>2. CASE garbled /\ done' = done
    BY <1>3, <2>2, Zenon
  <2>3. CASE garbled /\ \E i \in abandoned : Ran(i, "done")
    <3>1. PICK i \in abandoned : Ran(i, "done")
      BY <2>3, Zenon
    <3>2. i \in Ids /\ "done" \in Answers
      BY Zenon DEF TcpInv, Left, Answers
    <3> QED
      BY <1>3, <2>3, <3>1, <3>2, Zenon DEF Ran
  <2> QED
    BY <2>1, <2>2, <2>3, Zenon
<1>8. replies' \in Seq(A) /\ Len(replies') = Len(replies) + 1 /\ replies'[Len(replies) + 1] = x
  <2> HIDE DEF A, x
  <2>1. replies' = Append(replies, x)
    BY Zenon DEF x
  <2> QED
    BY <1>3, <1>6, <2>1
<1> HIDE DEF x
<1>9. Typed'
  BY <1>1, <1>4, <1>7, <1>8, Zenon DEF Typed, CallTyped
<1>10. \A d \in Callers : Busy(d)' <=> Busy(d)
  BY <1>1, Zenon DEF Busy
<1>11. Numbered'
  <2>1. \A id \in Ids : done'[id] # "no" \/ In(id, sq) \/ In(id, cq) \/ In(id, requests') => id < next_id
    BY <1>4, <1>5, <1>7, SMTT(30) DEF Numbered, TcpInv, Left
  <2>2. /\ \A d \in Callers : Busy(d) => calls[d].id \in Ids /\ calls[d].id < next_id
        /\ \A d, f \in Callers : Busy(d) /\ Busy(f) /\ d # f => calls[d].id # calls[f].id
        /\ \A d \in Callers : res[d].r # "none" => res[d].id \in Ids /\ res[d].id < next_id
    BY Zenon DEF Numbered
  <2> QED
    BY <1>1, <1>10, <2>1, <2>2, Zenon DEF Numbered
<1>12. Locked'
  BY <1>1, Zenon DEF TcpInv, Locked
<1>13. TcpTold'
  <2>1. TcpTold /\ UNCHANGED <<calls, res, abandoned>>
    BY <1>1, Zenon DEF TcpInv
  <2> QED
    BY <1>1, <1>4, <1>7, <2>1, ServedTold, Zenon
<1>14. InStep'
  <2>1. ASSUME abandoned = {}
        PROVE  garbled = FALSE /\ Len(requests) = 1 /\ Len(replies) = 0 /\ Awaited(calls, q)
    <3>1. 1 \in 1 .. Len(requests)
      BY <1>4
    <3>2. garbled = FALSE /\ Len(requests) + Len(replies) <= 1 /\ Awaited(calls, q)
      BY <1>4, <2>1, <3>1, Zenon DEF TcpInv, InStep
    <3> QED
      BY <1>3, <1>4, <3>2, SMTT(30)
  <2>2. ASSUME abandoned = {}
        PROVE  /\ garbled' = FALSE /\ Len(requests') = 0 /\ Len(replies') = 1 /\ replies'[1] = x
               /\ Awaited(calls', x) /\ x.e = done'[x.id]
    <3>1. garbled' = FALSE /\ done'[q.id] = e /\ Awaited(calls, q)
      BY <1>1, <1>7, <2>1, <2>2, SMTT(30)
    <3>2. Awaited(calls', x)
      BY <1>1, <1>6, <3>1, Zenon DEF Awaited
    <3> QED
      BY <1>4, <1>6, <1>8, <2>1, <2>2, <3>1, <3>2, SMTT(30)
  <2>3. abandoned' = abandoned
    BY <1>1, Zenon
  <2>4. ASSUME abandoned = {}
        PROVE  /\ Len(requests') + Len(replies') <= 1 /\ 1 .. Len(requests') = {}
               /\ \A i \in 1 .. Len(replies') : i = 1
    <3>1. Len(requests') = 0 /\ Len(replies') = 1
      BY <2>2, <2>4, Zenon
    <3> QED
      BY <3>1
  <2>5. ASSUME abandoned = {}
        PROVE  /\ \A i \in 1 .. Len(requests') : Awaited(calls', requests'[i])
               /\ \A i \in 1 .. Len(replies') : Awaited(calls', replies'[i]) /\ replies'[i].e = done'[replies'[i].id]
    <3>1. /\ replies'[1] = x /\ Awaited(calls', x) /\ x.e = done'[x.id]
          /\ \A i \in 1 .. Len(replies') : i = 1
          /\ 1 .. Len(requests') = {}
      BY <2>2, <2>4, <2>5, Zenon
    <3>2. ASSUME NEW i \in 1 .. Len(replies')
          PROVE  Awaited(calls', replies'[i]) /\ replies'[i].e = done'[replies'[i].id]
      <4>1. replies'[i] = x
        BY <3>1, <3>2, Zenon
      <4> QED
        BY <3>1, <4>1, Zenon
    <3> QED
      BY <3>1, <3>2, Zenon
  <2> QED
    BY <2>2, <2>3, <2>4, <2>5, Zenon DEF InStep
<1>15. Left'
  BY <1>1, Zenon DEF TcpInv, Left
<1> QED
  BY <1>9, <1>11, <1>12, <1>13, <1>14, <1>15, Zenon DEF TcpInv

\* Out of step, the request is swallowed.
LEMMA SwallowedKeeps ==
    ASSUME Typed, Numbered, TcpInv, Serve, UNCHANGED <<kind, sq, cq>>, garbled, replies' = replies,
           done' = done \/ \E i \in abandoned : Ran(i, "done")
    PROVE  Typed' /\ Numbered' /\ TcpInv'
<1>1. /\ link = "up" /\ requests # <<>> /\ requests' = Tail(requests) /\ link' = link /\ holder' = holder
      /\ calls' = calls /\ res' = res /\ next_id' = next_id /\ abandoned' = abandoned /\ oks' = oks
      /\ garbled' = garbled /\ kind' = kind /\ sq' = sq /\ cq' = cq
  BY Zenon DEF Serve, call
<1>2. requests' \in Seq(Request) /\ \A id : In(id, requests') => In(id, requests)
  <2>1. requests \in Seq(Request)
    BY Zenon DEF Typed
  <2> QED
    BY <1>1, <2>1, InTail, Zenon
<1>3. done' \in [Ids -> Answers] /\ \A id \in Ids : id \notin abandoned => done'[id] = done[id]
  <2>1. done \in [Ids -> Answers] /\ "done" \in Answers /\ \A i \in abandoned : i \in Ids
    BY Zenon DEF Typed, Answers, TcpInv, Left
  <2>2. CASE done' = done
    BY <2>1, <2>2, Zenon
  <2>3. CASE \E i \in abandoned : Ran(i, "done")
    BY <2>1, <2>3, Zenon DEF Ran
  <2> QED
    BY <2>2, <2>3, Zenon
<1>4. Typed'
  BY <1>1, <1>2, <1>3, Zenon DEF Typed, CallTyped
<1>5. \A d \in Callers : Busy(d)' <=> Busy(d)
  BY <1>1, Zenon DEF Busy
<1>6. Numbered'
  <2>1. \A id \in Ids : done'[id] # "no" \/ In(id, sq) \/ In(id, cq) \/ In(id, requests') => id < next_id
    BY <1>2, <1>3, SMTT(30) DEF Numbered, TcpInv, Left
  <2>2. /\ \A d \in Callers : Busy(d) => calls[d].id \in Ids /\ calls[d].id < next_id
        /\ \A d, f \in Callers : Busy(d) /\ Busy(f) /\ d # f => calls[d].id # calls[f].id
        /\ \A d \in Callers : res[d].r # "none" => res[d].id \in Ids /\ res[d].id < next_id
    BY Zenon DEF Numbered
  <2> QED
    BY <1>1, <1>5, <2>1, <2>2, Zenon DEF Numbered
<1>7. TcpTold'
  <2>1. TcpTold /\ UNCHANGED <<calls, res, abandoned>>
    BY <1>1, Zenon DEF TcpInv
  <2> QED
    BY <1>1, <1>2, <1>3, <2>1, ServedTold, Zenon
<1>8. Locked' /\ InStep' /\ Left'
  BY <1>1, SMTT(30) DEF TcpInv, Locked, InStep, Left
<1> QED
  BY <1>4, <1>6, <1>7, <1>8, Zenon DEF TcpInv

LEMMA ServeKeeps ==
    ASSUME Typed, Numbered, TcpInv, Serve, UNCHANGED <<kind, sq, cq>>
    PROVE  Typed' /\ Numbered' /\ TcpInv'
<1> DEFINE q == Head(requests)
<1>1. CASE \E e \in Effects(q.op) \cup {"no"} :
             Ran(q.id, e) /\ replies' = Append(replies, [id |-> q.id, op |-> q.op, e |-> e])
  <2>1. Effects(q.op) \cup {"no"} \subseteq Answers
    BY Zenon DEF Effects, Answers
  <2> QED
    BY <1>1, <2>1, ServesKeeps, Zenon
<1>2. CASE garbled /\ Misread(q)
  <2>1. CASE replies' = replies
    BY <1>2, <2>1, SwallowedKeeps, Zenon DEF Misread
  <2>2. CASE replies' = Append(replies, [id |-> q.id, op |-> q.op, e |-> "no"])
    <3>1. "no" \in Answers
      BY Zenon DEF Answers
    <3> QED
      BY <1>2, <2>2, <3>1, ServesKeeps, Zenon DEF Misread
  <2> QED
    BY <1>2, <2>1, <2>2, Zenon DEF Misread
<1> QED
  BY <1>1, <1>2, Zenon DEF Serve

LEMMA BreakKeeps ==
    ASSUME Typed, Numbered, TcpInv, Break, UNCHANGED <<kind, sq, cq>>
    PROVE  Typed' /\ Numbered' /\ TcpInv'
<1>1. /\ link' = "broken" /\ requests' = <<>> /\ replies' = <<>> /\ holder' = holder
      /\ calls' = calls /\ res' = res /\ next_id' = next_id /\ abandoned' = abandoned /\ oks' = oks
      /\ garbled' = garbled /\ kind' = kind /\ sq' = sq /\ cq' = cq
  BY Zenon DEF Break, call
<1>2. requests' \in Seq(Request) /\ replies' \in Seq([id : Ids, op : Ops, e : Answers])
      /\ (\A id : ~In(id, requests')) /\ Len(requests') = 0 /\ Len(replies') = 0
  <2> DEFINE A == [id : Ids, op : Ops, e : Answers]
  <2> HIDE DEF A
  <2>1. requests' \in Seq(Request) /\ replies' \in Seq(A) /\ (\A id : ~In(id, requests'))
    BY <1>1, EmptyQueue, Zenon
  <2> QED
    BY <1>1, <2>1, Zenon DEF A
<1>3. requests \in Seq(Request) /\ done \in [Ids -> Answers]
  BY Zenon DEF Typed
<1>4. /\ done' \in [Ids -> Answers]
      /\ \/ done' = done
         \/ /\ requests # <<>> /\ Head(requests).id \in Ids /\ In(Head(requests).id, requests)
            /\ \A id \in Ids : id # Head(requests).id => done'[id] = done[id]
  <2>1. CASE done' = done
    BY <1>3, <2>1, Zenon
  <2>2. CASE requests # <<>> /\ \E e \in Effects(Head(requests).op) : Ran(Head(requests).id, e)
    <3>1. PICK e \in Effects(Head(requests).op) : Ran(Head(requests).id, e)
      BY <2>2, Zenon
    <3>2. Head(requests) \in Request /\ In(Head(requests).id, requests)
      BY <1>3, <2>2, InTail, Zenon
    <3>3. Head(requests).id \in Ids /\ e \in Answers
      BY <3>2, Zenon DEF Request, Effects, Answers
    <3> QED
      BY <1>3, <2>2, <3>1, <3>2, <3>3, Zenon DEF Ran
  <2> QED
    BY <2>1, <2>2, Zenon DEF Break
<1>5. Typed'
  BY <1>1, <1>2, <1>4, Zenon DEF Typed, CallTyped
<1>6. \A d \in Callers : Busy(d)' <=> Busy(d)
  BY <1>1, Zenon DEF Busy
<1>7. Numbered'
  <2>1. \A id \in Ids : done'[id] # "no" \/ In(id, sq) \/ In(id, cq) \/ In(id, requests') => id < next_id
    BY <1>2, <1>4, Zenon DEF Numbered
  <2>2. /\ \A d \in Callers : Busy(d) => calls[d].id \in Ids /\ calls[d].id < next_id
        /\ \A d, f \in Callers : Busy(d) /\ Busy(f) /\ d # f => calls[d].id # calls[f].id
        /\ \A d \in Callers : res[d].r # "none" => res[d].id \in Ids /\ res[d].id < next_id
    BY Zenon DEF Numbered
  <2> QED
    BY <1>1, <1>6, <2>1, <2>2, Zenon DEF Numbered
<1>8. Locked'
  BY <1>1, Zenon DEF TcpInv, Locked
<1>9. TcpTold'
  <2>1. CASE done' = done
    <3>1. \A d \in Callers : Settled(d, requests) => Settled(d, requests)'
      BY <1>1, <1>2, <1>6, Zenon DEF Settled
    <3> QED
      BY <1>1, <2>1, <3>1, Zenon DEF TcpInv, TcpTold
  <2>2. CASE requests # <<>> /\ \A id \in Ids : id # Head(requests).id => done'[id] = done[id]
    <3>1. TcpTold /\ UNCHANGED <<calls, res, abandoned>>
      BY <1>1, Zenon DEF TcpInv
    <3> QED
      BY <1>2, <2>2, <3>1, ServedTold, Zenon
  <2> QED
    BY <1>4, <2>1, <2>2, Zenon
<1>10. InStep'
  BY <1>1, <1>2 DEF TcpInv, InStep
<1>11. Left'
  BY <1>1, Zenon DEF TcpInv, Left
<1> QED
  BY <1>5, <1>7, <1>8, <1>9, <1>10, <1>11, Zenon DEF TcpInv

LEMMA TcpStep ==
    ASSUME Typed, Numbered, TcpInv, Tcp PROVE Typed' /\ Numbered' /\ TcpInv'
<1>1. UNCHANGED <<kind, sq, cq>>
  BY DEF Tcp, rdma
<1>2. ASSUME NEW c \in Callers, Lock(c) \/ TcpCall(c) \/ Cancel(c) \/ \E op \in Ops : TcpStart(c, op)
      PROVE  Typed' /\ Numbered' /\ TcpInv'
  <2>1. CASE \E op \in Ops : TcpStart(c, op)
    BY <1>1, <2>1, TcpStartKeeps, SMTT(30)
  <2>2. CASE Lock(c)
    BY <1>1, <2>2, LockKeeps, Zenon
  <2>3. CASE IoError(c)
    BY <1>1, <2>3, IoErrorKeeps, Zenon
  <2>4. CASE Send(c)
    BY <1>1, <2>4, SendKeeps, Zenon
  <2>5. CASE Receive(c)
    BY <1>1, <2>5, ReceiveKeeps, Zenon
  <2>6. CASE Cancel(c)
    BY <1>1, <2>6, CancelKeeps, Zenon
  <2> QED
    BY <1>2, <2>1, <2>2, <2>3, <2>4, <2>5, <2>6, Zenon DEF TcpCall
<1>3. CASE Serve
  BY <1>1, <1>3, ServeKeeps, Zenon
<1>4. CASE Break
  BY <1>1, <1>4, BreakKeeps, Zenon
<1>5. CASE TcpConnect
  <2>1. /\ link' = "up" /\ requests' = requests /\ replies' = replies /\ holder' = holder
        /\ calls' = calls /\ res' = res /\ next_id' = next_id /\ abandoned' = abandoned /\ oks' = oks
        /\ done' = done /\ garbled' = garbled /\ kind' = kind /\ sq' = sq /\ cq' = cq
    BY <1>1, <1>5, Zenon DEF TcpConnect, call
  <2>2. Typed'
    BY <2>1, Zenon DEF Typed, CallTyped
  <2>3. \A d \in Callers : Busy(d)' <=> Busy(d)
    BY <2>1, Zenon DEF Busy
  <2>4. Numbered'
    BY <2>1, <2>3, Zenon DEF Numbered
  <2>5. \A d \in Callers : Settled(d, requests)' <=> Settled(d, requests)
    BY <2>1, <2>3, Zenon DEF Settled
  <2>6. Locked'
    BY <2>1, Zenon DEF TcpInv, Locked
  <2>7. TcpTold'
    BY <2>1, <2>5, Zenon DEF TcpInv, TcpTold
  <2>8. InStep' /\ Left'
    BY <2>1, Zenon DEF TcpInv, InStep, Left
  <2> QED
    BY <2>2, <2>4, <2>6, <2>7, <2>8, Zenon DEF TcpInv
<1> QED
  BY <1>2, <1>3, <1>4, <1>5, Zenon DEF Tcp

LEMMA TransportStarts == ASSUME Init PROVE TransportInv
<1>1. /\ kind \in {"rdma", "tcp", "region"} /\ calls = [c \in Callers |-> IdleCall]
      /\ next_id = 1 /\ done = [i \in Ids |-> "no"] /\ abandoned = {} /\ oks = 0
      /\ sq = <<>> /\ cq = <<>> /\ link = "down" /\ requests = <<>> /\ replies = <<>> /\ garbled = FALSE
  BY Zenon DEF Init, TInit
<1> DEFINE x == [r |-> "none", id |-> 0, clean |-> TRUE]
           C == [id : Ids, ok : BOOLEAN]
           A == [id : Ids, op : Ops, e : Answers]
<1>2. x \in [r : Results, id : Nat, clean : BOOLEAN] /\ x.r = "none"
  BY Zenon DEF Results
<1>3. res = [c \in Callers |-> x]
  BY Zenon DEF Init, TInit
<1> HIDE DEF x
<1>4. res \in [Callers -> [r : Results, id : Nat, clean : BOOLEAN]] /\ \A c \in Callers : res[c].r = "none"
  <2> DEFINE R == [r : Results, id : Nat, clean : BOOLEAN]
  <2>1. x \in R /\ x.r = "none"
    BY <1>2, Zenon
  <2> HIDE DEF R
  <2>2. res \in [Callers -> R] /\ \A c \in Callers : res[c] = x
    BY <1>3, <2>1, Zenon
  <2> QED
    BY <2>1, <2>2, Zenon DEF R
<1>5. calls \in [Callers -> [pc : Pcs, id : Nat, op : Ops]] /\ \A c \in Callers : calls[c].pc = "idle"
  BY <1>1, IdleTyped, Zenon
<1>6. /\ sq \in Seq(Request) /\ requests \in Seq(Request) /\ cq \in Seq(C) /\ replies \in Seq(A)
      /\ \A id : ~In(id, sq) /\ ~In(id, cq) /\ ~In(id, requests)
      /\ DistinctIds(sq) /\ DistinctIds(cq) /\ OkIds = {}
      /\ Len(requests) = 0 /\ Len(replies) = 0
  <2> HIDE DEF A, C
  <2>1. Len(<<>>) = 0
    BY Zenon
  <2> QED
    BY <1>1, <2>1, EmptyQueue, Zenon DEF OkIds
<1>7. Typed
  <2>1. done \in [Ids -> Answers] /\ next_id \in Nat \ {0} /\ oks \in Nat
    BY <1>1, SMTT(30) DEF Answers
  <2> QED
    BY <1>1, <1>4, <1>5, <1>6, <2>1, Zenon DEF Typed, CallTyped
<1>8. \A id \in Ids : done[id] = "no"
  BY <1>1, Zenon
<1>9. Numbered
  BY <1>4, <1>5, <1>6, <1>8, Zenon DEF Numbered, Busy
<1>10. RdmaInv
  <2>1. OneCall /\ Queues /\ OwnAnswers
    BY <1>5, <1>6, Zenon DEF OneCall, Busy, Queues, OwnAnswers
  <2>2. RunIds = {} /\ Cardinality({}) = 0
    BY <1>8, FS_EmptySet, Zenon DEF RunIds
  <2>3. Counted
    BY <1>1, <1>6, <2>2, SMTT(30) DEF Counted
  <2>4. RdmaTold
    BY <1>4, Zenon DEF RdmaTold
  <2> QED
    BY <2>1, <2>3, <2>4, Zenon DEF RdmaInv
<1>11. TcpInv
  <2>1. Locked
    BY <1>1, <1>5, Zenon DEF Locked
  <2>2. TcpTold
    BY <1>4, Zenon DEF TcpTold
  <2>3. InStep
    BY <1>1, <1>6 DEF InStep
  <2>4. Left
    BY <1>1, Zenon DEF Left
  <2> QED
    BY <2>1, <2>2, <2>3, <2>4, Zenon DEF TcpInv
<1> QED
  BY <1>4, <1>7, <1>9, <1>10, <1>11, Zenon DEF TransportInv

LEMMA TransportStep == TransportInv /\ [Next]_vars => TransportInv'
<1> SUFFICES ASSUME TransportInv, [Next]_vars PROVE TransportInv'
  BY Zenon
<1>1. Typed /\ Numbered
  BY Zenon DEF TransportInv
<1>2. CASE Rdma
  <2>1. kind = "rdma" /\ kind' = "rdma" /\ RdmaInv
    BY <1>2, Zenon DEF Rdma, TransportInv
  <2>2. Typed' /\ Numbered' /\ RdmaInv'
    BY <1>1, <1>2, <2>1, RdmaStep, Zenon
  <2> QED
    BY <2>1, <2>2, Zenon DEF TransportInv
<1>3. CASE Tcp
  <2>1. kind = "tcp" /\ kind' = "tcp" /\ TcpInv
    BY <1>3, Zenon DEF Tcp, TransportInv
  <2>2. Typed' /\ Numbered' /\ TcpInv'
    BY <1>1, <1>3, <2>1, TcpStep, Zenon
  <2> QED
    BY <2>1, <2>2, Zenon DEF TransportInv
<1>4. CASE UNCHANGED <<kind, call, done, rdma, tcp>>
  <2>1. /\ link' = link /\ requests' = requests /\ replies' = replies /\ holder' = holder
        /\ calls' = calls /\ res' = res /\ next_id' = next_id /\ abandoned' = abandoned /\ oks' = oks
        /\ done' = done /\ garbled' = garbled /\ kind' = kind /\ sq' = sq /\ cq' = cq
    BY <1>4, Zenon DEF call, rdma, tcp
  <2>2. Typed'
    BY <1>1, <2>1, Zenon DEF Typed, CallTyped
  <2>3. \A d \in Callers : Busy(d)' <=> Busy(d)
    BY <2>1, Zenon DEF Busy
  <2>4. Numbered'
    BY <1>1, <2>1, <2>3, Zenon DEF Numbered
  <2>5. \A d \in Callers : Settled(d, requests)' <=> Settled(d, requests)
    BY <2>1, <2>3, Zenon DEF Settled
  <2>6. RdmaInv => RdmaInv'
    <3>1. OneCall => OneCall'
      BY <2>1, <2>3, Zenon DEF OneCall
    <3>2. Queues => Queues'
      BY <2>1, Zenon DEF Queues
    <3>3. Counted => Counted'
      BY <2>1, Zenon DEF Counted, OkIds, OkOf, RunIds
    <3>4. OwnAnswers => OwnAnswers'
      BY <2>1, Zenon DEF OwnAnswers
    <3>5. RdmaTold => RdmaTold'
      BY <2>1, Zenon DEF RdmaTold
    <3> QED
      BY <3>1, <3>2, <3>3, <3>4, <3>5, Zenon DEF RdmaInv
  <2>7. TcpInv => TcpInv'
    <3>1. Locked => Locked'
      BY <2>1, Zenon DEF Locked
    <3>2. TcpTold => TcpTold'
      BY <2>1, <2>5, Zenon DEF TcpTold
    <3>3. (InStep => InStep') /\ (Left => Left')
      BY <2>1, Zenon DEF InStep, Left
    <3> QED
      BY <3>1, <3>2, <3>3, Zenon DEF TcpInv
  <2> QED
    BY <2>1, <2>2, <2>4, <2>6, <2>7, Zenon DEF TransportInv
<1> QED
  BY <1>2, <1>3, <1>4, Zenon DEF Next, RegionStep, vars

\* However completions and calls are mixed up, RdmaTransport never reports more
\* successes than requests were executed.
THEOREM OkAlwaysCounted == Spec => []OkCounted
<1>1. TransportInv => OkCounted
  <2> SUFFICES ASSUME TransportInv, kind = "rdma" PROVE oks <= Cardinality(RunIds)
    BY Zenon DEF OkCounted, RunIds
  <2>1. OkIds \subseteq Ids /\ RunIds \subseteq Ids
    BY Zenon DEF OkIds, OkOf, RunIds
  <2>2. Cardinality(OkIds) \in Nat /\ Cardinality(RunIds) \in Nat
    BY <2>1, IdsFinite, Zenon
  <2>3. oks \in Nat /\ oks + Cardinality(OkIds) <= Cardinality(RunIds)
    BY Zenon DEF TransportInv, Typed, RdmaInv, Counted
  <2> QED
    BY <2>2, <2>3, SMTT(30)
<1>2. Init => TransportInv
  BY TransportStarts, Zenon
<1> QED
  BY <1>1, <1>2, TransportStep, PTL DEF Spec

\* While no earlier call has ended with its answer outstanding, a call that reports success
\* had its own request executed, and over TCP cas tells whether the value was swapped.
THEOREM OkAlwaysOwn == Spec => []OkIsOwn
<1>1. TransportInv => OkIsOwn
  <2> SUFFICES ASSUME TransportInv, NEW c \in Callers, res[c].clean
               PROVE  /\ res[c].r \in {"Ok", "true"} => done[res[c].id] # "no"
                      /\ kind = "tcp" /\ res[c].r = "true" => done[res[c].id] = "done"
                      /\ kind = "tcp" /\ res[c].r = "false" => done[res[c].id] # "done"
    BY Zenon DEF OkIsOwn
  <2>1. CASE kind = "rdma"
    <3>1. res[c].r \in {"Ok", "true"} => done[res[c].id] # "no"
      BY <2>1, Zenon DEF TransportInv, RdmaInv, RdmaTold
    <3> QED
      BY <2>1, <3>1, Zenon
  <2>2. CASE kind = "tcp"
    <3>1. res[c].r \in {"Ok", "true", "false"} =>
             /\ res[c].r = "Ok" => done[res[c].id] # "no"
             /\ res[c].r = "true" => done[res[c].id] = "done"
             /\ res[c].r = "false" => done[res[c].id] # "done"
      BY <2>2, Zenon DEF TransportInv, TcpInv, TcpTold
    <3> QED
      BY <3>1, Zenon
  <2>3. CASE kind = "region"
    BY <2>3, Zenon DEF TransportInv
  <2>4. kind \in {"rdma", "tcp", "region"}
    BY Zenon DEF TransportInv, Typed
  <2> QED
    BY <2>1, <2>2, <2>3, <2>4, Zenon
<1>2. Init => TransportInv
  BY TransportStarts, Zenon
<1> QED
  BY <1>1, <1>2, TransportStep, PTL DEF Spec

\* Whatever cannot be created or destroyed: the poller thread runs only while the completion
\* queue and the context exist, nothing is destroyed under a queue pair that can itself be
\* destroyed, a failed connect and a drop leave behind only what could not be destroyed, and
\* registered memory is locked.
THEOREM LifetimesAlwaysNested == Spec => []Lifetimes
<1>1. LifeInv => Lifetimes
  <2> SUFFICES ASSUME LifeInv PROVE Lifetimes
    BY Zenon
  <2>1. poller # "none" => stage \in {"ready", "no_qp", "joining"}
    BY Zenon DEF LifeInv
  <2>2. stage \in {"ready", "no_qp", "joining"} => {"cq", "context"} \subseteq live
    BY SMTT(30) DEF LifeInv, LiveAt, Objects, Parents
  <2>3. stage \in {"none", "failed", "gone"} => live = failed /\ poller = "none"
    BY SMTT(30) DEF LifeInv, LiveAt
  <2> QED
    BY <2>1, <2>2, <2>3, Zenon DEF LifeInv, Lifetimes
<1>2. Init => LifeInv
  BY SMTT(30) DEF Init, VerbsInit, LifeInv, LiveAt, Objects
<1> QED
  BY <1>1, <1>2, LifeStep, PTL DEF Spec
====
