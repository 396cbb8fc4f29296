--------------------------- MODULE RelayerProofs ---------------------------
(***************************************************************************)
(* What holds of Relayer for every set of requests and every bound.        *)
(*                                                                         *)
(* A row may be confirmed only from evidence that its nullifier is spent,  *)
(* and that evidence is always second-hand: a copy of the row read some    *)
(* steps ago, a signature taken from that copy, a pool account fetched     *)
(* before other calls.  Inv says of each such piece that it was true when  *)
(* it was read and that what it says is stable: a spent nullifier stays    *)
(* spent, a sent transaction keeps its request, a stored row stays stored. *)
(***************************************************************************)
EXTENDS Relayer, TLAPS

\* A signature kept for request r is null or one of a transaction sent for r.
Own(s, r) == s # NoTx => tx[s] # Unsent /\ tx[s].req = r

ChainOK ==
    /\ \A t \in TxIds : tx[t] # Unsent =>
          Stored(tx[t].req) /\ (tx[t].state = "landed" => Spent(tx[t].req))
    /\ \A n \in Nullifiers : spentBy[n] \in TxIds =>
          tx[spentBy[n]] # Unsent /\ NullifierOf[tx[spentBy[n]].req] = n

UniqueOK == \A q, r \in Requests :
    Stored(q) /\ Stored(r) /\ NullifierOf[q] = NullifierOf[r] => q = r

RowOK == \A r \in Requests :
    (row[r].status = "confirmed" => Spent(r)) /\ Own(row[r].sig, r)

TodoOK == \A j \in todo : Stored(j.req) /\ Own(j.rec.sig, j.req)

WorkOK == \A p \in Procs :
    pc[p] \in WorkPcs =>
        /\ job[p] \in Job
        /\ Stored(Req(p)) /\ Own(Rec(p).sig, Req(p))
        /\ p \in Requests => Req(p) = p
        /\ seen[p].spent => Spent(Req(p))
        /\ pc[p] = "status" => Rec(p).sig # NoTx

SeenOK ==
    /\ \A r \in Requests : seen[r].spent => Spent(r)
    /\ pc[Retry] \notin WorkPcs => ~seen[Retry].spent

ReplyOK == \A r \in Requests :
    /\ pc[r] = "ok" => Spent(r)
    /\ pc[r] = "idle" => ~Stored(r)
    /\ pc[r] \notin Replies \cup {"idle"} => Stored(r)

Inv == TypeOK /\ ChainOK /\ UniqueOK /\ RowOK /\ TodoOK /\ WorkOK /\ SeenOK /\ ReplyOK

-----------------------------------------------------------------------------
(* The operators of the store.                                             *)

\* Every update of the store keeps a row a row, and says what it does to the
\* status and the signature, which is all the invariant looks at.
LEMMA RowOperators ==
    ASSUME NEW w \in Row
    PROVE  /\ RecordFeeBreakdown(w) \in Row
           /\ RecordFeeBreakdown(w).status = w.status
           /\ RecordFeeBreakdown(w).sig = w.sig
           /\ MarkExpired(w) \in Row
           /\ MarkExpired(w).status = "expired" /\ MarkExpired(w).sig = w.sig
  BY DEF Row, RecordFeeBreakdown, MarkExpired, Open, Terminal

\* markSubmitted and markConfirmed of the request table, the updates that set a
\* signature.
LEMMA RowSigned ==
    ASSUME NEW w \in Row, NEW t \in TxIds \cup {NoTx}
    PROVE  /\ MarkSubmitted(w, t) \in Row
           /\ MarkSubmitted(w, t).status = "submitted" /\ MarkSubmitted(w, t).sig = t
           /\ MarkConfirmed(w, t) \in Row
           /\ MarkConfirmed(w, t).status = "confirmed"
           /\ MarkConfirmed(w, t).sig \in {t, w.sig}
  <1>1. MarkSubmitted(w, t) \in Row /\ MarkSubmitted(w, t).status = "submitted"
        /\ MarkSubmitted(w, t).sig = t
    BY DEF Row, MarkSubmitted, Open, Terminal
  <1>2. MarkConfirmed(w, t) \in Row /\ MarkConfirmed(w, t).status = "confirmed"
        /\ MarkConfirmed(w, t).sig \in {t, w.sig}
    BY DEF Row, MarkConfirmed, Open, Terminal
  <1> QED BY <1>1, <1>2

\* rescheduleSubmitted of the request table keeps a well-formed row.
LEMMA RowRescheduled ==
    ASSUME NEW w \in Row, NEW now \in BOOLEAN
    PROVE  /\ RescheduleSubmitted(w, now) \in Row
           /\ RescheduleSubmitted(w, now).status = "submitted"
           /\ RescheduleSubmitted(w, now).sig = w.sig
  BY DEF Row, RescheduleSubmitted, Open, Terminal

\* markFailed of the request table keeps a well-formed row.
LEMMA RowFailed ==
    ASSUME NEW w \in Row, NEW final \in BOOLEAN, NEW clear \in BOOLEAN
    PROVE  /\ MarkFailed(w, final, clear) \in Row
           /\ MarkFailed(w, final, clear).status \in {"failed", "pending"}
           /\ MarkFailed(w, final, clear).sig \in {NoTx, w.sig}
  <1> DEFINE status == IF final THEN "failed" ELSE "pending"
             sig    == IF clear THEN NoTx ELSE w.sig
             lvh    == IF clear THEN NoTx ELSE w.lvh
             count  == w.retries + 1
  <1>1. /\ status \in {"none"} \cup Open \cup Terminal
        /\ {sig, lvh} \subseteq TxIds \cup {NoTx}
        /\ count \in Nat
    BY DEF Row, Open, Terminal
  <1>2. MarkFailed(w, final, clear) = [w EXCEPT !.status = status, !.sig = sig, !.lvh = lvh,
                                                !.retries = count, !.due = final]
    BY DEF MarkFailed
  <1> HIDE DEF status, sig, lvh, count
  <1>3. MarkFailed(w, final, clear) \in Row
    BY <1>1, <1>2 DEF Row
  <1>4. MarkFailed(w, final, clear).status \in {"failed", "pending"}
    BY DEF Row, MarkFailed
  <1>5. MarkFailed(w, final, clear).sig \in {NoTx, w.sig}
    BY DEF Row, MarkFailed
  <1> QED BY <1>3, <1>4, <1>5

-----------------------------------------------------------------------------
(* The shapes of a step.                                                   *)

\* processRecord writes a row and returns.
LEMMA ReturnPreservesInv ==
    ASSUME Inv, NEW p \in Procs, pc[p] \in WorkPcs,
           NEW w \in Row, w.status # "none", Own(w.sig, Req(p)),
           w.status = "confirmed" => Spent(Req(p)),
           SetRow(Req(p), w),
           NEW label \in {"wait", "error"}, Leave(p, label),
           UNCHANGED <<todo, verified, chain, crashes>>, faults' \in Nat
    PROVE  Inv'
  <1> USE RelayerAssumption DEF Req, Rec
  <1>1. job[p] \in Job /\ job[p].req \in Requests
    BY DEF Inv, WorkOK, Job
  <1>2. TypeOK'
    <2>1. row' \in [Requests -> Row]
      BY <1>1 DEF Inv, TypeOK, SetRow
    <2>2. pc' \in [Procs -> Pcs]
      BY DEF Inv, TypeOK, Leave, Goto, Pcs, Replies
    <2>3. job' \in [Procs -> Job \cup {NoJob}]
      BY DEF Inv, TypeOK, Leave
    <2>4. seen' \in [Procs -> [spent : BOOLEAN, good : BOOLEAN]]
      BY DEF Inv, TypeOK, Leave, Unseen
    <2> QED BY <2>1, <2>2, <2>3, <2>4 DEF Inv, TypeOK, chain
  <1>3. \A r \in Requests : Stored(r)' <=> Stored(r)
    BY <1>1 DEF Inv, WorkOK, TypeOK, SetRow, Stored
  <1>4. \A r \in Requests : Spent(r)' <=> Spent(r)
    BY DEF Spent, chain
  <1>5. \A r \in Requests : \A s : Own(s, r)' <=> Own(s, r)
    BY DEF Own, chain
  <1>6. ChainOK'
    BY <1>3, <1>4 DEF Inv, ChainOK, chain, TypeOK, Tx
  <1>7. UniqueOK'
    BY <1>3 DEF Inv, UniqueOK
  <1>8. RowOK'
    BY <1>1, <1>4, <1>5 DEF Inv, RowOK, SetRow, TypeOK
  <1>9. TodoOK'
    BY <1>3, <1>5 DEF Inv, TodoOK, TypeOK, Job
  <1>10. \A q \in Procs : pc'[q] \in WorkPcs =>
            pc[q] \in WorkPcs /\ pc'[q] = pc[q] /\ job'[q] = job[q] /\ seen'[q] = seen[q]
    BY DEF Inv, TypeOK, Leave, Goto, WorkPcs
  <1>11. WorkOK'
    BY <1>3, <1>4, <1>5, <1>10 DEF Inv, WorkOK, Job
  <1>12. SeenOK'
    BY <1>4 DEF Inv, SeenOK, Leave, Goto, Unseen, TypeOK, WorkPcs, Procs
  <1>13. ReplyOK'
    BY <1>1, <1>3, <1>4 DEF Inv, ReplyOK, WorkOK, Leave, Goto, TypeOK, Replies, WorkPcs, Procs
  <1> QED BY <1>2, <1>6, <1>7, <1>8, <1>9, <1>11, <1>12, <1>13 DEF Inv

\* processRecord goes on to its next await.
LEMMA AdvancePreservesInv ==
    ASSUME Inv, NEW p \in Procs, pc[p] \in WorkPcs,
           NEW label \in WorkPcs, Goto(p, label),
           label = "status" => Rec(p).sig # NoTx,
           \/ UNCHANGED seen
           \/ FetchPool(p, Req(p), FALSE),
           UNCHANGED <<row, job, todo, verified, chain, crashes>>, faults' \in Nat
    PROVE  Inv'
  <1> USE RelayerAssumption DEF Req, Rec
  <1>1. job[p] \in Job /\ job[p].req \in Requests
    BY DEF Inv, WorkOK, Job
  <1>2. ListedSpent(Req(p)) \in BOOLEAN
    BY DEF Spent, ListedSpent
  <1>3. seen' \in [Procs -> [spent : BOOLEAN, good : BOOLEAN]]
    <2> DEFINE listed == ListedSpent(Req(p))
    <2>1. CASE UNCHANGED seen
      BY <2>1 DEF Inv, TypeOK
    <2>2. CASE seen' = [seen EXCEPT ![p] = [spent |-> listed, good |-> FALSE]]
      <3> HIDE DEF listed
      <3> QED BY <1>2, <2>2 DEF Inv, TypeOK, listed
    <2> QED BY <2>1, <2>2 DEF FetchPool
  <1>4. TypeOK'
    BY <1>3 DEF Inv, TypeOK, Goto, Pcs, chain
  <1>5. \A r \in Requests : (Stored(r)' <=> Stored(r)) /\ (Spent(r)' <=> Spent(r))
    BY DEF Stored, Spent, chain
  <1>6. \A r \in Requests : \A s : Own(s, r)' <=> Own(s, r)
    BY DEF Own, chain
  <1>7. ChainOK'
    BY <1>5 DEF Inv, ChainOK, chain, TypeOK, Tx
  <1>8. UniqueOK' /\ TodoOK'
    BY <1>5, <1>6 DEF Inv, UniqueOK, TodoOK, TypeOK, Job
  <1>9. RowOK'
    BY <1>5, <1>6 DEF Inv, RowOK
  <1>10. /\ seen'[p].spent => seen[p].spent \/ Spent(Req(p))
         /\ \A q \in Procs \ {p} : seen'[q] = seen[q] /\ pc'[q] = pc[q]
         /\ pc'[p] = label
    BY DEF Inv, TypeOK, FetchPool, ListedSpent, Goto
  <1>11. WorkOK'
    BY <1>5, <1>6, <1>10 DEF Inv, WorkOK, Job
  <1>12. SeenOK'
    BY <1>5, <1>10 DEF Inv, SeenOK, WorkOK, Procs
  <1>13. ReplyOK'
    BY <1>5, <1>10 DEF Inv, ReplyOK, WorkOK, Procs, Replies, WorkPcs
  <1> QED BY <1>4, <1>7, <1>8, <1>9, <1>11, <1>12, <1>13 DEF Inv

\* The handler of r takes a step of its own, outside processRecord.
LEMMA HandlerPreservesInv ==
    ASSUME Inv, NEW r \in Requests, pc[r] \notin WorkPcs,
           NEW label \in Pcs \ (WorkPcs \cup {"idle"}), Goto(r, label),
           label = "ok" => Spent(r),
           Stored(r) \/ label \in Replies,
           \/ UNCHANGED row
           \/ \E w \in Row : /\ w.status \notin {"none", "confirmed"}
                             /\ Own(w.sig, r) /\ SetRow(r, w) /\ Stored(r),
           NEW v \in [spent : BOOLEAN, good : BOOLEAN], v.spent => Spent(r),
           seen' = [seen EXCEPT ![r] = v],
           UNCHANGED <<job, todo, chain, crashes>>,
           verified' \subseteq Requests, faults' \in Nat
    PROVE  Inv'
  <1> USE RelayerAssumption DEF Req, Rec
  <1>1. row' \in [Requests -> Row]
    BY DEF Inv, TypeOK, SetRow
  <1>2. TypeOK'
    BY <1>1 DEF Inv, TypeOK, Goto, Procs, chain
  <1>3. \A q \in Requests : (Stored(q)' <=> Stored(q)) /\ (Spent(q)' <=> Spent(q))
    BY DEF Inv, TypeOK, SetRow, Stored, Spent, chain
  <1>4. \A q \in Requests : \A s : Own(s, q)' <=> Own(s, q)
    BY DEF Own, chain
  <1>5. ChainOK'
    BY <1>3 DEF Inv, ChainOK, chain, TypeOK, Tx
  <1>6. UniqueOK' /\ TodoOK'
    BY <1>3, <1>4 DEF Inv, UniqueOK, TodoOK, TypeOK, Job
  <1>7. RowOK'
    BY <1>3, <1>4 DEF Inv, RowOK, SetRow, TypeOK
  <1>8. /\ \A q \in Procs \ {r} : seen'[q] = seen[q] /\ pc'[q] = pc[q]
        /\ pc'[r] = label /\ seen'[r] = v
    BY DEF Inv, TypeOK, Goto, Procs
  <1>9. WorkOK'
    BY <1>3, <1>4, <1>8 DEF Inv, WorkOK, Job
  <1>10. SeenOK'
    BY <1>3, <1>8 DEF Inv, SeenOK, Procs
  <1>11. ReplyOK'
    BY <1>3, <1>8 DEF Inv, ReplyOK, Procs
  <1> QED BY <1>2, <1>5, <1>6, <1>7, <1>9, <1>10, <1>11 DEF Inv

-----------------------------------------------------------------------------
(* The handler and the retry manager.                                      *)

\* reserve inserts a row for a nullifier no row has.
LEMMA ReservePreservesInv ==
    ASSUME Inv, NEW r \in Requests, Reserve(r)
    PROVE  Inv'
  <1> USE RelayerAssumption DEF Req, Rec, Reserve
  <1>1. PendingRow \in Row /\ PendingRow.status = "pending" /\ PendingRow.sig = NoTx
    BY DEF Row, PendingRow, NoRow, Open, Terminal
  <1>2. ~Stored(r)
    BY DEF Stored
  <1>3. /\ \A q \in Requests \ {r} : row'[q] = row[q]
        /\ row'[r] = PendingRow
        /\ \A q \in Procs \ {r} : pc'[q] = pc[q]
        /\ pc'[r] = "relayFetch"
    BY DEF Inv, TypeOK, SetRow, Goto, Procs
  <1>4. TypeOK'
    BY <1>1 DEF Inv, TypeOK, SetRow, Goto, Procs, Pcs, chain
  <1>5. \A q \in Requests : (Stored(q)' <=> Stored(q) \/ q = r) /\ (Spent(q)' <=> Spent(q))
    BY <1>1, <1>3 DEF Stored, Spent, chain
  <1>6. \A q \in Requests : \A s : Own(s, q)' <=> Own(s, q)
    BY DEF Own, chain
  <1>7. ChainOK'
    BY <1>5 DEF Inv, ChainOK, chain, TypeOK, Tx
  <1>8. UniqueOK'
    BY <1>5 DEF Inv, UniqueOK
  <1>9. TodoOK'
    BY <1>5, <1>6 DEF Inv, TodoOK, TypeOK, Job
  <1>10. RowOK'
    BY <1>1, <1>3, <1>5, <1>6 DEF Inv, RowOK, Own
  <1>11. WorkOK'
    BY <1>3, <1>5, <1>6 DEF Inv, WorkOK, Job, WorkPcs
  <1>12. SeenOK'
    BY <1>3, <1>5 DEF Inv, SeenOK, Procs
  <1>13. ReplyOK'
    BY <1>3, <1>5 DEF Inv, ReplyOK, Procs, Replies
  <1> QED BY <1>4, <1>7, <1>8, <1>9, <1>10, <1>11, <1>12, <1>13 DEF Inv

\* A process takes up a copy that is true of the row it copies.
LEMMA PickPreservesInv ==
    ASSUME Inv, NEW p \in Procs, pc[p] \notin WorkPcs, Goto(p, "fetch"),
           NEW j \in Job, Stored(j.req), Own(j.rec.sig, j.req),
           p \in Requests => j.req = p,
           job' = [job EXCEPT ![p] = j], todo' \subseteq todo,
           UNCHANGED <<row, seen, verified, chain, faults, crashes>>
    PROVE  Inv'
  <1> USE RelayerAssumption DEF Req, Rec
  <1>1. TypeOK'
    BY DEF Inv, TypeOK, Goto, Pcs, WorkPcs, chain
  <1>2. \A q \in Requests : (Stored(q)' <=> Stored(q)) /\ (Spent(q)' <=> Spent(q))
    BY DEF Stored, Spent, chain
  <1>3. \A q \in Requests : \A s : Own(s, q)' <=> Own(s, q)
    BY DEF Own, chain
  <1>4. ChainOK'
    BY <1>2 DEF Inv, ChainOK, chain, TypeOK, Tx
  <1>5. UniqueOK' /\ TodoOK' /\ RowOK'
    BY <1>2, <1>3 DEF Inv, UniqueOK, TodoOK, RowOK, TypeOK, Job
  <1>6. /\ \A q \in Procs \ {p} : pc'[q] = pc[q] /\ job'[q] = job[q]
        /\ pc'[p] = "fetch" /\ job'[p] = j
    BY DEF Inv, TypeOK, Goto
  <1>7. j.req \in Requests
    BY DEF Job
  <1>8. seen[p].spent => Spent(j.req)
    BY DEF Inv, SeenOK, Procs
  <1>9. WorkOK'
    BY <1>2, <1>3, <1>6, <1>7, <1>8 DEF Inv, WorkOK, Job
  <1>10. SeenOK'
    BY <1>2, <1>6 DEF Inv, SeenOK, WorkPcs, Procs
  <1>11. ReplyOK'
    BY <1>2, <1>6 DEF Inv, ReplyOK, Replies, Procs
  <1> QED BY <1>1, <1>4, <1>5, <1>9, <1>10, <1>11 DEF Inv

\* The retry manager's own steps.
LEMMA RetryManagerPreservesInv ==
    ASSUME Inv, RetryManager
    PROVE  Inv'
  <1> USE RelayerAssumption DEF Req, Rec
  <1>1. CASE RetryPicks
    <2>1. PICK j \in todo : job' = [job EXCEPT ![Retry] = j] /\ todo' = todo \ {j}
      BY <1>1 DEF RetryPicks
    <2>2. j \in Job /\ Stored(j.req) /\ Own(j.rec.sig, j.req)
      BY DEF Inv, TypeOK, TodoOK
    <2>3. pc[Retry] \notin WorkPcs
      BY <1>1 DEF RetryPicks, WorkPcs
    <2> QED BY <1>1, <2>1, <2>2, <2>3, PickPreservesInv DEF RetryPicks, Procs
  <1>2. CASE Tick \/ TickEnds
    <2>1. PICK label \in {"next", "idle"} : Goto(Retry, label)
      BY <1>2 DEF Tick, TickEnds
    <2>2. UNCHANGED <<row, job, seen, verified, chain, faults, crashes>>
          /\ pc[Retry] \notin WorkPcs
      BY <1>2 DEF Tick, TickEnds, WorkPcs
    <2>3. \A q \in Requests : (Stored(q)' <=> Stored(q)) /\ (Spent(q)' <=> Spent(q))
      BY <2>2 DEF Stored, Spent, chain
    <2>4. \A q \in Requests : \A s : Own(s, q)' <=> Own(s, q)
      BY <2>2 DEF Own, chain
    <2>5. \A j \in todo' : j \in Job /\ Stored(j.req) /\ Own(j.rec.sig, j.req)
      <3>1. CASE TickEnds
        BY <3>1 DEF Inv, TypeOK, TodoOK, TickEnds
      <3>2. CASE Tick
        <4>1. \A r \in Requests : Processable(row[r]) => Stored(r)
          BY DEF Processable, Open, Stored
        <4>2. \A r \in Requests : [req |-> r, rec |-> row[r]] \in Job
                                  /\ Own(row[r].sig, r)
          BY DEF Inv, TypeOK, RowOK, Job
        <4> QED BY <3>2, <4>1, <4>2 DEF Tick
      <3> QED BY <1>2, <3>1, <3>2
    <2>6. TypeOK'
      BY <2>1, <2>2, <2>5 DEF Inv, TypeOK, Goto, Pcs, Procs, chain
    <2>7. ChainOK'
      BY <2>2, <2>3 DEF Inv, ChainOK, chain, TypeOK, Tx
    <2>8. UniqueOK' /\ RowOK'
      BY <2>2, <2>3, <2>4 DEF Inv, UniqueOK, RowOK
    <2>9. TodoOK'
      BY <2>3, <2>4, <2>5 DEF TodoOK, Job
    <2>10. /\ \A q \in Requests : pc'[q] = pc[q]
           /\ pc'[Retry] \notin WorkPcs
      BY <2>1 DEF Inv, TypeOK, Goto, Procs, WorkPcs
    <2>11. WorkOK'
      BY <2>2, <2>3, <2>4, <2>10 DEF Inv, WorkOK, Job, Procs
    <2>12. SeenOK' /\ ReplyOK'
      BY <2>2, <2>3, <2>10 DEF Inv, SeenOK, ReplyOK
    <2> QED BY <2>6, <2>7, <2>8, <2>9, <2>11, <2>12 DEF Inv
  <1> QED BY <1>1, <1>2 DEF RetryManager

\* The handler's steps up to its own attempt to process the row.
LEMMA HandlerStepPreservesInv ==
    ASSUME Inv, NEW r \in Requests, Handler(r)
    PROVE  Inv'
  <1> USE RelayerAssumption
  <1>1. CASE Reserve(r)
    BY <1>1, ReservePreservesInv
  <1>2. row[r] \in Row /\ seen[r] \in [spent : BOOLEAN, good : BOOLEAN]
        /\ faults \in Nat /\ verified \subseteq Requests /\ r \in Procs
    BY DEF Inv, TypeOK, Procs
  <1>3. seen[r].spent => Spent(r)
    BY DEF Inv, SeenOK
  <1>4. seen = [seen EXCEPT ![r] = seen[r]]
    BY DEF Inv, TypeOK
  <1>5. pc[r] \notin Replies \cup {"idle"} => Stored(r) /\ Own(row[r].sig, r)
    BY DEF Inv, ReplyOK, RowOK
  <1>6. CASE RejectDuplicate(r)
    <2>1. Goto(r, "rejected") /\ pc[r] = "idle"
      BY <1>6 DEF RejectDuplicate
    <2>2. "rejected" \in Pcs \ (WorkPcs \cup {"idle"}) /\ "rejected" \in Replies
          /\ "idle" \notin WorkPcs
      BY DEF Pcs, WorkPcs, Replies
    <2> QED BY <1>2, <1>3, <1>4, <1>6, <2>1, <2>2, HandlerPreservesInv DEF RejectDuplicate
  <1>7. CASE HandlerPicks(r)
    <2>1. pc[r] \notin WorkPcs /\ pc[r] \notin Replies \cup {"idle"}
      BY <1>7 DEF HandlerPicks, WorkPcs, Replies
    <2>2. [req |-> r, rec |-> row[r]] \in Job
      BY <1>2 DEF Job
    <2> QED BY <1>2, <1>5, <1>7, <2>1, <2>2, PickPreservesInv DEF HandlerPicks
  <1>8. CASE Respond(r)
    <2>1. PICK label \in {"ok", "error"} : Goto(r, label) /\ (label = "ok" => row[r].status = "confirmed")
      BY <1>8 DEF Answer, Respond
    <2>2. label \in Pcs \ (WorkPcs \cup {"idle"}) /\ label \in Replies
          /\ pc[r] \notin WorkPcs
      BY <1>8 DEF Respond, Pcs, WorkPcs, Replies
    <2>3. label = "ok" => Spent(r)
      BY <2>1 DEF Inv, RowOK
    <2> QED BY <1>2, <1>3, <1>4, <1>8, <2>1, <2>2, <2>3, HandlerPreservesInv DEF Respond
  <1>9. CASE RelayFetch(r) \/ RelayCheck(r) \/ RelayProve(r)
    <2>1. pc[r] \notin WorkPcs /\ Stored(r) /\ Own(row[r].sig, r)
      BY <1>5, <1>9 DEF RelayFetch, RelayCheck, RelayProve, WorkPcs, Replies
    <2>2. PICK label \in {"relayCheck", "relayProve", "wait", "rejected", "error"} :
             /\ Goto(r, label)
             /\ UNCHANGED row \/ SetRow(r, MarkExpired(row[r]))
                              \/ SetRow(r, MarkFailed(row[r], TRUE, TRUE))
      BY <1>9 DEF RelayFetch, RelayCheck, RelayProve, Refuse, Abandon
    <2>3. label \in Pcs \ (WorkPcs \cup {"idle"}) /\ label # "ok"
      BY DEF Pcs, WorkPcs, Replies
    <2>4. UNCHANGED row \/ \E w \in Row : /\ w.status \notin {"none", "confirmed"}
                                          /\ Own(w.sig, r) /\ SetRow(r, w) /\ Stored(r)
      <3>1. /\ MarkExpired(row[r]) \in Row /\ MarkFailed(row[r], TRUE, TRUE) \in Row
            /\ MarkExpired(row[r]).status = "expired"
            /\ MarkFailed(row[r], TRUE, TRUE).status \in {"failed", "pending"}
            /\ MarkExpired(row[r]).sig = row[r].sig
            /\ MarkFailed(row[r], TRUE, TRUE).sig \in {NoTx, row[r].sig}
        BY <1>2, RowOperators, RowFailed
      <3>2. Own(MarkExpired(row[r]).sig, r) /\ Own(MarkFailed(row[r], TRUE, TRUE).sig, r)
        BY <2>1, <3>1 DEF Own
      <3> QED BY <2>1, <2>2, <3>1, <3>2
    <2>5. \E v \in [spent : BOOLEAN, good : BOOLEAN] :
             (v.spent => Spent(r)) /\ seen' = [seen EXCEPT ![r] = v]
      <3>1. CASE UNCHANGED seen
        BY <1>2, <1>3, <1>4, <3>1
      <3>2. CASE seen' = [seen EXCEPT ![r] = Unseen]
        BY <3>2 DEF Unseen
      <3>3. CASE FetchPool(r, r, good[r])
        <4>1. good[r] \in BOOLEAN /\ ListedSpent(r) \in BOOLEAN /\ (ListedSpent(r) => Spent(r))
          BY DEF Inv, TypeOK, ListedSpent, Spent
        <4> DEFINE v == [spent |-> ListedSpent(r), good |-> good[r]]
        <4>2. v \in [spent : BOOLEAN, good : BOOLEAN] /\ v.spent = ListedSpent(r)
          <5> DEFINE listed == ListedSpent(r)
          <5> HIDE DEF listed
          <5> QED BY <4>1 DEF listed
        <4>3. seen' = [seen EXCEPT ![r] = v]
          BY <3>3 DEF FetchPool
        <4> HIDE DEF v
        <4> QED BY <4>1, <4>2, <4>3
      <3> QED BY <1>9, <3>1, <3>2, <3>3 DEF RelayFetch, RelayCheck, RelayProve
    <2>6. UNCHANGED <<job, todo, chain, crashes>>
      BY <1>9 DEF RelayFetch, RelayCheck, RelayProve
    <2>7. verified' \subseteq Requests /\ faults' \in Nat
      BY <1>2, <1>9 DEF RelayFetch, RelayCheck, RelayProve, Fault, LookupFault
    <2> QED BY <2>1, <2>2, <2>3, <2>4, <2>5, <2>6, <2>7, HandlerPreservesInv
  <1> QED BY <1>1, <1>6, <1>7, <1>8, <1>9 DEF Handler

-----------------------------------------------------------------------------
(* processRecord.                                                          *)

\* What a process at work knows of its request.
LEMMA WorkFacts ==
    ASSUME Inv, NEW p \in Procs, pc[p] \in WorkPcs
    PROVE  /\ job[p] \in Job /\ Req(p) \in Requests /\ Rec(p) \in Row
           /\ row[Req(p)] \in Row /\ row[Req(p)].status # "none"
           /\ Own(row[Req(p)].sig, Req(p)) /\ Own(Rec(p).sig, Req(p))
           /\ row[Req(p)].status = "confirmed" => Spent(Req(p))
           /\ seen[p].spent => Spent(Req(p))
           /\ pc[p] = "status" => Rec(p).sig # NoTx
           /\ faults \in Nat
  BY DEF Inv, TypeOK, WorkOK, RowOK, Job, Req, Rec, Stored

\* markFailed, from either process.
LEMMA FailPreservesInv ==
    ASSUME Inv, NEW p \in Procs, pc[p] \in WorkPcs,
           NEW b \in BOOLEAN, NEW c \in BOOLEAN,
           SetRow(Req(p), MarkFailed(row[Req(p)], b, c)), Return(p),
           UNCHANGED <<todo, verified, chain, crashes>>, faults' \in Nat
    PROVE  Inv'
  <1> DEFINE w == MarkFailed(row[Req(p)], b, c)
  <1>1. w \in Row /\ w.status \in {"failed", "pending"} /\ w.sig \in {NoTx, row[Req(p)].sig}
    BY WorkFacts, RowFailed
  <1>2. Own(w.sig, Req(p))
    BY <1>1, WorkFacts DEF Own
  <1> HIDE DEF w
  <1>3. SetRow(Req(p), w) /\ Leave(p, "wait")
    BY DEF w, Return
  <1> QED BY <1>1, <1>2, <1>3, ReturnPreservesInv

\* handleSubmissionFailure, whichever verdict the error carries.
LEMMA HandleSubmissionFailurePreservesInv ==
    ASSUME Inv, NEW p \in Procs, pc[p] \in WorkPcs, NEW retryable \in BOOLEAN,
           HandleSubmissionFailure(p, retryable),
           UNCHANGED <<todo, verified, chain, crashes>>, faults' \in Nat
    PROVE  Inv'
  <1>1. PICK b \in BOOLEAN : b <=> (~retryable \/ Rec(p).retries >= MaxRetries)
    OBVIOUS
  <1>2. PICK c \in BOOLEAN : c <=> ~(b /\ Rec(p).status = "submitted")
    OBVIOUS
  <1>3. SetRow(Req(p), MarkFailed(row[Req(p)], b, c)) /\ Return(p)
    BY <1>1, <1>2 DEF HandleSubmissionFailure
  <1> QED BY <1>3, FailPreservesInv

\* rescheduleSubmitted, from either process.
LEMMA ReschedulePreservesInv ==
    ASSUME Inv, NEW p \in Procs, pc[p] \in WorkPcs, Reschedule(p),
           UNCHANGED <<todo, verified, chain, crashes>>, faults' \in Nat
    PROVE  Inv'
  <1> DEFINE w == RescheduleSubmitted(row[Req(p)], FALSE)
  <1>1. w \in Row /\ w.status = "submitted" /\ Own(w.sig, Req(p))
    BY WorkFacts, RowRescheduled
  <1> HIDE DEF w
  <1>2. SetRow(Req(p), w) /\ Leave(p, "wait")
    BY DEF w, Reschedule, Return
  <1> QED BY <1>1, <1>2, ReturnPreservesInv

\* markConfirmed, on the evidence the process holds.
LEMMA ConfirmPreservesInv ==
    ASSUME Inv, NEW p \in Procs, pc[p] \in WorkPcs,
           NEW t \in TxIds \cup {NoTx}, Own(t, Req(p)), Spent(Req(p)), Confirm(p, t),
           UNCHANGED <<todo, verified, chain, crashes>>, faults' \in Nat
    PROVE  Inv'
  <1> DEFINE w == MarkConfirmed(RecordFeeBreakdown(row[Req(p)]), t)
  <1>1. RecordFeeBreakdown(row[Req(p)]) \in Row
        /\ RecordFeeBreakdown(row[Req(p)]).sig = row[Req(p)].sig
    BY WorkFacts, RowOperators
  <1>2. w \in Row /\ w.status = "confirmed" /\ w.sig \in {t, row[Req(p)].sig}
    BY <1>1, RowSigned
  <1>3. Own(w.sig, Req(p))
    BY <1>2, WorkFacts
  <1> HIDE DEF w
  <1>4. SetRow(Req(p), w) /\ Leave(p, "wait")
    BY DEF w, Confirm, Return
  <1> QED BY <1>2, <1>3, <1>4, ReturnPreservesInv

\* A signature found on the nullifier's PDA is one of the request's own: no
\* other request for the same note is in the table.
LEMMA SpendSignatureIsOwn ==
    ASSUME Inv, NEW p \in Procs, pc[p] \in WorkPcs
    PROVE  SpendSignature(Req(p)) \in TxIds \cup {NoTx} /\ Own(SpendSignature(Req(p)), Req(p))
  <1> DEFINE n == NullifierOf[Req(p)]
             t == spentBy[n]
  <1>1. Req(p) \in Requests /\ Stored(Req(p)) /\ n \in Nullifiers
    BY WorkFacts, RelayerAssumption DEF Stored
  <1>2. t \in TxIds \cup {NoTx, External}
    BY <1>1 DEF Inv, TypeOK
  <1>3. CASE SpendSignature(Req(p)) = NoTx
    BY <1>3 DEF Own
  <1>4. CASE SpendSignature(Req(p)) # NoTx
    <2>1. SpendSignature(Req(p)) = t /\ t \in TxIds
      BY <1>2, <1>4 DEF SpendSignature
    <2>2. tx[t] # Unsent /\ NullifierOf[tx[t].req] = n
      BY <1>1, <2>1 DEF Inv, ChainOK
    <2>3. tx[t].req \in Requests /\ Stored(tx[t].req)
      BY <2>1, <2>2 DEF Inv, ChainOK, TypeOK, Tx
    <2>4. tx[t].req = Req(p)
      BY <1>1, <2>2, <2>3 DEF Inv, UniqueOK
    <2> QED BY <2>1, <2>2, <2>4 DEF Own
  <1> QED BY <1>3, <1>4

\* Both ways of isNullifierUsed see only nullifiers that are spent.
LEMMA UsedIsSpent ==
    ASSUME Inv, NEW p \in Procs, pc[p] \in WorkPcs, NullifierUsed(p, Req(p))
    PROVE  Spent(Req(p))
  BY WorkFacts DEF NullifierUsed

\* sendRawTransaction, delivered or not, reported or not.
LEMMA SendPreservesInv ==
    ASSUME Inv, NEW p \in Procs, Send(p)
    PROVE  Inv'
  <1> USE RelayerAssumption, StoreAssumption DEF Req, Rec
  <1>1. pc[p] = "send" /\ pc[p] \in WorkPcs
    BY DEF Send, At, WorkPcs
  <1>2. /\ job[p] \in Job /\ job[p].req \in Requests /\ job[p].rec \in Row
        /\ Stored(job[p].req)
    BY <1>1, WorkFacts DEF Stored
  <1>3. PICK t \in TxIds, s \in {"inflight", "lost"} :
           /\ tx[t] = Unsent
           /\ tx' = [tx EXCEPT ![t] = [req |-> job[p].req, state |-> s, live |-> TRUE]]
           /\ job' = [job EXCEPT ![p].rec.sig = t]
    BY DEF Signed, Send
  <1>4. Goto(p, "sent") /\ UNCHANGED <<row, todo, seen, verified, spentBy, good, crashes>>
        /\ faults' \in Nat
    BY DEF Send, Fault, Inv, TypeOK
  <1>5. [job[p] EXCEPT !.rec.sig = t] \in Job
    BY <1>2 DEF Job, Row
  <1>6. /\ job'[p] = [job[p] EXCEPT !.rec.sig = t]
        /\ job'[p].req = job[p].req /\ job'[p].rec.sig = t
        /\ \A q \in Procs \ {p} : job'[q] = job[q]
        /\ job' \in [Procs -> Job \cup {NoJob}]
    BY <1>2, <1>3, <1>5 DEF Inv, TypeOK, Job, Row
  <1>7. [req |-> job[p].req, state |-> s, live |-> TRUE] \in Tx
    BY <1>2 DEF Tx
  <1>8. TypeOK'
    BY <1>3, <1>4, <1>6, <1>7 DEF Inv, TypeOK, Goto, Pcs, WorkPcs
  <1>9. \A q \in Requests : (Stored(q)' <=> Stored(q)) /\ (Spent(q)' <=> Spent(q))
    BY <1>4 DEF Stored, Spent
  <1>10. /\ \A u \in TxIds \ {t} : tx'[u] = tx[u]
         /\ tx'[t] # Unsent /\ tx'[t].req = job[p].req /\ tx'[t].state # "landed"
    BY <1>3 DEF Inv, TypeOK, Unsent
  <1>11. \A q \in Requests : \A u \in TxIds \cup {NoTx} : Own(u, q) => Own(u, q)'
    BY <1>3, <1>10 DEF Own
  <1>12. ChainOK'
    <2>1. \A u \in TxIds : (tx[u] # Unsent)' =>
             Stored(tx[u].req)' /\ (tx[u].state = "landed" => Spent(tx[u].req))'
      <3>1. \A u \in TxIds \ {t} : tx[u] # Unsent =>
               /\ tx[u].req \in Requests /\ Stored(tx[u].req)
               /\ tx[u].state = "landed" => Spent(tx[u].req)
        BY DEF Inv, ChainOK, TypeOK, Tx
      <3> QED BY <1>2, <1>9, <1>10, <3>1
    <2>2. \A n \in Nullifiers : spentBy[n] \in TxIds => tx'[spentBy[n]] = tx[spentBy[n]]
      BY <1>3, <1>10 DEF Inv, ChainOK
    <2> QED BY <1>4, <2>1, <2>2 DEF Inv, ChainOK
  <1>13. UniqueOK' /\ RowOK' /\ TodoOK'
    <2>1. \A r \in Requests : row[r].sig \in TxIds \cup {NoTx}
      BY DEF Inv, TypeOK, Row
    <2>2. \A j \in todo : j.req \in Requests /\ j.rec.sig \in TxIds \cup {NoTx}
      BY DEF Inv, TypeOK, Job, Row
    <2> QED BY <1>4, <1>9, <1>11, <2>1, <2>2 DEF Inv, UniqueOK, RowOK, TodoOK
  <1>14. /\ \A q \in Procs \ {p} : pc'[q] = pc[q]
         /\ pc'[p] = "sent" /\ "sent" \in WorkPcs
    BY <1>4 DEF Inv, TypeOK, Goto, WorkPcs
  <1>15. WorkOK'
    <2>1. \A q \in Procs \ {p} : pc'[q] \in WorkPcs =>
             /\ pc[q] \in WorkPcs /\ job[q] \in Job /\ job[q].req \in Requests
             /\ job[q].rec.sig \in TxIds \cup {NoTx} /\ job'[q] = job[q]
      BY <1>6, <1>14 DEF Inv, WorkOK, Job, Row
    <2>2. /\ job'[p] \in Job /\ Stored(job[p].req)' /\ Own(job[p].rec.sig, job[p].req)'
          /\ p \in Requests => job'[p].req = p
          /\ seen'[p].spent => Spent(job[p].req)'
      <3>1. Own(job[p].rec.sig, job[p].req)'
        BY <1>6, <1>10 DEF Own
      <3>2. /\ p \in Requests => job[p].req = p
            /\ seen[p].spent => Spent(job[p].req)
        BY <1>1 DEF Inv, WorkOK
      <3> QED BY <1>2, <1>4, <1>5, <1>6, <1>9, <3>1, <3>2
    <2>3. ASSUME NEW q \in Procs \ {p}, pc'[q] \in WorkPcs
          PROVE  /\ job'[q] \in Job /\ Stored(job[q].req)' /\ Own(job[q].rec.sig, job[q].req)'
                 /\ q \in Requests => job'[q].req = q
                 /\ seen'[q].spent => Spent(job[q].req)'
                 /\ pc'[q] = "status" => job'[q].rec.sig # NoTx
      <3>1. /\ Stored(job[q].req) /\ Own(job[q].rec.sig, job[q].req)
            /\ q \in Requests => job[q].req = q
            /\ seen[q].spent => Spent(job[q].req)
            /\ pc[q] = "status" => job[q].rec.sig # NoTx
        BY <2>1, <2>3 DEF Inv, WorkOK
      <3>2. job'[q] = job[q] /\ seen' = seen /\ pc'[q] = pc[q]
        BY <1>4, <1>6, <1>14
      <3>3. job[q].req \in Requests /\ job[q].rec.sig \in TxIds \cup {NoTx}
        BY <2>1, <2>3
      <3>4. Own(job[q].rec.sig, job[q].req)'
        BY <1>11, <3>1, <3>2, <3>3 DEF Own
      <3> QED BY <1>9, <2>1, <2>3, <3>1, <3>2, <3>3, <3>4
    <2> QED BY <1>14, <2>2, <2>3 DEF WorkOK
  <1>16. SeenOK' /\ ReplyOK'
    BY <1>1, <1>4, <1>9, <1>14 DEF Inv, SeenOK, ReplyOK, WorkOK, Procs, Replies, WorkPcs
  <1> QED BY <1>8, <1>12, <1>13, <1>15, <1>16 DEF Inv

\* Every step of processRecord, in the handler or in the retry manager.
LEMMA WorkPreservesInv ==
    ASSUME Inv, NEW p \in Procs, Work(p)
    PROVE  Inv'
  <1> USE DEF At
  <1>1. CASE Send(p)
    BY <1>1, SendPreservesInv
  <1> SUFFICES ASSUME ~Send(p) PROVE Inv'
    BY <1>1
  <1>2. pc[p] \in WorkPcs
    BY DEF Work, ProcessFetch, SendReturns, SendRejected, RecoverPending, Status,
           SpentCheck, HeightCheck, RecoverSubmitted, WorkPcs
  <1>3. UNCHANGED <<todo, verified, chain, crashes>>
    BY DEF Work, ProcessFetch, SendReturns, SendRejected, RecoverPending, Status,
           SpentCheck, HeightCheck, RecoverSubmitted
  <1>4. Fault \/ LookupFault \/ UNCHANGED faults => faults' \in Nat
    BY <1>2, WorkFacts DEF Fault, LookupFault
  <1>5. {"send", "recoverPending", "status", "spentCheck", "heightCheck",
         "recoverSubmitted"} \subseteq WorkPcs
    BY DEF WorkPcs
  <1>6. (NullifierVersion = 1) \in BOOLEAN
    OBVIOUS
  <1>7. CASE ProcessFetch(p)
    <2>1. CASE UNCHANGED faults /\ Rec(p).status = "submitted"
      <3>1. CASE SetRow(Req(p), MarkFailed(row[Req(p)], TRUE, TRUE)) /\ Return(p)
        BY <1>2, <1>3, <1>4, <2>1, <3>1, FailPreservesInv
      <3>2. CASE /\ Rec(p).sig # NoTx /\ FetchPool(p, Req(p), FALSE)
                 /\ Goto(p, "status") /\ UNCHANGED <<row, job>>
        BY <1>2, <1>3, <1>4, <1>5, <2>1, <3>2, AdvancePreservesInv
      <3>3. CASE Fault /\ Reschedule(p)
        BY <1>2, <1>3, <1>4, <3>3, ReschedulePreservesInv
      <3> QED BY <1>7, <2>1, <3>1, <3>2, <3>3 DEF ProcessFetch
    <2>2. CASE UNCHANGED faults /\ Rec(p).status = "pending"
      <3>1. CASE Leave(p, "error") /\ UNCHANGED row
        <4>1. row[Req(p)] \in Row /\ SetRow(Req(p), row[Req(p)])
          BY <1>2, <3>1, WorkFacts DEF SetRow, Inv, TypeOK
        <4> QED BY <1>2, <1>3, <1>4, <2>2, <3>1, <4>1, WorkFacts, ReturnPreservesInv
      <3>2. CASE FetchPool(p, Req(p), FALSE) /\ Goto(p, "send") /\ UNCHANGED <<row, job>>
        BY <1>2, <1>3, <1>4, <1>5, <2>2, <3>2, AdvancePreservesInv
      <3>3. CASE Fault /\ \E retryable \in BOOLEAN : HandleSubmissionFailure(p, retryable)
        BY <1>2, <1>3, <1>4, <3>3, HandleSubmissionFailurePreservesInv
      <3> QED BY <1>7, <2>2, <3>1, <3>2, <3>3 DEF ProcessFetch
    <2>3. CASE Fault /\ \/ Reschedule(p)
                        \/ \E retryable \in BOOLEAN : HandleSubmissionFailure(p, retryable)
      BY <1>2, <1>3, <1>4, <2>3, ReschedulePreservesInv, HandleSubmissionFailurePreservesInv
    <2> QED BY <1>7, <2>1, <2>2, <2>3 DEF ProcessFetch
  <1>8. CASE SendReturns(p)
    <2> DEFINE w == RecordFeeBreakdown(MarkSubmitted(row[Req(p)], Rec(p).sig))
    <2>1. row[Req(p)] \in Row /\ Rec(p).sig \in TxIds \cup {NoTx} /\ Own(Rec(p).sig, Req(p))
      BY <1>2, WorkFacts DEF Row
    <2>2. MarkSubmitted(row[Req(p)], Rec(p).sig) \in Row
          /\ MarkSubmitted(row[Req(p)], Rec(p).sig).status = "submitted"
          /\ MarkSubmitted(row[Req(p)], Rec(p).sig).sig = Rec(p).sig
      BY <2>1, RowSigned
    <2>3. w \in Row /\ w.status = "submitted" /\ w.sig = Rec(p).sig
      BY <2>2, RowOperators
    <2>4. SetRow(Req(p), w) /\ Leave(p, "wait") /\ UNCHANGED faults
      BY <1>8 DEF SendReturns, Return
    <2> HIDE DEF w
    <2> QED BY <1>2, <1>3, <1>4, <2>1, <2>3, <2>4, ReturnPreservesInv
  <1>9. CASE SendRejected(p)
    <2>1. CASE Goto(p, "recoverPending") /\ UNCHANGED <<row, job, seen, faults>>
      BY <1>2, <1>3, <1>4, <1>5, <2>1, AdvancePreservesInv
    <2>2. CASE HandleSubmissionFailure(p, TRUE) /\ (UNCHANGED faults \/ Fault)
      BY <1>2, <1>3, <1>4, <2>2, HandleSubmissionFailurePreservesInv
    <2> QED BY <1>9, <2>1, <2>2 DEF SendRejected
  <1>10. CASE RecoverPending(p)
    <2>1. CASE /\ NullifierUsed(p, Req(p)) /\ Confirm(p, SpendSignature(Req(p)))
               /\ UNCHANGED faults
      BY <1>2, <1>3, <1>4, <2>1, UsedIsSpent, SpendSignatureIsOwn, ConfirmPreservesInv
    <2>2. CASE HandleSubmissionFailure(p, NullifierVersion = 1) /\ (UNCHANGED faults \/ Fault)
      BY <1>2, <1>3, <1>4, <1>6, <2>2, HandleSubmissionFailurePreservesInv
    <2> QED BY <1>10, <2>1, <2>2 DEF SpentIsRetryable, RecoverPending
  <1>11. CASE Status(p)
    <2>1. CASE tx[Rec(p).sig].state = "landed" /\ Confirm(p, NoTx) /\ UNCHANGED faults
      <3>1. Rec(p).sig \in TxIds /\ tx[Rec(p).sig] # Unsent /\ tx[Rec(p).sig].req = Req(p)
        BY <1>2, <1>11, WorkFacts DEF Status, Own, Row
      <3>2. Spent(Req(p))
        BY <2>1, <3>1 DEF Inv, ChainOK
      <3> QED BY <1>2, <1>3, <1>4, <2>1, <3>2, ConfirmPreservesInv DEF Own
    <2>2. CASE Reschedule(p) /\ (UNCHANGED faults \/ Fault)
      BY <1>2, <1>3, <1>4, <2>2, ReschedulePreservesInv
    <2>3. CASE \E label \in {"recoverSubmitted", "spentCheck"} :
                  Goto(p, label) /\ UNCHANGED <<row, job, seen>> /\ (UNCHANGED faults \/ Fault)
      BY <1>2, <1>3, <1>4, <1>5, <2>3, AdvancePreservesInv
    <2> QED BY <1>11, <2>1, <2>2, <2>3 DEF Status
  <1>12. CASE SpentCheck(p)
    <2>1. CASE NullifierUsed(p, Req(p)) /\ Confirm(p, NoTx) /\ UNCHANGED faults
      BY <1>2, <1>3, <1>4, <2>1, UsedIsSpent, ConfirmPreservesInv DEF Own
    <2>2. CASE Goto(p, "heightCheck") /\ UNCHANGED <<row, job, seen, faults>>
      BY <1>2, <1>3, <1>4, <1>5, <2>2, AdvancePreservesInv
    <2>3. CASE LookupFault /\ Reschedule(p)
      BY <1>2, <1>3, <1>4, <2>3, ReschedulePreservesInv
    <2> QED BY <1>12, <2>1, <2>2, <2>3 DEF SpentCheck
  <1>13. CASE HeightCheck(p)
    <2>1. CASE HandleSubmissionFailure(p, TRUE) /\ UNCHANGED faults
      BY <1>2, <1>3, <1>4, <2>1, HandleSubmissionFailurePreservesInv
    <2>2. CASE Reschedule(p) /\ (UNCHANGED faults \/ Fault)
      BY <1>2, <1>3, <1>4, <2>2, ReschedulePreservesInv
    <2> QED BY <1>13, <2>1, <2>2 DEF HeightCheck
  <1>14. CASE RecoverSubmitted(p)
    <2>1. CASE /\ NullifierUsed(p, Req(p)) /\ Confirm(p, SpendSignature(Req(p)))
               /\ UNCHANGED faults
      BY <1>2, <1>3, <1>4, <2>1, UsedIsSpent, SpendSignatureIsOwn, ConfirmPreservesInv
    <2>2. CASE /\ SetRow(Req(p), MarkFailed(row[Req(p)], TRUE, FALSE)) /\ Return(p)
               /\ UNCHANGED faults \/ Fault
      BY <1>2, <1>3, <1>4, <2>2, FailPreservesInv
    <2> QED BY <1>14, <2>1, <2>2 DEF RecoverSubmitted
  <1> QED BY <1>7, <1>8, <1>9, <1>10, <1>11, <1>12, <1>13, <1>14 DEF Work

-----------------------------------------------------------------------------
(* The environment.                                                        *)

\* A crash loses what the processes held and keeps the table.
LEMMA CrashPreservesInv ==
    ASSUME Inv, Crash
    PROVE  Inv'
  <1> USE RelayerAssumption DEF Req, Rec, Crash
  <1>1. TypeOK'
    BY DEF Inv, TypeOK, Pcs, Replies, Unseen, chain
  <1>2. \A q \in Requests : (Stored(q)' <=> Stored(q)) /\ (Spent(q)' <=> Spent(q))
    BY DEF Stored, Spent, chain
  <1>3. \A q \in Requests : \A s : Own(s, q)' <=> Own(s, q)
    BY DEF Own, chain
  <1>4. ChainOK'
    BY <1>2 DEF Inv, ChainOK, chain, TypeOK, Tx
  <1>5. UniqueOK' /\ RowOK' /\ TodoOK'
    BY <1>2, <1>3 DEF Inv, UniqueOK, RowOK, TodoOK
  <1>6. \A p \in Procs : pc'[p] \notin WorkPcs /\ ~seen'[p].spent
    BY DEF WorkPcs, Replies, Unseen
  <1>7. WorkOK' /\ SeenOK'
    BY <1>6 DEF WorkOK, SeenOK, Procs
  <1>8. ReplyOK'
    BY <1>2 DEF Inv, ReplyOK, Procs, Replies
  <1> QED BY <1>1, <1>4, <1>5, <1>7, <1>8 DEF Inv

\* What the chain does keeps every signature with its request and leaves every
\* spent nullifier spent.
LEMMA ChainPreservesInv ==
    ASSUME Inv,
           UNCHANGED <<row, procs, faults, crashes>>,
           tx' \in [TxIds -> Tx \cup {Unsent}],
           spentBy' \in [Nullifiers -> TxIds \cup {NoTx, External}],
           good' \in [Requests -> BOOLEAN],
           \A t \in TxIds : /\ tx'[t] = Unsent <=> tx[t] = Unsent
                            /\ tx[t] # Unsent => tx'[t].req = tx[t].req,
           \A n \in Nullifiers : spentBy[n] # NoTx => spentBy'[n] = spentBy[n],
           ChainOK'
    PROVE  Inv'
  <1> USE RelayerAssumption DEF Req, Rec, procs
  <1>1. TypeOK'
    BY DEF Inv, TypeOK
  <1>2. \A q \in Requests : (Stored(q)' <=> Stored(q)) /\ (Spent(q) => Spent(q)')
    BY DEF Stored, Spent
  <1>3. \A q \in Requests : \A s \in TxIds \cup {NoTx} : Own(s, q) => Own(s, q)'
    BY DEF Own
  <1>4. UniqueOK'
    BY <1>2 DEF Inv, UniqueOK
  <1>5. \A w \in Row : w.sig \in TxIds \cup {NoTx}
    BY DEF Row
  <1>6. RowOK'
    BY <1>2, <1>3, <1>5 DEF Inv, RowOK, TypeOK
  <1>7. TodoOK'
    BY <1>2, <1>3, <1>5 DEF Inv, TodoOK, TypeOK, Job
  <1>8. WorkOK'
    BY <1>2, <1>3, <1>5 DEF Inv, WorkOK, TypeOK, Job
  <1>9. SeenOK' /\ ReplyOK'
    BY <1>2 DEF Inv, SeenOK, ReplyOK
  <1> QED BY <1>1, <1>4, <1>6, <1>7, <1>8, <1>9 DEF Inv

\* The cluster executes, drops and expires transactions on its own.
LEMMA EnvironmentPreservesInv ==
    ASSUME Inv, Environment
    PROVE  Inv'
  <1> USE RelayerAssumption, StoreAssumption
  <1>1. CASE Crash
    BY <1>1, CrashPreservesInv
  <1>2. ASSUME NEW r \in Requests, TimePasses(r) PROVE Inv'
    <2> USE <1>2 DEF TimePasses, Req, Rec
    <2>1. \A w \in Row : /\ [w EXCEPT !.due = TRUE] \in Row
                         /\ [w EXCEPT !.due = TRUE].status = w.status
                         /\ [w EXCEPT !.due = TRUE].sig = w.sig
      BY DEF Row
    <2>2. /\ row' \in [Requests -> Row]
          /\ \A q \in Requests : row'[q].status = row[q].status /\ row'[q].sig = row[q].sig
      BY <2>1 DEF Inv, TypeOK, SetRow
    <2>3. TypeOK'
      BY <2>2 DEF Inv, TypeOK, procs, chain
    <2>4. \A q \in Requests : (Stored(q)' <=> Stored(q)) /\ (Spent(q)' <=> Spent(q))
      BY <2>2 DEF Stored, Spent, chain
    <2>5. \A q \in Requests : \A s : Own(s, q)' <=> Own(s, q)
      BY DEF Own, chain
    <2>6. ChainOK'
      BY <2>4 DEF Inv, ChainOK, chain, TypeOK, Tx
    <2>7. UniqueOK' /\ RowOK'
      BY <2>2, <2>4, <2>5 DEF Inv, UniqueOK, RowOK
    <2>8. TodoOK'
      BY <2>4, <2>5 DEF Inv, TodoOK, TypeOK, Job, procs
    <2>9. WorkOK'
      BY <2>4, <2>5 DEF Inv, WorkOK, Job, procs
    <2>10. SeenOK' /\ ReplyOK'
      BY <2>4 DEF Inv, SeenOK, ReplyOK, procs
    <2> QED BY <2>3, <2>6, <2>7, <2>8, <2>9, <2>10 DEF Inv
  <1>3. ASSUME NEW r \in Requests, RootAgesOut(r) PROVE Inv'
    <2>1. good' \in [Requests -> BOOLEAN] /\ UNCHANGED <<row, procs, tx, spentBy, faults, crashes>>
      BY <1>3 DEF RootAgesOut, Inv, TypeOK
    <2>2. ChainOK'
      BY <2>1 DEF Inv, ChainOK, Stored, Spent
    <2> QED BY <2>1, <2>2, ChainPreservesInv DEF Inv, TypeOK
  <1>4. ASSUME NEW n \in Nullifiers, SpendElsewhere(n) PROVE Inv'
    <2>1. /\ spentBy' \in [Nullifiers -> TxIds \cup {NoTx, External}]
          /\ \A m \in Nullifiers : spentBy[m] # NoTx => spentBy'[m] = spentBy[m]
          /\ spentBy'[n] \notin TxIds /\ \A m \in Nullifiers \ {n} : spentBy'[m] = spentBy[m]
          /\ UNCHANGED <<row, procs, tx, good, faults, crashes>>
      BY <1>4 DEF SpendElsewhere, Inv, TypeOK
    <2>2. \A q \in Requests : Spent(q) => Spent(q)'
      BY <2>1 DEF Spent
    <2>3. ChainOK'
      BY <2>1, <2>2 DEF Inv, ChainOK, Stored, TypeOK, Tx
    <2> QED BY <2>1, <2>3, ChainPreservesInv DEF Inv, TypeOK
  <1>5. ASSUME NEW t \in TxIds, Expire(t) PROVE Inv'
    <2>1. tx[t] \in Tx /\ tx[t] # Unsent
      BY <1>5 DEF Expire, Inv, TypeOK
    <2>2. /\ [tx[t] EXCEPT !.live = FALSE] \in Tx
          /\ [tx[t] EXCEPT !.live = FALSE].req = tx[t].req
          /\ [tx[t] EXCEPT !.live = FALSE].state = tx[t].state
      BY <2>1 DEF Tx
    <2>3. /\ tx' \in [TxIds -> Tx \cup {Unsent}]
          /\ tx'[t] = [tx[t] EXCEPT !.live = FALSE]
          /\ \A u \in TxIds \ {t} : tx'[u] = tx[u]
          /\ UNCHANGED <<row, procs, spentBy, good, faults, crashes>>
      BY <1>5, <2>2 DEF Expire, Inv, TypeOK
    <2>4. tx'[t] # Unsent
      BY <2>1, <2>3 DEF Tx, Unsent
    <2>5. \A u \in TxIds : tx[u] # Unsent =>
             tx'[u].req = tx[u].req /\ tx'[u].state = tx[u].state
      BY <2>2, <2>3
    <2>6. ChainOK'
      BY <2>1, <2>3, <2>4, <2>5 DEF Inv, ChainOK, Stored, Spent
    <2> QED BY <2>1, <2>3, <2>4, <2>5, <2>6, ChainPreservesInv DEF Inv, TypeOK
  <1>6. ASSUME NEW t \in TxIds, Execute(t) PROVE Inv'
    <2>0. tx[t] \in Tx /\ tx[t] # Unsent
      BY <1>6 DEF Execute, Inv, TypeOK, Unsent
    <2>1. PICK r \in Requests : r = tx[t].req /\ Stored(r)
      BY <2>0 DEF Inv, ChainOK, Tx
    <2>2. PICK s \in {"landed", "failed"} :
             /\ tx' = [tx EXCEPT ![t].state = s]
             /\ s = "landed" => ~Spent(r) /\ spentBy' = [spentBy EXCEPT ![NullifierOf[r]] = t]
             /\ s = "failed" => UNCHANGED spentBy
      BY <1>6, <2>1 DEF Execute
    <2>3. UNCHANGED <<row, procs, good, faults, crashes>>
      BY <1>6 DEF Execute
    <2>4. /\ [tx[t] EXCEPT !.state = s] \in Tx
          /\ [tx[t] EXCEPT !.state = s].req = r
          /\ [tx[t] EXCEPT !.state = s].state = s
      BY <2>0, <2>1 DEF Tx
    <2>5. /\ tx' \in [TxIds -> Tx \cup {Unsent}]
          /\ tx'[t] = [tx[t] EXCEPT !.state = s]
          /\ \A u \in TxIds \ {t} : tx'[u] = tx[u]
      BY <2>2, <2>4 DEF Inv, TypeOK
    <2>6. tx'[t] # Unsent
      BY <2>0, <2>5 DEF Tx, Unsent
    <2>7. NullifierOf[r] \in Nullifiers
      OBVIOUS
    <2>8. /\ spentBy' \in [Nullifiers -> TxIds \cup {NoTx, External}]
          /\ \A m \in Nullifiers : spentBy[m] # NoTx => spentBy'[m] = spentBy[m]
          /\ \A m \in Nullifiers : spentBy'[m] = spentBy[m]
                                   \/ (m = NullifierOf[r] /\ spentBy'[m] = t)
          /\ s = "landed" => spentBy'[NullifierOf[r]] = t
      BY <2>2, <2>7 DEF Inv, TypeOK, Spent
    <2>9. \A q \in Requests : Spent(q) => Spent(q)'
      BY <2>8 DEF Spent
    <2>10. s = "landed" => Spent(r)'
      BY <2>4, <2>5, <2>8 DEF Spent, NoTx
    <2>11. \A u \in TxIds : (tx[u] # Unsent)' =>
              Stored(tx[u].req)' /\ ((tx[u].state = "landed")' => Spent(tx[u].req)')
      <3>1. \A u \in TxIds \ {t} : tx[u] # Unsent =>
               /\ tx[u].req \in Requests /\ Stored(tx[u].req)
               /\ tx[u].state = "landed" => Spent(tx[u].req)
        BY DEF Inv, ChainOK, TypeOK, Tx
      <3>2. tx'[t].req = r /\ tx'[t].state = s
        BY <2>4, <2>5
      <3>3. \A q \in Requests : Stored(q) => Stored(q)'
        BY <2>3 DEF Stored
      <3>4. Stored(tx[t].req)' /\ ((tx[t].state = "landed")' => Spent(tx[t].req)')
        <4>1. Stored(r)'
          BY <2>1, <3>3
        <4> QED BY <2>10, <3>2, <4>1 DEF Stored, Spent
      <3>5. ASSUME NEW u \in TxIds \ {t}, (tx[u] # Unsent)'
            PROVE  Stored(tx[u].req)' /\ ((tx[u].state = "landed")' => Spent(tx[u].req)')
        BY <2>5, <2>9, <3>1, <3>3, <3>5
      <3> QED BY <3>4, <3>5
    <2>12. \A n \in Nullifiers : (spentBy[n] \in TxIds)' =>
              (tx[spentBy[n]] # Unsent)' /\ (NullifierOf[tx[spentBy[n]].req] = n)'
      <3>1. \A n \in Nullifiers : spentBy[n] \in TxIds =>
               tx[spentBy[n]] # Unsent /\ NullifierOf[tx[spentBy[n]].req] = n
        BY DEF Inv, ChainOK
      <3>2. tx'[t].req = r
        BY <2>4, <2>5
      <3>3. \A u \in TxIds : tx[u] # Unsent => tx'[u] # Unsent /\ tx'[u].req = tx[u].req
        BY <2>1, <2>5, <2>6, <3>2
      <3>4. ASSUME NEW n \in Nullifiers, spentBy'[n] \in TxIds
            PROVE  tx'[spentBy'[n]] # Unsent /\ NullifierOf[tx'[spentBy'[n]].req] = n
        <4>1. CASE spentBy'[n] = spentBy[n]
          BY <3>1, <3>3, <3>4, <4>1
        <4>2. CASE n = NullifierOf[r] /\ spentBy'[n] = t
          BY <2>6, <3>2, <4>2
        <4> QED BY <2>8, <4>1, <4>2
      <3> QED BY <3>4
    <2>13. ChainOK'
      BY <2>11, <2>12 DEF ChainOK
    <2>14. \A u \in TxIds : /\ tx'[u] = Unsent <=> tx[u] = Unsent
                            /\ tx[u] # Unsent => tx'[u].req = tx[u].req
      BY <2>0, <2>1, <2>4, <2>5, <2>6
    <2> QED BY <2>3, <2>5, <2>8, <2>13, <2>14, ChainPreservesInv DEF Inv, TypeOK
  <1> QED BY <1>1, <1>2, <1>3, <1>4, <1>5, <1>6 DEF Environment

-----------------------------------------------------------------------------
(* The theorems.                                                           *)

\* A relayer that starts on a table another process left satisfies Inv.
LEMMA InitInv == Init => Inv
  <1> SUFFICES ASSUME Init PROVE Inv
    OBVIOUS
  <1> USE RelayerAssumption, StoreAssumption DEF Init
  <1>1. PendingRow \in Row /\ PendingRow.status = "pending" /\ PendingRow.sig = NoTx
    BY DEF Row, PendingRow, NoRow, Open, Terminal
  <1>2. NoRow \in Row /\ NoRow.status = "none" /\ NoRow.sig = NoTx
    BY DEF Row, NoRow
  <1>3. TypeOK
    BY <1>1, <1>2 DEF TypeOK, Procs, Pcs, Replies, Unseen
  <1>4. \A r \in Requests : Stored(r) <=> r \in Backlog
    BY <1>1, <1>2 DEF Stored
  <1>5. ChainOK
    BY DEF ChainOK, NoTx
  <1>6. UniqueOK
    BY <1>4 DEF UniqueOK
  <1>7. RowOK
    BY <1>1, <1>2 DEF RowOK, Own
  <1>8. \A p \in Procs : pc[p] \in {"idle", "dropped"} /\ ~seen[p].spent
    BY DEF Unseen
  <1>9. TodoOK /\ WorkOK /\ SeenOK
    BY <1>8 DEF TodoOK, WorkOK, SeenOK, WorkPcs, Procs
  <1>10. ReplyOK
    BY <1>4 DEF ReplyOK, Procs, Replies
  <1> QED BY <1>3, <1>5, <1>6, <1>7, <1>9, <1>10 DEF Inv

\* Every step of the relayer, the cluster or a crash preserves Inv.
LEMMA NextInv == Inv /\ [Next]_vars => Inv'
  <1> SUFFICES ASSUME Inv, [Next]_vars PROVE Inv'
    OBVIOUS
  <1>1. CASE \E r \in Requests : Handler(r)
    BY <1>1, HandlerStepPreservesInv
  <1>2. CASE RetryManager
    BY <1>2, RetryManagerPreservesInv
  <1>3. CASE \E p \in Procs : Work(p)
    BY <1>3, WorkPreservesInv
  <1>4. CASE Environment
    BY <1>4, EnvironmentPreservesInv
  <1>5. CASE UNCHANGED vars
    <2> USE <1>5 DEF vars, procs, chain, Inv
    <2>1. TypeOK'   BY DEF TypeOK
    <2>2. ChainOK' /\ UniqueOK' /\ RowOK'
      BY DEF ChainOK, UniqueOK, RowOK, Own, Stored, Spent
    <2>3. TodoOK' /\ WorkOK' /\ SeenOK' /\ ReplyOK'
      BY DEF TodoOK, WorkOK, SeenOK, ReplyOK, Own, Stored, Spent, Req, Rec
    <2> QED BY <2>1, <2>2, <2>3
  <1> QED BY <1>1, <1>2, <1>3, <1>4, <1>5 DEF Next

\* The inductive invariant holds in every state the relayer can reach.
THEOREM InvAlways == Spec => []Inv
  BY InitInv, NextInv, PTL DEF Spec

\* Every value the relayer, its database and its copies can hold has its type.
THEOREM TypeCorrect == Spec => []TypeOK
  <1>1. Inv => TypeOK
    BY DEF Inv
  <1> QED BY <1>1, InvAlways, PTL

\* A request is confirmed, and answered with success, only if its nullifier is
\* spent on chain: whatever is lost, repeated, crashed or interleaved.
THEOREM ConfirmedCorrect == Spec => []ConfirmedIsSpent
  <1>1. Inv => ConfirmedIsSpent
    BY DEF Inv, ConfirmedIsSpent, RowOK, ReplyOK
  <1> QED BY <1>1, InvAlways, PTL

\* A row never holds the signature of another request's transaction.
THEOREM SignatureCorrect == Spec => []SignatureOfOwnRequest
  <1>1. Inv => SignatureOfOwnRequest
    BY DEF Inv, SignatureOfOwnRequest, RowOK, Own
  <1> QED BY <1>1, InvAlways, PTL

-----------------------------------------------------------------------------
(* The relayer implements RelayPromise.                                    *)

\* A step that leaves the table's keys, the spent nullifiers and the answers as
\* they are is invisible in the abstract specification.
LEMMA InvisibleStep ==
    ASSUME \A r \in Requests : Stored(r)' <=> Stored(r),
           \A n \in Nullifiers : (spentBy[n] # NoTx)' <=> spentBy[n] # NoTx,
           \A r \in Requests : \/ pc'[r] = pc[r]
                               \/ pc[r] \notin Replies /\ pc'[r] \notin Replies
    PROVE  UNCHANGED Promise!vars
  <1>1. UNCHANGED {r \in Requests : Stored(r)}
    OBVIOUS
  <1>2. UNCHANGED {n \in Nullifiers : spentBy[n] # NoTx}
    OBVIOUS
  <1>3. UNCHANGED [r \in Requests |-> IF pc[r] \in Replies THEN pc[r] ELSE "none"]
    BY Zenon
  <1> QED BY <1>1, <1>2, <1>3 DEF Promise!vars

\* A handler that answers takes the abstract step Answer.
LEMMA AnswerStep ==
    ASSUME NEW r \in Requests, NEW a \in {"ok", "error", "rejected"},
           pc[r] \notin Replies, pc \in [Procs -> Pcs], Goto(r, a),
           a \in {"ok", "error"} => Stored(r), a = "ok" => Spent(r),
           \A q \in Requests : Stored(q)' <=> Stored(q), UNCHANGED spentBy
    PROVE  Promise!Answer(r)
  <1> DEFINE accepted == {q \in Requests : Stored(q)}
             spent    == {n \in Nullifiers : spentBy[n] # NoTx}
             answer   == [q \in Requests |-> IF pc[q] \in Replies THEN pc[q] ELSE "none"]
  <1>1. accepted' = accepted /\ spent' = spent
    OBVIOUS
  <1>2. r \in Procs /\ a \in Replies
    BY DEF Procs, Replies
  <1>3. answer' = [answer EXCEPT ![r] = a] /\ answer[r] = "none" /\ answer'[r] = a
    BY <1>2 DEF Goto, Procs
  <1>4. (a \in {"ok", "error"} => r \in accepted) /\ (a = "ok" => NullifierOf[r] \in spent)
    BY RelayerAssumption DEF Spent
  <1> QED BY <1>1, <1>3, <1>4 DEF Promise!Answer

\* No step of processRecord adds or deletes a row or touches the chain's
\* nullifiers; it ends a request only where buildWithdrawalBreakdown throws.
LEMMA WorkShape ==
    ASSUME Inv, NEW p \in Procs, Work(p)
    PROVE  /\ pc[p] \in WorkPcs
           /\ \A r \in Requests : Stored(r)' <=> Stored(r)
           /\ UNCHANGED spentBy
           /\ \E label \in WorkPcs \cup {"wait", "next", "error"} : Goto(p, label)
  <1> USE DEF At
  <1>1. pc[p] \in WorkPcs /\ UNCHANGED spentBy
    BY DEF Work, ProcessFetch, Send, SendReturns, SendRejected, RecoverPending, Status,
           SpentCheck, HeightCheck, RecoverSubmitted, WorkPcs, chain
  <1> DEFINE Keeps == \/ UNCHANGED row
                      \/ \E w \in Row : w.status # "none" /\ SetRow(Req(p), w)
  <1>2. \A b, c \in BOOLEAN : SetRow(Req(p), MarkFailed(row[Req(p)], b, c)) => Keeps
    BY <1>1, WorkFacts, RowFailed
  <1>3. \A retryable \in BOOLEAN : HandleSubmissionFailure(p, retryable) => Keeps
    <2> SUFFICES ASSUME NEW retryable \in BOOLEAN, HandleSubmissionFailure(p, retryable)
                 PROVE  Keeps
      OBVIOUS
    <2>1. PICK b \in BOOLEAN : b <=> (~retryable \/ Rec(p).retries >= MaxRetries)
      OBVIOUS
    <2>2. PICK c \in BOOLEAN : c <=> ~(b /\ Rec(p).status = "submitted")
      OBVIOUS
    <2>3. SetRow(Req(p), MarkFailed(row[Req(p)], b, c))
      BY <2>1, <2>2 DEF HandleSubmissionFailure
    <2> QED BY <1>2, <2>3
  <1>4. Reschedule(p) => Keeps
    BY <1>1, WorkFacts, RowRescheduled DEF Reschedule
  <1>5. \A t \in TxIds \cup {NoTx} : Confirm(p, t) => Keeps
    BY <1>1, WorkFacts, RowOperators, RowSigned DEF Confirm
  <1>6. SendReturns(p) => Keeps
    <2>1. row[Req(p)] \in Row /\ Rec(p).sig \in TxIds \cup {NoTx}
      BY <1>1, WorkFacts DEF Row
    <2>2. MarkSubmitted(row[Req(p)], Rec(p).sig) \in Row
          /\ MarkSubmitted(row[Req(p)], Rec(p).sig).status = "submitted"
      BY <2>1, RowSigned
    <2> QED BY <2>2, RowOperators DEF SendReturns
  <1>7. Keeps
    <2>1. SpendSignature(Req(p)) \in TxIds \cup {NoTx} /\ (NullifierVersion = 1) \in BOOLEAN
          /\ NoTx \in TxIds \cup {NoTx}
      BY <1>1, SpendSignatureIsOwn
    <2> HIDE DEF Keeps
    <2>2. \/ UNCHANGED row \/ Reschedule(p) \/ SendReturns(p)
          \/ \E t \in TxIds \cup {NoTx} : Confirm(p, t)
          \/ \E retryable \in BOOLEAN : HandleSubmissionFailure(p, retryable)
          \/ \E b, c \in BOOLEAN : SetRow(Req(p), MarkFailed(row[Req(p)], b, c))
      BY <2>1 DEF SpentIsRetryable, Work, ProcessFetch, Send, SendRejected, RecoverPending, Status,
                  SpentCheck, HeightCheck, RecoverSubmitted
    <2>3. UNCHANGED row => Keeps
      BY DEF Keeps
    <2> QED BY <1>2, <1>3, <1>4, <1>5, <1>6, <2>2, <2>3
  <1>8. \A r \in Requests : Stored(r)' <=> Stored(r)
    BY <1>1, <1>7, WorkFacts DEF Stored, SetRow, Inv, TypeOK
  <1>9. \E label \in WorkPcs \cup {"wait", "next", "error"} : Goto(p, label)
    BY DEF Work, ProcessFetch, Send, SendReturns, SendRejected, RecoverPending, Status,
           SpentCheck, HeightCheck, RecoverSubmitted, HandleSubmissionFailure, Reschedule,
           Confirm, Return, Leave, WorkPcs
  <1> QED BY <1>1, <1>8, <1>9

\* The relayer's initial states are initial states of what it promises.
LEMMA PromiseInit == Init => Promise!Init
  <1> SUFFICES ASSUME Init PROVE Promise!Init
    OBVIOUS
  <1> USE RelayerAssumption, StoreAssumption DEF Init
  <1>1. \A r \in Requests : Stored(r) <=> r \in Backlog
    BY DEF Stored, PendingRow, NoRow
  <1>2. {r \in Requests : Stored(r)} = Backlog
    BY <1>1
  <1>3. {n \in Nullifiers : spentBy[n] # NoTx} = {}
    OBVIOUS
  <1>4. Backlog \in {R \in SUBSET Requests : Promise!OnePerNote(R)}
    BY DEF Promise!OnePerNote
  <1>5. [r \in Requests |-> IF pc[r] \in Replies THEN pc[r] ELSE "none"]
          = [r \in Requests |-> IF r \in Backlog THEN "dropped" ELSE "none"]
    BY DEF Procs, Replies
  <1> QED BY <1>2, <1>3, <1>4, <1>5 DEF Promise!Init

\* A step of the relayer is a step of RelayPromise, or changes nothing of it.
LEMMA PromiseStep == Inv /\ [Next]_vars => [Promise!Next]_(Promise!vars)
  <1> SUFFICES ASSUME Inv, [Next]_vars PROVE [Promise!Next]_(Promise!vars)
    OBVIOUS
  <1> USE RelayerAssumption
  <1>0. pc \in [Procs -> Pcs] /\ Requests \subseteq Procs /\ Retry \in Procs
    BY DEF Inv, TypeOK, Procs
  <1>1. ASSUME NEW r \in Requests, Reserve(r) PROVE Promise!Accept(r)
    <2>1. /\ row' = [row EXCEPT ![r] = PendingRow] /\ pc' = [pc EXCEPT ![r] = "relayFetch"]
          /\ pc[r] = "idle" /\ ~Stored(r) /\ UNCHANGED spentBy
          /\ \A q \in Requests : Stored(q) => NullifierOf[q] # NullifierOf[r]
      BY <1>1 DEF Reserve, SetRow, Goto, Stored, chain
    <2>2. \A q \in Requests : Stored(q)' <=> Stored(q) \/ q = r
      BY <2>1 DEF Stored, PendingRow, NoRow, Inv, TypeOK
    <2>3. {q \in Requests : Stored(q)}' = {q \in Requests : Stored(q)} \cup {r}
      BY <2>2
    <2>4. UNCHANGED {n \in Nullifiers : spentBy[n] # NoTx}
      BY <2>1
    <2>5. [q \in Requests |-> IF pc[q] \in Replies THEN pc[q] ELSE "none"][r] = "none"
      BY <2>1 DEF Replies
    <2>6. UNCHANGED [q \in Requests |-> IF pc[q] \in Replies THEN pc[q] ELSE "none"]
      BY <1>0, <2>1 DEF Replies
    <2> QED BY <2>1, <2>3, <2>4, <2>5, <2>6 DEF Promise!Accept
  <1>2. ASSUME NEW r \in Requests, Handler(r), ~Reserve(r)
        PROVE  Promise!Answer(r) \/ UNCHANGED Promise!vars
    <2>1. row[r] \in Row /\ UNCHANGED spentBy
      BY <1>2 DEF Handler, RejectDuplicate, RelayFetch, RelayCheck, RelayProve, Respond,
                  HandlerPicks, Inv, TypeOK, chain
    <2>2. pc[r] \notin Replies /\ (pc[r] # "idle" => Stored(r))
      BY <1>2 DEF Handler, RejectDuplicate, RelayFetch, RelayCheck, RelayProve, Respond,
                  HandlerPicks, Inv, ReplyOK, Replies
    <2>3. \A q \in Requests : Stored(q)' <=> Stored(q)
      <3>1. \/ UNCHANGED row
            \/ (SetRow(r, MarkExpired(row[r])) \/ SetRow(r, MarkFailed(row[r], TRUE, TRUE)))
               /\ Stored(r)
        BY <1>2, <2>2 DEF Handler, RejectDuplicate, RelayFetch, RelayCheck, RelayProve,
                          Respond, HandlerPicks, Refuse, Abandon
      <3>2. MarkExpired(row[r]).status # "none" /\ MarkFailed(row[r], TRUE, TRUE).status # "none"
        BY <2>1, RowOperators, RowFailed
      <3> QED BY <3>1, <3>2 DEF Stored, SetRow, Inv, TypeOK
    <2>4. CASE \E label \in {"relayCheck", "relayProve", "wait", "fetch"} : Goto(r, label)
      <3>1. \A q \in Requests : pc'[q] = pc[q] \/ (pc[q] \notin Replies /\ pc'[q] \notin Replies)
        BY <1>0, <2>2, <2>4 DEF Goto, Replies
      <3> QED BY <2>1, <2>3, <3>1, InvisibleStep
    <2>5. CASE Goto(r, "rejected")
      BY <1>0, <2>1, <2>2, <2>3, <2>5, AnswerStep
    <2>6. CASE Goto(r, "error") /\ pc[r] # "idle"
      BY <1>0, <2>1, <2>2, <2>3, <2>6, AnswerStep
    <2>7. CASE Goto(r, "ok") /\ row[r].status = "confirmed" /\ pc[r] # "idle"
      <3>1. Spent(r)
        BY <2>7 DEF Inv, RowOK
      <3> QED BY <1>0, <2>1, <2>2, <2>3, <2>7, <3>1, AnswerStep
    <2> QED BY <1>2, <2>4, <2>5, <2>6, <2>7
            DEF Answer, Handler, RejectDuplicate, RelayFetch, RelayCheck, RelayProve, Respond,
                HandlerPicks, Refuse, Abandon
  <1>3. CASE RetryManager
    <2>1. UNCHANGED <<row, spentBy>> /\ \E label \in Pcs : Goto(Retry, label)
      BY <1>3 DEF RetryManager, Tick, RetryPicks, TickEnds, chain, Pcs, WorkPcs
    <2>2. \A r \in Requests : pc'[r] = pc[r]
      BY <1>0, <2>1 DEF Goto
    <2>3. \A r \in Requests : Stored(r)' <=> Stored(r)
      BY <2>1 DEF Stored
    <2> QED BY <2>1, <2>2, <2>3, InvisibleStep
  <1>4. ASSUME NEW p \in Procs, Work(p)
        PROVE  (p \in Requests /\ Promise!Answer(p)) \/ UNCHANGED Promise!vars
    <2>1. PICK label \in WorkPcs \cup {"wait", "next", "error"} : Goto(p, label)
      BY <1>4, WorkShape
    <2>2. pc[p] \in WorkPcs /\ pc[p] \notin Replies /\ UNCHANGED spentBy
      BY <1>4, WorkShape DEF WorkPcs, Replies
    <2>3. \A r \in Requests : Stored(r)' <=> Stored(r)
      BY <1>4, WorkShape
    <2>4. CASE p \in Requests /\ label = "error"
      <3>1. Stored(p)
        BY <2>2, <2>4 DEF Inv, WorkOK
      <3> QED BY <1>0, <2>1, <2>2, <2>3, <2>4, <3>1, AnswerStep
    <2>5. CASE ~(p \in Requests /\ label = "error")
      <3>1. \A r \in Requests : \/ pc'[r] = pc[r]
                                \/ pc[r] \notin Replies /\ pc'[r] \notin Replies
        BY <1>0, <2>1, <2>2, <2>5 DEF Goto, WorkPcs, Replies
      <3> QED BY <2>2, <2>3, <3>1, InvisibleStep
    <2> QED BY <2>4, <2>5
  <1>5. ASSUME NEW r \in Requests, TimePasses(r) \/ RootAgesOut(r)
        PROVE  UNCHANGED Promise!vars
    <2>1. UNCHANGED <<pc, spentBy>>
      BY <1>5 DEF TimePasses, RootAgesOut, procs, chain
    <2>2. \A q \in Requests : Stored(q)' <=> Stored(q)
      <3>1. CASE UNCHANGED row
        BY <3>1 DEF Stored
      <3>2. CASE TimePasses(r)
        <4>1. row'[r].status = row[r].status /\ \A q \in Requests \ {r} : row'[q] = row[q]
          BY <3>2 DEF TimePasses, SetRow, Inv, TypeOK, Row
        <4> QED BY <4>1 DEF Stored
      <3> QED BY <1>5, <3>1, <3>2 DEF RootAgesOut
    <2> QED BY <2>1, <2>2, InvisibleStep
  <1>6. ASSUME NEW n \in Nullifiers, NEW by \in TxIds \cup {External},
               spentBy[n] = NoTx, spentBy' = [spentBy EXCEPT ![n] = by], UNCHANGED <<row, procs>>
        PROVE  Promise!Spend(n)
    <2>1. by # NoTx /\ spentBy \in [Nullifiers -> TxIds \cup {NoTx, External}]
      BY StoreAssumption DEF NoTx, Inv, TypeOK
    <2>2. {m \in Nullifiers : spentBy[m] # NoTx}' = {m \in Nullifiers : spentBy[m] # NoTx} \cup {n}
      BY <1>6, <2>1
    <2>3. UNCHANGED {r \in Requests : Stored(r)}
      BY <1>6 DEF Stored
    <2>4. UNCHANGED [r \in Requests |-> IF pc[r] \in Replies THEN pc[r] ELSE "none"]
      BY <1>6 DEF procs
    <2> QED BY <1>6, <2>2, <2>3, <2>4 DEF Promise!Spend
  <1>7. ASSUME NEW t \in TxIds, Execute(t) \/ Expire(t)
        PROVE  Promise!Next \/ UNCHANGED Promise!vars
    <2>1. CASE UNCHANGED <<row, procs, spentBy>>
      BY <2>1, InvisibleStep DEF Stored, procs
    <2>2. CASE Execute(t) /\ ~UNCHANGED spentBy
      <3>1. tx[t] \in Tx
        BY <2>2 DEF Execute, Inv, TypeOK, Unsent
      <3>2. PICK n \in Nullifiers : spentBy[n] = NoTx /\ spentBy' = [spentBy EXCEPT ![n] = t]
        BY <2>2, <3>1 DEF Execute, Spent, Tx
      <3> QED BY <1>6, <2>2, <3>2 DEF Execute, Promise!Next
    <2> QED BY <1>7, <2>1, <2>2 DEF Execute, Expire
  <1>8. CASE \E n \in Nullifiers : SpendElsewhere(n)
    BY <1>6, <1>8 DEF SpendElsewhere, Promise!Next
  <1>9. CASE Crash
    <2>1. UNCHANGED <<row, spentBy>>
      BY <1>9 DEF Crash, chain
    <2>2. \A r \in Requests : /\ pc[r] \in Replies => pc'[r] = pc[r]
                              /\ pc[r] \notin Replies /\ Stored(r) => pc'[r] = "dropped"
                              /\ pc[r] \notin Replies /\ ~Stored(r) => pc'[r] = "idle"
      BY <1>0, <1>9 DEF Crash, Inv, ReplyOK, Replies
    <2>3. UNCHANGED {r \in Requests : Stored(r)} /\ UNCHANGED {n \in Nullifiers : spentBy[n] # NoTx}
      BY <2>1 DEF Stored
    <2> DEFINE accepted == {r \in Requests : Stored(r)}
               answer   == [r \in Requests |-> IF pc[r] \in Replies THEN pc[r] ELSE "none"]
    <2>4. answer' = [r \in Requests |-> IF r \in accepted /\ answer[r] = "none"
                                        THEN "dropped" ELSE answer[r]]
      <3>1. ASSUME NEW r \in Requests
            PROVE  answer'[r] = IF r \in accepted /\ answer[r] = "none"
                                THEN "dropped" ELSE answer[r]
        BY <2>2 DEF Replies
      <3> QED BY <3>1
    <2> QED BY <2>3, <2>4 DEF Promise!Drop, Promise!Next
  <1>10. CASE UNCHANGED vars
    BY <1>10, InvisibleStep DEF vars, procs, chain, Stored
  <1>11. CASE Environment
    BY <1>5, <1>7, <1>8, <1>9, <1>11 DEF Environment
  <1>12. CASE \E r \in Requests : Handler(r)
    BY <1>1, <1>2, <1>12 DEF Promise!Next
  <1>13. CASE \E p \in Procs : Work(p)
    BY <1>4, <1>13 DEF Promise!Next
  <1> QED BY <1>3, <1>10, <1>11, <1>12, <1>13 DEF Next

\* The relayer, whatever its handlers, retry manager, crashes and the cluster
\* do, keeps the promise of the abstract specification.
THEOREM PromiseKept == Spec => KeepsPromise
  BY InvAlways, PromiseInit, PromiseStep, PTL DEF Spec, KeepsPromise, Promise!Spec
=============================================================================
