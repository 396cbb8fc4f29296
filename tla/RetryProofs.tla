---------------------------- MODULE RetryProofs ----------------------------
(***************************************************************************)
(* How often a request is submitted, first by the retry manager at work    *)
(* alone: a relayer started on a database of pending rows while nobody     *)
(* posts a request (RetryAlone).                                           *)
(*                                                                         *)
(* A tick copies every due row at once and then works through the copies,  *)
(* so a copy may be old when its turn comes.  With no second process on    *)
(* the rows it is never wrong: RetryInv says that each copy still agrees   *)
(* with its row (CopiesOK, JobOK), and from that what the rows say of the  *)
(* transactions sent for them (LiveOK) and how many those are (CountOK).   *)
(* A crash between the sending of a transaction and the recording of its   *)
(* signature breaks the agreement for good, once for each crash, which is  *)
(* why LiveOK is about the time before the first one and CountOK counts    *)
(* them.                                                                   *)
(*                                                                         *)
(* Then by a handler and the retry manager on one row, where no copy can   *)
(* be trusted.  RaceInv counts what each of them may still submit with the *)
(* copy it has (Intends) and with the next copy it takes (May), beside     *)
(* what is sent already, against what the retries of the row pay for       *)
(* (Budget).                                                               *)
(***************************************************************************)
EXTENDS RelayerProofs, FiniteSetTheorems

\* Every request was in the database when the relayer started.
RetryAlone == Backlog = Requests

\* No handler is at work.
HandlersDown == \A r \in Requests : pc[r] = "dropped"

\* What a row says of itself.
RowFits(w) ==
    /\ w.status # "none"
    /\ w.status \in Open => w.retries <= MaxRetries
    /\ w.status = "pending" => w.sig = NoTx
    /\ w.status = "submitted" => w.sig # NoTx /\ w.lvh = w.sig
    /\ w.status = "confirmed" => w.sig # NoTx
RowsOK == \A r \in Requests : RowFits(row[r])

\* A copy says of its row what the row still says; its signature is compared
\* apart, because a process writes the one it has just made into its copy.
CopyOK(j) ==
    /\ j.rec.status \in Open
    /\ row[j.req].status = j.rec.status
    /\ row[j.req].retries = j.rec.retries
    /\ row[j.req].lvh = j.rec.lvh
SigOK(j) == row[j.req].sig = j.rec.sig

CopiesOK ==
    /\ \A j \in todo : CopyOK(j) /\ SigOK(j)
    /\ \A j, k \in todo : j.req = k.req => j = k

PendingPcs   == {"send", "sent", "recoverPending"}
SubmittedPcs == {"status", "spentCheck", "heightCheck", "recoverSubmitted"}

JobOK == pc[Retry] \in WorkPcs =>
    /\ CopyOK(job[Retry])
    /\ pc[Retry] # "sent" => SigOK(job[Retry])
    /\ pc[Retry] = "sent" => Rec(Retry).sig \in TxIds
    /\ pc[Retry] \in PendingPcs => Rec(Retry).status = "pending"
    /\ pc[Retry] \in SubmittedPcs => Rec(Retry).status = "submitted"
    /\ pc[Retry] = "recoverSubmitted" => tx[Rec(Retry).sig].state = "failed"
    /\ \A j \in todo : j.req # Req(Retry)

\* A transaction was handed out for r and its signature is in no row yet.
AtSent(r) == pc[Retry] = "sent" /\ Req(Retry) = r

\* Before the first crash, a transaction that can still land is the one its
\* row names, or the one whose signature is about to be recorded.
Live(t) == tx[t].state = "inflight" /\ tx[t].live
LiveOK == crashes = 0 => \A t \in TxIds : Live(t) =>
    \/ AtSent(tx[t].req) /\ t = Rec(Retry).sig
    \/ row[tx[t].req].status # "pending" /\ t = row[tx[t].req].sig

\* The transactions sent for r are paid for by the retries its row counts.
SentFor(r) == {t \in TxIds : tx[t] # Unsent /\ tx[t].req = r}
Allowance(w) ==
    IF w.status \in Terminal THEN MaxRetries + 1
    ELSE IF w.status = "pending" THEN w.retries ELSE w.retries + 1
Unrecorded(r) == IF AtSent(r) THEN 1 ELSE 0
CountOK == \A r \in Requests :
    /\ IsFiniteSet(SentFor(r))
    /\ Cardinality(SentFor(r)) <= Allowance(row[r]) + Unrecorded(r) + crashes

RetryInv == HandlersDown /\ RowsOK /\ CopiesOK /\ JobOK /\ LiveOK /\ CountOK

-----------------------------------------------------------------------------
(* What the steps below need of the state they start in.                   *)

\* Allowances and their unrecorded part are numbers.
LEMMA AllowanceIsNat ==
    ASSUME NEW w \in Row, NEW r
    PROVE  Allowance(w) \in Nat /\ Unrecorded(r) \in {0, 1}
  BY RelayerAssumption DEF Allowance, Unrecorded, Row

\* The retry manager goes on to its next await without touching its row.
LEMMA RetryAdvances ==
    ASSUME Inv, RetryInv, pc[Retry] \in WorkPcs, pc[Retry] # "sent",
           NEW label \in WorkPcs \ {"sent"}, Goto(Retry, label),
           label \in PendingPcs => Rec(Retry).status = "pending",
           label \in SubmittedPcs => Rec(Retry).status = "submitted",
           label = "recoverSubmitted" => tx[Rec(Retry).sig].state = "failed",
           UNCHANGED <<row, job, todo, tx, crashes>>
    PROVE  RetryInv'
  <1> USE RelayerAssumption DEF RetryInv
  <1>1. pc'[Retry] = label /\ \A r \in Requests : pc'[r] = pc[r]
    BY DEF Inv, TypeOK, Procs, Goto
  <1>2. HandlersDown'
    BY <1>1 DEF HandlersDown
  <1>3. RowsOK' /\ CopiesOK'
    BY DEF RowsOK, CopiesOK, CopyOK, SigOK
  <1>4. JobOK'
    BY <1>1 DEF JobOK, CopyOK, SigOK, Req, Rec
  <1>5. \A r : (AtSent(r)' <=> AtSent(r)) /\ ~AtSent(r)
    BY <1>1 DEF AtSent, Req
  <1>6. LiveOK'
    BY <1>5 DEF LiveOK, Live, Rec
  <1>7. CountOK'
    <2>1. \A r : SentFor(r)' = SentFor(r)
      BY DEF SentFor
    <2>2. \A r : Unrecorded(r)' = Unrecorded(r)
      BY <1>5 DEF Unrecorded
    <2> QED BY <2>1, <2>2 DEF CountOK, Allowance
  <1> QED BY <1>2, <1>3, <1>4, <1>6, <1>7

\* The retry manager writes its row and is done with it.
LEMMA RetryWrites ==
    ASSUME Inv, RetryInv, pc[Retry] \in WorkPcs,
           NEW w \in Row, RowFits(w), SetRow(Req(Retry), w),
           NEW label, Leave(Retry, label),
           crashes = 0 => \A t \in TxIds : Live(t) /\ tx[t].req = Req(Retry)
                             => w.status # "pending" /\ t = w.sig,
           Allowance(row[Req(Retry)]) + Unrecorded(Req(Retry)) <= Allowance(w),
           UNCHANGED <<todo, tx, crashes>>
    PROVE  RetryInv'
  <1> USE RelayerAssumption DEF RetryInv
  <1>1. Req(Retry) \in Requests
    BY WorkFacts DEF Procs
  <1>2. /\ row'[Req(Retry)] = w
        /\ \A r \in Requests : r # Req(Retry) => row'[r] = row[r]
    BY <1>1 DEF SetRow, Inv, TypeOK
  <1>3. pc'[Retry] = "next" /\ \A r \in Requests : pc'[r] = pc[r]
    BY DEF Inv, TypeOK, Procs, Goto, Leave
  <1>4. HandlersDown'
    BY <1>3 DEF HandlersDown
  <1>5. RowsOK'
    <2>1. \A r \in Requests : RowFits(row'[r])
      BY <1>2 DEF RowsOK
    <2> QED BY <2>1 DEF RowsOK, RowFits
  <1>6. CopiesOK'
    <2>1. \A j \in todo : row'[j.req] = row[j.req]
      BY <1>2 DEF JobOK, Inv, TypeOK, Job
    <2> QED BY <2>1 DEF CopiesOK, CopyOK, SigOK
  <1>7. JobOK'
    BY <1>3 DEF JobOK, WorkPcs
  <1>8. \A r : ~AtSent(r)'
    BY <1>3 DEF AtSent
  <1>9. LiveOK'
    <2> SUFFICES ASSUME crashes = 0, NEW t \in TxIds, Live(t)
                 PROVE  row'[tx[t].req].status # "pending" /\ t = row'[tx[t].req].sig
      BY DEF LiveOK, Live
    <2>1. tx[t].req \in Requests
      BY DEF Live, Unsent, Inv, TypeOK, Tx
    <2>2. CASE tx[t].req = Req(Retry)
      BY <1>2, <2>2
    <2>3. CASE tx[t].req # Req(Retry)
      <3>1. row[tx[t].req].status # "pending" /\ t = row[tx[t].req].sig
        BY <2>3 DEF LiveOK, AtSent
      <3> QED BY <1>2, <2>1, <2>3, <3>1
    <2> QED BY <2>2, <2>3
  <1>10. CountOK'
    <2>1. \A r : SentFor(r)' = SentFor(r)
      BY DEF SentFor
    <2>2. \A r : Unrecorded(r)' = 0
      BY <1>8 DEF Unrecorded
    <2>3. ASSUME NEW r \in Requests
          PROVE  /\ IsFiniteSet(SentFor(r))
                 /\ Cardinality(SentFor(r)) <= Allowance(row'[r]) + 0 + crashes
      <3>1. /\ IsFiniteSet(SentFor(r)) /\ Cardinality(SentFor(r)) \in Nat
            /\ Cardinality(SentFor(r)) <= Allowance(row[r]) + Unrecorded(r) + crashes
        BY FS_CardinalityType DEF CountOK
      <3>2. row[r] \in Row /\ crashes \in Nat
        BY DEF Inv, TypeOK
      <3>3. /\ Allowance(row[r]) \in Nat /\ Unrecorded(r) \in {0, 1}
            /\ Allowance(w) \in Nat
        BY <3>2, AllowanceIsNat
      <3>4. CASE r = Req(Retry)
        <4>1. row'[r] = w
          BY <1>2, <3>4
        <4>2. Allowance(row[r]) + Unrecorded(r) <= Allowance(w)
          BY <3>4
        <4> QED BY <3>1, <3>2, <3>3, <4>1, <4>2
      <3>5. CASE r # Req(Retry)
        <4>1. row'[r] = row[r]
          BY <1>2, <3>5
        <4>2. Unrecorded(r) = 0
          BY <3>5 DEF Unrecorded, AtSent
        <4> QED BY <3>1, <3>2, <3>3, <4>1, <4>2
      <3> QED BY <3>4, <3>5
    <2>4. \A r \in Requests : Allowance(row[r])' = Allowance(row'[r])
      BY DEF Allowance
    <2> QED BY <2>1, <2>2, <2>3, <2>4 DEF CountOK
  <1> QED BY <1>4, <1>5, <1>6, <1>7, <1>9, <1>10

-----------------------------------------------------------------------------
(* The updates processRecord makes, on a copy that agrees with its row.    *)

\* What the retry manager knows of the row it works on.
LEMMA RetryFacts ==
    ASSUME Inv, RetryInv, pc[Retry] \in WorkPcs
    PROVE  /\ row[Req(Retry)] \in Row /\ RowFits(row[Req(Retry)])
           /\ Rec(Retry) \in Row
           /\ row[Req(Retry)].status \in Open
           /\ row[Req(Retry)].status = Rec(Retry).status
           /\ row[Req(Retry)].retries = Rec(Retry).retries
           /\ row[Req(Retry)].lvh = Rec(Retry).lvh
           /\ pc[Retry] # "sent" => row[Req(Retry)].sig = Rec(Retry).sig
  BY WorkFacts DEF RetryInv, RowsOK, JobOK, CopyOK, SigOK, Procs, Req, Rec

\* Before the first crash: what can still land for the row at work.
LEMMA RetryLive ==
    ASSUME Inv, RetryInv, pc[Retry] \in WorkPcs, pc[Retry] # "sent", crashes = 0,
           NEW t \in TxIds, Live(t), tx[t].req = Req(Retry)
    PROVE  row[Req(Retry)].status = "submitted" /\ t = row[Req(Retry)].sig
  BY RetryFacts DEF RetryInv, LiveOK, AtSent, Open

\* rescheduleSubmitted of a row that is submitted changes when it is due.
LEMMA RetryReschedules ==
    ASSUME Inv, RetryInv, pc[Retry] \in WorkPcs, pc[Retry] # "sent",
           Rec(Retry).status = "submitted", Reschedule(Retry),
           UNCHANGED <<todo, tx, crashes>>
    PROVE  RetryInv'
  <1> DEFINE o == row[Req(Retry)]
             w == RescheduleSubmitted(o, FALSE)
  <1>1. o \in Row /\ RowFits(o) /\ o.status = "submitted"
    BY RetryFacts
  <1>2. w \in Row
    BY <1>1, RowRescheduled
  <1>3. /\ w.status = "submitted" /\ w.sig = o.sig /\ w.lvh = o.lvh
        /\ w.retries = o.retries
    BY <1>1 DEF RescheduleSubmitted, Row
  <1>4. RowFits(w)
    BY <1>1, <1>3 DEF RowFits
  <1>5. Allowance(w) = Allowance(o) /\ Unrecorded(Req(Retry)) = 0 /\ Allowance(o) \in Nat
    BY <1>1, <1>3, AllowanceIsNat DEF Allowance, Unrecorded, AtSent
  <1>6. SetRow(Req(Retry), w) /\ Leave(Retry, "wait")
    BY DEF Reschedule, Return
  <1>7. crashes = 0 => \A t \in TxIds : Live(t) /\ tx[t].req = Req(Retry)
                          => w.status # "pending" /\ t = w.sig
    BY <1>3, RetryLive
  <1> HIDE DEF w, o
  <1>8. Allowance(row[Req(Retry)]) + Unrecorded(Req(Retry)) <= Allowance(w)
    BY <1>5 DEF o
  <1> QED BY <1>2, <1>4, <1>6, <1>7, <1>8, RetryWrites

\* markConfirmed leaves a signature in the row: the one it is given or the one
\* a submitted row has.
LEMMA RetryConfirms ==
    ASSUME Inv, RetryInv, pc[Retry] \in WorkPcs, pc[Retry] # "sent",
           NEW t \in TxIds \cup {NoTx}, Confirm(Retry, t),
           t = NoTx => Rec(Retry).status = "submitted",
           Rec(Retry).status = "pending"
             \/ t = NoTx \/ tx[Rec(Retry).sig].state = "failed",
           UNCHANGED <<todo, tx, crashes>>
    PROVE  RetryInv'
  <1> DEFINE o == row[Req(Retry)]
             f == RecordFeeBreakdown(o)
             w == MarkConfirmed(f, t)
  <1>1. o \in Row /\ RowFits(o) /\ o.status = Rec(Retry).status /\ o.status \in Open
        /\ o.sig = Rec(Retry).sig
    BY RetryFacts
  <1>2. f \in Row /\ f.sig = o.sig
    BY <1>1, RowOperators
  <1> HIDE DEF f
  <1>3. w \in Row /\ w.status = "confirmed"
    BY <1>2, RowSigned
  <1>4. w.sig = IF t = NoTx THEN o.sig ELSE t
    BY <1>2 DEF MarkConfirmed, Row
  <1>5. RowFits(w)
    BY <1>1, <1>3, <1>4 DEF RowFits, Open
  <1>6. Allowance(o) + Unrecorded(Req(Retry)) <= Allowance(w)
    <2>1. Unrecorded(Req(Retry)) = 0 /\ Allowance(w) = MaxRetries + 1
      BY <1>3 DEF Allowance, Unrecorded, AtSent, Terminal
    <2>2. Allowance(o) \in Nat /\ Allowance(o) <= MaxRetries + 1
      BY <1>1, RelayerAssumption DEF Allowance, RowFits, Row
    <2> QED BY <2>1, <2>2, RelayerAssumption
  <1>7. SetRow(Req(Retry), w) /\ Leave(Retry, "wait")
    BY DEF Confirm, Return, f
  <1>8. ASSUME crashes = 0, NEW u \in TxIds, Live(u), tx[u].req = Req(Retry)
        PROVE  w.status # "pending" /\ u = w.sig
    <2>1. o.status = "submitted" /\ u = o.sig
      BY <1>8, RetryLive
    <2>2. t = NoTx
      BY <1>1, <1>8, <2>1 DEF Live
    <2> QED BY <1>3, <1>4, <2>1, <2>2
  <1> HIDE DEF w
  <1>9. Allowance(row[Req(Retry)]) + Unrecorded(Req(Retry)) <= Allowance(w)
    BY <1>6
  <1> QED BY <1>3, <1>5, <1>7, <1>8, <1>9, RetryWrites

\* markFailed: the row is given up, or it is reopened for another submission,
\* which only happens when nothing sent for it can land any more.
LEMMA RetryFails ==
    ASSUME Inv, RetryInv, pc[Retry] \in WorkPcs, pc[Retry] # "sent",
           NEW final \in BOOLEAN, NEW clear \in BOOLEAN,
           SetRow(Req(Retry), MarkFailed(row[Req(Retry)], final, clear)), Return(Retry),
           ~final => clear /\ Rec(Retry).retries < MaxRetries,
           clear \/ ~final => \/ Rec(Retry).status = "pending"
                              \/ ~Live(Rec(Retry).sig),
           UNCHANGED <<todo, tx, crashes>>
    PROVE  RetryInv'
  <1> DEFINE o == row[Req(Retry)]
             w == MarkFailed(o, final, clear)
  <1>1. o \in Row /\ RowFits(o) /\ o.status = Rec(Retry).status /\ o.status \in Open
        /\ o.sig = Rec(Retry).sig /\ o.retries = Rec(Retry).retries
    BY RetryFacts
  <1>2. w \in Row
    BY <1>1, RowFailed
  <1>3. /\ w.status = IF final THEN "failed" ELSE "pending"
        /\ w.sig = IF clear THEN NoTx ELSE o.sig
    BY <1>1 DEF MarkFailed, Row
  <1>4. w.retries = o.retries + 1
    BY <1>1 DEF MarkFailed, Row
  <1>5. o.retries \in Nat /\ MaxRetries \in Nat
    BY <1>1, RelayerAssumption DEF Row
  <1>6. RowFits(w)
    BY <1>1, <1>3, <1>4, <1>5 DEF RowFits, Open
  <1>7. Allowance(o) + Unrecorded(Req(Retry)) <= Allowance(w)
    <2>1. Unrecorded(Req(Retry)) = 0
      BY DEF Unrecorded, AtSent
    <2>2. Allowance(o) \in Nat /\ Allowance(o) <= o.retries + 1 /\ o.retries <= MaxRetries
      BY <1>1, <1>5 DEF Allowance, RowFits, Open, Terminal
    <2>3. CASE final
      <3>1. Allowance(w) = MaxRetries + 1
        BY <1>3, <2>3 DEF Allowance, Terminal
      <3> QED BY <1>5, <2>1, <2>2, <3>1
    <2>4. CASE ~final
      <3>1. Allowance(w) = o.retries + 1
        BY <1>3, <1>4, <2>4 DEF Allowance, Terminal
      <3> QED BY <1>5, <2>1, <2>2, <3>1
    <2> QED BY <2>3, <2>4
  <1>8. SetRow(Req(Retry), w) /\ Leave(Retry, "wait")
    BY DEF Return
  <1>9. ASSUME crashes = 0, NEW u \in TxIds, Live(u), tx[u].req = Req(Retry)
        PROVE  w.status # "pending" /\ u = w.sig
    <2>1. o.status = "submitted" /\ u = o.sig
      BY <1>9, RetryLive
    <2>2. ~(clear \/ ~final)
      BY <1>1, <1>9, <2>1
    <2> QED BY <1>3, <2>1, <2>2
  <1> HIDE DEF w
  <1>10. Allowance(row[Req(Retry)]) + Unrecorded(Req(Retry)) <= Allowance(w)
    BY <1>7
  <1> QED BY <1>2, <1>6, <1>8, <1>9, <1>10, RetryWrites

\* handleSubmissionFailure of a pending row, or of a submitted one whose
\* transaction has outlived its blockhash.
LEMMA RetryHandlesFailure ==
    ASSUME Inv, RetryInv, pc[Retry] \in WorkPcs, pc[Retry] # "sent",
           NEW retryable \in BOOLEAN, HandleSubmissionFailure(Retry, retryable),
           Rec(Retry).status = "pending" \/ ~Live(Rec(Retry).sig),
           UNCHANGED <<todo, tx, crashes>>
    PROVE  RetryInv'
  <1>1. PICK b \in BOOLEAN : b <=> (~retryable \/ Rec(Retry).retries >= MaxRetries)
    OBVIOUS
  <1>2. PICK c \in BOOLEAN : c <=> ~(b /\ Rec(Retry).status = "submitted")
    OBVIOUS
  <1>3. SetRow(Req(Retry), MarkFailed(row[Req(Retry)], b, c)) /\ Return(Retry)
    BY <1>1, <1>2 DEF HandleSubmissionFailure
  <1>4. ~b => Rec(Retry).retries < MaxRetries
    BY <1>1, RetryFacts, RelayerAssumption DEF Row
  <1> QED BY <1>2, <1>3, <1>4, RetryFails

\* markSubmitted and recordFeeBreakdown when submitRelayedWithdraw returns: the
\* signature moves from the copy to the row.
LEMMA RetrySendReturns ==
    ASSUME Inv, RetryInv, SendReturns(Retry)
    PROVE  RetryInv'
  <1> DEFINE o == row[Req(Retry)]
             t == Rec(Retry).sig
             m == MarkSubmitted(o, t)
             w == RecordFeeBreakdown(m)
  <1>1. pc[Retry] = "sent" /\ pc[Retry] \in WorkPcs
    BY DEF SendReturns, At, WorkPcs
  <1>2. o \in Row /\ RowFits(o) /\ o.status = "pending" /\ t \in TxIds
    BY <1>1, RetryFacts DEF RetryInv, JobOK, PendingPcs
  <1>3. /\ m \in Row /\ m.status = "submitted" /\ m.sig = t
        /\ m.lvh = t /\ m.retries = o.retries
    <2>1. m \in Row /\ m.status = "submitted" /\ m.sig = t
      BY <1>2, RowSigned
    <2>2. m.lvh = t /\ m.retries = o.retries
      BY <1>2 DEF MarkSubmitted, Row
    <2> QED BY <2>1, <2>2
  <1>4. SetRow(Req(Retry), w) /\ Leave(Retry, "wait") /\ UNCHANGED <<todo, tx, crashes>>
    BY DEF SendReturns, Return, chain
  <1> HIDE DEF m
  <1>5. /\ w \in Row /\ w.status = "submitted" /\ w.sig = t /\ w.lvh = t
        /\ w.retries = o.retries
    <2>1. w \in Row /\ w.status = "submitted" /\ w.sig = t
      BY <1>3, RowOperators
    <2>2. w.lvh = t /\ w.retries = o.retries
      BY <1>3 DEF RecordFeeBreakdown, Row
    <2> QED BY <2>1, <2>2
  <1> HIDE DEF w
  <1>6. RowFits(w)
    <2>1. t # NoTx
      BY <1>2, StoreAssumption DEF NoTx
    <2> QED BY <1>2, <1>5, <2>1 DEF RowFits, Open
  <1>7. Allowance(row[Req(Retry)]) + Unrecorded(Req(Retry)) <= Allowance(w)
    <2>1. Allowance(o) = o.retries /\ Allowance(w) = o.retries + 1 /\ o.retries \in Nat
      BY <1>2, <1>5 DEF Allowance, Terminal, Row
    <2>2. Unrecorded(Req(Retry)) = 1
      BY <1>1 DEF Unrecorded, AtSent
    <2> QED BY <2>1, <2>2
  <1>8. ASSUME crashes = 0, NEW u \in TxIds, Live(u), tx[u].req = Req(Retry)
        PROVE  w.status # "pending" /\ u = w.sig
    BY <1>2, <1>5, <1>8 DEF RetryInv, LiveOK
  <1> QED BY <1>1, <1>4, <1>5, <1>6, <1>7, <1>8, RetryWrites

\* sendRawTransaction for a pending row: nothing else sent for it is live, and
\* the row's retries pay for the new transaction.
LEMMA RetrySends ==
    ASSUME Inv, RetryInv, Send(Retry)
    PROVE  RetryInv'
  <1> USE RelayerAssumption DEF RetryInv
  <1>1. pc[Retry] = "send" /\ pc[Retry] \in WorkPcs
    BY DEF Send, At, WorkPcs
  <1> PICK r \in Requests : r = Req(Retry)
    BY <1>1, WorkFacts DEF Procs
  <1>2. job[Retry] \in Job /\ r \in Requests /\ job[Retry].rec \in Row /\ Retry \in Procs
    BY <1>1, WorkFacts DEF Procs, Rec
  <1>3. PICK t \in TxIds, s \in {"inflight", "lost"} :
           /\ tx[t] = Unsent
           /\ tx' = [tx EXCEPT ![t] = [req |-> r, state |-> s, live |-> TRUE]]
           /\ job' = [job EXCEPT ![Retry].rec.sig = t]
    BY DEF Signed, Send
  <1>4. Goto(Retry, "sent") /\ UNCHANGED <<row, todo, crashes>>
    BY DEF Send
  <1>5. pc'[Retry] = "sent" /\ \A q \in Requests : pc'[q] = pc[q]
    BY <1>2, <1>4 DEF Inv, TypeOK, Procs, Goto
  <1>6. job'[Retry] = [job[Retry] EXCEPT !.rec.sig = t]
    BY <1>2, <1>3 DEF Inv, TypeOK
  <1>7. /\ job'[Retry].req = r /\ job'[Retry].rec.sig = t
        /\ job'[Retry].rec.status = job[Retry].rec.status
        /\ job'[Retry].rec.retries = job[Retry].rec.retries
        /\ job'[Retry].rec.lvh = job[Retry].rec.lvh
    BY <1>2, <1>6 DEF Job, Row, Req
  <1>8. /\ tx'[t] = [req |-> r, state |-> s, live |-> TRUE]
        /\ \A u \in TxIds : u # t => tx'[u] = tx[u]
    BY <1>3 DEF Inv, TypeOK
  <1>9. HandlersDown' /\ RowsOK' /\ CopiesOK'
    BY <1>4, <1>5 DEF HandlersDown, RowsOK, CopiesOK, CopyOK, SigOK
  <1>10. row[r].status = "pending"
    BY <1>1, RetryFacts DEF JobOK, PendingPcs
  <1>11. JobOK'
    <2>1. CopyOK(job[Retry]) /\ job[Retry].rec.status = "pending"
          /\ \A j \in todo : j.req # r
      BY <1>1 DEF JobOK, PendingPcs, Rec
    <2>2. CopyOK(job[Retry])'
      BY <1>4, <1>7, <2>1 DEF CopyOK, Req
    <2>3. Rec(Retry)'.sig = t /\ Rec(Retry)'.status = "pending" /\ Req(Retry)' = r
      BY <1>7, <2>1 DEF Rec, Req
    <2> QED BY <1>4, <1>5, <2>1, <2>2, <2>3 DEF JobOK, PendingPcs, SubmittedPcs
  <1>12. \A q : AtSent(q)' <=> q = r
    BY <1>5, <1>7 DEF AtSent, Req
  <1>13. LiveOK'
    <2> SUFFICES ASSUME crashes = 0, NEW u \in TxIds, Live(u)'
                 PROVE  \/ tx'[u].req = r /\ u = t
                        \/ row[tx'[u].req].status # "pending" /\ u = row[tx'[u].req].sig
      BY <1>4, <1>7, <1>12 DEF LiveOK, Live, Rec
    <2>1. CASE u = t
      BY <1>8, <2>1
    <2>2. CASE u # t
      <3>1. tx'[u] = tx[u] /\ Live(u)
        BY <1>8, <2>2 DEF Live
      <3> QED BY <1>1, <3>1 DEF LiveOK, AtSent
    <2> QED BY <2>1, <2>2
  <1>14. CountOK'
    <2>1. tx'[t] # Unsent /\ tx'[t].req = r
      BY <1>8 DEF Unsent
    <2>2. \A q : q = r => SentFor(q)' = SentFor(q) \cup {t} /\ t \notin SentFor(q)
      BY <1>3, <1>8, <2>1 DEF SentFor
    <2>3. \A q : q # r => SentFor(q)' = SentFor(q)
      BY <1>3, <1>8, <2>1 DEF SentFor
    <2>4. ASSUME NEW q \in Requests
          PROVE  /\ IsFiniteSet(SentFor(q)')
                 /\ Cardinality(SentFor(q)') <= Allowance(row[q]) + (Unrecorded(q)') + crashes
      <3>1. /\ IsFiniteSet(SentFor(q)) /\ Cardinality(SentFor(q)) \in Nat
            /\ Cardinality(SentFor(q)) <= Allowance(row[q]) + Unrecorded(q) + crashes
        BY FS_CardinalityType DEF CountOK
      <3>2. crashes \in Nat /\ row[q] \in Row
        BY DEF Inv, TypeOK
      <3>3. Allowance(row[q]) \in Nat /\ Unrecorded(q) = 0
        <4>1. Unrecorded(q) = 0
          BY <1>1 DEF Unrecorded, AtSent
        <4> QED BY <3>2, <4>1, AllowanceIsNat
      <3>4. CASE q = r
        <4>1. Unrecorded(q)' = 1
          BY <1>12, <3>4 DEF Unrecorded
        <4>2. SentFor(q)' = SentFor(q) \cup {t} /\ t \notin SentFor(q)
          BY <2>2, <3>4
        <4>3. IsFiniteSet(SentFor(q) \cup {t})
              /\ Cardinality(SentFor(q) \cup {t}) = Cardinality(SentFor(q)) + 1
          BY <3>1, <4>2, FS_AddElement
        <4> QED BY <3>1, <3>2, <3>3, <4>1, <4>2, <4>3
      <3>5. CASE q # r
        <4>1. Unrecorded(q)' = 0 /\ SentFor(q)' = SentFor(q)
          BY <1>12, <2>3, <3>5 DEF Unrecorded
        <4> QED BY <3>1, <3>2, <3>3, <4>1
      <3> QED BY <3>4, <3>5
    <2> QED BY <1>4, <2>4 DEF CountOK, Allowance
  <1> QED BY <1>9, <1>11, <1>13, <1>14

\* One pass of processRecord over a copy of the retry manager.
LEMMA RetryWorks ==
    ASSUME Inv, RetryInv, Work(Retry)
    PROVE  RetryInv'
  <1> USE DEF At
  <1>1. pc[Retry] \in WorkPcs /\ Retry \in Procs
    BY DEF Work, ProcessFetch, Send, SendReturns, SendRejected, RecoverPending, Status,
           SpentCheck, HeightCheck, RecoverSubmitted, WorkPcs, Procs
  <1>2. /\ row[Req(Retry)] \in Row /\ RowFits(row[Req(Retry)])
        /\ row[Req(Retry)].status = Rec(Retry).status
        /\ row[Req(Retry)].lvh = Rec(Retry).lvh
        /\ Rec(Retry).status \in Open
        /\ pc[Retry] # "sent" => row[Req(Retry)].sig = Rec(Retry).sig
    BY <1>1, RetryFacts
  <1>3. /\ pc[Retry] \in PendingPcs => Rec(Retry).status = "pending"
        /\ pc[Retry] \in SubmittedPcs => Rec(Retry).status = "submitted"
        /\ pc[Retry] = "recoverSubmitted" => tx[Rec(Retry).sig].state = "failed"
    BY <1>1 DEF RetryInv, JobOK
  <1>4. SpendSignature(Req(Retry)) \in TxIds \cup {NoTx}
    BY <1>1, SpendSignatureIsOwn
  <1>5. CASE ProcessFetch(Retry)
    <2>1. pc[Retry] # "sent" /\ UNCHANGED <<todo, tx, crashes>>
      BY <1>5 DEF ProcessFetch, chain
    <2>2. CASE Rec(Retry).status = "submitted"
      <3>1. Rec(Retry).sig # NoTx
        BY <1>2, <2>1, <2>2 DEF RowFits
      <3>2. \/ Goto(Retry, "status") /\ UNCHANGED <<row, job>>
            \/ Reschedule(Retry)
        BY <1>5, <2>2, <3>1 DEF ProcessFetch
      <3> QED BY <1>1, <2>1, <2>2, <3>2, RetryAdvances, RetryReschedules
              DEF WorkPcs, PendingPcs
    <2>3. CASE Rec(Retry).status = "pending"
      <3>1. \/ Leave(Retry, "error") /\ UNCHANGED row
            \/ Goto(Retry, "send") /\ UNCHANGED <<row, job>>
            \/ \E retryable \in BOOLEAN : HandleSubmissionFailure(Retry, retryable)
        BY <1>5, <2>3 DEF ProcessFetch
      <3>2. CASE Leave(Retry, "error") /\ UNCHANGED row
        <4>1. SetRow(Req(Retry), row[Req(Retry)])
          BY <1>1, <3>2, WorkFacts DEF SetRow, Inv, TypeOK
        <4>2. Allowance(row[Req(Retry)]) + Unrecorded(Req(Retry)) <= Allowance(row[Req(Retry)])
          <5>1. Unrecorded(Req(Retry)) = 0 /\ Allowance(row[Req(Retry)]) \in Nat
            BY <1>2, <2>1, AllowanceIsNat DEF Unrecorded, AtSent
          <5> QED BY <5>1
        <4>3. crashes = 0 => \A t \in TxIds : Live(t) /\ tx[t].req = Req(Retry)
                  => row[Req(Retry)].status # "pending" /\ t = row[Req(Retry)].sig
          BY <1>1, <2>1, RetryLive
        <4> QED BY <1>1, <1>2, <2>1, <3>2, <4>1, <4>2, <4>3, RetryWrites
      <3>3. CASE Goto(Retry, "send") /\ UNCHANGED <<row, job>>
        BY <1>1, <2>1, <2>3, <3>3, RetryAdvances DEF WorkPcs, SubmittedPcs
      <3>4. CASE \E retryable \in BOOLEAN : HandleSubmissionFailure(Retry, retryable)
        BY <1>1, <2>1, <2>3, <3>4, RetryHandlesFailure
      <3> QED BY <3>1, <3>2, <3>3, <3>4
    <2> QED BY <1>2, <2>2, <2>3 DEF Open
  <1>6. CASE SendRejected(Retry)
    <2>1. pc[Retry] # "sent" /\ UNCHANGED <<todo, tx, crashes>> /\ Rec(Retry).status = "pending"
      BY <1>3, <1>6 DEF SendRejected, chain, PendingPcs
    <2>2. \/ Goto(Retry, "recoverPending") /\ UNCHANGED <<row, job>>
          \/ HandleSubmissionFailure(Retry, TRUE)
      BY <1>6 DEF SendRejected
    <2> QED BY <1>1, <2>1, <2>2, RetryAdvances, RetryHandlesFailure
            DEF WorkPcs, SubmittedPcs
  <1>7. CASE RecoverPending(Retry)
    <2>1. pc[Retry] # "sent" /\ UNCHANGED <<todo, tx, crashes>> /\ Rec(Retry).status = "pending"
      BY <1>3, <1>7 DEF RecoverPending, chain, PendingPcs
    <2>2. \/ Confirm(Retry, SpendSignature(Req(Retry))) /\ SpendSignature(Req(Retry)) # NoTx
          \/ \E retryable \in BOOLEAN : HandleSubmissionFailure(Retry, retryable)
      BY <1>7 DEF SpentIsRetryable, RecoverPending
    <2> QED BY <1>1, <1>4, <2>1, <2>2, RetryConfirms, RetryHandlesFailure
  <1>8. CASE Status(Retry)
    <2>1. pc[Retry] # "sent" /\ UNCHANGED <<todo, tx, crashes>> /\ Rec(Retry).status = "submitted"
      BY <1>3, <1>8 DEF Status, chain, SubmittedPcs
    <2>2. \/ Goto(Retry, "recoverSubmitted") /\ UNCHANGED <<row, job>>
             /\ tx[Rec(Retry).sig].state = "failed"
          \/ Goto(Retry, "spentCheck") /\ UNCHANGED <<row, job>>
          \/ Confirm(Retry, NoTx)
          \/ Reschedule(Retry)
      BY <1>8 DEF Status
    <2> QED BY <1>1, <2>1, <2>2, RetryAdvances, RetryConfirms, RetryReschedules
            DEF WorkPcs, PendingPcs
  <1>9. CASE SpentCheck(Retry)
    <2>1. pc[Retry] # "sent" /\ UNCHANGED <<todo, tx, crashes>> /\ Rec(Retry).status = "submitted"
      BY <1>3, <1>9 DEF SpentCheck, chain, SubmittedPcs
    <2>2. \/ Goto(Retry, "heightCheck") /\ UNCHANGED <<row, job>>
          \/ Confirm(Retry, NoTx)
          \/ Reschedule(Retry)
      BY <1>9 DEF SpentCheck
    <2> QED BY <1>1, <2>1, <2>2, RetryAdvances, RetryConfirms, RetryReschedules
            DEF WorkPcs, PendingPcs
  <1>10. CASE HeightCheck(Retry)
    <2>1. pc[Retry] # "sent" /\ UNCHANGED <<todo, tx, crashes>> /\ Rec(Retry).status = "submitted"
      BY <1>3, <1>10 DEF HeightCheck, chain, SubmittedPcs
    <2>2. \/ HandleSubmissionFailure(Retry, TRUE) /\ ~tx[Rec(Retry).lvh].live
          \/ Reschedule(Retry)
      BY <1>10 DEF HeightCheck
    <2>3. Rec(Retry).lvh = Rec(Retry).sig
      BY <1>2, <2>1 DEF RowFits
    <2> QED BY <1>1, <2>1, <2>2, <2>3, RetryReschedules, RetryHandlesFailure DEF Live
  <1>11. CASE RecoverSubmitted(Retry)
    <2>1. /\ pc[Retry] # "sent" /\ UNCHANGED <<todo, tx, crashes>>
          /\ Rec(Retry).status = "submitted" /\ tx[Rec(Retry).sig].state = "failed"
      BY <1>3, <1>11 DEF RecoverSubmitted, chain, SubmittedPcs
    <2>2. \/ Confirm(Retry, SpendSignature(Req(Retry)))
          \/ SetRow(Req(Retry), MarkFailed(row[Req(Retry)], TRUE, FALSE)) /\ Return(Retry)
      BY <1>11 DEF RecoverSubmitted
    <2> QED BY <1>1, <1>4, <2>1, <2>2, RetryConfirms, RetryFails
  <1> QED BY <1>5, <1>6, <1>7, <1>8, <1>9, <1>10, <1>11, RetrySends, RetrySendReturns DEF Work

-----------------------------------------------------------------------------
(* The steps around processRecord.                                         *)

\* The retry manager's own steps: tick() copies each due row once.
LEMMA RetryTicks ==
    ASSUME Inv, RetryInv, RetryManager
    PROVE  RetryInv'
  <1> USE RelayerAssumption DEF RetryInv
  <1>1. UNCHANGED <<row, tx, crashes>> /\ pc[Retry] \in {"idle", "next"}
    BY DEF RetryManager, Tick, RetryPicks, TickEnds, chain
  <1>2. PICK label \in {"idle", "next", "fetch"} : Goto(Retry, label)
    BY DEF RetryManager, Tick, RetryPicks, TickEnds
  <1>3. pc'[Retry] = label /\ \A r \in Requests : pc'[r] = pc[r]
    BY <1>2 DEF Inv, TypeOK, Procs, Goto
  <1>4. HandlersDown' /\ RowsOK'
    BY <1>1, <1>3 DEF HandlersDown, RowsOK
  <1>5. CopiesOK'
    <2>1. CASE Tick
      <3>1. \A j \in todo' : j.req \in Requests /\ j = [req |-> j.req, rec |-> row[j.req]]
                             /\ row[j.req].status \in Open
        BY <2>1 DEF Tick, Processable
      <3>2. \A j \in todo' : j.rec = row[j.req]
        BY <3>1
      <3>3. \A j \in todo' : CopyOK(j) /\ SigOK(j)
        BY <3>1, <3>2 DEF CopyOK, SigOK
      <3>4. \A j, k \in todo' : j.req = k.req => j = k
        BY <3>1
      <3> QED BY <1>1, <3>3, <3>4 DEF CopiesOK, CopyOK, SigOK
    <2>2. CASE RetryPicks \/ TickEnds
      <3>1. todo' \subseteq todo
        BY <2>2 DEF RetryPicks, TickEnds
      <3> QED BY <1>1, <3>1 DEF CopiesOK, CopyOK, SigOK
    <2> QED BY <2>1, <2>2 DEF RetryManager
  <1>6. JobOK'
    <2>1. CASE Tick \/ TickEnds
      <3>1. pc'[Retry] \in {"idle", "next"}
        BY <1>3, <2>1 DEF Tick, TickEnds, Goto, Inv, TypeOK, Procs
      <3> QED BY <3>1 DEF JobOK, WorkPcs
    <2>2. CASE RetryPicks
      <3>1. pc'[Retry] = "fetch"
        BY <2>2 DEF RetryPicks, Goto, Inv, TypeOK, Procs
      <3>2. PICK j \in todo : job' = [job EXCEPT ![Retry] = j] /\ todo' = todo \ {j}
        BY <2>2 DEF RetryPicks
      <3>3. job'[Retry] = j
        BY <3>2 DEF Inv, TypeOK, Procs
      <3>4. CopyOK(j) /\ SigOK(j) /\ \A k \in todo' : k.req # j.req
        BY <3>2 DEF CopiesOK
      <3>5. CopyOK(job[Retry])' /\ SigOK(job[Retry])'
        BY <1>1, <3>3, <3>4 DEF CopyOK, SigOK
      <3> QED BY <3>1, <3>3, <3>4, <3>5 DEF JobOK, PendingPcs, SubmittedPcs, Req
    <2> QED BY <2>1, <2>2 DEF RetryManager
  <1>7. \A r : ~AtSent(r) /\ ~AtSent(r)'
    BY <1>1, <1>3 DEF AtSent
  <1>8. LiveOK'
    BY <1>1, <1>7 DEF LiveOK, Live
  <1>9. CountOK'
    BY <1>1, <1>7 DEF CountOK, SentFor, Allowance, Unrecorded
  <1> QED BY <1>4, <1>5, <1>6, <1>8, <1>9

\* Time passes for a row: only its due flag changes.
LEMMA RetryTime ==
    ASSUME Inv, RetryInv, NEW r \in Requests, TimePasses(r)
    PROVE  RetryInv'
  <1> USE RelayerAssumption DEF RetryInv
  <1>1. UNCHANGED <<pc, job, todo, tx, crashes>>
    BY DEF TimePasses, procs, chain
  <1>2. \A q \in Requests : /\ row'[q].status = row[q].status /\ row'[q].sig = row[q].sig
                            /\ row'[q].lvh = row[q].lvh /\ row'[q].retries = row[q].retries
    BY DEF TimePasses, SetRow, Inv, TypeOK, Row
  <1>3. HandlersDown' /\ RowsOK'
    BY <1>1, <1>2 DEF HandlersDown, RowsOK, RowFits
  <1>4. \A j \in Job : (CopyOK(j)' <=> CopyOK(j)) /\ (SigOK(j)' <=> SigOK(j))
    BY <1>2 DEF CopyOK, SigOK, Job
  <1>5. CopiesOK'
    <2>1. \A j \in todo : j \in Job
      BY DEF Inv, TypeOK
    <2> QED BY <1>1, <1>4, <2>1 DEF CopiesOK
  <1>6. JobOK'
    <2> SUFFICES ASSUME pc[Retry] \in WorkPcs PROVE JobOK'
      BY <1>1 DEF JobOK
    <2>1. job[Retry] \in Job
      BY WorkFacts DEF Procs
    <2>2. (CopyOK(job[Retry])' <=> CopyOK(job[Retry]))
          /\ (SigOK(job[Retry])' <=> SigOK(job[Retry]))
      BY <1>1, <1>4, <2>1 DEF CopyOK, SigOK
    <2> QED BY <1>1, <2>2 DEF JobOK, Req, Rec
  <1>7. \A q : AtSent(q)' <=> AtSent(q)
    BY <1>1 DEF AtSent, Req
  <1>8. \A t \in TxIds : Live(t) => tx[t].req \in Requests
    BY DEF Live, Unsent, Inv, TypeOK, Tx
  <1>9. LiveOK'
    BY <1>1, <1>2, <1>7, <1>8 DEF LiveOK, Live, Rec
  <1>10. CountOK'
    <2>1. \A q \in Requests : Allowance(row[q])' = Allowance(row[q])
      BY <1>2 DEF Allowance
    <2>2. \A q : Unrecorded(q)' = Unrecorded(q) /\ SentFor(q)' = SentFor(q)
      BY <1>1, <1>7 DEF Unrecorded, SentFor
    <2> QED BY <1>1, <2>1, <2>2 DEF CountOK
  <1> QED BY <1>3, <1>5, <1>6, <1>9, <1>10

\* The cluster executes or forgets transactions: none is added, none comes back
\* to life, a failed one stays failed.
LEMMA RetryChain ==
    ASSUME Inv, RetryInv,
           UNCHANGED <<row, pc, job, todo, crashes>>,
           \A t \in TxIds : /\ tx'[t] # Unsent <=> tx[t] # Unsent
                            /\ tx[t] # Unsent => tx'[t].req = tx[t].req
                            /\ tx[t].state = "failed" => tx'[t].state = "failed"
                            /\ Live(t)' => Live(t)
    PROVE  RetryInv'
  <1> USE DEF RetryInv
  <1>1. HandlersDown' /\ RowsOK' /\ CopiesOK'
    BY DEF HandlersDown, RowsOK, CopiesOK, CopyOK, SigOK
  <1>2. \A r : AtSent(r)' <=> AtSent(r)
    BY DEF AtSent, Req
  <1>3. JobOK'
    <2>1. pc[Retry] \in WorkPcs => Rec(Retry).sig \in TxIds \cup {NoTx} /\ RowFits(row[Req(Retry)])
      BY RetryFacts DEF Row
    <2>2. pc[Retry] = "recoverSubmitted" => Rec(Retry).sig \in TxIds
      BY <2>1 DEF JobOK, SubmittedPcs, CopyOK, SigOK, RowFits, Req, Rec, WorkPcs
    <2> QED BY <2>2 DEF JobOK, CopyOK, SigOK, Req, Rec
  <1>4. LiveOK'
    <2>1. \A t \in TxIds : Live(t) => tx'[t].req = tx[t].req
      BY DEF Live, Unsent
    <2> QED BY <1>2, <2>1 DEF LiveOK, Rec
  <1>5. CountOK'
    <2>1. \A r : SentFor(r)' = SentFor(r) /\ Unrecorded(r)' = Unrecorded(r)
      BY <1>2 DEF SentFor, Unrecorded
    <2> QED BY <2>1 DEF CountOK, Allowance
  <1> QED BY <1>1, <1>3, <1>4, <1>5

\* A crash costs at most the signature of the transaction just sent.
LEMMA RetryCrash ==
    ASSUME Inv, RetryInv, Crash
    PROVE  RetryInv'
  <1> USE RelayerAssumption DEF RetryInv
  <1>1. UNCHANGED <<row, tx>> /\ todo' = {} /\ crashes' = crashes + 1 /\ crashes \in Nat
    BY DEF Crash, chain, Inv, TypeOK
  <1>2. pc'[Retry] = "idle" /\ \A r \in Requests : pc[r] = "dropped" => pc'[r] = "dropped"
    BY DEF Crash, Procs, Replies
  <1>3. HandlersDown' /\ RowsOK' /\ CopiesOK' /\ JobOK' /\ LiveOK'
    BY <1>1, <1>2 DEF HandlersDown, RowsOK, CopiesOK, JobOK, LiveOK, WorkPcs
  <1>4. CountOK'
    <2>1. \A r : SentFor(r)' = SentFor(r) /\ Unrecorded(r)' = 0
      BY <1>1, <1>2 DEF SentFor, Unrecorded, AtSent
    <2>2. ASSUME NEW r \in Requests
          PROVE  /\ IsFiniteSet(SentFor(r))
                 /\ Cardinality(SentFor(r)) <= Allowance(row[r]) + 0 + (crashes + 1)
      <3>1. /\ IsFiniteSet(SentFor(r)) /\ Cardinality(SentFor(r)) \in Nat
            /\ Cardinality(SentFor(r)) <= Allowance(row[r]) + Unrecorded(r) + crashes
        BY FS_CardinalityType DEF CountOK
      <3>2. row[r] \in Row
        BY DEF Inv, TypeOK
      <3>3. Allowance(row[r]) \in Nat /\ Unrecorded(r) \in {0, 1}
        BY <3>2, AllowanceIsNat
      <3> QED BY <1>1, <3>1, <3>3
    <2> QED BY <1>1, <2>1, <2>2 DEF CountOK, Allowance
  <1> QED BY <1>3, <1>4

\* The relayer starts with nothing sent.
LEMMA RetryInit == ASSUME RetryAlone, Init PROVE RetryInv
  <1> USE RelayerAssumption DEF Init
  <1>1. \A r \in Requests : pc[r] = "dropped" /\ row[r] = PendingRow
    BY DEF RetryAlone, Procs
  <1>2. pc[Retry] = "idle"
    BY DEF RetryAlone, Procs
  <1>3. /\ PendingRow.status = "pending" /\ PendingRow.retries = 0
        /\ PendingRow.sig = NoTx
    BY DEF PendingRow, NoRow
  <1>4. HandlersDown /\ RowsOK
    <2>1. RowFits(PendingRow)
      BY <1>3 DEF RowFits
    <2> HIDE RelayerAssumption DEF Init
    <2> QED BY <1>1, <2>1 DEF HandlersDown, RowsOK
  <1>5. CopiesOK /\ JobOK /\ LiveOK
    BY <1>2 DEF CopiesOK, JobOK, LiveOK, WorkPcs, Live, Unsent
  <1>6. CountOK
    <2>1. \A r : SentFor(r) = {} /\ Unrecorded(r) = 0
      BY <1>2 DEF SentFor, Unrecorded, AtSent
    <2>2. IsFiniteSet({}) /\ Cardinality({}) = 0
      BY FS_EmptySet
    <2>3. \A r \in Requests : Allowance(row[r]) = 0
      BY <1>1, <1>3 DEF Allowance, Terminal
    <2>4. crashes = 0
      OBVIOUS
    <2>5. \A r \in Requests : /\ IsFiniteSet(SentFor(r)) /\ Cardinality(SentFor(r)) = 0
                              /\ Allowance(row[r]) + Unrecorded(r) + crashes = 0
      <3> HIDE RelayerAssumption DEF Init
      <3> QED BY <2>1, <2>2, <2>3, <2>4
    <2> QED BY <2>5 DEF CountOK
  <1> QED BY <1>4, <1>5, <1>6 DEF RetryInv

\* No handler has a step left.
LEMMA HandlersRest ==
    ASSUME RetryInv, NEW r \in Requests
    PROVE  ~Handler(r) /\ ~Work(r)
  BY DEF RetryInv, HandlersDown, Handler, Reserve, RejectDuplicate, RelayFetch, RelayCheck,
         RelayProve, Respond, HandlerPicks, Work, ProcessFetch, Send, SendReturns,
         SendRejected, RecoverPending, Status, SpentCheck, HeightCheck, RecoverSubmitted, At

\* Every step preserves RetryInv.
LEMMA RetryNext == ASSUME Inv, RetryInv, [Next]_vars PROVE RetryInv'
  <1>1. CASE \E r \in Requests : Handler(r)
    BY <1>1, HandlersRest
  <1>2. CASE RetryManager
    BY <1>2, RetryTicks
  <1>3. CASE \E p \in Procs : Work(p)
    BY <1>3, HandlersRest, RetryWorks DEF Procs
  <1>4. CASE \E r \in Requests : TimePasses(r)
    BY <1>4, RetryTime
  <1>5. CASE UNCHANGED <<row, pc, job, todo, crashes, tx>>
    <2>1. \A t \in TxIds : Live(t)' => Live(t)
      BY <1>5 DEF Live
    <2> QED BY <1>5, <2>1, RetryChain
  <1>6. CASE \E t \in TxIds : Execute(t) \/ Expire(t)
    <2>1. PICK t \in TxIds : Execute(t) \/ Expire(t)
      BY <1>6
    <2>2. UNCHANGED <<row, pc, job, todo, crashes>>
      BY <2>1 DEF Execute, Expire, procs
    <2>3. tx[t] \in Tx /\ tx \in [TxIds -> Tx \cup {Unsent}]
      BY <2>1 DEF Execute, Expire, Inv, TypeOK, Unsent
    <2>4. /\ \A u \in TxIds : u # t => tx'[u] = tx[u]
          /\ \/ tx'[t] = [tx[t] EXCEPT !.live = FALSE]
             \/ /\ tx[t].state = "inflight"
                /\ \E s \in {"landed", "failed"} : tx'[t] = [tx[t] EXCEPT !.state = s]
      BY <2>1, <2>3 DEF Execute, Expire
    <2>5. tx'[t] \in Tx /\ tx'[t].req = tx[t].req
      BY <2>3, <2>4 DEF Tx
    <2>6. /\ tx[t].state = "failed" => tx'[t].state = "failed"
          /\ ~(tx'[t].state = "inflight" /\ tx'[t].live)
      BY <2>3, <2>4 DEF Tx
    <2>7. \A u \in TxIds : /\ tx'[u] # Unsent <=> tx[u] # Unsent
                           /\ tx[u] # Unsent => tx'[u].req = tx[u].req
                           /\ tx[u].state = "failed" => tx'[u].state = "failed"
                           /\ Live(u)' => Live(u)
      <3>1. tx[t] # Unsent /\ tx'[t] # Unsent
        <4>1. \A x \in Tx : x # Unsent
          BY DEF Tx, Unsent
        <4> QED BY <2>3, <2>5, <4>1
      <3> QED BY <2>4, <2>5, <2>6, <3>1 DEF Live
    <2> QED BY <2>2, <2>7, RetryChain
  <1>7. CASE (\E r \in Requests : RootAgesOut(r)) \/ \E n \in Nullifiers : SpendElsewhere(n)
    BY <1>5, <1>7 DEF RootAgesOut, SpendElsewhere, procs
  <1>8. CASE Crash
    BY <1>8, RetryCrash
  <1>9. CASE UNCHANGED vars
    BY <1>5, <1>9 DEF vars, procs, chain
  <1> QED BY <1>1, <1>2, <1>3, <1>4, <1>6, <1>7, <1>8, <1>9 DEF Next, Environment

\* RetryInv holds throughout.
THEOREM RetryInvAlways == ASSUME RetryAlone PROVE Spec => []RetryInv
  <1>1. Init => RetryInv
    BY RetryInit, RetryAlone
  <1>2. Inv /\ RetryInv /\ [Next]_vars => RetryInv'
    BY RetryNext
  <1> QED BY <1>1, <1>2, InvAlways, PTL DEF Spec

-----------------------------------------------------------------------------
(* What the retry manager keeps to.                                        *)

\* With no crash allowed there is none.
NoCrash == crashes = 0

\* Then Spec never leaves that state of the counter.
LEMMA NeverCrashes == ASSUME MaxCrashes = 0 PROVE Spec => []NoCrash
  <1>1. Init => NoCrash
    BY DEF Init, NoCrash
  <1>2. NoCrash /\ [Next]_vars => NoCrash'
    <2> SUFFICES ASSUME NoCrash, [Next]_vars PROVE UNCHANGED crashes
      BY DEF NoCrash
    <2>1. CASE \E r \in Requests : Handler(r)
      BY <2>1 DEF Handler, Reserve, RejectDuplicate, RelayFetch, RelayCheck, RelayProve,
                  Respond, HandlerPicks
    <2>2. CASE RetryManager
      BY <2>2 DEF RetryManager, Tick, RetryPicks, TickEnds
    <2>3. CASE \E p \in Procs : Work(p)
      BY <2>3 DEF Work, ProcessFetch, Send, SendReturns, SendRejected, RecoverPending,
                  Status, SpentCheck, HeightCheck, RecoverSubmitted
    <2>4. CASE Environment
      <3>1. ~Crash
        <4>1. ~(crashes < MaxCrashes)
          BY DEF NoCrash
        <4> QED BY <4>1 DEF Crash
      <3> QED BY <2>4, <3>1 DEF Environment, TimePasses, RootAgesOut, Execute, Expire,
                                SpendElsewhere
    <2>5. CASE UNCHANGED vars
      BY <2>5 DEF vars
    <2> QED BY <2>1, <2>2, <2>3, <2>4, <2>5 DEF Next
  <1> QED BY <1>1, <1>2, PTL DEF Spec

\* The relayer resubmits only what can no longer land: with the retry manager
\* alone and no crash, never are two live transactions out for one request.
THEOREM NeverTwoLive ==
    ASSUME RetryAlone, MaxCrashes = 0 PROVE Spec => []OneLiveTransaction
  <1>1. RetryInv /\ NoCrash => OneLiveTransaction
    <2> USE DEF NoCrash
    <2> SUFFICES ASSUME RetryInv, NoCrash,
                        NEW t \in TxIds, NEW u \in TxIds, Live(t), Live(u),
                        tx[t].req = tx[u].req
                 PROVE  t = u
      BY DEF OneLiveTransaction, Live
    <2>1. AtSent(tx[t].req) => row[tx[t].req].status = "pending"
      BY DEF RetryInv, JobOK, CopyOK, AtSent, PendingPcs, WorkPcs, Req, Rec
    <2> QED BY <2>1 DEF RetryInv, LiveOK
  <1> QED BY <1>1, NeverCrashes, RetryInvAlways, PTL

\* Each crash costs at most one transaction beyond what MAX_RETRIES allows.
SubmissionsCounted ==
    \A r \in Requests : Cardinality(SentFor(r)) <= MaxRetries + 1 + crashes

\* MAX_RETRIES bounds the transactions sent for a request, up to one for each
\* crash between a submission and its record.
THEOREM SubmissionsAreCounted ==
    ASSUME RetryAlone PROVE Spec => []SubmissionsCounted
  <1>1. Inv /\ RetryInv => SubmissionsCounted
    <2> SUFFICES ASSUME Inv, RetryInv, NEW r \in Requests
                 PROVE  Cardinality(SentFor(r)) <= MaxRetries + 1 + crashes
      BY DEF SubmissionsCounted
    <2>1. /\ Cardinality(SentFor(r)) \in Nat
          /\ Cardinality(SentFor(r)) <= Allowance(row[r]) + Unrecorded(r) + crashes
      BY FS_CardinalityType DEF RetryInv, CountOK
    <2>2. row[r] \in Row /\ RowFits(row[r]) /\ crashes \in Nat /\ MaxRetries \in Nat
      BY RelayerAssumption DEF Inv, TypeOK, RetryInv, RowsOK
    <2>3. AtSent(r) => row[r].status = "pending"
      BY DEF RetryInv, JobOK, CopyOK, AtSent, PendingPcs, WorkPcs, Req, Rec
    <2>4. row[r].status # "none"
      BY <2>2 DEF RowFits
    <2>5. /\ Allowance(row[r]) \in Nat /\ Unrecorded(r) \in Nat
          /\ Allowance(row[r]) + Unrecorded(r) <= MaxRetries + 1
      <3>1. row[r].retries \in Nat /\ (row[r].status \in Open => row[r].retries <= MaxRetries)
            /\ row[r].status \in {"none"} \cup Open \cup Terminal
        BY <2>2 DEF Row, RowFits
      <3>2. CASE row[r].status \in Terminal
        BY <2>2, <2>3, <3>2 DEF Allowance, Unrecorded, Terminal
      <3>3. CASE row[r].status = "pending"
        BY <2>2, <3>1, <3>3 DEF Allowance, Unrecorded, Terminal, Open
      <3>4. CASE row[r].status = "submitted"
        BY <2>2, <2>3, <3>1, <3>4 DEF Allowance, Unrecorded, Terminal, Open
      <3> QED BY <2>4, <3>1, <3>2, <3>3, <3>4 DEF Open
    <2> QED BY <2>1, <2>2, <2>5
  <1> QED BY <1>1, RetryInvAlways, InvAlways, PTL

\* As long as nothing but the retry manager works on a row and the relayer does
\* not crash, MAX_RETRIES bounds the transactions sent for it.
THEOREM SubmissionsAreBounded ==
    ASSUME RetryAlone, MaxCrashes = 0 PROVE Spec => []SubmissionsBounded
  <1>1. SubmissionsCounted /\ NoCrash => SubmissionsBounded
    <2>1. \A r : SentFor(r) = {t \in TxIds : tx[t] # Unsent /\ tx[t].req = r}
      BY DEF SentFor
    <2>2. MaxRetries \in Nat
      BY RelayerAssumption
    <2> QED BY <2>1, <2>2 DEF SubmissionsCounted, SubmissionsBounded, NoCrash
  <1> QED BY <1>1, NeverCrashes, SubmissionsAreCounted, PTL

\* A row the retry manager confirms has a signature to report: a submitted row
\* keeps its own, a pending one gets that of the spending transaction.
THEOREM ConfirmedWithSignature ==
    ASSUME RetryAlone PROVE Spec => []ConfirmedHasSignature
  <1>1. RetryInv => ConfirmedHasSignature
    BY DEF RetryInv, RowsOK, RowFits, ConfirmedHasSignature
  <1> QED BY <1>1, RetryInvAlways, PTL

\* processRecord writes no row but its own.
LEMMA WritesOwnRow ==
    ASSUME Inv, NEW p \in Procs, Work(p), NEW r \in Requests, r # Req(p)
    PROVE  row'[r] = row[r]
  BY DEF Inv, TypeOK, SetRow, Work, ProcessFetch, Send, SendReturns, SendRejected,
         RecoverPending, Status, SpentCheck, HeightCheck, RecoverSubmitted,
         HandleSubmissionFailure, Reschedule, Confirm

\* A row the retry manager has settled, in whichever way, stays settled: it
\* writes only rows that are still open, also from a copy it read long before.
THEOREM SettledForGood == ASSUME RetryAlone PROVE Spec => TerminalIsFinal
  <1> DEFINE Final == \A r \in Requests : row[r].status \in Terminal
                                            => row'[r].status = row[r].status
  <1>1. Inv /\ RetryInv /\ [Next]_vars => Final \/ UNCHANGED row
    <2> SUFFICES ASSUME Inv, RetryInv, [Next]_vars PROVE Final \/ UNCHANGED row
      OBVIOUS
    <2>1. CASE \E r \in Requests : Handler(r)
      BY <2>1, HandlersRest
    <2>2. CASE RetryManager
      BY <2>2 DEF RetryManager, Tick, RetryPicks, TickEnds
    <2>3. CASE \E p \in Procs : Work(p)
      <3>1. Work(Retry) /\ Retry \in Procs
        BY <2>3, HandlersRest DEF Procs
      <3>2. pc[Retry] \in WorkPcs
        BY <3>1, WorkShape
      <3>3. row[Req(Retry)].status \in Open
        BY <3>2, RetryFacts
      <3>4. \A r \in Requests : r # Req(Retry) => row'[r] = row[r]
        BY <3>1, WritesOwnRow
      <3> QED BY <3>3, <3>4 DEF Open, Terminal
    <2>4. CASE \E r \in Requests : TimePasses(r)
      BY <2>4 DEF TimePasses, SetRow, Inv, TypeOK, Row
    <2>5. CASE Environment /\ ~\E r \in Requests : TimePasses(r)
      BY <2>5 DEF Environment, RootAgesOut, Execute, Expire, SpendElsewhere, Crash
    <2>6. CASE UNCHANGED vars
      BY <2>6 DEF vars
    <2> QED BY <2>1, <2>2, <2>3, <2>4, <2>5, <2>6 DEF Next
  <1>2. Inv /\ RetryInv /\ [Next]_vars => [Final]_row
    BY <1>1
  <1> QED BY <1>2, RetryInvAlways, InvAlways, PTL DEF Spec, TerminalIsFinal

-----------------------------------------------------------------------------
(* A handler and the retry manager on one row.                             *)

\* The copies of the row of r that p has made and is not done with.
Held(p)      == (IF pc[p] \in WorkPcs THEN {job[p]} ELSE {}) \cup (IF p = Retry THEN todo ELSE {})
Copies(p, r) == {j \in Held(p) : j.req = r}

\* Who ever works on the row of r, and who still may.
Workers(r) == {r, Retry}
Alive(p)   == p = Retry \/ pc[p] \notin Replies

\* p has a copy that would reopen the row once more; p has one of the row as it is.
Stale(p, r) == \E j \in Copies(p, r) : j.rec.retries < MaxRetries
Fresh(p, r) == \E j \in Copies(p, r) :
    j.rec.status = "pending" /\ j.rec.retries = row[r].retries

\* The submission p may make with the copy it has, and the one it may make with
\* the next copy it takes.
Signing(p, r) == pc[p] = "sent" /\ Req(p) = r
Intends(p, r) ==
    IF ~Signing(p, r) /\ \E j \in Copies(p, r) : j.rec.status = "pending" THEN 1 ELSE 0
May(p, r) ==
    IF \/ row[r].retries >= MaxRetries /\ Stale(p, r)
       \/ row[r].status = "pending" /\ Alive(p) /\ ~Fresh(p, r)
    THEN 1 ELSE 0

\* What the retries the row counts pay for.
Budget(r) ==
    IF MaxRetries = 0 THEN 2
    ELSE IF row[r].retries < MaxRetries THEN 2 * (row[r].retries + 1)
    ELSE IF Stale(r, r) \/ Stale(Retry, r) THEN 2 * MaxRetries + 2
    ELSE 2 * MaxRetries + 3

CopiesAged(r) == \A p \in Workers(r) :
    /\ \A j, k \in Copies(p, r) : j = k
    /\ \A j \in Copies(p, r) : j.rec.status \in Open /\ j.rec.retries <= row[r].retries

OneStale(r) == row[r].retries >= MaxRetries => ~(Stale(r, r) /\ Stale(Retry, r))

PaidFor(r) ==
    /\ IsFiniteSet(SentFor(r))
    /\ Cardinality(SentFor(r)) + May(r, r) + Intends(r, r) + May(Retry, r) + Intends(Retry, r)
         <= Budget(r) + crashes

RaceAt(r) == CopiesAged(r) /\ OneStale(r) /\ PaidFor(r)

\* What each process is at, and that the retry manager has one copy of a row.
StepsFit ==
    /\ \A p \in Procs : pc[p] \in PendingPcs => Rec(p).status = "pending"
    /\ pc[Retry] = "idle" => todo = {}
    /\ pc[Retry] \in WorkPcs => \A j \in todo : j.req # Req(Retry)

RaceInv == StepsFit /\ \A r \in Requests : RaceAt(r)

\* A copy is a row with its request.
LEMMA CopyTyped ==
    ASSUME Inv, NEW r \in Requests, NEW p \in Workers(r), NEW j \in Copies(p, r)
    PROVE  j \in Job /\ j.req = r /\ j.rec \in Row /\ j.rec.retries \in Nat
  <1>1. p \in Procs
    BY DEF Workers, Procs
  <1>2. j \in Job /\ j.req = r
    BY <1>1 DEF Copies, Held, Inv, TypeOK, WorkOK
  <1> QED BY <1>2 DEF Job, Row

\* The numbers PaidFor adds up.
LEMMA RaceNumbers ==
    ASSUME Inv, NEW r \in Requests
    PROVE  /\ \A p : May(p, r) \in {0, 1} /\ Intends(p, r) \in {0, 1}
           /\ Budget(r) \in Nat /\ row[r].retries \in Nat /\ crashes \in Nat
           /\ MaxRetries \in Nat
           /\ IsFiniteSet(SentFor(r)) => Cardinality(SentFor(r)) \in Nat
  <1>1. row[r].retries \in Nat /\ MaxRetries \in Nat /\ crashes \in Nat
    BY RelayerAssumption DEF Inv, TypeOK, Row
  <1>2. \A p : May(p, r) \in {0, 1} /\ Intends(p, r) \in {0, 1}
    BY DEF May, Intends
  <1>3. Budget(r) \in Nat
    BY <1>1 DEF Budget
  <1> QED BY <1>1, <1>2, <1>3, FS_CardinalityType

\* Nothing that concerns r happens, or its handler goes away.
LEMMA RaceFrame ==
    ASSUME Inv, Inv', NEW r \in Requests, RaceAt(r),
           row'[r].status = row[r].status, row'[r].retries = row[r].retries,
           \A p \in Workers(r) : /\ Copies(p, r)' = Copies(p, r)
                                 /\ Signing(p, r)' <=> Signing(p, r)
                                 /\ Alive(p)' => Alive(p),
           SentFor(r)' = SentFor(r), UNCHANGED crashes
    PROVE  RaceAt(r)'
  <1>1. \A p \in Workers(r) : (Stale(p, r)' <=> Stale(p, r)) /\ (Fresh(p, r)' <=> Fresh(p, r))
    BY DEF Stale, Fresh
  <1>2. \A p \in Workers(r) : Intends(p, r)' = Intends(p, r)
    BY DEF Intends
  <1>3. \A p \in Workers(r) : May(p, r)' <= May(p, r)
    BY <1>1 DEF May
  <1>4. r \in Workers(r) /\ Retry \in Workers(r)
    BY DEF Workers
  <1>5. Budget(r)' = Budget(r)
    BY <1>1, <1>4 DEF Budget
  <1>6. CopiesAged(r)' /\ OneStale(r)'
    BY <1>1, <1>4 DEF RaceAt, CopiesAged, OneStale, Workers
  <1>7. /\ May(r, r) \in {0, 1} /\ May(r, r)' \in {0, 1} /\ May(Retry, r) \in {0, 1}
        /\ May(Retry, r)' \in {0, 1} /\ Intends(r, r) \in {0, 1} /\ Intends(Retry, r) \in {0, 1}
        /\ Budget(r) \in Nat /\ crashes \in Nat /\ Cardinality(SentFor(r)) \in Nat
    <2>1. IsFiniteSet(SentFor(r))
      BY DEF RaceAt, PaidFor
    <2>2. May(r, r)' \in {0, 1} /\ May(Retry, r)' \in {0, 1}
      BY DEF May
    <2> QED BY <2>1, <2>2, RaceNumbers
  <1>8. PaidFor(r)'
    BY <1>2, <1>3, <1>4, <1>5, <1>7 DEF RaceAt, PaidFor
  <1> QED BY <1>6, <1>8 DEF RaceAt

\* The handler of r and the retry manager, in either order.
Pair(p, o, r) == (p = r /\ o = Retry) \/ (p = Retry /\ o = r)

\* The count for r, as one worker p and the other one o see it.
LEMMA RaceCounted ==
    ASSUME Inv, NEW r \in Requests, RaceAt(r), NEW p, NEW o, Pair(p, o, r)
    PROVE  /\ IsFiniteSet(SentFor(r)) /\ Cardinality(SentFor(r)) \in Nat
           /\ Cardinality(SentFor(r)) + May(p, r) + Intends(p, r) + May(o, r) + Intends(o, r)
                <= Budget(r) + crashes
           /\ May(p, r) \in {0, 1} /\ May(o, r) \in {0, 1} /\ crashes \in Nat
           /\ Intends(p, r) \in {0, 1} /\ Intends(o, r) \in {0, 1}
           /\ row[r].retries \in Nat /\ MaxRetries \in Nat
           /\ Workers(r) = {p, o} /\ p # o
           /\ \A q \in {p, o} : Stale(q, r) /\ row[r].retries >= MaxRetries => May(q, r) = 1
           /\ MaxRetries = 0 => ~Stale(p, r) /\ ~Stale(o, r)
           /\ Budget(r) = IF MaxRetries = 0 THEN 2
                          ELSE IF row[r].retries < MaxRetries THEN 2 * (row[r].retries + 1)
                          ELSE IF Stale(p, r) \/ Stale(o, r) THEN 2 * MaxRetries + 2
                          ELSE 2 * MaxRetries + 3
  <1>1. IsFiniteSet(SentFor(r))
    BY DEF RaceAt, PaidFor
  <1>2. Workers(r) = {p, o} /\ p # o
    BY RelayerAssumption DEF Pair, Workers
  <1>3. \A q \in {p, o} : Stale(q, r) /\ row[r].retries >= MaxRetries => May(q, r) = 1
    BY DEF May
  <1>4. ASSUME MaxRetries = 0, NEW q \in {p, o}, NEW j \in Copies(q, r)
        PROVE  ~(j.rec.retries < 0)
    <2>1. j.rec.retries \in Nat
      BY <1>2, CopyTyped
    <2> QED BY <2>1
  <1>5. MaxRetries = 0 => ~Stale(p, r) /\ ~Stale(o, r)
    BY <1>4 DEF Stale
  <1>6. Budget(r) = IF MaxRetries = 0 THEN 2
                    ELSE IF row[r].retries < MaxRetries THEN 2 * (row[r].retries + 1)
                    ELSE IF Stale(p, r) \/ Stale(o, r) THEN 2 * MaxRetries + 2
                    ELSE 2 * MaxRetries + 3
    BY DEF Budget, Pair
  <1> QED BY <1>1, <1>2, <1>3, <1>5, <1>6, RaceNumbers DEF RaceAt, PaidFor, Pair

\* The same after the step, from what it leaves in the budget.
LEMMA RaceRecounted ==
    ASSUME Inv', NEW r \in Requests, NEW p, NEW o, Pair(p, o, r),
           IsFiniteSet(SentFor(r)'),
           Cardinality(SentFor(r)') + May(p, r)' + Intends(p, r)' + May(o, r)' + Intends(o, r)'
             <= Budget(r)' + crashes'
    PROVE  PaidFor(r)'
  <1>1. /\ May(p, r)' \in {0, 1} /\ May(o, r)' \in {0, 1}
        /\ Intends(p, r)' \in {0, 1} /\ Intends(o, r)' \in {0, 1}
    BY DEF May, Intends
  <1>2. Cardinality(SentFor(r)') \in Nat
    BY FS_CardinalityType
  <1> QED BY <1>1, <1>2 DEF PaidFor, Pair

\* A worker p gives up the copy it has, if any, and the other one o keeps its own.
Drops(p, o, r) ==
    /\ Copies(p, r)' = {} /\ Copies(o, r)' = Copies(o, r)
    /\ Signing(o, r)' <=> Signing(o, r)
    /\ Alive(o)' => Alive(o)
    /\ SentFor(r)' = SentFor(r)
    /\ UNCHANGED crashes

\* What that does to the parts of the count that depend on copies.
LEMMA RaceDropped ==
    ASSUME Inv, NEW r \in Requests, RaceAt(r), NEW p, NEW o, Pair(p, o, r), Drops(p, o, r),
           row'[r].retries \in {row[r].retries, row[r].retries + 1}
    PROVE  /\ ~Stale(p, r)' /\ Intends(p, r)' = 0
           /\ May(p, r)' \in {0, 1} /\ May(o, r)' \in {0, 1}
           /\ row'[r].status # "pending" => May(p, r)' = 0
           /\ row'[r].status # "pending"
                => May(o, r)' = IF row'[r].retries >= MaxRetries /\ Stale(o, r) THEN 1 ELSE 0
           /\ Stale(o, r)' <=> Stale(o, r)
           /\ Intends(o, r)' = Intends(o, r)
           /\ Budget(r)' = IF MaxRetries = 0 THEN 2
                           ELSE IF row'[r].retries < MaxRetries THEN 2 * (row'[r].retries + 1)
                           ELSE IF Stale(o, r) THEN 2 * MaxRetries + 2
                           ELSE 2 * MaxRetries + 3
           /\ CopiesAged(r)' /\ OneStale(r)'
  <1> USE DEF Drops
  <1>1. ~Stale(p, r)' /\ Intends(p, r)' = 0
    BY DEF Stale, Intends
  <1>2. (Stale(o, r)' <=> Stale(o, r)) /\ Intends(o, r)' = Intends(o, r)
    BY DEF Stale, Intends
  <1>3. /\ May(p, r)' \in {0, 1} /\ May(o, r)' \in {0, 1}
        /\ row'[r].status # "pending" => May(p, r)' = 0
        /\ row'[r].status # "pending"
             => May(o, r)' = IF row'[r].retries >= MaxRetries /\ Stale(o, r) THEN 1 ELSE 0
    BY <1>1, <1>2 DEF May
  <1>4. Budget(r)' = IF MaxRetries = 0 THEN 2
                     ELSE IF row'[r].retries < MaxRetries THEN 2 * (row'[r].retries + 1)
                     ELSE IF Stale(o, r) THEN 2 * MaxRetries + 2
                     ELSE 2 * MaxRetries + 3
    BY <1>1, <1>2 DEF Budget, Pair
  <1>5. Workers(r) = {p, o}
    BY RelayerAssumption DEF Pair, Workers
  <1>6. CopiesAged(r)'
    <2>1. ASSUME NEW j \in Copies(o, r) PROVE j.rec.retries <= row'[r].retries
      <3>1. j.rec.retries <= row[r].retries
        BY <1>5 DEF RaceAt, CopiesAged
      <3>2. j.rec.retries \in Nat /\ row[r].retries \in Nat
        BY <1>5, CopyTyped, RaceNumbers
      <3> QED BY <3>1, <3>2
    <2> QED BY <1>5, <2>1 DEF RaceAt, CopiesAged, Workers
  <1>7. OneStale(r)'
    BY <1>1 DEF OneStale, Pair
  <1> QED BY <1>1, <1>2, <1>3, <1>4, <1>6, <1>7

\* The row is submitted or settled.
LEMMA RaceClosed ==
    ASSUME Inv, Inv', NEW r \in Requests, RaceAt(r), NEW p, NEW o, Pair(p, o, r),
           Drops(p, o, r), row'[r].status # "pending",
           row'[r].retries \in {row[r].retries, row[r].retries + 1}
    PROVE  RaceAt(r)'
  <1>1. PaidFor(r)'
    <2> DEFINE v == row[r].retries
               n == row'[r].retries
               c == Cardinality(SentFor(r))
    <2>1. v \in Nat /\ n \in {v, v + 1} /\ IsFiniteSet(SentFor(r)) /\ SentFor(r)' = SentFor(r)
          /\ crashes' = crashes /\ crashes \in Nat /\ c \in Nat
      BY RaceCounted DEF Drops
    <2>2. May(o, r)' = IF n >= MaxRetries /\ Stale(o, r) THEN 1 ELSE 0
      BY RaceDropped
    <2>3. c + May(p, r)' + Intends(p, r)' + May(o, r)' + Intends(o, r)' <= Budget(r)' + crashes
      BY <2>1, <2>2, RaceCounted, RaceDropped
    <2> QED BY <2>1, <2>3, RaceRecounted
  <1> QED BY <1>1, RaceDropped DEF RaceAt

\* A failure that is not final reopens the row, and both may submit it once more.
\* It is granted to p by a copy from before the limit: if the row has reached the
\* limit since, p was the one with an old copy.
LEMMA RaceReopened ==
    ASSUME Inv, Inv', NEW r \in Requests, RaceAt(r), NEW p, NEW o, Pair(p, o, r),
           Drops(p, o, r), row'[r].retries = row[r].retries + 1, Stale(p, r)
    PROVE  RaceAt(r)'
  <1>1. PaidFor(r)'
    <2> DEFINE v == row[r].retries
               n == row'[r].retries
               c == Cardinality(SentFor(r))
    <2>1. v \in Nat /\ n = v + 1 /\ IsFiniteSet(SentFor(r)) /\ SentFor(r)' = SentFor(r)
          /\ crashes' = crashes /\ crashes \in Nat /\ c \in Nat
      BY RaceCounted DEF Drops
    <2>2. v >= MaxRetries => ~Stale(o, r) /\ May(p, r) = 1
      BY RaceCounted DEF RaceAt, OneStale, Pair
    <2>3. c + May(p, r)' + Intends(p, r)' + May(o, r)' + Intends(o, r)' <= Budget(r)' + crashes
      BY <2>1, <2>2, RaceCounted, RaceDropped
    <2> QED BY <2>1, <2>3, RaceRecounted
  <1> QED BY <1>1, RaceDropped DEF RaceAt

\* p gives a copy up that it meant to submit, and leaves the row as it is.
LEMMA RaceLeft ==
    ASSUME Inv, Inv', NEW r \in Requests, RaceAt(r), NEW p, NEW o, Pair(p, o, r),
           Drops(p, o, r), Intends(p, r) = 1, UNCHANGED row
    PROVE  RaceAt(r)'
  <1>1. row'[r].retries \in {row[r].retries, row[r].retries + 1}
    OBVIOUS
  <1>2. PaidFor(r)'
    <2> DEFINE v == row[r].retries
               c == Cardinality(SentFor(r))
    <2>1. v \in Nat /\ IsFiniteSet(SentFor(r)) /\ SentFor(r)' = SentFor(r)
          /\ crashes' = crashes /\ crashes \in Nat /\ c \in Nat /\ row'[r] = row[r]
      BY RaceCounted DEF Drops
    <2>2. May(o, r)' <= May(o, r)
      <3>1. (Stale(o, r)' <=> Stale(o, r)) /\ (Fresh(o, r)' <=> Fresh(o, r))
        BY <2>1 DEF Drops, Stale, Fresh
      <3> QED BY <2>1, <3>1 DEF May, Drops
    <2>3. c + May(p, r)' + Intends(p, r)' + May(o, r)' + Intends(o, r)' <= Budget(r)' + crashes
      <3>1. Budget(r)' >= Budget(r) /\ Budget(r)' \in Nat /\ Budget(r) \in Nat
        BY <1>1, <2>1, RaceCounted, RaceDropped
      <3>2. /\ May(p, r)' \in {0, 1} /\ Intends(p, r)' = 0 /\ May(o, r)' \in {0, 1}
            /\ Intends(o, r)' = Intends(o, r)
        BY <1>1, RaceDropped
      <3> QED BY <2>1, <2>2, <3>1, <3>2, RaceCounted
    <2> QED BY <2>1, <2>3, RaceRecounted
  <1> QED BY <1>1, <1>2, RaceDropped DEF RaceAt

\* p takes a copy of a row that is open: what it might do it now means to do.
LEMMA RacePicked ==
    ASSUME Inv, Inv', NEW r \in Requests, RaceAt(r), NEW p, NEW o, Pair(p, o, r),
           UNCHANGED row, row[r].status \in Open, Alive(p), ~Signing(p, r)',
           Copies(p, r) = {}, Copies(p, r)' = {[req |-> r, rec |-> row[r]]},
           Copies(o, r)' = Copies(o, r), Signing(o, r)' <=> Signing(o, r),
           Alive(o)' => Alive(o), SentFor(r)' = SentFor(r), UNCHANGED crashes
    PROVE  RaceAt(r)'
  <1> DEFINE v == row[r].retries
             c == Cardinality(SentFor(r))
  <1>1. /\ v \in Nat /\ IsFiniteSet(SentFor(r)) /\ crashes \in Nat /\ c \in Nat
        /\ MaxRetries \in Nat /\ Workers(r) = {p, o} /\ p # o
    BY RaceCounted
  <1>2. ~Stale(p, r) /\ ~Fresh(p, r) /\ Intends(p, r) = 0
    BY DEF Stale, Fresh, Intends
  <1>3. /\ Stale(p, r)' <=> v < MaxRetries
        /\ Fresh(p, r)' <=> row[r].status = "pending"
        /\ Intends(p, r)' = IF row[r].status = "pending" THEN 1 ELSE 0
    BY DEF Stale, Fresh, Intends
  <1>4. May(p, r)' = 0
    BY <1>1, <1>3 DEF May
  <1>5. row[r].status = "pending" => May(p, r) = 1
    BY <1>2 DEF May
  <1>6. (Stale(o, r)' <=> Stale(o, r)) /\ (Fresh(o, r)' <=> Fresh(o, r))
        /\ Intends(o, r)' = Intends(o, r)
    BY DEF Stale, Fresh, Intends
  <1>7. May(o, r)' <= May(o, r)
    BY <1>6 DEF May
  <1>8. Budget(r)' = Budget(r)
    BY <1>1, <1>2, <1>3, <1>6 DEF Budget, Pair
  <1>9. CopiesAged(r)'
    BY <1>1 DEF RaceAt, CopiesAged, Workers
  <1>10. OneStale(r)'
    BY <1>1, <1>3 DEF OneStale, Pair
  <1>11. PaidFor(r)'
    <2>1. c + May(p, r)' + Intends(p, r)' + May(o, r)' + Intends(o, r)' <= Budget(r)' + crashes
      <3>1. May(o, r)' \in {0, 1}
        BY DEF May
      <3> QED BY <1>1, <1>2, <1>3, <1>4, <1>5, <1>6, <1>7, <1>8, <3>1, RaceCounted
    <2> QED BY <1>1, <2>1, RaceRecounted
  <1> QED BY <1>9, <1>10, <1>11 DEF RaceAt

\* p submits the copy it has: what it meant to do is done.
LEMMA RaceSent ==
    ASSUME Inv, Inv', NEW r \in Requests, RaceAt(r), NEW p, NEW o, Pair(p, o, r),
           UNCHANGED row, ~Signing(p, r), Signing(p, r)', Alive(p)' => Alive(p),
           NEW j, NEW k, Copies(p, r) = {j}, Copies(p, r)' = {k},
           j.rec.status = "pending", k.rec.status = "pending", k.rec.retries = j.rec.retries,
           Copies(o, r)' = Copies(o, r), Signing(o, r)' <=> Signing(o, r),
           Alive(o)' => Alive(o), UNCHANGED crashes,
           NEW t, t \notin SentFor(r), SentFor(r)' = SentFor(r) \cup {t}
    PROVE  RaceAt(r)'
  <1> DEFINE c == Cardinality(SentFor(r))
  <1>1. /\ IsFiniteSet(SentFor(r)) /\ crashes \in Nat /\ c \in Nat
        /\ Workers(r) = {p, o} /\ p # o
    BY RaceCounted
  <1>2. IsFiniteSet(SentFor(r)') /\ Cardinality(SentFor(r)') = c + 1
    BY <1>1, FS_AddElement
  <1>3. \A q \in {p, o} : (Stale(q, r)' <=> Stale(q, r)) /\ (Fresh(q, r)' <=> Fresh(q, r))
    BY DEF Stale, Fresh
  <1>4. Intends(p, r) = 1 /\ Intends(p, r)' = 0 /\ Intends(o, r)' = Intends(o, r)
    BY DEF Intends
  <1>5. \A q \in {p, o} : May(q, r)' <= May(q, r)
    BY <1>3 DEF May
  <1>6. Budget(r)' = Budget(r)
    BY <1>3 DEF Budget, Pair
  <1>7. CopiesAged(r)'
    BY <1>1 DEF RaceAt, CopiesAged, Workers, Open
  <1>8. OneStale(r)'
    BY <1>3 DEF RaceAt, OneStale, Pair
  <1>9. PaidFor(r)'
    <2>1. c + 1 + May(p, r)' + Intends(p, r)' + May(o, r)' + Intends(o, r)'
             <= Budget(r)' + crashes
      <3>1. May(o, r)' \in {0, 1} /\ May(p, r)' \in {0, 1}
        BY DEF May
      <3> QED BY <1>1, <1>4, <1>5, <1>6, <3>1, RaceCounted
    <2> QED BY <1>2, <2>1, RaceRecounted
  <1> QED BY <1>7, <1>8, <1>9 DEF RaceAt

-----------------------------------------------------------------------------
(* The steps of a handler and of the retry manager.                        *)

\* Whose copies p works on: its own request's, or any as the retry manager.
LEMMA RaceParties ==
    ASSUME Inv, NEW p \in Procs, pc[p] \in WorkPcs
    PROVE  /\ Req(p) \in Requests /\ p \in Workers(Req(p))
           /\ \E o \in Procs : Pair(p, o, Req(p))
           /\ \A q \in Requests : q # Req(p) => (p \in Workers(q) => p = Retry)
  <1>1. Req(p) \in Requests /\ (p \in Requests => Req(p) = p)
    BY WorkFacts DEF Inv, WorkOK
  <1>2. p = Req(p) \/ p = Retry
    BY <1>1 DEF Procs
  <1>3. Retry \in Procs /\ Req(p) \in Procs
    BY <1>1 DEF Procs
  <1>4. \E o \in Procs : Pair(p, o, Req(p))
    BY <1>2, <1>3 DEF Pair
  <1> QED BY <1>1, <1>2, <1>4 DEF Workers

\* p's step leaves every other request alone.
LEMMA RaceElsewhere ==
    ASSUME Inv, Inv', NEW p \in Procs, pc[p] \in WorkPcs,
           NEW q \in Requests, q # Req(p), RaceAt(q),
           row'[q] = row[q], UNCHANGED <<todo, crashes>>,
           \A o \in Procs : o # p => pc'[o] = pc[o] /\ job'[o] = job[o],
           pc'[p] \in WorkPcs => job'[p].req = Req(p),
           SentFor(q)' = SentFor(q)
    PROVE  RaceAt(q)'
  <1>1. ASSUME NEW o \in Workers(q)
        PROVE  /\ Copies(o, q)' = Copies(o, q)
               /\ Signing(o, q)' <=> Signing(o, q)
               /\ Alive(o)' => Alive(o)
    <2>1. o \in Procs /\ (o = p => p = Retry)
      BY RaceParties DEF Workers, Procs
    <2>2. CASE o = p
      <3>1. job[p].req # q /\ (pc'[p] \in WorkPcs => job'[p].req # q)
        BY DEF Req
      <3>2. Copies(p, q) = {j \in todo : j.req = q} /\ Copies(p, q)' = {j \in todo : j.req = q}
        BY <2>1, <2>2, <3>1 DEF Copies, Held
      <3>3. ~Signing(p, q) /\ ~Signing(p, q)'
        BY <3>1 DEF Signing, Req, WorkPcs
      <3> QED BY <2>1, <2>2, <3>2, <3>3 DEF Alive
    <2>3. CASE o # p
      BY <2>1, <2>3 DEF Copies, Held, Signing, Alive, Req
    <2> QED BY <2>2, <2>3
  <1> QED BY <1>1, RaceFrame

\* processRecord goes on to its next await without writing the row.
LEMMA RaceAdvances ==
    ASSUME Inv, Inv', RaceInv, NEW p \in Procs, pc[p] \in WorkPcs, pc[p] # "sent",
           NEW label \in WorkPcs \ {"sent"}, Goto(p, label),
           label \in PendingPcs => Rec(p).status = "pending",
           UNCHANGED <<row, job, todo, tx, crashes>>
    PROVE  RaceInv'
  <1>1. pc'[p] = label /\ \A o \in Procs : o # p => pc'[o] = pc[o]
    BY DEF Inv, TypeOK, Goto
  <1>2. ASSUME NEW r \in Requests PROVE RaceAt(r)'
    <2>1. ASSUME NEW o \in Workers(r)
          PROVE  /\ Copies(o, r)' = Copies(o, r)
                 /\ Signing(o, r)' <=> Signing(o, r)
                 /\ Alive(o)' => Alive(o)
      <3>1. o \in Procs
        BY DEF Workers, Procs
      <3>2. o = p => Copies(o, r)' = Copies(o, r)
        BY <1>1 DEF Copies, Held
      <3>3. o # p => Copies(o, r)' = Copies(o, r)
        BY <1>1, <3>1 DEF Copies, Held
      <3>4. Signing(o, r)' <=> Signing(o, r)
        BY <1>1, <3>1 DEF Signing, Req
      <3>5. pc[p] \notin Replies
        BY DEF WorkPcs, Replies
      <3>6. Alive(o)' => Alive(o)
        BY <1>1, <3>1, <3>5 DEF Alive
      <3> QED BY <3>2, <3>3, <3>4, <3>6
    <2>2. SentFor(r)' = SentFor(r)
      BY DEF SentFor
    <2> QED BY <2>1, <2>2, RaceFrame DEF RaceInv
  <1>3. StepsFit'
    <2>1. \A o \in Procs : pc'[o] \in PendingPcs => Rec(o)'.status = "pending"
      BY <1>1 DEF RaceInv, StepsFit, Rec
    <2>2. pc'[Retry] = "idle" => todo = {}
      <3>1. p = Retry => pc'[Retry] # "idle"
        BY <1>1 DEF WorkPcs
      <3> QED BY <1>1, <3>1 DEF RaceInv, StepsFit, Procs
    <2>3. pc'[Retry] \in WorkPcs => \A j \in todo : j.req # job[Retry].req
      BY <1>1 DEF RaceInv, StepsFit, Procs, Req
    <2> QED BY <2>1, <2>2, <2>3 DEF StepsFit, Req
  <1> QED BY <1>2, <1>3 DEF RaceInv

\* processRecord returns or throws, with its row closed, reopened or left alone.
LEMMA RaceReturns ==
    ASSUME Inv, Inv', RaceInv, NEW p \in Procs, pc[p] \in WorkPcs,
           NEW label \in {"wait", "error"}, Leave(p, label),
           NEW w \in Row, SetRow(Req(p), w),
           \/ /\ w.status # "pending"
              /\ w.retries \in {row[Req(p)].retries, row[Req(p)].retries + 1}
           \/ w.retries = row[Req(p)].retries + 1 /\ Rec(p).retries < MaxRetries
           \/ w = row[Req(p)] /\ Rec(p).status = "pending" /\ pc[p] # "sent",
           UNCHANGED <<todo, tx, crashes>>
    PROVE  RaceInv'
  <1> PICK r \in Requests : r = Req(p)
    BY RaceParties
  <1>1. r \in Requests /\ row' = [row EXCEPT ![r] = w] /\ row \in [Requests -> Row]
    BY RaceParties DEF SetRow, Inv, TypeOK
  <1>2. row'[r] = w /\ \A q \in Requests : q # r => row'[q] = row[q]
    BY <1>1
  <1>3. /\ pc'[p] \in {"wait", "next", "error"} /\ (p = Retry => pc'[p] = "next")
        /\ \A o \in Procs : o # p => pc'[o] = pc[o] /\ job'[o] = job[o]
    BY DEF Leave, Goto, Inv, TypeOK
  <1>4. \A q : SentFor(q)' = SentFor(q)
    BY DEF SentFor
  <1>5. ASSUME NEW q \in Requests, q # r PROVE RaceAt(q)'
    <2>1. pc'[p] \notin WorkPcs
      BY <1>3 DEF WorkPcs
    <2> QED BY <1>2, <1>3, <1>4, <1>5, <2>1, RaceElsewhere DEF RaceInv
  <1>6. PICK o \in Procs : Pair(p, o, r)
    BY RaceParties
  <1>7. p # o
    BY <1>1, <1>6, RelayerAssumption DEF Pair
  <1>8. Copies(p, r) = {job[p]}
    BY DEF Copies, Held, RaceInv, StepsFit, Req
  <1>9. Drops(p, o, r)
    <2>1. pc'[p] \notin WorkPcs
      BY <1>3 DEF WorkPcs
    <2>2. Copies(p, r)' = {}
      BY <2>1 DEF Copies, Held, RaceInv, StepsFit, Req
    <2>3. Copies(o, r)' = Copies(o, r) /\ (Signing(o, r)' <=> Signing(o, r))
          /\ (Alive(o)' => Alive(o))
      BY <1>3, <1>7 DEF Copies, Held, Signing, Alive, Req
    <2> QED BY <1>4, <2>2, <2>3 DEF Drops
  <1>10. RaceAt(r)'
    <2>1. RaceAt(r)
      BY <1>1 DEF RaceInv
    <2>2. CASE w.status # "pending" /\ w.retries \in {row[r].retries, row[r].retries + 1}
      BY <1>1, <1>2, <1>6, <1>9, <2>1, <2>2, RaceClosed
    <2>3. CASE w.retries = row[r].retries + 1 /\ Rec(p).retries < MaxRetries
      <3>1. Stale(p, r)
        BY <1>8, <2>3 DEF Stale, Rec
      <3> QED BY <1>1, <1>2, <1>6, <1>9, <2>1, <2>3, <3>1, RaceReopened
    <2>4. CASE w = row[r] /\ Rec(p).status = "pending" /\ pc[p] # "sent"
      <3>1. Intends(p, r) = 1
        BY <1>8, <2>4 DEF Intends, Signing, Rec
      <3>2. UNCHANGED row
        BY <1>1, <2>4
      <3> QED BY <1>1, <1>6, <1>9, <2>1, <3>1, <3>2, RaceLeft
    <2> QED BY <2>2, <2>3, <2>4
  <1>11. StepsFit'
    <2>1. \A q \in Procs : pc'[q] \in PendingPcs => Rec(q)'.status = "pending"
      BY <1>3 DEF RaceInv, StepsFit, Rec, PendingPcs
    <2>2. pc'[Retry] = "idle" => todo' = {}
      BY <1>3 DEF RaceInv, StepsFit, Procs
    <2>3. pc'[Retry] \in WorkPcs => \A j \in todo' : j.req # job'[Retry].req
      BY <1>3 DEF RaceInv, StepsFit, Procs, WorkPcs, Req
    <2> QED BY <2>1, <2>2, <2>3 DEF StepsFit, Req
  <1> QED BY <1>5, <1>10, <1>11 DEF RaceInv

\* A transaction is handed to the cluster.
LEMMA RaceSends ==
    ASSUME Inv, Inv', RaceInv, NEW p \in Procs, Send(p)
    PROVE  RaceInv'
  <1>1. pc[p] = "send" /\ pc[p] \in WorkPcs
    BY DEF Send, At, WorkPcs
  <1> PICK r \in Requests : r = Req(p)
    BY <1>1, RaceParties
  <1>2. /\ job[p] \in Job /\ r \in Requests /\ job[p].rec \in Row
        /\ job[p].rec.status = "pending"
    BY <1>1, WorkFacts DEF Job, Req, Rec, RaceInv, StepsFit, PendingPcs
  <1>3. PICK t \in TxIds, s \in {"inflight", "lost"} :
          /\ tx[t] = Unsent /\ tx' = [tx EXCEPT ![t] = Signed(r, s)]
          /\ job' = [job EXCEPT ![p].rec.sig = t]
    BY DEF Send
  <1>4. Goto(p, "sent") /\ UNCHANGED <<row, todo, crashes>>
    BY DEF Send
  <1>5. /\ pc'[p] = "sent" /\ \A q \in Procs : q # p => pc'[q] = pc[q] /\ job'[q] = job[q]
    BY <1>3, <1>4 DEF Inv, TypeOK, Goto
  <1>6. job'[p] = [job[p] EXCEPT !.rec.sig = t]
    BY <1>3 DEF Inv, TypeOK
  <1>7. /\ job'[p].req = r /\ job'[p].rec.status = "pending"
        /\ job'[p].rec.retries = job[p].rec.retries
    BY <1>2, <1>6 DEF Job, Row, Req
  <1>8. tx'[t] # Unsent /\ tx'[t].req = r /\ \A u \in TxIds : u # t => tx'[u] = tx[u]
    BY <1>3 DEF Inv, TypeOK, Signed, Unsent
  <1>9. \A q : q # r => SentFor(q)' = SentFor(q)
    BY <1>3, <1>8 DEF SentFor
  <1>10. SentFor(r)' = SentFor(r) \cup {t} /\ t \notin SentFor(r)
    BY <1>3, <1>8 DEF SentFor
  <1>11. ASSUME NEW q \in Requests, q # r PROVE RaceAt(q)'
    <2>1. RaceAt(q) /\ row'[q] = row[q]
      BY <1>4 DEF RaceInv
    <2> QED BY <1>1, <1>4, <1>5, <1>7, <1>9, <1>11, <2>1, RaceElsewhere
  <1>12. PICK o \in Procs : Pair(p, o, r)
    BY <1>1, RaceParties
  <1>13. p # o
    BY <1>2, <1>12, RelayerAssumption DEF Pair
  <1>14. Copies(p, r) = {job[p]} /\ Copies(p, r)' = {job'[p]}
    <2>1. p = Retry => \A j \in todo : j.req # r
      BY <1>1 DEF RaceInv, StepsFit
    <2>2. pc'[p] \in WorkPcs /\ todo' = todo
      BY <1>4, <1>5 DEF WorkPcs
    <2> QED BY <1>1, <1>7, <2>1, <2>2 DEF Copies, Held, Req
  <1>15. Copies(o, r)' = Copies(o, r) /\ (Signing(o, r)' <=> Signing(o, r))
         /\ (Alive(o)' => Alive(o))
    BY <1>4, <1>5, <1>13 DEF Copies, Held, Signing, Alive, Req
  <1>16. ~Signing(p, r) /\ Signing(p, r)' /\ (Alive(p)' => Alive(p))
    BY <1>1, <1>5, <1>7 DEF Signing, Alive, Req, Replies
  <1>17. RaceAt(r)'
    <2>1. RaceAt(r)
      BY <1>2 DEF RaceInv
    <2> QED BY <1>2, <1>4, <1>7, <1>10, <1>12, <1>14, <1>15, <1>16, <2>1, RaceSent
  <1>18. StepsFit'
    <2>1. \A q \in Procs : pc'[q] \in PendingPcs => job'[q].rec.status = "pending"
      BY <1>5, <1>7 DEF RaceInv, StepsFit, Rec, PendingPcs
    <2>2. pc'[Retry] = "idle" => todo' = {}
      BY <1>4, <1>5 DEF RaceInv, StepsFit, Procs
    <2>3. pc'[Retry] \in WorkPcs => \A j \in todo : j.req # job'[Retry].req
      BY <1>1, <1>5, <1>7 DEF RaceInv, StepsFit, Procs, Req
    <2> QED BY <1>4, <2>1, <2>2, <2>3 DEF StepsFit, Req, Rec
  <1> QED BY <1>11, <1>17, <1>18 DEF RaceInv

\* handleSubmissionFailure: what it reopens, it reopens on the word of the copy.
LEMMA RaceHandlesFailure ==
    ASSUME Inv, Inv', RaceInv, NEW p \in Procs, pc[p] \in WorkPcs, NEW retryable \in BOOLEAN,
           HandleSubmissionFailure(p, retryable), UNCHANGED <<todo, tx, crashes>>
    PROVE  RaceInv'
  <1>1. PICK b \in BOOLEAN : b <=> (~retryable \/ Rec(p).retries >= MaxRetries)
    OBVIOUS
  <1>2. PICK c \in BOOLEAN : c <=> ~(b /\ Rec(p).status = "submitted")
    OBVIOUS
  <1> DEFINE w == MarkFailed(row[Req(p)], b, c)
  <1>3. row[Req(p)] \in Row /\ Rec(p) \in Row
    BY WorkFacts
  <1>4. w \in Row
    BY <1>3, RowFailed
  <1>5. /\ w.status = IF b THEN "failed" ELSE "pending"
        /\ w.retries = row[Req(p)].retries + 1
    BY <1>3 DEF MarkFailed, Row
  <1>6. ~b => Rec(p).retries < MaxRetries
    BY <1>1, <1>3, RelayerAssumption DEF Row
  <1>7. SetRow(Req(p), w) /\ Leave(p, "wait")
    BY <1>1, <1>2 DEF HandleSubmissionFailure, Return
  <1> HIDE DEF w
  <1> QED BY <1>4, <1>5, <1>6, <1>7, RaceReturns

\* markFailed for good, whatever the copy says.
LEMMA RaceGivesUp ==
    ASSUME Inv, Inv', RaceInv, NEW p \in Procs, pc[p] \in WorkPcs, NEW clear \in BOOLEAN,
           SetRow(Req(p), MarkFailed(row[Req(p)], TRUE, clear)), Return(p),
           UNCHANGED <<todo, tx, crashes>>
    PROVE  RaceInv'
  <1> DEFINE w == MarkFailed(row[Req(p)], TRUE, clear)
  <1>1. row[Req(p)] \in Row
    BY WorkFacts
  <1>2. w \in Row
    BY <1>1, RowFailed
  <1>3. w.status = "failed" /\ w.retries = row[Req(p)].retries + 1
    BY <1>1 DEF MarkFailed, Row
  <1> HIDE DEF w
  <1> QED BY <1>2, <1>3, RaceReturns DEF Return, w

\* rescheduleSubmitted and markConfirmed leave no row pending.
LEMMA RaceReschedules ==
    ASSUME Inv, Inv', RaceInv, NEW p \in Procs, pc[p] \in WorkPcs, Reschedule(p),
           UNCHANGED <<todo, tx, crashes>>
    PROVE  RaceInv'
  <1> DEFINE w == RescheduleSubmitted(row[Req(p)], FALSE)
  <1>1. row[Req(p)] \in Row
    BY WorkFacts
  <1>2. w \in Row /\ w.status = "submitted"
    BY <1>1, RowRescheduled
  <1>3. w.retries = row[Req(p)].retries
    BY <1>1 DEF RescheduleSubmitted, Row
  <1> HIDE DEF w
  <1> QED BY <1>2, <1>3, RaceReturns DEF Reschedule, Return, w

\* markConfirmed, with whatever signature.
LEMMA RaceConfirms ==
    ASSUME Inv, Inv', RaceInv, NEW p \in Procs, pc[p] \in WorkPcs,
           NEW t \in TxIds \cup {NoTx}, Confirm(p, t), UNCHANGED <<todo, tx, crashes>>
    PROVE  RaceInv'
  <1> DEFINE f == RecordFeeBreakdown(row[Req(p)])
             w == MarkConfirmed(f, t)
  <1>1. f \in Row
    BY WorkFacts, RowOperators
  <1>2. f.retries = row[Req(p)].retries
    BY WorkFacts DEF RecordFeeBreakdown, Row
  <1> HIDE DEF f
  <1>3. w \in Row /\ w.status = "confirmed"
    BY <1>1, RowSigned
  <1>4. w.retries = row[Req(p)].retries
    BY <1>1, <1>2 DEF MarkConfirmed, Row
  <1>5. SetRow(Req(p), w) /\ Leave(p, "wait")
    BY DEF Confirm, Return, f
  <1> HIDE DEF w
  <1> QED BY <1>3, <1>4, <1>5, RaceReturns

\* The signature of what was just sent is recorded.
LEMMA RaceRecords ==
    ASSUME Inv, Inv', RaceInv, NEW p \in Procs, SendReturns(p)
    PROVE  RaceInv'
  <1>1. pc[p] = "sent" /\ pc[p] \in WorkPcs
    BY DEF SendReturns, At, WorkPcs
  <1> DEFINE m == MarkSubmitted(row[Req(p)], Rec(p).sig)
             w == RecordFeeBreakdown(m)
  <1>2. row[Req(p)] \in Row /\ Rec(p).sig \in TxIds \cup {NoTx}
    BY <1>1, WorkFacts DEF Row
  <1>3. m \in Row /\ m.status = "submitted"
    BY <1>2, RowSigned
  <1>4. m.retries = row[Req(p)].retries
    BY <1>2 DEF MarkSubmitted, Row
  <1> HIDE DEF m
  <1>5. w \in Row /\ w.status = "submitted"
    BY <1>3, RowOperators
  <1>6. w.retries = row[Req(p)].retries
    BY <1>3, <1>4 DEF RecordFeeBreakdown, Row
  <1>7. SetRow(Req(p), w) /\ Leave(p, "wait") /\ UNCHANGED <<todo, tx, crashes>>
    BY DEF SendReturns, Return, chain, m
  <1> HIDE DEF w
  <1> QED BY <1>1, <1>5, <1>6, <1>7, RaceReturns

\* One step of processRecord, whoever runs it and whatever its copy says.
LEMMA RaceWorks ==
    ASSUME Inv, Inv', RaceInv, NEW p \in Procs, Work(p)
    PROVE  RaceInv'
  <1> USE DEF At
  <1>1. CASE Send(p)
    BY <1>1, RaceSends
  <1>2. CASE SendReturns(p)
    BY <1>2, RaceRecords
  <1> SUFFICES ASSUME ~Send(p), ~SendReturns(p) PROVE RaceInv'
    BY <1>1, <1>2
  <1>3. pc[p] \in WorkPcs /\ pc[p] # "sent" /\ UNCHANGED <<todo, tx, crashes>>
    BY DEF Work, ProcessFetch, SendRejected, RecoverPending, Status, SpentCheck,
           HeightCheck, RecoverSubmitted, WorkPcs, chain
  <1>4. Rec(p) \in Row /\ SpendSignature(Req(p)) \in TxIds \cup {NoTx}
    BY <1>3, WorkFacts, SpendSignatureIsOwn
  <1>5. CASE ProcessFetch(p)
    <2>1. \/ SetRow(Req(p), MarkFailed(row[Req(p)], TRUE, TRUE)) /\ Return(p)
          \/ Goto(p, "status") /\ UNCHANGED <<row, job>>
          \/ Rec(p).status = "pending" /\ Leave(p, "error") /\ UNCHANGED row
          \/ Rec(p).status = "pending" /\ Goto(p, "send") /\ UNCHANGED <<row, job>>
          \/ Reschedule(p)
          \/ \E retryable \in BOOLEAN : HandleSubmissionFailure(p, retryable)
      BY <1>5 DEF ProcessFetch
    <2>2. CASE Rec(p).status = "pending" /\ Leave(p, "error") /\ UNCHANGED row
      <3>1. SetRow(Req(p), row[Req(p)]) /\ row[Req(p)] \in Row
        BY <1>3, <2>2, WorkFacts DEF SetRow, Inv, TypeOK
      <3> QED BY <1>3, <2>2, <3>1, RaceReturns
    <2>3. CASE Goto(p, "status") /\ UNCHANGED <<row, job>>
      BY <1>3, <2>3, RaceAdvances DEF WorkPcs, PendingPcs
    <2>4. CASE Rec(p).status = "pending" /\ Goto(p, "send") /\ UNCHANGED <<row, job>>
      BY <1>3, <2>4, RaceAdvances DEF WorkPcs
    <2> QED BY <1>3, <2>1, <2>2, <2>3, <2>4, RaceGivesUp, RaceReschedules, RaceHandlesFailure
  <1>6. CASE SendRejected(p)
    <2>1. Rec(p).status = "pending"
      BY <1>6 DEF SendRejected, RaceInv, StepsFit, PendingPcs
    <2>2. \/ Goto(p, "recoverPending") /\ UNCHANGED <<row, job>>
          \/ HandleSubmissionFailure(p, TRUE)
      BY <1>6 DEF SendRejected
    <2> QED BY <1>3, <2>1, <2>2, RaceAdvances, RaceHandlesFailure DEF WorkPcs
  <1>7. CASE RecoverPending(p)
    <2>1. \/ Confirm(p, SpendSignature(Req(p)))
          \/ \E retryable \in BOOLEAN : HandleSubmissionFailure(p, retryable)
      BY <1>7 DEF SpentIsRetryable, RecoverPending
    <2> QED BY <1>3, <1>4, <2>1, RaceConfirms, RaceHandlesFailure
  <1>8. CASE Status(p)
    <2>1. \/ \E label \in {"recoverSubmitted", "spentCheck"} :
                Goto(p, label) /\ UNCHANGED <<row, job>>
          \/ Confirm(p, NoTx)
          \/ Reschedule(p)
      BY <1>8 DEF Status
    <2> QED BY <1>3, <2>1, RaceAdvances, RaceConfirms, RaceReschedules DEF WorkPcs, PendingPcs
  <1>9. CASE SpentCheck(p)
    <2>1. \/ Goto(p, "heightCheck") /\ UNCHANGED <<row, job>>
          \/ Confirm(p, NoTx)
          \/ Reschedule(p)
      BY <1>9 DEF SpentCheck
    <2> QED BY <1>3, <2>1, RaceAdvances, RaceConfirms, RaceReschedules DEF WorkPcs, PendingPcs
  <1>10. CASE HeightCheck(p)
    <2>1. HandleSubmissionFailure(p, TRUE) \/ Reschedule(p)
      BY <1>10 DEF HeightCheck
    <2> QED BY <1>3, <2>1, RaceReschedules, RaceHandlesFailure
  <1>11. CASE RecoverSubmitted(p)
    <2>1. \/ Confirm(p, SpendSignature(Req(p)))
          \/ SetRow(Req(p), MarkFailed(row[Req(p)], TRUE, FALSE)) /\ Return(p)
      BY <1>11 DEF RecoverSubmitted
    <2> QED BY <1>3, <1>4, <2>1, RaceConfirms, RaceGivesUp
  <1> QED BY <1>5, <1>6, <1>7, <1>8, <1>9, <1>10, <1>11 DEF Work

-----------------------------------------------------------------------------
(* The steps around processRecord.                                         *)

\* A handler goes on outside processRecord: it may close the row it has reserved.
LEMMA RaceOutside ==
    ASSUME Inv, Inv', RaceInv, NEW h \in Requests, pc[h] \notin WorkPcs \cup Replies,
           NEW label \in Pcs \ WorkPcs, Goto(h, label),
           \/ UNCHANGED row
           \/ \E w \in Row : /\ SetRow(h, w) /\ w.status # "pending"
                             /\ w.retries \in {row[h].retries, row[h].retries + 1},
           UNCHANGED <<job, todo, tx, crashes>>
    PROVE  RaceInv'
  <1>1. h \in Procs /\ h # Retry
    BY RelayerAssumption DEF Procs
  <1>2. pc'[h] = label /\ \A o \in Procs : o # h => pc'[o] = pc[o]
    BY <1>1 DEF Inv, TypeOK, Goto
  <1>3. \A r \in Requests : \A o \in Workers(r) :
           /\ Copies(o, r)' = Copies(o, r)
           /\ Signing(o, r)' <=> Signing(o, r)
           /\ Alive(o)' => Alive(o)
    <2> SUFFICES ASSUME NEW r \in Requests, NEW o \in Workers(r)
                 PROVE  /\ Copies(o, r)' = Copies(o, r)
                        /\ Signing(o, r)' <=> Signing(o, r)
                        /\ Alive(o)' => Alive(o)
      OBVIOUS
    <2>1. o \in Procs
      BY DEF Workers, Procs
    <2>2. CASE o = h
      BY <1>1, <1>2, <2>2 DEF Copies, Held, Signing, Alive, WorkPcs
    <2>3. CASE o # h
      BY <1>2, <2>1, <2>3 DEF Copies, Held, Signing, Alive, Req
    <2> QED BY <2>2, <2>3
  <1>4. \A r : SentFor(r)' = SentFor(r)
    BY DEF SentFor
  <1>5. ASSUME NEW r \in Requests, row'[r] = row[r] PROVE RaceAt(r)'
    BY <1>3, <1>4, <1>5, RaceFrame DEF RaceInv
  <1>6. ASSUME NEW w \in Row, SetRow(h, w), w.status # "pending",
               w.retries \in {row[h].retries, row[h].retries + 1}
        PROVE  RaceAt(h)'
    <2>1. row'[h] = w
      BY <1>6 DEF SetRow, Inv, TypeOK
    <2>2. Copies(h, h) = {}
      BY <1>1 DEF Copies, Held
    <2>3. Drops(h, Retry, h) /\ Pair(h, Retry, h)
      BY <1>3, <1>4, <2>2 DEF Drops, Pair, Workers
    <2> QED BY <1>6, <2>1, <2>3, RaceClosed DEF RaceInv
  <1>7. ASSUME NEW r \in Requests PROVE RaceAt(r)'
    <2>1. r # h => row'[r] = row[r]
      BY DEF SetRow, Inv, TypeOK
    <2> QED BY <1>5, <1>6, <2>1
  <1>8. StepsFit'
    <2>1. \A o \in Procs : pc'[o] \in PendingPcs => Rec(o)'.status = "pending"
      BY <1>1, <1>2 DEF RaceInv, StepsFit, Rec, PendingPcs, WorkPcs
    <2>2. pc'[Retry] = pc[Retry]
      BY <1>1, <1>2 DEF Procs
    <2> QED BY <2>1, <2>2 DEF RaceInv, StepsFit, Req
  <1> QED BY <1>7, <1>8 DEF RaceInv

\* A request is reserved: nothing was sent for it yet, and nobody has a copy.
LEMMA RaceReserves ==
    ASSUME Inv, Inv', RaceInv, NEW h \in Requests, Reserve(h)
    PROVE  RaceInv'
  <1>1. h \in Procs /\ h # Retry /\ pc[h] = "idle" /\ ~Stored(h)
    BY RelayerAssumption DEF Procs, Reserve, Stored
  <1>2. UNCHANGED <<job, todo, tx, crashes>>
    BY DEF Reserve, chain
  <1>3. pc'[h] = "relayFetch" /\ \A o \in Procs : o # h => pc'[o] = pc[o]
    BY <1>1 DEF Inv, TypeOK, Goto, Reserve
  <1>4. row'[h] = PendingRow /\ \A r \in Requests : r # h => row'[r] = row[r]
    BY DEF Inv, TypeOK, SetRow, Reserve
  <1>5. ASSUME NEW r \in Requests, NEW o \in Workers(r)
        PROVE  /\ Copies(o, r)' = Copies(o, r)
               /\ Signing(o, r)' <=> Signing(o, r)
               /\ Alive(o)' => Alive(o)
    <2>1. o \in Procs
      BY DEF Workers, Procs
    <2>2. CASE o = h
      BY <1>1, <1>2, <1>3, <2>2 DEF Copies, Held, Signing, Alive, WorkPcs, Replies
    <2>3. CASE o # h
      BY <1>2, <1>3, <2>1, <2>3 DEF Copies, Held, Signing, Alive, Req
    <2> QED BY <2>2, <2>3
  <1>6. \A r : SentFor(r)' = SentFor(r)
    BY <1>2 DEF SentFor
  <1>7. ASSUME NEW r \in Requests, r # h PROVE RaceAt(r)'
    BY <1>2, <1>4, <1>5, <1>6, <1>7, RaceFrame DEF RaceInv
  <1>8. RaceAt(h)'
    <2>1. SentFor(h) = {}
      BY <1>1 DEF SentFor, Inv, ChainOK
    <2>2. Copies(h, h) = {} /\ Copies(Retry, h) = {}
      BY <1>1 DEF Copies, Held, WorkPcs, Inv, TodoOK, WorkOK, Procs, Req
    <2>3. Copies(h, h)' = {} /\ Copies(Retry, h)' = {}
      BY <1>5, <2>2 DEF Workers
    <2>4. /\ ~Stale(h, h)' /\ ~Stale(Retry, h)'
          /\ Intends(h, h)' = 0 /\ Intends(Retry, h)' = 0
      BY <2>3 DEF Stale, Intends
    <2>5. IsFiniteSet(SentFor(h)') /\ Cardinality(SentFor(h)') = 0
      BY <1>6, <2>1, FS_EmptySet
    <2>6. row'[h].retries = 0
      BY <1>4 DEF PendingRow, NoRow
    <2>7. Budget(h)' = 2
      BY <2>6, RelayerAssumption DEF Budget
    <2>8. May(h, h)' \in {0, 1} /\ May(Retry, h)' \in {0, 1}
      BY DEF May
    <2>9. crashes' \in Nat
      BY DEF Inv, TypeOK
    <2>10. PaidFor(h)'
      BY <2>4, <2>5, <2>7, <2>8, <2>9 DEF PaidFor
    <2> QED BY <2>3, <2>4, <2>10 DEF RaceAt, CopiesAged, OneStale, Workers
  <1>9. StepsFit'
    <2>1. \A o \in Procs : pc'[o] \in PendingPcs => Rec(o)'.status = "pending"
      BY <1>2, <1>3 DEF RaceInv, StepsFit, Rec, PendingPcs
    <2>2. pc'[Retry] = pc[Retry]
      BY <1>1, <1>3 DEF Procs
    <2> QED BY <1>2, <2>1, <2>2 DEF RaceInv, StepsFit, Req
  <1> QED BY <1>7, <1>8, <1>9 DEF RaceInv

\* The handler takes a copy of its row.
LEMMA RaceHandlerPicks ==
    ASSUME Inv, Inv', RaceInv, NEW h \in Requests, HandlerPicks(h)
    PROVE  RaceInv'
  <1>1. h \in Procs /\ h # Retry /\ pc[h] = "wait" /\ row[h].status \in Open
    BY RelayerAssumption DEF Procs, HandlerPicks, Processable
  <1>2. UNCHANGED <<row, todo, tx, crashes>>
    BY DEF HandlerPicks, chain
  <1>3. /\ pc'[h] = "fetch" /\ job'[h] = [req |-> h, rec |-> row[h]]
        /\ \A o \in Procs : o # h => pc'[o] = pc[o] /\ job'[o] = job[o]
    BY <1>1 DEF Inv, TypeOK, Goto, HandlerPicks
  <1>4. \A r : SentFor(r)' = SentFor(r)
    BY <1>2 DEF SentFor
  <1>5. ASSUME NEW o \in Procs, o # h, NEW r
        PROVE  /\ Copies(o, r)' = Copies(o, r)
               /\ Signing(o, r)' <=> Signing(o, r)
               /\ Alive(o)' => Alive(o)
    BY <1>2, <1>3, <1>5 DEF Copies, Held, Signing, Alive, Req
  <1>6. ASSUME NEW r \in Requests, r # h PROVE RaceAt(r)'
    <2>1. \A o \in Workers(r) : o \in Procs /\ o # h
      BY <1>1, <1>6 DEF Workers, Procs
    <2> QED BY <1>2, <1>4, <1>5, <2>1, RaceFrame DEF RaceInv
  <1>7. RaceAt(h)'
    <2>1. Copies(h, h) = {} /\ Copies(h, h)' = {[req |-> h, rec |-> row[h]]}
      BY <1>1, <1>3 DEF Copies, Held, WorkPcs
    <2>2. Alive(h) /\ ~Signing(h, h)'
      BY <1>1, <1>3 DEF Alive, Replies, Signing
    <2>3. Retry \in Procs /\ Pair(h, Retry, h)
      BY DEF Procs, Pair
    <2> QED BY <1>1, <1>2, <1>4, <1>5, <2>1, <2>2, <2>3, RacePicked DEF RaceInv
  <1>8. StepsFit'
    <2>1. \A o \in Procs : pc'[o] \in PendingPcs => job'[o].rec.status = "pending"
      BY <1>3 DEF RaceInv, StepsFit, Rec, PendingPcs
    <2>2. pc'[Retry] = pc[Retry] /\ job'[Retry] = job[Retry]
      BY <1>1, <1>3 DEF Procs
    <2> QED BY <1>2, <2>1, <2>2 DEF RaceInv, StepsFit, Req, Rec
  <1> QED BY <1>6, <1>7, <1>8 DEF RaceInv

\* Every step of a handler outside processRecord.
LEMMA RaceHandles ==
    ASSUME Inv, Inv', RaceInv, NEW h \in Requests, Handler(h)
    PROVE  RaceInv'
  <1>1. CASE Reserve(h)
    BY <1>1, RaceReserves
  <1>2. CASE HandlerPicks(h)
    BY <1>2, RaceHandlerPicks
  <1> SUFFICES ASSUME ~Reserve(h), ~HandlerPicks(h) PROVE RaceInv'
    BY <1>1, <1>2
  <1>3. pc[h] \notin WorkPcs \cup Replies /\ UNCHANGED <<job, todo, tx, crashes>>
    BY DEF Handler, RejectDuplicate, RelayFetch, RelayCheck, RelayProve, Respond,
           WorkPcs, Replies, chain
  <1>4. row[h] \in Row
    BY DEF Inv, TypeOK
  <1>5. \E label \in Pcs \ WorkPcs : Goto(h, label)
    BY DEF Handler, RejectDuplicate, RelayFetch, RelayCheck, RelayProve, Respond,
           Refuse, Abandon, Answer, Pcs, WorkPcs, Replies
  <1>6. \/ UNCHANGED row
        \/ SetRow(h, MarkExpired(row[h]))
        \/ SetRow(h, MarkFailed(row[h], TRUE, TRUE))
    BY DEF Handler, RejectDuplicate, RelayFetch, RelayCheck, RelayProve, Respond,
           Refuse, Abandon
  <1>7. /\ MarkExpired(row[h]) \in Row /\ MarkExpired(row[h]).status = "expired"
        /\ MarkExpired(row[h]).retries = row[h].retries
    BY <1>4, RowOperators DEF MarkExpired, Row
  <1>8. MarkFailed(row[h], TRUE, TRUE) \in Row
    BY <1>4, RowFailed
  <1>9. /\ MarkFailed(row[h], TRUE, TRUE).status = "failed"
        /\ MarkFailed(row[h], TRUE, TRUE).retries = row[h].retries + 1
    BY <1>4 DEF MarkFailed, Row
  <1>10. \/ UNCHANGED row
         \/ \E w \in Row : /\ SetRow(h, w) /\ w.status # "pending"
                           /\ w.retries \in {row[h].retries, row[h].retries + 1}
    BY <1>6, <1>7, <1>8, <1>9
  <1> QED BY <1>3, <1>5, <1>10, RaceOutside

\* The retry manager's own steps: its copies are taken, handed on, used up.
LEMMA RaceTicks ==
    ASSUME Inv, Inv', RaceInv, RetryManager
    PROVE  RaceInv'
  <1>1. Retry \in Procs /\ Retry \notin Requests
    BY RelayerAssumption DEF Procs
  <1>2. UNCHANGED <<row, tx, crashes>> /\ pc[Retry] \in {"idle", "next"}
    BY DEF RetryManager, Tick, RetryPicks, TickEnds, chain
  <1>3. PICK label \in {"idle", "next", "fetch"} : Goto(Retry, label)
    BY DEF RetryManager, Tick, RetryPicks, TickEnds
  <1>4. pc'[Retry] = label /\ \A r \in Requests : pc'[r] = pc[r]
    BY <1>1, <1>3 DEF Inv, TypeOK, Procs, Goto
  <1>5. \A r \in Requests : job'[r] = job[r]
    BY <1>1 DEF RetryManager, Tick, RetryPicks, TickEnds, Inv, TypeOK, Procs
  <1>6. \A r : SentFor(r)' = SentFor(r)
    BY <1>2 DEF SentFor
  <1>7. ASSUME NEW r \in Requests
        PROVE  /\ Copies(r, r)' = Copies(r, r)
               /\ Signing(r, r)' <=> Signing(r, r)
               /\ Alive(r)' => Alive(r)
    <2>1. r # Retry
      BY <1>1
    <2> QED BY <1>4, <1>5, <2>1 DEF Copies, Held, Signing, Alive, Req
  <1>8. /\ \A r : ~Signing(Retry, r) /\ ~Signing(Retry, r)'
        /\ Alive(Retry) /\ Alive(Retry)'
    BY <1>2, <1>4 DEF Signing, Alive
  <1>9. ASSUME NEW r \in Requests, Copies(Retry, r)' = Copies(Retry, r) PROVE RaceAt(r)'
    BY <1>2, <1>6, <1>7, <1>8, <1>9, RaceFrame DEF RaceInv, Workers
  <1>10. CASE Tick
    <2>1. pc[Retry] = "idle" /\ pc'[Retry] = "next" /\ todo = {}
      BY <1>1, <1>10 DEF Tick, Goto, Inv, TypeOK, RaceInv, StepsFit
    <2>2. todo' = {[req |-> r, rec |-> row[r]] : r \in {q \in Requests : Processable(row[q])}}
      BY <1>10 DEF Tick
    <2>3. \A r \in Requests : Copies(Retry, r) = {}
      BY <2>1 DEF Copies, Held, WorkPcs
    <2>4. \A r \in Requests : Copies(Retry, r)' =
             IF Processable(row[r]) THEN {[req |-> r, rec |-> row[r]]} ELSE {}
      BY <2>1, <2>2 DEF Copies, Held, WorkPcs
    <2>5. ASSUME NEW r \in Requests PROVE RaceAt(r)'
      <3>1. CASE Processable(row[r])
        <4>1. Copies(Retry, r)' = {[req |-> r, rec |-> row[r]]} /\ row[r].status \in Open
          BY <2>4, <3>1 DEF Processable
        <4>2. Pair(Retry, r, r)
          BY DEF Pair
        <4> QED BY <1>2, <1>6, <1>7, <1>8, <2>3, <4>1, <4>2, RacePicked DEF RaceInv
      <3>2. CASE ~Processable(row[r])
        BY <1>9, <2>3, <2>4, <3>2
      <3> QED BY <3>1, <3>2
    <2>6. StepsFit'
      <3>1. \A o \in Procs : pc'[o] \in PendingPcs => Rec(o)'.status = "pending"
        BY <1>4, <1>5, <2>1 DEF RaceInv, StepsFit, Rec, PendingPcs, Procs
      <3> QED BY <2>1, <3>1 DEF StepsFit, WorkPcs
    <2> QED BY <2>5, <2>6 DEF RaceInv
  <1>11. CASE RetryPicks
    <2>1. PICK j \in todo : job' = [job EXCEPT ![Retry] = j] /\ todo' = todo \ {j}
      BY <1>11 DEF RetryPicks
    <2>2. job'[Retry] = j /\ pc[Retry] = "next" /\ pc'[Retry] = "fetch"
      BY <1>1, <1>11, <2>1 DEF RetryPicks, Goto, Inv, TypeOK
    <2>3. \A r \in Requests : Copies(Retry, r)' = Copies(Retry, r)
      BY <2>1, <2>2 DEF Copies, Held, WorkPcs
    <2>4. ASSUME NEW k \in todo' PROVE k.req # j.req
      <3>1. j.req \in Requests /\ k \in todo /\ k # j
        BY <2>1 DEF Inv, TypeOK, Job
      <3>2. Retry \in Workers(j.req) /\ j \in Copies(Retry, j.req)
        BY <2>1 DEF Workers, Copies, Held
      <3>3. k.req = j.req => k \in Copies(Retry, j.req)
        BY <3>1 DEF Copies, Held
      <3> QED BY <3>1, <3>2, <3>3 DEF RaceInv, RaceAt, CopiesAged
    <2>5. StepsFit'
      <3>1. \A o \in Procs : pc'[o] \in PendingPcs => Rec(o)'.status = "pending"
        BY <1>4, <1>5, <2>2 DEF RaceInv, StepsFit, Rec, PendingPcs, Procs
      <3> QED BY <2>2, <2>4, <3>1 DEF StepsFit, Req
    <2> QED BY <1>9, <2>3, <2>5 DEF RaceInv
  <1>12. CASE TickEnds
    <2>1. todo = {} /\ todo' = {} /\ pc[Retry] = "next" /\ pc'[Retry] = "idle"
      BY <1>1, <1>12 DEF TickEnds, Goto, Inv, TypeOK
    <2>2. \A r \in Requests : Copies(Retry, r)' = Copies(Retry, r)
      BY <2>1 DEF Copies, Held, WorkPcs
    <2>3. StepsFit'
      <3>1. \A o \in Procs : pc'[o] \in PendingPcs => Rec(o)'.status = "pending"
        BY <1>4, <1>5, <2>1 DEF RaceInv, StepsFit, Rec, PendingPcs, Procs
      <3> QED BY <2>1, <3>1 DEF StepsFit, WorkPcs
    <2> QED BY <1>9, <2>2, <2>3 DEF RaceInv
  <1> QED BY <1>10, <1>11, <1>12 DEF RetryManager

\* Time, the cluster and other users: no row, copy or count is touched.
LEMMA RaceRests ==
    ASSUME Inv, Inv', RaceInv, UNCHANGED <<pc, job, todo, crashes>>,
           \A r \in Requests : /\ row'[r].status = row[r].status
                               /\ row'[r].retries = row[r].retries,
           \A t \in TxIds : /\ tx'[t] # Unsent <=> tx[t] # Unsent
                            /\ tx[t] # Unsent => tx'[t].req = tx[t].req
    PROVE  RaceInv'
  <1>1. \A r : SentFor(r)' = SentFor(r)
    BY DEF SentFor
  <1>2. ASSUME NEW r \in Requests PROVE RaceAt(r)'
    <2>1. \A o \in Workers(r) : /\ Copies(o, r)' = Copies(o, r)
                                /\ Signing(o, r)' <=> Signing(o, r)
                                /\ Alive(o)' => Alive(o)
      BY DEF Copies, Held, Signing, Alive, Req
    <2> QED BY <1>1, <2>1, RaceFrame DEF RaceInv
  <1>3. StepsFit'
    BY DEF RaceInv, StepsFit, Rec, Req
  <1> QED BY <1>2, <1>3 DEF RaceInv

\* A crash takes all copies: the next tick may submit the row once more, which
\* the crash itself pays for.
LEMMA RaceCrash ==
    ASSUME Inv, Inv', RaceInv, Crash
    PROVE  RaceInv'
  <1>1. UNCHANGED <<row, tx>> /\ todo' = {} /\ crashes' = crashes + 1
    BY DEF Crash, chain
  <1>2. /\ pc'[Retry] = "idle"
        /\ \A r \in Requests : pc'[r] = IF pc[r] \in Replies \cup {"idle"} THEN pc[r] ELSE "dropped"
    BY RelayerAssumption DEF Crash, Procs
  <1>3. \A o \in Procs : pc'[o] \notin WorkPcs
    BY <1>2 DEF Procs, WorkPcs, Replies
  <1>4. ASSUME NEW r \in Requests PROVE RaceAt(r)'
    <2>1. Pair(Retry, r, r)
      BY DEF Pair
    <2>2. \A o \in Procs : Copies(o, r)' = {}
      BY <1>1, <1>3 DEF Copies, Held
    <2>3. \A o \in {r, Retry} : ~Stale(o, r)' /\ Intends(o, r)' = 0
      BY <2>2 DEF Stale, Intends, Procs
    <2>4. Alive(r)' => row'[r].status # "pending"
      <3>1. Alive(r)' => pc[r] = "idle"
        BY <1>2, RelayerAssumption DEF Alive, Replies
      <3> QED BY <1>1, <3>1 DEF Inv, ReplyOK, Stored
    <2>5. May(r, r)' = 0 /\ May(Retry, r)' \in {0, 1}
      BY <2>3, <2>4 DEF May
    <2>6. SentFor(r)' = SentFor(r)
      BY <1>1 DEF SentFor
    <2>7. Budget(r)' = IF MaxRetries = 0 THEN 2
                       ELSE IF row[r].retries < MaxRetries THEN 2 * (row[r].retries + 1)
                       ELSE 2 * MaxRetries + 3
      BY <1>1, <2>3 DEF Budget
    <2>8. RaceAt(r)
      BY DEF RaceInv
    <2>9. Budget(r)' >= Budget(r) /\ Budget(r)' \in Nat /\ Budget(r) \in Nat
      BY <2>1, <2>7, <2>8, RaceCounted
    <2>10. PaidFor(r)'
      BY <1>1, <2>1, <2>3, <2>5, <2>6, <2>8, <2>9, RaceCounted, RaceRecounted
    <2> QED BY <2>2, <2>3, <2>10 DEF RaceAt, CopiesAged, OneStale, Workers, Procs
  <1>5. StepsFit'
    BY <1>1, <1>2, <1>3 DEF StepsFit, PendingPcs, WorkPcs
  <1> QED BY <1>4, <1>5 DEF RaceInv

\* The relayer starts with nothing sent and no copies.
LEMMA RaceInit == Init => RaceInv
  <1> SUFFICES ASSUME Init PROVE RaceInv
    OBVIOUS
  <1> USE RelayerAssumption
  <1>1. Inv
    BY InitInv
  <1>2. \A o \in Procs : pc[o] \in {"idle", "dropped"} /\ (pc[o] = "dropped" <=> o \in Backlog)
    BY DEF Init
  <1>3. pc[Retry] = "idle" /\ todo = {} /\ Retry \in Procs
    BY DEF Init, Procs
  <1>4. ASSUME NEW r \in Requests PROVE RaceAt(r)
    <2>1. Pair(Retry, r, r) /\ r \in Procs
      BY DEF Pair, Procs
    <2>2. \A o \in Procs : Copies(o, r) = {}
      BY <1>2, <1>3 DEF Copies, Held, WorkPcs
    <2>3. \A o \in {r, Retry} : ~Stale(o, r) /\ Intends(o, r) = 0
      BY <1>3, <2>1, <2>2 DEF Stale, Intends
    <2>4. row[r].retries = 0 /\ (r \notin Backlog => row[r].status = "none")
      BY DEF Init, PendingRow, NoRow
    <2>5. May(r, r) = 0 /\ May(Retry, r) \in {0, 1}
      BY <1>2, <2>1, <2>3, <2>4 DEF May, Alive, Replies
    <2>6. SentFor(r) = {}
      BY DEF Init, SentFor
    <2>7. IsFiniteSet(SentFor(r)) /\ Cardinality(SentFor(r)) = 0
      BY <2>6, FS_EmptySet
    <2>8. Budget(r) = 2
      BY <2>4 DEF Budget
    <2>9. crashes = 0
      BY DEF Init
    <2>10. PaidFor(r)
      BY <2>1, <2>3, <2>5, <2>7, <2>8, <2>9 DEF PaidFor
    <2> QED BY <1>3, <2>1, <2>2, <2>3, <2>10 DEF RaceAt, CopiesAged, OneStale, Workers
  <1>5. StepsFit
    BY <1>2, <1>3 DEF StepsFit, PendingPcs, WorkPcs
  <1> QED BY <1>4, <1>5 DEF RaceInv

\* Every step preserves RaceInv.
LEMMA RaceNext == ASSUME Inv, Inv', RaceInv, [Next]_vars PROVE RaceInv'
  <1>1. CASE \E r \in Requests : Handler(r)
    BY <1>1, RaceHandles
  <1>2. CASE RetryManager
    BY <1>2, RaceTicks
  <1>3. CASE \E p \in Procs : Work(p)
    BY <1>3, RaceWorks
  <1>4. CASE \E r \in Requests : TimePasses(r)
    <2>1. PICK r \in Requests : TimePasses(r)
      BY <1>4
    <2>2. \A q \in Requests : row'[q].status = row[q].status /\ row'[q].retries = row[q].retries
      BY <2>1 DEF TimePasses, SetRow, Inv, TypeOK, Row
    <2> QED BY <2>1, <2>2, RaceRests DEF TimePasses, procs, chain
  <1>5. CASE UNCHANGED <<row, pc, job, todo, crashes, tx>>
    BY <1>5, RaceRests
  <1>6. CASE \E t \in TxIds : Execute(t) \/ Expire(t)
    <2>1. PICK t \in TxIds : Execute(t) \/ Expire(t)
      BY <1>6
    <2>2. UNCHANGED <<row, pc, job, todo, crashes>>
      BY <2>1 DEF Execute, Expire, procs
    <2>3. tx[t] \in Tx /\ tx \in [TxIds -> Tx \cup {Unsent}]
      BY <2>1 DEF Execute, Expire, Inv, TypeOK, Unsent
    <2>4. /\ \A u \in TxIds : u # t => tx'[u] = tx[u]
          /\ \/ tx'[t] = [tx[t] EXCEPT !.live = FALSE]
             \/ \E s \in {"landed", "failed"} : tx'[t] = [tx[t] EXCEPT !.state = s]
      BY <2>1, <2>3 DEF Execute, Expire
    <2>5. tx'[t] \in Tx /\ tx'[t].req = tx[t].req
      BY <2>3, <2>4 DEF Tx
    <2>6. \A x \in Tx : x # Unsent
      BY DEF Tx, Unsent
    <2> QED BY <2>2, <2>3, <2>4, <2>5, <2>6, RaceRests
  <1>7. CASE (\E r \in Requests : RootAgesOut(r)) \/ \E n \in Nullifiers : SpendElsewhere(n)
    BY <1>5, <1>7 DEF RootAgesOut, SpendElsewhere, procs
  <1>8. CASE Crash
    BY <1>8, RaceCrash
  <1>9. CASE UNCHANGED vars
    BY <1>5, <1>9 DEF vars, procs, chain
  <1> QED BY <1>1, <1>2, <1>3, <1>4, <1>6, <1>7, <1>8, <1>9 DEF Next, Environment

\* RaceInv holds throughout, whatever works on the rows and however it crashes.
THEOREM RaceInvAlways == Spec => []RaceInv
  <1>1. Inv /\ Inv' /\ RaceInv /\ [Next]_vars => RaceInv'
    BY RaceNext
  <1> QED BY <1>1, RaceInit, InvAlways, PTL DEF Spec

\* A handler and the retry manager that work on a row at the same time each act on
\* their own copy of it: a failure is counted in the row but judged by the copy, so
\* a retry that one of them grants hands the row to both.  Every retry may then cost
\* two transactions, and a copy from before the last retry one more; every crash
\* hides one more transaction from the row.  That is more than the MAX_RETRIES + 1
\* of SubmissionsBounded, and there is never more than that.
RacedLimit == IF MaxRetries = 0 THEN 2 ELSE 2 * MaxRetries + 3
RacedSubmissionsBounded ==
    \A r \in Requests :
        Cardinality({t \in TxIds : tx[t] # Unsent /\ tx[t].req = r}) <= RacedLimit + crashes

\* However a handler and the retry manager reopen a row under each other, and
\* wherever the relayer crashes, the transactions sent for a request stay bounded:
\* the retry limit is exceeded, but by no more than RacedLimit says.
THEOREM SubmissionsUnderRace == Spec => []RacedSubmissionsBounded
  <1>1. Inv /\ RaceInv => RacedSubmissionsBounded
    <2> SUFFICES ASSUME Inv, RaceInv, NEW r \in Requests
                 PROVE  Cardinality(SentFor(r)) <= RacedLimit + crashes
      BY DEF RacedSubmissionsBounded, SentFor
    <2>1. Pair(Retry, r, r) /\ RaceAt(r)
      BY DEF Pair, RaceInv
    <2>2. Budget(r) <= RacedLimit
      BY <2>1, RaceCounted DEF RacedLimit
    <2>3. RacedLimit \in Nat /\ Budget(r) \in Nat
      BY RaceNumbers DEF RacedLimit
    <2> QED BY <2>1, <2>2, <2>3, RaceCounted
  <1> QED BY <1>1, RaceInvAlways, InvAlways, PTL
=============================================================================
