----------------------------- MODULE RelayStore -----------------------------
(***************************************************************************)
(* The relay_requests table of relayer/src/store.ts: what a row holds and  *)
(* what each UPDATE of the store does to it.  Every UPDATE selects its row *)
(* by id alone, so none of these operators looks at the status it          *)
(* overwrites.                                                             *)
(*                                                                         *)
(* Abstractions.  next_attempt_at is kept as `due', "next_attempt_at <=    *)
(* now": a delay is a row that is not due until time passes.  The columns  *)
(* error, submitted_at and updated_at only feed messages and metrics and   *)
(* are left out; protocol_fee and relayer_fee are the flag `fees', "the    *)
(* fee breakdown has been recorded".  Signatures are numbered in the order *)
(* the transactions were signed and 0 is null.  last_valid_block_height    *)
(* says when a blockhash stops being valid; each transaction gets its own  *)
(* blockhash, so the column holds the number of that transaction.          *)
(***************************************************************************)
EXTENDS Naturals

CONSTANT TxIds     \* transaction signatures

ASSUME StoreAssumption == TxIds \subseteq Nat \ {0}

NoTx == 0          \* a null tx_signature or last_valid_block_height

Open     == {"pending", "submitted"}             \* what getProcessable selects
Terminal == {"confirmed", "failed", "expired"}   \* what ends waitForTerminalState

Row == [status  : {"none"} \cup Open \cup Terminal,
        sig     : TxIds \cup {NoTx},
        lvh     : TxIds \cup {NoTx},
        retries : Nat,
        due     : BOOLEAN,
        fees    : BOOLEAN]

NoRow == [status |-> "none", sig |-> NoTx, lvh |-> NoTx, retries |-> 0,
          due |-> FALSE, fees |-> FALSE]

\* reservePending inserts a pending row whose next attempt is its arrival time.
PendingRow == [NoRow EXCEPT !.status = "pending", !.due = TRUE]

MarkSubmitted(w, t) ==
    [w EXCEPT !.status = "submitted", !.sig = t, !.lvh = t, !.due = TRUE]

\* Mutant of MarkConfirmed: the signature is overwritten with null.
MarkConfirmedNull(w, t) == [w EXCEPT !.status = "confirmed", !.sig = t, !.due = TRUE]

\* A null signature keeps the one the row has.
MarkConfirmed(w, t) ==
    [w EXCEPT !.status = "confirmed", !.sig = IF t = NoTx THEN @ ELSE t, !.due = TRUE]

RecordFeeBreakdown(w) == [w EXCEPT !.fees = TRUE]

RescheduleSubmitted(w, now) == [w EXCEPT !.status = "submitted", !.due = now]

\* A final failure ends the row, any other one reopens it for submission after
\* the backoff; the retry counter grows in both cases.
MarkFailed(w, final, clear) ==
    [w EXCEPT !.status  = IF final THEN "failed" ELSE "pending",
              !.sig     = IF clear THEN NoTx ELSE @,
              !.lvh     = IF clear THEN NoTx ELSE @,
              !.retries = @ + 1,
              !.due     = final]

\* Mutant of MarkExpired: the row goes to a status no reader knows.
MarkExpiredOdd(w) == [w EXCEPT !.status = "rejected", !.due = TRUE]

MarkExpired(w) == [w EXCEPT !.status = "expired", !.due = TRUE]

\* Mutant of Processable: the status filter of the query is missing.
ProcessableAny(w) == w.status # "none" /\ w.due

Processable(w) == w.status \in Open /\ w.due
=============================================================================
