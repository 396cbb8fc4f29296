------------------------------ MODULE Relayer ------------------------------
(***************************************************************************)
(* The production relayer: the HTTP handler of POST /relay, the service    *)
(* that drives a persisted request to a terminal state, and the background *)
(* RetryManager that drives the same rows concurrently (relayer/src/       *)
(* service.ts, retry.ts, tx-builder.ts), over a Solana cluster that may    *)
(* lose, delay or reject what it is sent.                                  *)
(*                                                                         *)
(* The relayer is one Node process, so a step runs from one `await' to the *)
(* next without interruption, and everything else may happen in between.   *)
(* Each request's handler and the retry manager are processes; each await  *)
(* is a value of `pc'.  A process works on `job', the copy of the row it   *)
(* read before it started, while every store update goes to the row that   *)
(* is in the table by then.                                                *)
(*                                                                         *)
(* Requests are identified with the rows they insert.  Parsing, signatures *)
(* and request ages (auth.ts) are abstracted: a request here is one whose  *)
(* envelope and payload are accepted.                                      *)
(***************************************************************************)
EXTENDS RelayStore, FiniteSets

CONSTANTS
    Requests,          \* requests posted to /relay
    Nullifiers,
    NullifierOf,       \* the nullifier hash each request spends
    Backlog,           \* requests already pending in the database at start-up
    ProofOk,           \* requests whose proof verifies against a known root
    FeeOk,             \* requests that sign the fee the relayer expects
    FeeExcessive,      \* requests whose fee leaves nothing for the recipient
    Retry,             \* the retry manager
    External,          \* a spender that is not this relayer
    NullifierVersion,  \* 0: nullifiers live in the pool account, 1: in PDAs
    MaxRetries,        \* MAX_RETRIES
    MaxFaults,         \* bound on RPC failures
    MaxCrashes         \* bound on relayer crashes

ASSUME RelayerAssumption ==
    /\ Retry \notin Requests
    /\ External \notin Nat
    /\ NullifierOf \in [Requests -> Nullifiers]
    /\ Backlog \subseteq Requests /\ ProofOk \subseteq Requests
    /\ FeeOk \subseteq Requests /\ FeeExcessive \subseteq Requests
    /\ \A q, r \in Backlog : NullifierOf[q] = NullifierOf[r] => q = r
    /\ NullifierVersion \in {0, 1}
    /\ MaxRetries \in Nat /\ MaxFaults \in Nat /\ MaxCrashes \in Nat

Procs == Requests \cup {Retry}

VARIABLES
    row,        \* the table: row[r].status = "none" until r is reserved
    pc,         \* where each process is suspended
    job,        \* the request a process works on and its copy of the row
    todo,       \* the copies the current retry tick has still to process
    seen,       \* what the last fetchPoolState of a process returned
    verified,   \* requests whose checks in relay() have all passed
    tx,         \* transactions handed to the cluster
    spentBy,    \* what spent each nullifier on chain
    good,       \* would the proof of r pass on chain now?
    faults, crashes

procs == <<pc, job, todo, seen, verified>>
chain == <<tx, spentBy, good>>
vars  == <<row, procs, chain, faults, crashes>>

-----------------------------------------------------------------------------
(* Types and initial state.                                                *)

Job    == [req : Requests, rec : Row]      \* a request and a copy of its row
NoJob  == [none |-> TRUE]
Tx     == [req   : Requests,
           state : {"inflight", "lost", "landed", "failed"},
           live  : BOOLEAN]                \* is its blockhash still valid?
Unsent == [state |-> "unsent"]
Unseen == [spent |-> FALSE, good |-> FALSE]

Replies == {"ok", "rejected", "error", "dropped"}  \* how the HTTP call ended
WorkPcs == {"fetch", "send", "sent", "recoverPending", "status", "spentCheck",
            "heightCheck", "recoverSubmitted"}     \* awaits of processRecord
Pcs     == {"idle", "relayFetch", "relayCheck", "relayProve", "wait", "next"}
           \cup WorkPcs \cup Replies

Spent(r)  == spentBy[NullifierOf[r]] # NoTx
Stored(r) == row[r].status # "none"

\* The state a relayer process starts from: the rows of Backlog were accepted
\* and verified by an earlier process that has stopped since.
Init ==
    /\ row = [r \in Requests |-> IF r \in Backlog THEN PendingRow ELSE NoRow]
    /\ pc = [p \in Procs |-> IF p \in Backlog THEN "dropped" ELSE "idle"]
    /\ job = [p \in Procs |-> NoJob]
    /\ todo = {}
    /\ seen = [p \in Procs |-> Unseen]
    /\ verified = Backlog
    /\ tx = [t \in TxIds |-> Unsent]
    /\ spentBy = [n \in Nullifiers |-> NoTx]
    /\ good = [r \in Requests |-> r \in ProofOk]
    /\ faults = 0
    /\ crashes = 0

-----------------------------------------------------------------------------
(* Shorthands for one step of a process.                                   *)

Goto(p, label) == pc' = [pc EXCEPT ![p] = label]

SetRow(r, w) == row' = [row EXCEPT ![r] = w]

\* An RPC call fails, or the reading of a file.
Fault == faults < MaxFaults /\ faults' = faults + 1

\* fetchDecodedPoolAccount tells from the account which kind of pool it is; only the
\* first kind holds the nullifiers used so far.
ListedSpent(r) == NullifierVersion = 0 /\ Spent(r)

\* What fetchPoolState tells p about request r: the nullifiers used so far, if
\* the pool account holds them, and for the verifier the known roots.
FetchPool(p, r, ok) == seen' = [seen EXCEPT ![p] = [spent |-> ListedSpent(r), good |-> ok]]

\* isNullifierUsed looks in the fetched pool account, or up the nullifier's PDA.
LookupFault == NullifierVersion = 1 /\ Fault
NullifierUsed(p, r) == IF NullifierVersion = 0 THEN seen[p].spent ELSE Spent(r)

-----------------------------------------------------------------------------
(* relay(): the HTTP handler up to the end of the verification.            *)

\* Mutant of Reserve: the table has no unique index on nullifier_hash.
ReserveUnguarded(r) ==
    /\ pc[r] = "idle"
    /\ SetRow(r, PendingRow)
    /\ Goto(r, "relayFetch")
    /\ UNCHANGED <<job, todo, seen, verified, chain, faults, crashes>>

\* The row is reserved, in one database transaction, before anything is checked.
Reserve(r) ==
    /\ pc[r] = "idle"
    /\ \A q \in Requests : Stored(q) => NullifierOf[q] # NullifierOf[r]
    /\ SetRow(r, PendingRow)
    /\ Goto(r, "relayFetch")
    /\ UNCHANGED <<job, todo, seen, verified, chain, faults, crashes>>

\* The unique index on nullifier_hash refuses the insert.
RejectDuplicate(r) ==
    /\ pc[r] = "idle"
    /\ \E q \in Requests : Stored(q) /\ NullifierOf[q] = NullifierOf[r]
    /\ Goto(r, "rejected")
    /\ UNCHANGED <<row, job, todo, seen, verified, chain, faults, crashes>>

\* finalizeReservedRecord, for an error below 500 and for any other one.
Refuse(r) == SetRow(r, MarkExpired(row[r])) /\ Goto(r, "rejected")
Abandon(r) == SetRow(r, MarkFailed(row[r], TRUE, TRUE)) /\ Goto(r, "error")

\* A failed fetch of the pool account surfaces as a 404, whatever made it fail;
\* a failed fetch of the mint is no RelayerError at all.
RelayFetch(r) ==
    /\ pc[r] = "relayFetch"
    /\ \/ FetchPool(r, r, good[r]) /\ Goto(r, "relayCheck") /\ UNCHANGED <<row, faults>>
       \/ Fault /\ (Refuse(r) \/ Abandon(r)) /\ UNCHANGED seen
    /\ UNCHANGED <<job, todo, verified, chain, crashes>>

\* isNullifierUsed, then the comparison of the signed fee with the expected one,
\* which may itself be more than the pool pays out.
RelayCheck(r) ==
    /\ pc[r] = "relayCheck"
    /\ \/ /\ NullifierUsed(r, r) \/ r \notin FeeOk
          /\ Refuse(r) /\ UNCHANGED faults
       \/ /\ ~NullifierUsed(r, r) /\ r \in FeeOk \cap FeeExcessive
          /\ Abandon(r) /\ UNCHANGED faults
       \/ /\ ~NullifierUsed(r, r) /\ r \in FeeOk \ FeeExcessive
          /\ Goto(r, "relayProve") /\ UNCHANGED <<row, faults>>
       \/ LookupFault /\ Abandon(r)
    /\ UNCHANGED <<job, todo, seen, verified, chain, crashes>>

\* verifyRelayProof, against the roots fetched earlier; without a verification key
\* for the pool it cannot tell.
RelayProve(r) ==
    /\ pc[r] = "relayProve"
    /\ \/ /\ seen[r].good
          /\ Goto(r, "wait")
          /\ verified' = verified \cup {r}
          /\ UNCHANGED <<row, faults>>
       \/ /\ ~seen[r].good
          /\ Refuse(r) /\ UNCHANGED <<verified, faults>>
       \/ Fault /\ Abandon(r) /\ UNCHANGED verified
    /\ seen' = [seen EXCEPT ![r] = Unseen]
    /\ UNCHANGED <<job, todo, chain, crashes>>

-----------------------------------------------------------------------------
(* Who picks a row up: waitForTerminalState and the retry manager.         *)

\* Mutant of Respond: only a confirmed row ends the wait.
RespondToSuccess(r) ==
    /\ pc[r] = "wait"
    /\ row[r].status = "confirmed"
    /\ Goto(r, IF row[r].sig # NoTx THEN "ok" ELSE "error")
    /\ UNCHANGED <<row, job, todo, seen, verified, chain, faults, crashes>>

\* A confirmed row without a signature cannot be turned into a success payload.
Answer(w) == IF w.status = "confirmed" /\ w.sig # NoTx THEN "ok" ELSE "error"

\* The handler answers once its row is terminal.
Respond(r) ==
    /\ pc[r] = "wait"
    /\ row[r].status \in Terminal
    /\ Goto(r, Answer(row[r]))
    /\ UNCHANGED <<row, job, todo, seen, verified, chain, faults, crashes>>

HandlerPicks(r) ==
    /\ pc[r] = "wait"
    /\ Processable(row[r])
    /\ job' = [job EXCEPT ![r] = [req |-> r, rec |-> row[r]]]
    /\ Goto(r, "fetch")
    /\ UNCHANGED <<row, todo, seen, verified, chain, faults, crashes>>

\* tick(): one query copies every due row; the copies are then processed one
\* after the other.  inFlight keeps a second tick from starting meanwhile.
Tick ==
    /\ pc[Retry] = "idle"
    /\ \E r \in Requests : Processable(row[r])
    /\ todo' = {[req |-> r, rec |-> row[r]] : r \in {q \in Requests : Processable(row[q])}}
    /\ Goto(Retry, "next")
    /\ UNCHANGED <<row, job, seen, verified, chain, faults, crashes>>

RetryPicks ==
    /\ pc[Retry] = "next"
    /\ \E j \in todo :
          /\ job' = [job EXCEPT ![Retry] = j]
          /\ todo' = todo \ {j}
    /\ Goto(Retry, "fetch")
    /\ UNCHANGED <<row, seen, verified, chain, faults, crashes>>

TickEnds ==
    /\ pc[Retry] = "next"
    /\ todo = {}
    /\ Goto(Retry, "idle")
    /\ UNCHANGED <<row, job, todo, seen, verified, chain, faults, crashes>>

-----------------------------------------------------------------------------
(* processRecord: one pass over a copy of a row.                           *)

At(p, label) == pc[p] = label
Req(p) == job[p].req
Rec(p) == job[p].rec

\* processRecord returns: the handler loops, the retry manager takes its next
\* copy.  `label' is where the handler goes when processRecord throws instead.
Leave(p, label) ==
    /\ Goto(p, IF p = Retry THEN "next" ELSE label)
    /\ job' = [job EXCEPT ![p] = NoJob]
    /\ seen' = [seen EXCEPT ![p] = Unseen]
Return(p) == Leave(p, "wait")

\* Mutant of HandleSubmissionFailure: the limit is off by one.
HandleSubmissionFailureLate(p, retryable) ==
    LET final == ~retryable \/ Rec(p).retries > MaxRetries
    IN  /\ SetRow(Req(p), MarkFailed(row[Req(p)], final,
                                     ~(final /\ Rec(p).status = "submitted")))
        /\ Return(p)

\* handleSubmissionFailure: whether the failure is final, and whether the
\* submission survives it, is decided from the copy.
HandleSubmissionFailure(p, retryable) ==
    LET final == ~retryable \/ Rec(p).retries >= MaxRetries
    IN  /\ SetRow(Req(p), MarkFailed(row[Req(p)], final,
                                     ~(final /\ Rec(p).status = "submitted")))
        /\ Return(p)

Reschedule(p) == SetRow(Req(p), RescheduleSubmitted(row[Req(p)], FALSE)) /\ Return(p)

Confirm(p, t) ==
    SetRow(Req(p), MarkConfirmed(RecordFeeBreakdown(row[Req(p)]), t)) /\ Return(p)

\* fetchPoolState, and what is decided from the copy right after it.
ProcessFetch(p) ==
    /\ At(p, "fetch")
    /\ \/ /\ Rec(p).status = "submitted"
          /\ IF Rec(p).sig = NoTx
             THEN SetRow(Req(p), MarkFailed(row[Req(p)], TRUE, TRUE)) /\ Return(p)
             ELSE FetchPool(p, Req(p), FALSE) /\ Goto(p, "status") /\ UNCHANGED <<row, job>>
          /\ UNCHANGED faults
       \/ /\ Rec(p).status = "pending"
          /\ IF Req(p) \in FeeExcessive
             THEN Leave(p, "error") /\ UNCHANGED row   \* buildWithdrawalBreakdown throws
             ELSE FetchPool(p, Req(p), FALSE) /\ Goto(p, "send") /\ UNCHANGED <<row, job>>
          /\ UNCHANGED faults
       \/ /\ Fault
          /\ IF Rec(p).status = "submitted"
             THEN Reschedule(p)
             ELSE \E retryable \in BOOLEAN : HandleSubmissionFailure(p, retryable)
    /\ UNCHANGED <<todo, verified, chain, crashes>>

\* Whichever instruction the kind of the pool calls for, the transaction pays out
\* the request and uses its nullifier up, once.
Signed(r, s) == [req |-> r, state |-> s, live |-> TRUE]

\* submitRelayedWithdraw signs a transaction for a fresh blockhash and hands it
\* to the cluster, whose preflight simulates it first.  A call that fails after
\* the signature was made may or may not have delivered it.
Send(p) ==
    /\ At(p, "send")
    /\ \E t \in TxIds :
          /\ tx[t] = Unsent
          /\ \A u \in TxIds : u < t => tx[u] # Unsent
          /\ \E s \in {"inflight", "lost"} :
                /\ IF s = "inflight"
                   THEN good[Req(p)] /\ ~Spent(Req(p)) /\ UNCHANGED faults
                   ELSE Fault
                /\ tx' = [tx EXCEPT ![t] = Signed(Req(p), s)]
          /\ job' = [job EXCEPT ![p].rec.sig = t]
    /\ Goto(p, "sent")
    /\ UNCHANGED <<row, todo, seen, verified, spentBy, good, crashes>>

\* Mutant of SendReturns: a transaction that was sent counts as confirmed.
SendReturnsConfirmed(p) ==
    /\ At(p, "sent")
    /\ SetRow(Req(p), MarkConfirmed(row[Req(p)], Rec(p).sig))
    /\ Return(p)
    /\ UNCHANGED <<todo, verified, chain, faults, crashes>>

\* The call returns, normally or with an AmbiguousSubmissionError: both record
\* the signature and leave the row due at once.
SendReturns(p) ==
    /\ At(p, "sent")
    /\ SetRow(Req(p), RecordFeeBreakdown(MarkSubmitted(row[Req(p)], Rec(p).sig)))
    /\ Return(p)
    /\ UNCHANGED <<todo, verified, chain, faults, crashes>>

\* The call fails before anything reached the cluster: preflight finds the
\* nullifier spent or the proof rejected, or the RPC call itself failed.  All
\* but a spent nullifier are wrapped as a 500, so they count as retryable.
SendRejected(p) ==
    /\ At(p, "send")
    /\ \/ /\ Spent(Req(p))
          /\ Goto(p, "recoverPending")
          /\ UNCHANGED <<row, job, seen, faults>>
       \/ /\ ~Spent(Req(p)) /\ ~good[Req(p)]
          /\ HandleSubmissionFailure(p, TRUE) /\ UNCHANGED faults
       \/ Fault /\ HandleSubmissionFailure(p, TRUE)
    /\ UNCHANGED <<todo, verified, chain, crashes>>

\* Mutant of SpendSignature: some transaction of the pool, whatever it spent.
SpendSignatureOfPool(r) ==
    LET landed == {t \in TxIds : tx[t] # Unsent /\ tx[t].state = "landed"}
    IN  IF landed = {} THEN NoTx ELSE CHOOSE t \in landed : TRUE

\* findNullifierSpendSignature: the relayer's own transaction that created the
\* nullifier's PDA, unknown for pools without PDAs.
SpendSignature(r) ==
    IF NullifierVersion = 0 \/ spentBy[NullifierOf[r]] = External
    THEN NoTx ELSE spentBy[NullifierOf[r]]

\* toReadableError: code 6003, of pools without PDAs, is a 409, the rest a 500.
SpentIsRetryable == NullifierVersion = 1

\* tryRecoverPendingSpentFailure, and the failure if it does not recover.
RecoverPending(p) ==
    /\ At(p, "recoverPending")
    /\ \/ /\ NullifierUsed(p, Req(p)) /\ SpendSignature(Req(p)) # NoTx
          /\ Confirm(p, SpendSignature(Req(p))) /\ UNCHANGED faults
       \/ /\ ~NullifierUsed(p, Req(p)) \/ SpendSignature(Req(p)) = NoTx
          /\ HandleSubmissionFailure(p, SpentIsRetryable) /\ UNCHANGED faults
       \/ Fault /\ HandleSubmissionFailure(p, SpentIsRetryable)
    /\ UNCHANGED <<todo, verified, chain, crashes>>

-----------------------------------------------------------------------------
(* inspectSubmittedRecord: four awaits, and a decision after each.  An     *)
(* exception anywhere reschedules the row as submitted.                    *)

\* getSignatureStatus: the cluster remembers a signature for as long as its blockhash
\* is valid; a node that lags behind may miss it earlier.
NotFound(t) == tx[t].state \in {"inflight", "lost"} \/ ~tx[t].live

\* A transaction may be processed before it is confirmed.
Status(p) ==
    /\ At(p, "status")
    /\ LET t == Rec(p).sig
       IN  \/ /\ tx[t].state = "failed"
              /\ Goto(p, "recoverSubmitted") /\ UNCHANGED <<row, job, seen, faults>>
           \/ /\ tx[t].state = "landed"
              /\ Confirm(p, NoTx) /\ UNCHANGED faults
           \/ /\ tx[t].state = "inflight" /\ tx[t].live    \* processed
              /\ Reschedule(p) /\ UNCHANGED faults
           \/ /\ NotFound(t)
              /\ Goto(p, "spentCheck") /\ UNCHANGED <<row, job, seen, faults>>
           \/ Fault /\ Reschedule(p)
           \/ Fault /\ Goto(p, "spentCheck") /\ UNCHANGED <<row, job, seen>>
    /\ UNCHANGED <<todo, verified, chain, crashes>>

SpentCheck(p) ==
    /\ At(p, "spentCheck")
    /\ \/ /\ NullifierUsed(p, Req(p))
          /\ Confirm(p, NoTx) /\ UNCHANGED faults
       \/ /\ ~NullifierUsed(p, Req(p))
          /\ Goto(p, "heightCheck") /\ UNCHANGED <<row, job, seen, faults>>
       \/ LookupFault /\ Reschedule(p)
    /\ UNCHANGED <<todo, verified, chain, crashes>>

\* Mutant of HeightCheck: what was not found is resubmitted at once.
HeightCheckSkipped(p) ==
    /\ At(p, "heightCheck")
    /\ HandleSubmissionFailure(p, TRUE)
    /\ UNCHANGED <<todo, verified, chain, faults, crashes>>

\* Mutant of HeightCheck: the last valid block height is never found passed.
HeightCheckEndless(p) ==
    /\ At(p, "heightCheck")
    /\ Reschedule(p)
    /\ UNCHANGED <<todo, verified, chain, faults, crashes>>

HeightCheck(p) ==
    /\ At(p, "heightCheck")
    /\ \/ /\ Rec(p).lvh # NoTx /\ ~tx[Rec(p).lvh].live
          /\ HandleSubmissionFailure(p, TRUE) /\ UNCHANGED faults
       \/ /\ Rec(p).lvh # NoTx => tx[Rec(p).lvh].live
          /\ Reschedule(p) /\ UNCHANGED faults
       \/ Fault /\ Reschedule(p)
    /\ UNCHANGED <<todo, verified, chain, crashes>>

\* The transaction failed on chain: the row is confirmed if another transaction
\* of this relayer spent the nullifier, and failed for good otherwise.
RecoverSubmitted(p) ==
    LET Fail == SetRow(Req(p), MarkFailed(row[Req(p)], TRUE, FALSE)) /\ Return(p)
    IN  /\ At(p, "recoverSubmitted")
        /\ \/ /\ NullifierUsed(p, Req(p)) /\ SpendSignature(Req(p)) # NoTx
              /\ Confirm(p, SpendSignature(Req(p))) /\ UNCHANGED faults
           \/ /\ ~NullifierUsed(p, Req(p)) \/ SpendSignature(Req(p)) = NoTx
              /\ Fail /\ UNCHANGED faults
           \/ Fault /\ Fail
        /\ UNCHANGED <<todo, verified, chain, crashes>>

Work(p) ==
    \/ ProcessFetch(p) \/ Send(p) \/ SendReturns(p) \/ SendRejected(p)
    \/ RecoverPending(p) \/ Status(p) \/ SpentCheck(p) \/ HeightCheck(p)
    \/ RecoverSubmitted(p)

-----------------------------------------------------------------------------
(* The environment: time, the cluster, other users, crashes.               *)

\* The next attempt of a row comes due.
TimePasses(r) ==
    /\ row[r].status \in Open /\ ~row[r].due
    /\ SetRow(r, [row[r] EXCEPT !.due = TRUE])
    /\ UNCHANGED <<procs, chain, faults, crashes>>

\* The cluster executes a transaction while its blockhash is valid.  The program
\* fails it if the nullifier is spent or the proof does not verify by then.
Execute(t) ==
    /\ tx[t].state = "inflight" /\ tx[t].live
    /\ LET r == tx[t].req
       IN  IF good[r] /\ ~Spent(r)
           THEN /\ tx' = [tx EXCEPT ![t].state = "landed"]
                /\ spentBy' = [spentBy EXCEPT ![NullifierOf[r]] = t]
           ELSE /\ tx' = [tx EXCEPT ![t].state = "failed"]
                /\ UNCHANGED spentBy
    /\ UNCHANGED <<row, procs, good, faults, crashes>>

\* The confirmed block height passes the last block that accepts t's blockhash.
Expire(t) ==
    /\ tx[t] # Unsent /\ tx[t].live
    /\ \A u \in TxIds : u < t => ~tx[u].live
    /\ tx' = [tx EXCEPT ![t].live = FALSE]
    /\ UNCHANGED <<row, procs, spentBy, good, faults, crashes>>

\* The owner of the note withdraws it directly or through another relayer.
SpendElsewhere(n) ==
    /\ spentBy[n] = NoTx
    /\ spentBy' = [spentBy EXCEPT ![n] = External]
    /\ UNCHANGED <<row, procs, tx, good, faults, crashes>>

\* Later deposits push the root the proof was made against out of the history.
RootAgesOut(r) ==
    /\ good[r]
    /\ good' = [good EXCEPT ![r] = FALSE]
    /\ UNCHANGED <<row, procs, tx, spentBy, faults, crashes>>

\* The process dies and is started again on the same database: every client in
\* flight loses its answer, every local copy is gone.
Crash ==
    /\ crashes < MaxCrashes
    /\ crashes' = crashes + 1
    /\ pc' = [p \in Procs |-> IF p = Retry THEN "idle"
                              ELSE IF pc[p] \in Replies \cup {"idle"} THEN pc[p]
                              ELSE "dropped"]
    /\ job' = [p \in Procs |-> NoJob]
    /\ todo' = {}
    /\ seen' = [p \in Procs |-> Unseen]
    /\ UNCHANGED <<row, verified, chain, faults>>

Handler(r) ==
    \/ Reserve(r) \/ RejectDuplicate(r) \/ RelayFetch(r) \/ RelayCheck(r)
    \/ RelayProve(r) \/ Respond(r) \/ HandlerPicks(r)

RetryManager == Tick \/ RetryPicks \/ TickEnds

Environment ==
    \/ \E r \in Requests : TimePasses(r) \/ RootAgesOut(r)
    \/ \E t \in TxIds : Execute(t) \/ Expire(t)
    \/ \E n \in Nullifiers : SpendElsewhere(n)
    \/ Crash

Next ==
    \/ \E r \in Requests : Handler(r)
    \/ RetryManager
    \/ \E p \in Procs : Work(p)
    \/ Environment

Spec == Init /\ [][Next]_vars

\* What the runtime goes on doing: suspended calls are resumed, timers fire, the
\* chain produces blocks.  No transaction has to be executed, no request to arrive.
Fairness ==
    /\ \A r \in Requests :
          /\ WF_vars(RelayFetch(r) \/ RelayCheck(r) \/ RelayProve(r))
          /\ WF_vars(Respond(r) \/ HandlerPicks(r))
          /\ WF_vars(TimePasses(r))
    /\ WF_vars(RetryManager)
    /\ \A p \in Procs : WF_vars(Work(p))
    /\ \A t \in TxIds : WF_vars(Expire(t))

FairSpec == Spec /\ Fairness

-----------------------------------------------------------------------------
(* Properties.                                                             *)

TypeOK ==
    /\ row \in [Requests -> Row]
    /\ pc \in [Procs -> Pcs]
    /\ job \in [Procs -> Job \cup {NoJob}]
    /\ todo \subseteq Job
    /\ seen \in [Procs -> [spent : BOOLEAN, good : BOOLEAN]]
    /\ verified \subseteq Requests
    /\ tx \in [TxIds -> Tx \cup {Unsent}]
    /\ spentBy \in [Nullifiers -> TxIds \cup {NoTx, External}]
    /\ good \in [Requests -> BOOLEAN]
    /\ faults \in Nat
    /\ crashes \in Nat

\* The relayer never confirms a request, and never answers one with success,
\* unless the nullifier it spends is spent on chain: a transaction that was
\* accepted by sendRawTransaction, or was ambiguous, is not enough.
ConfirmedIsSpent ==
    \A r \in Requests : row[r].status = "confirmed" \/ pc[r] = "ok" => Spent(r)

\* The relayer keeps RelayPromise: it takes up one request per note, answers a
\* request at most once, and answers with success only what is spent on chain.
Promise == INSTANCE RelayPromise WITH
    accepted <- {r \in Requests : Stored(r)},
    spent    <- {n \in Nullifiers : spentBy[n] # NoTx},
    answer   <- [r \in Requests |-> IF pc[r] \in Replies THEN pc[r] ELSE "none"]
KeepsPromise == Promise!Spec

\* The signature of a row is one of a transaction sent for that very request,
\* whichever process wrote it and however old its copy of the row was.
SignatureOfOwnRequest ==
    \A r \in Requests :
        row[r].sig # NoTx => tx[row[r].sig] # Unsent /\ tx[row[r].sig].req = r

\* A row never becomes terminal and then leaves that state again.
TerminalIsFinal ==
    [][\A r \in Requests : row[r].status \in Terminal => row'[r].status = row[r].status]_row

\* Two transactions that can both still land are never out for one request:
\* the relayer resubmits only what can no longer land.
OneLiveTransaction ==
    \A t, u \in TxIds :
        /\ tx[t].state = "inflight" /\ tx[t].live
        /\ tx[u].state = "inflight" /\ tx[u].live
        /\ tx[t].req = tx[u].req
        => t = u

\* A confirmed row has a signature to report to the client.
ConfirmedHasSignature ==
    \A r \in Requests : row[r].status = "confirmed" => row[r].sig # NoTx

\* The signature a confirmed row reports is that of the transaction that spent
\* the nullifier, unless somebody else spent it.
ConfirmedByItsSignature ==
    \A r \in Requests :
        row[r].status = "confirmed" /\ spentBy[NullifierOf[r]] # External
            => row[r].sig = spentBy[NullifierOf[r]]

\* MAX_RETRIES is the number of retries after the initial submission: it bounds the
\* transactions sent for a request, however many are lost, expire or fail.  It does
\* while the retry manager alone works on the row, not while a handler does too.
SubmissionsBounded ==
    \A r \in Requests :
        Cardinality({t \in TxIds : tx[t] # Unsent /\ tx[t].req = r}) <= MaxRetries + 1

\* A verified request that could still be carried out is given up only after
\* MAX_RETRIES retries.
AbandonedAtLimit ==
    [][\A r \in verified :
        /\ row[r].status = "pending" /\ row'[r].status = "failed"
        /\ good[r] /\ ~Spent(r)
        => row'[r].retries > MaxRetries]_row

\* No request reaches submitRelayedWithdraw before relay() has checked its
\* nullifier, its fee and its proof.
VerifiedBeforeSubmission ==
    \A p \in Procs : pc[p] = "send" => job[p].req \in verified

\* Every request in the database settles: however often two processes reopen a
\* row under each other, in the end it stays confirmed, failed or expired.
Settles == \A r \in Requests : <>[](row[r].status \notin Open)

\* Every request that is posted is answered, or its client lost in a crash.
Answered == \A r \in Requests : pc[r] # "idle" ~> pc[r] \in Replies

=============================================================================
