---------------------------- MODULE NoteJournal ----------------------------
(***************************************************************************)
(* The scripts that move real money through a pool (scripts/devnet-*.ts,   *)
(* seed-mainnet-pools.ts, relayer-soak.ts), the journal of notes they      *)
(* leave behind, the script that recovers the notes of a journal           *)
(* (recover-devnet-notes.ts) and the one that reconciles a burst of relay  *)
(* requests with it (reconcile-relayer-burst.ts).                          *)
(*                                                                         *)
(* A script is a program: the sequence of its calls and journal writes.    *)
(* Each step is one await and the code up to the next.  A transaction may  *)
(* execute although its call failed, and a script may die anywhere; its    *)
(* memory is then gone and only the journal file is left.                  *)
(***************************************************************************)
EXTENDS Naturals, Sequences, FiniteSets, FiniteSetsExt, SequencesExt

CONSTANTS
    Scripts,        \* the scripts considered, each with its own journal file
    Retries,        \* length of the backoff list of withDevnetRetry
    Selections,     \* the scenarios the relayer validation is started with
    Burst,          \* requests of a burst, notes of a concurrency round
    MaxNotes,       \* bound on the notes ever made
    Bounds          \* for each script: runs, recoveries, calls that fail and still execute

ASSUME NoteJournalAssumption ==
    /\ Retries \in Nat /\ Burst \in Nat \ {0} /\ MaxNotes \in Nat
    /\ Bounds \in [Scripts -> [runs : Nat, recoveries : Nat, faults : Nat]]

Notes == 1..MaxNotes

-----------------------------------------------------------------------------
(* The programs.  "try" and "catch" delimit a try block: a call that       *)
(* throws between them continues after the catch, any other ends the run.  *)

\* depositWithSignature, and the record its callers write when it returns
Observed   == <<"depositRetry", "await", "record", "persist">>
Withdrawal == <<"withdrawRetry", "mark", "persist">>
\* journaledDeposit: the note is on file before its signature is waited for
Journaled  == <<"depositRetry", "plan", "persist", "await", "deposited", "persist">>
Once       == <<"deposit", "plan", "persist", "await", "deposited", "persist">>
Times(k, p) == FlattenSeq([i \in 1..k |-> p])

PoolBaseline   == Observed \o Withdrawal \o <<"next">>
PoolGrowth     == <<"depositRetry", "record", "persist", "next">>
PoolCheckpoint == Observed \o Withdrawal \o <<"next">>
SolValidation  == PoolBaseline \o <<"try">> \o PoolGrowth \o PoolCheckpoint \o <<"catch", "next">>
SplValidation  == PoolBaseline \o <<"try">> \o PoolGrowth \o PoolCheckpoint \o <<"catch", "next">>
PoolValidation == <<"open">> \o SolValidation \o <<"persist">> \o SplValidation \o <<"persist">>

RelayScenarioUnsaved(k) ==
    Times(k, <<"depositRetry", "await", "record">>) \o <<"persist", "relayRetry", "mark", "persist", "halt", "next">>

RelayScenario(k)  == Times(k, Observed) \o <<"relayRetry", "mark", "persist", "halt", "next">>
\* the relayer is restarted between its first attempt and the wait for its verdict
RestartScenario   == Observed \o <<"process", "mark", "persist", "next">>
\* nothing is stopped after the burst with the limits raised
RawThroughput     == Times(Burst, Observed) \o <<"relayRetry", "mark", "persist", "next">>
\* the scenarios selected, all of them unless the environment names some
Selected(sel, scenario, p) == IF scenario \in sel THEN p ELSE <<>>
RelayerValidation(sel) ==
    <<"open", "check">> \o Selected(sel, "baseline", RelayScenario(1))
    \o Selected(sel, "burst", RelayScenario(Burst)) \o Selected(sel, "raw", RawThroughput)
    \o Selected(sel, "restart", RestartScenario)

\* phase 13B looks for a pool or makes one, and has a journaledDeposit of its own
SelectPool        == <<"check">>
CanaryDeposit     == Journaled
FundedCanary      == CanaryDeposit \o <<"try", "withdrawRetry", "mark", "persist", "catch", "persist">>
DuplicateWithdraw == <<"again">>
Phase13b          == <<"open">> \o SelectPool \o <<"check">> \o FundedCanary
                     \o DuplicateWithdraw \o <<"persist">>

\* the request is posted once more, and that of a second note too late to be taken
BaselineFlow      == Journaled \o <<"relayRetry", "mark", "persist", "post", "next">>
                     \o Journaled \o <<"check", "next">>
BurstScenario     == Times(Burst, Journaled) \o <<"relayRetry", "mark", "persist", "next">>
Phase13bRelayer   == <<"load">> \o BaselineFlow \o <<"persist", "check">> \o BurstScenario \o <<"persist">>

\* The two journals of phase 14A; only the second is read again by a resumed run.
\* The deployment is looked at and a pool is made before anything is deposited.
\* In the end the request is posted and the note is withdrawn once more, both in
\* vain, and what the journal has unresolved is withdrawn.
FeePool           == <<"check">>
DirectCanary      == <<"withdraw">>
Phase14aDirect    == <<"open">> \o FeePool \o Once \o DirectCanary \o <<"mark", "persist">>
Replay            == <<"check", "again", "unresolved", "rescue">>
Phase14aRelayed   == <<"reuse">> \o Once \o <<"persist", "relay", "ensure", "mark", "persist">>
                     \o Replay

ConcurrencyWarmup == <<"check">> \o Observed \o Withdrawal
ConcurrencyRound  == <<"next", "create", "persist", "check", "send", "settle", "persist",
                       "check", "withdrawAll", "mark", "persist", "next">>
\* two of the three CONCURRENCY_LEVELS, each with a warmup w if its pool is a new one
Level(w)          == w \o ConcurrencyRound
Concurrency(w)    == <<"open", "try">> \o Level(w) \o Level(w) \o <<"catch", "persist">>

RecoveryCanary    == <<"open">> \o Observed
\* the canary posts its request once more, and takes back what the relayer has left
CanaryReplay      == <<"check">>
RelayerCanary     == <<"deposit", "await", "relay", "ensure">> \o CanaryReplay
Soak              == Times(2, <<"try", "deposit", "await", "relay", "ensure", "catch", "next">>)
Seed              == Times(2, <<"check", "deposit", "record", "persist", "next">>)

Programs ==
    [pool |-> {PoolValidation}, relayer |-> {RelayerValidation(sel) : sel \in Selections},
     phase13b |-> {Phase13b}, phase13bRelayer |-> {Phase13bRelayer},
     phase14aDirect |-> {Phase14aDirect},
     phase14aRelayed |-> {<<"open">> \o Phase14aRelayed, <<"load">> \o Phase14aRelayed},
     concurrency |-> {Concurrency(ConcurrencyWarmup), Concurrency(<<>>)}, recoveryCanary |-> {RecoveryCanary},
     relayerCanary |-> {RelayerCanary}, soak |-> {Soak}, seed |-> {Seed}]

ASSUME ScriptsAssumption == Scripts \subseteq DOMAIN Programs

Keeping     == {"pool", "relayer", "phase13b", "phase13bRelayer", "phase14aDirect",
                "phase14aRelayed", "concurrency", "recoveryCanary"}

-----------------------------------------------------------------------------
VARIABLES
    script, prog, pc,   \* the script, the program it runs, 0 when it does not run
    tries,              \* failed attempts of the call it is at
    batch, todo, done,  \* its notes of the current scenario; those the step has not
                        \* come to; those for which it succeeded
    mem, file,          \* the journal in its memory and on disk
    next, first,        \* the next note to be made, the first one of this run
    flight, landed,     \* deposits that may still execute, those that have
    pend, spentBy,      \* withdrawals that may still execute; who withdrew a note
    accepted, answer,   \* the relayer: requests it has taken, statuses it answered
    rec,                \* the recovery script, with its copy of the journal
    faults, runs, recoveries

chain   == <<flight, landed, pend, spentBy, faults>>
journal == <<mem, file>>
notes   == <<next, first>>
relayed == <<accepted, answer>>
control == <<pc, tries, batch, todo, done>>
rescue  == <<rec, recoveries>>
fixed   == <<script, prog, runs>>
vars    == <<chain, journal, notes, relayed, control, rescue, fixed>>

Record(s)  == [state |-> s, withdrawn |-> FALSE]
Empty      == [n \in {} |-> Record("planned")]
Idle       == [on |-> FALSE, todo |-> {}, copy |-> Empty, tries |-> 0,
               attempts |-> [n \in Notes |-> "none"],
               dry |-> FALSE, planned |-> TRUE, lost |-> FALSE]

Init ==
    /\ script \in Scripts /\ prog = <<>> /\ pc = 0 /\ tries = 0
    /\ batch = {} /\ todo = {} /\ done = {}
    /\ mem = Empty /\ file = Empty /\ next = 1 /\ first = 1
    /\ flight = {} /\ landed = {} /\ pend = {} /\ spentBy = [n \in Notes |-> "nobody"]
    /\ accepted = {} /\ answer = [n \in Notes |-> 0]
    /\ rec = Idle
    /\ faults = 0 /\ runs = 0 /\ recoveries = 0

Running == pc # 0
Op      == IF pc \in DOMAIN prog THEN prog[pc] ELSE "none"

Start(p) ==
    /\ ~Running /\ ~rec.on /\ runs < Bounds[script].runs
    /\ prog' = p /\ pc' = 1 /\ runs' = runs + 1 /\ first' = next
    /\ answer' = [n \in Notes |-> 0]
    /\ UNCHANGED <<script, tries, batch, todo, done, mem, file, next, chain, accepted, rescue>>

\* The step is over: the next one starts with all the notes of the batch b.
Advance(b) ==
    pc' = pc + 1 /\ tries' = 0 /\ batch' = b /\ todo' = b

\* A call that throws: to the catch of the try block around it, or out of the script.
Handler ==
    LET Marks == {i \in 1..pc : prog[i] \in {"try", "catch"}}
    IN  IF Marks # {} /\ prog[Max(Marks)] = "try"
        THEN Min({i \in pc..Len(prog) : prog[i] = "catch"}) + 1
        ELSE Len(prog) + 1

Throw == pc' = Handler /\ tries' = 0 /\ UNCHANGED <<batch, todo>>

FailedOften(op) ==
    \/ op = "retry" /\ tries <= Retries /\ tries' = tries + 1 /\ UNCHANGED <<pc, batch, todo>>
    \/ Throw

\* withDevnetRetry: only some errors are retried, and only so often.
Failed(op) ==
    \/ op = "retry" /\ tries < Retries /\ tries' = tries + 1 /\ UNCHANGED <<pc, batch, todo>>
    \/ Throw

Persist ==
    /\ Op = "persist" /\ file' = mem /\ Advance(batch)
    /\ UNCHANGED <<done, mem, notes, chain, relayed, rescue, fixed>>

\* initializePersistentNoteJournal writes an empty journal over the last one.
Open ==
    /\ Op = "open" /\ mem' = Empty /\ file' = Empty /\ Advance(batch)
    /\ UNCHANGED <<done, notes, chain, relayed, rescue, fixed>>

Load ==
    /\ Op = "load" /\ mem' = file /\ Advance(batch)
    /\ UNCHANGED <<done, file, notes, chain, relayed, rescue, fixed>>

\* findReusableRelayedNote: a resumed run goes on with the note of the last one.
Reuse ==
    LET Usable == {n \in DOMAIN mem : mem[n].state = "confirmed" /\ ~mem[n].withdrawn}
    IN  /\ Op = "reuse"
        /\ IF Usable = {} THEN Advance(batch)
           ELSE /\ pc' = pc + Len(Once) + 1 /\ tries' = 0
                /\ batch' = {Min(Usable)} /\ todo' = {Min(Usable)}
        /\ UNCHANGED <<done, journal, notes, chain, relayed, rescue, fixed>>

-----------------------------------------------------------------------------
(* Deposits.                                                               *)

Ambiguous == faults < Bounds[script].faults /\ faults' = faults + 1

Deposit ==
    LET kind == IF Op = "depositRetry" THEN "retry" ELSE "once"
    IN  /\ Op \in {"deposit", "depositRetry"}
        /\ \/ /\ next \in Notes /\ next' = next + 1
              /\ landed' = landed \union {next} /\ Advance(batch \union {next})
              /\ UNCHANGED <<flight, faults>>
           \/ Failed(kind) /\ UNCHANGED <<next, flight, landed, faults>>
           \/ /\ next \in Notes /\ Ambiguous /\ next' = next + 1
              /\ flight' = flight \union {next} /\ Failed(kind)
              /\ UNCHANGED landed
        /\ UNCHANGED <<done, journal, first, pend, spentBy, relayed, rescue, fixed>>

\* waitForNewSignature finds the signature, or gives up after a minute.
Await ==
    /\ Op = "await" /\ (Advance(batch) \/ Throw)
    /\ UNCHANGED <<done, journal, notes, chain, relayed, rescue, fixed>>

\* A check, a pool creation or a transfer that may throw and touches no note.
Check ==
    /\ Op = "check" /\ (Advance(batch) \/ Throw)
    /\ UNCHANGED <<done, journal, notes, chain, relayed, rescue, fixed>>

UpsertAlone(ns, s) == mem' = [n \in ns |-> Record(s)]

\* upsertDevnetNoteRecord for the notes not yet in the journal
Upsert(ns, s) == mem' = [n \in ns \union DOMAIN mem |-> IF n \in ns THEN Record(s) ELSE mem[n]]

Plan ==
    /\ Op = "plan" /\ Upsert(batch \ DOMAIN mem, "planned") /\ Advance(batch)
    /\ UNCHANGED <<done, file, notes, chain, relayed, rescue, fixed>>

RecordNote ==
    /\ Op = "record" /\ Upsert(batch \ DOMAIN mem, "confirmed") /\ Advance(batch)
    /\ UNCHANGED <<done, file, notes, chain, relayed, rescue, fixed>>

SetState(ns, s) == [n \in DOMAIN mem |-> IF n \in ns THEN [mem[n] EXCEPT !.state = s] ELSE mem[n]]

Deposited ==
    /\ Op = "deposited" /\ mem' = SetState(batch, "confirmed") /\ Advance(batch)
    /\ UNCHANGED <<done, file, notes, chain, relayed, rescue, fixed>>

\* A concurrency round makes its notes and journals them before it sends anything.
Create ==
    LET Made == next..(next + Burst - 1)
    IN  /\ Op = "create" /\ Made \subseteq Notes /\ next' = next + Burst
        /\ Upsert(Made, "planned") /\ Advance(Made)
        /\ UNCHANGED <<done, file, first, chain, relayed, rescue, fixed>>

\* The step comes to the next note of the batch.
Current      == Min(todo)
Begin        == IF todo = batch THEN {} ELSE done
Finish(n, d) ==
    /\ done' = d /\ todo' = (IF todo = {n} THEN batch ELSE todo \ {n})
    /\ pc' = (IF todo = {n} THEN pc + 1 ELSE pc)
    /\ tries' = 0 /\ UNCHANGED batch

Nothing ==      \* Promise.all and the loops over no note at all
    /\ Op \in {"send", "withdraw", "withdrawRetry", "withdrawAll", "again", "rescue",
               "relay", "relayRetry", "process", "post"}
    /\ todo = {} /\ done' = {} /\ Advance(batch)
    /\ UNCHANGED <<journal, notes, chain, relayed, rescue, fixed>>

\* executeOperationBatch: every transaction of the batch is sent whatever happens to the others.
Send ==
    /\ Op = "send"
    /\ \E n \in todo :
       \/ landed' = landed \union {n} /\ Finish(n, Begin \union {n}) /\ UNCHANGED <<flight, faults>>
       \/ Finish(n, Begin) /\ UNCHANGED <<flight, landed, faults>>
       \/ Ambiguous /\ flight' = flight \union {n} /\ Finish(n, Begin) /\ UNCHANGED landed
    /\ UNCHANGED <<journal, notes, pend, spentBy, relayed, rescue, fixed>>

\* markDevnetNoteDeposited, markDevnetNoteFailed; the round goes on with the former
Settle ==
    /\ Op = "settle"
    /\ mem' = [n \in DOMAIN mem |->
                 IF n \in batch
                 THEN [mem[n] EXCEPT !.state = IF n \in done THEN "confirmed" ELSE "failed"]
                 ELSE mem[n]]
    /\ Advance(done)
    /\ UNCHANGED <<done, file, notes, chain, relayed, rescue, fixed>>

-----------------------------------------------------------------------------
(* Withdrawals.  A call of SNAPClient.withdraw by who for note n, its      *)
(* outcome in out: it may be refused, fail, or fail and execute later.     *)

Withdraw(n, who, out) ==
    \/ /\ out = "ok" /\ n \in landed /\ spentBy[n] = "nobody"
       /\ spentBy' = [spentBy EXCEPT ![n] = who] /\ UNCHANGED <<pend, faults>>
    \/ /\ out = "used" /\ spentBy[n] # "nobody" /\ UNCHANGED <<pend, spentBy, faults>>
    \/ /\ out = "error" /\ UNCHANGED <<pend, spentBy, faults>>
    \/ /\ out = "lost" /\ n \in landed /\ spentBy[n] = "nobody"
       /\ Ambiguous /\ pend' = pend \union {<<n, who>>} /\ UNCHANGED spentBy

Outcomes == {"ok", "used", "error", "lost"}

WithdrawNote ==
    /\ Op \in {"withdraw", "withdrawRetry"} /\ todo # {}
    /\ \E out \in Outcomes :
       /\ Withdraw(Current, "script", out)
       /\ CASE out = "ok"   -> Finish(Current, Begin \union {Current})
            [] out = "used" -> Throw /\ UNCHANGED done
            [] OTHER        -> Failed(IF Op = "withdrawRetry" THEN "retry" ELSE "once")
                               /\ UNCHANGED done
    /\ UNCHANGED <<journal, notes, flight, landed, relayed, rescue, fixed>>

\* Every withdrawal of a round is sent; a second withdrawal of a note is meant to fail.
WithdrawEach ==
    /\ Op \in {"withdrawAll", "again"}
    /\ \E out \in Outcomes, n \in todo :
       /\ Withdraw(n, "script", out)
       /\ Finish(n, IF out = "ok" THEN Begin \union {n} ELSE Begin)
    /\ UNCHANGED <<journal, notes, flight, landed, relayed, rescue, fixed>>

SetWithdrawn(f, ns) ==
    [n \in DOMAIN f |-> IF n \in ns THEN [state |-> "confirmed", withdrawn |-> TRUE] ELSE f[n]]

MarkAll ==
    /\ Op = "mark" /\ mem' = SetWithdrawn(mem, batch) /\ Advance(batch)
    /\ UNCHANGED <<done, file, notes, chain, relayed, rescue, fixed>>

\* markDevnetNoteWithdrawn for the notes the withdrawals or the relayer succeeded with
Mark ==
    /\ Op = "mark" /\ mem' = SetWithdrawn(mem, done) /\ Advance(batch)
    /\ UNCHANGED <<done, file, notes, chain, relayed, rescue, fixed>>

\* recoverUnresolvedNotes marks what it withdraws in memory; the file is not written again.
Unresolved ==
    /\ Op = "unresolved" /\ Advance({n \in DOMAIN mem : ~mem[n].withdrawn})
    /\ UNCHANGED <<done, journal, notes, chain, relayed, rescue, fixed>>

RescueNote ==
    /\ Op = "rescue" /\ todo # {}
    /\ \E out \in Outcomes :
       /\ Withdraw(Current, "script", out) /\ Finish(Current, done)
       /\ mem' = IF out = "ok" THEN SetWithdrawn(mem, {Current}) ELSE mem
    /\ UNCHANGED <<file, notes, flight, landed, relayed, rescue, fixed>>

-----------------------------------------------------------------------------
(* POST /relay, to a relayer that the script runs.  Its transaction may    *)
(* execute after it has answered 502, or after the connection broke.       *)

Answered(n, status) ==
    /\ answer' = [answer EXCEPT ![n] = status]
    /\ Finish(n, IF status = 200 THEN Begin \union {n} ELSE Begin)

\* A call to the relayer that throws; the artifact then has no answers of its scenario.
Unanswered(kind) ==
    /\ Failed(kind) /\ UNCHANGED done
    /\ answer' = IF pc' = pc THEN answer ELSE [n \in Notes |-> IF n \in batch THEN 0 ELSE answer[n]]

RelaySucceeds(n) ==
    /\ n \in landed /\ spentBy[n] = "nobody" /\ n \notin accepted
    /\ spentBy' = [spentBy EXCEPT ![n] = "relayer"] /\ accepted' = accepted \union {n}
    /\ Answered(n, 200) /\ UNCHANGED <<pend, faults>>

RelayRefuses(n) ==
    /\ \/ Answered(n, 429)
       \/ n \in accepted /\ Answered(n, 409)
       \/ n \notin accepted /\ Answered(n, 502)
    /\ UNCHANGED <<spentBy, accepted, pend, faults>>

Takes(n) ==     \* the relayer has the request, and its transaction is sent
    /\ n \in landed /\ spentBy[n] = "nobody" /\ n \notin accepted /\ Ambiguous
    /\ accepted' = accepted \union {n} /\ pend' = pend \union {<<n, "relayer">>}

\* The requests of a burst are posted at once; each is retried on its own.
Relay ==
    LET kind == IF Op = "relayRetry" THEN "retry" ELSE "once"
    IN  /\ Op \in {"relay", "relayRetry"}
        /\ \E n \in todo :
           \/ RelaySucceeds(n)
           \/ RelayRefuses(n)
           \/ Takes(n) /\ Answered(n, 502) /\ UNCHANGED spentBy
           \/ Takes(n) /\ Unanswered(kind) /\ UNCHANGED spentBy
           \/ Unanswered(kind) /\ UNCHANGED <<spentBy, accepted, pend, faults>>
        /\ UNCHANGED <<journal, notes, flight, landed, rescue, fixed>>

\* The verdict is "failed" or "expired", or does not come in time.
Unconfirmed(n) ==
    \/ Finish(n, {})
    \/ Throw /\ UNCHANGED done

\* runRestartScenario puts the request into the database and reads its verdict there;
\* the baseline flow posts its request again.  Neither is in the burst artifact.
Process ==
    /\ Op \in {"process", "post"}
    /\ \E n \in todo :
       \/ /\ n \in landed \ accepted /\ spentBy[n] = "nobody" /\ Finish(n, {n})
          /\ spentBy' = [spentBy EXCEPT ![n] = "relayer"] /\ UNCHANGED <<pend, faults>>
       \/ Unconfirmed(n) /\ UNCHANGED <<spentBy, pend, faults>>
       \/ /\ n \in landed \ accepted /\ Ambiguous /\ pend' = pend \union {<<n, "relayer">>}
          /\ Unconfirmed(n) /\ UNCHANGED spentBy
    /\ UNCHANGED <<journal, notes, relayed, flight, landed, rescue, fixed>>

\* shouldStopAfterBaselineFailure, shouldStopAfterBurstFailure, unless the
\* environment allows to continue
Halt ==
    LET Bad  == \E n \in batch : answer[n] = 502
        None == \A n \in batch : answer[n] # 200
    IN  /\ Op = "halt"
        /\ \/ /\ Bad /\ (None \/ Cardinality(batch) > 1)
              /\ pc' = Len(prog) + 1 /\ tries' = 0 /\ UNCHANGED <<batch, todo>>
           \/ Advance(batch)
        /\ UNCHANGED <<done, journal, notes, chain, relayed, rescue, fixed>>

Ensure ==
    /\ Op = "ensure" /\ (IF batch \subseteq done THEN Advance(batch) ELSE Throw)
    /\ UNCHANGED <<done, journal, notes, chain, relayed, rescue, fixed>>

\* A scenario ends, and its relayer and the relayer's database with it.
NextScenario ==
    /\ Op \in {"next", "try", "catch"}
    /\ IF Op = "next" THEN Advance({}) /\ done' = {} /\ accepted' = {}
       ELSE Advance(batch) /\ UNCHANGED <<done, accepted>>
    /\ UNCHANGED <<journal, notes, chain, answer, rescue, fixed>>

Stop ==
    /\ pc' = 0 /\ tries' = 0 /\ batch' = {} /\ todo' = {} /\ done' = {}
    /\ mem' = Empty /\ accepted' = {}
    /\ UNCHANGED <<file, notes, chain, answer, rescue, fixed>>

Exit  == Running /\ pc > Len(prog) /\ Stop
Crash == Running /\ pc <= Len(prog) /\ Stop

-----------------------------------------------------------------------------
(* recover-devnet-notes.ts: the journal is written once, at the end.       *)

StartRecovery(dry, planned) ==
    /\ ~Running /\ ~rec.on /\ script \in Keeping /\ recoveries < Bounds[script].recoveries
    /\ DOMAIN file # {} /\ recoveries' = recoveries + 1
    /\ rec' = [Idle EXCEPT !.on = TRUE, !.todo = DOMAIN file, !.copy = file,
                           !.dry = dry, !.planned = planned]
    /\ UNCHANGED <<chain, journal, notes, relayed, control, fixed>>

SkippedPlanned(r) ==
    IF r.withdrawn THEN "skipped-withdrawn"
    ELSE IF r.state # "confirmed" THEN "skipped-filtered"
    ELSE IF rec.dry THEN "dry-run"
    ELSE "none"

Skipped(r) ==
    IF r.withdrawn THEN "skipped-withdrawn"
    ELSE IF r.state = "failed" \/ (r.state = "planned" /\ ~rec.planned) THEN "skipped-filtered"
    ELSE IF rec.dry THEN "dry-run"
    ELSE "none"

RecoverSkips ==
    /\ rec.on /\ rec.todo # {}
    /\ LET n == Min(rec.todo) IN
       /\ Skipped(rec.copy[n]) # "none"
       /\ rec' = [rec EXCEPT !.todo = @ \ {n}, !.attempts[n] = Skipped(rec.copy[n])]
    /\ UNCHANGED <<recoveries, chain, journal, notes, relayed, control, fixed>>

RecoverRetriesOften(out) ==
    /\ out \in {"error", "lost"} /\ rec.tries <= Retries
    /\ rec' = [rec EXCEPT !.tries = @ + 1, !.lost = @ \/ out = "lost"]

RecoverRetries(out) ==
    /\ out \in {"error", "lost"} /\ rec.tries < Retries
    /\ rec' = [rec EXCEPT !.tries = @ + 1, !.lost = @ \/ out = "lost"]

RecoverSettles(n, out) ==
    rec' = [rec EXCEPT !.todo = @ \ {n}, !.tries = 0, !.lost = @ \/ out = "lost",
                 !.attempts[n] = CASE out = "ok" -> "recovered" [] out = "used" -> "already-withdrawn"
                                   [] OTHER -> "failed",
                 !.copy = IF out \in {"ok", "used"} THEN SetWithdrawn(@, {n}) ELSE @]

Recover ==
    /\ rec.on /\ rec.todo # {}
    /\ LET n == Min(rec.todo) IN
       /\ Skipped(rec.copy[n]) = "none"
       /\ \E out \in Outcomes :
          Withdraw(n, "recovery", out) /\ (RecoverRetries(out) \/ RecoverSettles(n, out))
    /\ UNCHANGED <<recoveries, flight, landed, journal, notes, relayed, control, fixed>>

\* Mutant of RecoveryEnds: the notes that are done with are left out of the file.
RecoveryEndsPruned ==
    /\ rec.on /\ rec.todo = {} /\ rec' = Idle
    /\ file' = IF rec.dry THEN file
               ELSE [n \in {m \in DOMAIN rec.copy : ~rec.copy[m].withdrawn} |-> rec.copy[n]]
    /\ UNCHANGED <<recoveries, mem, chain, notes, relayed, control, fixed>>

RecoveryEnds ==
    /\ rec.on /\ rec.todo = {} /\ rec' = Idle
    /\ file' = IF rec.dry THEN file ELSE rec.copy
    /\ UNCHANGED <<recoveries, mem, chain, notes, relayed, control, fixed>>

RecoveryCrashes ==
    /\ rec.on /\ rec' = Idle
    /\ UNCHANGED <<recoveries, journal, chain, notes, relayed, control, fixed>>

-----------------------------------------------------------------------------
(* The cluster.                                                            *)

Land(n) ==
    /\ n \in flight /\ flight' = flight \ {n}
    /\ landed' \in {landed, landed \union {n}}
    /\ UNCHANGED <<pend, spentBy, faults, journal, notes, relayed, control, rescue, fixed>>

Execute(n, who) ==
    /\ <<n, who>> \in pend /\ pend' = pend \ {<<n, who>>}
    /\ spentBy' \in {spentBy, IF spentBy[n] = "nobody" THEN [spentBy EXCEPT ![n] = who] ELSE spentBy}
    /\ UNCHANGED <<flight, landed, faults, journal, notes, relayed, control, rescue, fixed>>

Step ==
    \/ Persist \/ Open \/ Load \/ Reuse \/ Deposit \/ Await \/ Check \/ Plan \/ RecordNote
    \/ Deposited \/ Create \/ Nothing \/ Send \/ Settle \/ WithdrawNote \/ WithdrawEach
    \/ Mark \/ Unresolved \/ RescueNote \/ Relay \/ Process \/ Halt \/ Ensure \/ NextScenario \/ Exit

Recovery == RecoverSkips \/ Recover \/ RecoveryEnds

Next ==
    \/ \E p \in Programs[script] : Start(p)
    \/ Step \/ Crash
    \/ \E dry, planned \in BOOLEAN : StartRecovery(dry, planned)
    \/ Recovery \/ RecoveryCrashes
    \/ \E n \in Notes : Land(n) \/ \E who \in {"script", "relayer", "recovery"} : Execute(n, who)

Spec == Init /\ [][Next]_vars

-----------------------------------------------------------------------------
(* reconcile-relayer-burst.ts: what became of a request, judged from its   *)
(* status in the burst artifact and its note in the recovery artifact.     *)

RecoveryStatus(n) ==
    IF rec.attempts[n] # "none" THEN rec.attempts[n]
    ELSE IF n \in DOMAIN file /\ file[n].withdrawn THEN "skipped-withdrawn" ELSE "skipped-filtered"

BucketRecovered(n) ==
    CASE answer[n] = 200 -> "confirmed-success"
      [] answer[n] = 429 -> "rate-limited-without-spend"
      [] answer[n] \notin {200, 429} /\ RecoveryStatus(n) \in {"already-withdrawn", "recovered"} -> "already-withdrawn"
      [] OTHER -> "required-recovery"

Bucket(n) ==
    CASE answer[n] = 200 -> "confirmed-success"
      [] answer[n] = 429 -> "rate-limited-without-spend"
      [] answer[n] \notin {200, 429} /\ RecoveryStatus(n) = "already-withdrawn" -> "already-withdrawn"
      [] OTHER -> "required-recovery"

\* The requests main() goes through: those with an answer and a note on file.
Reconciled == {n \in DOMAIN rec.copy : answer[n] # 0}

-----------------------------------------------------------------------------
(* Properties.                                                             *)

TypeOK ==
    /\ pc \in 0..(Len(prog) + 1) /\ tries \in 0..Retries
    /\ batch \subseteq 1..(next - 1) /\ todo \subseteq batch /\ done \subseteq batch
    /\ \A f \in {mem, file, rec.copy} : \A n \in DOMAIN f :
          n < next /\ f[n].state \in {"planned", "confirmed", "failed"}
    /\ flight \intersect landed = {} /\ flight \union landed \subseteq 1..(next - 1)
    /\ rec.todo \subseteq DOMAIN rec.copy /\ rec.tries \in 0..Retries

\* What a journal calls withdrawn has been withdrawn, by whomever: recovery
\* never passes over a note that is still in the pool because of a mark.
WithdrawnIsSpent ==
    \A f \in {mem, file, rec.copy} : \A n \in DOMAIN f :
        f[n].withdrawn => spentBy[n] # "nobody"

\* Whatever script runs, fails, dies or is followed by a recovery, the journal file
\* keeps the promise of JournalPromise: nothing in the pool is withdrawn twice, what
\* is on file stays there while its run is the last, marks are true and stay.
Spent   == {n \in Notes : spentBy[n] # "nobody"}
Journal == INSTANCE JournalPromise WITH
    pool <- landed, spent <- Spent, filed <- DOMAIN file,
    marked <- {n \in DOMAIN file : file[n].withdrawn}, old <- 1..(first - 1)
KeepsJournal == Journal!Spec

\* A note that is on file stays on file, through failures, crashes and recoveries,
\* until a later run of a script that begins with a fresh journal.
KeptOnFile ==
    [][\A n \in DOMAIN file \ DOMAIN file' : Running /\ n < first /\ prog[1] # "load"]_vars

\* At any point, a crash included, a script that keeps a journal has at most one
\* deposit that its journal does not know, of those that returned.
OneAtRisk ==
    script \in Keeping \union {"seed"} =>
        Cardinality((batch \intersect (flight \union landed)) \ DOMAIN file) <= 1

\* The deposits in a program, and those a run of it can make when the answers to
\* some are lost.  The spend a script compares with its guardrail leaves the
\* second kind out (devnet-relayer-validation.ts:233-246).
Count(p, op) == Cardinality({i \in DOMAIN p : p[i] = op})
Planned(p)   == Count(p, "deposit") + Count(p, "depositRetry") + Burst * Count(p, "create")
Exposure(p)  == Planned(p) + Retries * Count(p, "depositRetry")

\* A run puts at most so many deposits into the pool: the planned ones, each of
\* those it retries as often as the backoff list is long.
ExposureBounded ==
    Running => Cardinality({n \in landed \union flight : n >= first}) <= Exposure(prog)

\* When a recovery that includes planned notes is over, every note of its
\* journal that is still in the pool is in its artifact as failed, unless the
\* run that made it had marked it so.
RecoveredOrReported ==
    rec.on /\ rec.todo = {} /\ ~rec.dry /\ rec.planned =>
        \A n \in DOMAIN rec.copy :
            n \in landed /\ spentBy[n] = "nobody" =>
                rec.copy[n].state = "failed" \/ rec.attempts[n] = "failed"

\* Reconciliation tells who withdrew the note of a request: a note "already
\* withdrawn" was withdrawn by the relayer, one that "required recovery" by the
\* recovery, provided the recovery is the first one and lost no call.
ReconciledTruly ==
    /\ script \in {"relayer", "phase13bRelayer"} /\ rec.on /\ rec.todo = {} /\ ~rec.dry /\ rec.planned
    /\ ~rec.lost /\ recoveries = 1
    => \A n \in Reconciled :
         /\ Bucket(n) \in {"confirmed-success", "already-withdrawn"} => spentBy[n] = "relayer"
         /\ Bucket(n) = "required-recovery" /\ rec.attempts[n] # "failed" => spentBy[n] = "recovery"

\* scripts/seed-mainnet-pools.ts:299, when a run has failed: "Notes saved so far are
\* preserved in mainnet-seed-notes/".
SavedArePreserved == [][DOMAIN file \subseteq DOMAIN file']_vars
=============================================================================
