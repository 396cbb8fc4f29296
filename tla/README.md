# SNAP in TLA+

SNAP is a privacy pool on Solana. A depositor pays a fixed amount into a pool
and a commitment becomes a leaf of the pool's Merkle tree; whoever knows the
note behind a commitment can later prove in zero knowledge that *some* leaf is
theirs and have the same amount paid to any recipient, by calling the program
directly or through a relayer that pays the transaction fee. A *nullifier*,
revealed by the withdrawal, keeps a note from being paid twice.

This directory models the parts of the code in which order, concurrency and
failure decide whether money is kept: the on-chain program, the relayer and the
limits in front of it, the client library, and the operator scripts with the
journals of notes they leave behind.
Paths below are relative to the repository (`src/` in PROJECT.json).

## 1. Inventory

### On-chain program (`programs/agent-privacy-pool/src/lib.rs`)

* *State*: a pool account of one of five types (legacy, v2, SPL, fee-capable
  SOL, fee-capable SPL) with `next_index`, the incremental tree
  (`filled_subtrees`), a ring of recent roots (`roots`, `root_count`), inline
  commitments and nullifiers (legacy), a vault, a treasury (fee-capable pools);
  one `CommitmentPage` account per page of leaves; one `NullifierRecord` per
  spent nullifier.
* *Operations*: `initialize*`, five `deposit*`, ten `withdraw_zk*`,
  `update_treasury`, and the demo-only `withdraw`.
* *Interaction*: called by the SDK and by the relayer; every account is
  readable by everybody at any time.
* *Hard*: an instruction is atomic, but everything it is given was computed
  from an earlier state: the page index of a deposit, the root and path of a
  proof, the treasury account of a withdrawal. Rings, pages and trees have
  limits, and three programs (Rust, TypeScript, circom) must agree on the tree.
* *Correct when*: the vault covers every deposit not withdrawn; no nullifier is
  paid twice; every deposited note can be withdrawn; recent roots are accepted
  and no others; a proof pays only its recipient; the protocol fee is paid to the
  treasury of the moment.

### Relayer (`relayer/src`)

* *State*: the table `relay_requests` in SQLite (`store.ts`); per call, local
  copies of a row, of a pool account and of a signature.
* *Operations*: the HTTP handler of `POST /relay` (`service.ts: relay`,
  `waitForTerminalState`), the `RetryManager` (`retry.ts`), and
  `processRecord`, which both of them run over the same rows; transaction
  building, sending and nullifier lookup (`tx-builder.ts`); the rate limits inside
  the reservation (`rate-limiter.ts`, `store.ts`), which every replica on one
  database shares; request envelope, fee calculation, metrics and start-up.
* *Interaction*: HTTP clients, Solana RPC calls (each an `await` that may fail,
  time out, or succeed and report failure), the on-chain program.
* *Hard*: a row is worked on by two asynchronous loops at once, from copies;
  updates select a row by id whatever its status has become; sent transactions
  may be lost, delayed or expire; the process may crash between a send and the
  write that records it. Windows are counted by clocks that differ; fees are
  quoted by one configuration and demanded by the next.
* *Correct when*: a request is reported successful only if its nullifier is
  spent on chain; one request per note; requests settle and are answered; what
  may still land is not sent again; the retry limit bounds submissions; no window
  lets through more than its limit, and a client that waits as told is served.

### SDK (`sdk-package/src`)

* `snap-client.ts` and `spend-limits.ts`: deposits and withdrawals as sequences
  of RPC calls. *State*: the notes a client was given, the limiter's history, and
  what a call read at each await. *Hard*: a page index computed from an old
  `next_index`; a note registered only after the transaction call returned; spend
  limits checked before an await and recorded after it; an account and its pages
  read by separate calls. *Correct when*: a note that was returned is in the pool
  and found there; a withdrawal answered is the one that took the note; spending
  stays within the policy; a call fails only if somebody overtook it.
* `note-store.ts`, `note-registry.ts`: the local database of notes.
* `history.ts`: a pool's timeline rebuilt from its transactions.
* `merkle.ts`, `commitment-pages.ts`: the tree, and the merge of inline leaves
  and pages into one list of leaves.
* `commitment.ts`, `proof.ts`, `keys.ts`, `key-derivation.ts`,
  `relayer-auth.ts`, `utils.ts`: pure functions over bytes and field elements.

### Operator scripts (`scripts`)

* *State*: a journal of notes in memory and on disk
  (`devnet-validation-shared.ts`), and artifacts of relay requests and recoveries.
* *Operations*: the validation scripts, the seeding of the mainnet pools and the
  soak test deposit, withdraw and relay with retries, and write the journal between
  their calls; `recover-devnet-notes.ts` withdraws what a journal still holds;
  `reconcile-relayer-burst.ts` decides what became of the requests of a burst.
* *Interaction*: the SDK, a relayer the script runs, files.
* *Hard*: a call may time out although its transaction executes; a script may die
  between a deposit and the write that records its note; a resumed run starts from
  the file of the last one; a recovery judges from what others wrote.
* *Correct when*: at most one deposit at a time exists only in memory; a note called
  withdrawn is withdrawn; a recovery leaves nothing behind without saying so; a
  failed run has risked no more than announced; notes on file stay on file.

### The rest

Circuits (`circuits/`), the agent kit tool and the integrations. `sdk/`, `agents/`
and `examples/` are earlier sources and samples.

## 2. Modules

| module | models | role |
|---|---|---|
| `RelayStore` | `store.ts` | what a row is, and each UPDATE as an operator on it |
| `Relayer` | `service.ts`, `retry.ts`, `tx-builder.ts` and the cluster | state machine |
| `RelayPromise` | what the relayer promises a client | abstract specification |
| `MCRelayer` | | constants of the relayer's runs |
| `RelayerProofs` | | theorems about `Relayer` |
| `RetryProofs` | | theorems about the retry manager, alone and beside handlers |
| `MerkleTree` | the tree in `lib.rs`, `merkle.ts`, `withdraw.circom` | pure operators |
| `TreeGrowth` | `append_v2_commitment` from the first leaf to the last | state machine, for `GrowthProofs` |
| `TreeProofs` | | lemmas and theorems about the operators of `MerkleTree` |
| `GrowthProofs` | | theorems about the growing tree of `TreeGrowth` |
| `Pool` | `lib.rs`, `commitment-pages.ts` | state machine, extends `MerkleTree` |
| `ShieldedLedger` | what a pool promises its depositors | abstract specification |
| `MCPool` | | constants of the pool's run |
| `PoolProofs` | | theorems about `Pool`, over `TreeProofs` |
| `SdkClient` | `snap-client.ts`, `spend-limits.ts` | state machine, over `ShieldedLedger` |
| `MCSdkClient` | | constants of the client's run |
| `SdkClientProofs` | | theorems about `SdkClient` |
| `Gateway` | `reservePending` of `store.ts`, `rate-limiter.ts`, `fee-calculator.ts`, the fees in `service.ts` | state machine |
| `MCGateway` | | constants of the gateway's run |
| `GatewayProofs` | | theorems about `Gateway` |
| `NoteJournal` | `scripts/` | state machine |
| `JournalPromise` | what a journal promises to a recovery | abstract specification |
| `MCNoteJournal` | | constants of the journals' runs |
| `NoteJournalProofs` | | theorems about `NoteJournal` |

Operators called `...Late`, `...Unguarded`, `...Again` and the like stand
beside the definition they vary and are used by no specification: each is the
mistake that one of the properties is there to catch (PROJECT.json, "mutants").

### Relayer

The relayer is one Node process, so code runs uninterrupted from one `await` to
the next. A process of the model is a request's HTTP handler or the retry
manager; `pc` is the await it is suspended at. An action is the code between
two awaits together with the outcome of the first.

| state | code |
|---|---|
| `row` | the rows of `relay_requests` |
| `job`, `todo` | the row copies `processRecord` and `RetryManager.tick` hold |
| `seen` | the pool account a call fetched, held across later awaits |
| `verified` | history: the requests whose checks in `relay()` all passed |
| `tx`, `spentBy`, `good` | the cluster: transactions, spent nullifiers, proofs that would still verify |
| `faults`, `crashes` | counters of what the bounds limit |

| actions | code |
|---|---|
| `Reserve`, `RejectDuplicate` | `reservePending` and its unique index |
| `RelayFetch`, `RelayCheck`, `RelayProve` | the checks of `relay()` and `finalizeReservedRecord` |
| `Respond`, `HandlerPicks` | `waitForTerminalState` |
| `Tick`, `RetryPicks`, `TickEnds` | `RetryManager.tick` |
| `ProcessFetch` | `processRecord` up to the pool account |
| `Send`, `SendReturns`, `SendRejected` | `submitPendingRecord` around `sendRawTransaction` |
| `Status`, `SpentCheck`, `HeightCheck` | the awaits of `inspectSubmittedRecord` |
| `RecoverPending`, `RecoverSubmitted` | `tryRecover...SpentFailure` |
| `TimePasses`, `Execute`, `Expire`, `SpendElsewhere`, `RootAgesOut`, `Crash` | timers, the cluster, other users, restart |

`Send` and `SendReturns` are two steps because a crash, the retry manager or the
cluster may come between the moment the cluster has the transaction and the
moment the row says so. An ambiguous error of `sendRawTransaction` takes the
path of success, with a transaction that may be lost. A fetch that is only
decided upon later leaves its result in `seen`. Whatever throws in `relay()` without
being a refusal ends in `Abandon`: a call that fails, a verifier that does, and the fee
of a request that is right but more than the pool pays out (`FeeOk` and `FeeExcessive`).

### Merkle tree

Poseidon is symbolic: a hash is the pair of its arguments, so two roots are
equal exactly when their trees are, which is collision resistance as an
assumption. `Insert` is `append_v2_commitment` with its zero subtrees,
`TreeRoot` the recomputation in `merkle.ts`, `PathElements` its proofs, `PathRoot` and
`Provable` the climb in the circuit for path indices that are the bits of a leaf's index.
The circuit does not require bits (`withdraw.circom:20-28`, `withdraw_20.circom:18-26` give
`pathIndices[i]` to `Mux1` as it is); what it computes for anything else is not
modelled, so the tree's modules say which leaves *can* be proved and nothing of what
cannot. `Ancestors` is the index halved level by level, as
the loops in the code do, and `Width` the number of leaves under a node of each height.

### Pool

An instruction either succeeds or changes nothing, so each is one action whose
guard is its success. `kind` is the pool's account type; the ten withdrawals
and five deposits are ten and five actions built from the helpers they share in
the code. `Prove` is the client: it reads the accounts of some state, merges
pages and inline leaves (`MergeCommitmentSources`), and proves a note for a
recipient; the proof stays in `proofs` and may be submitted any number of
times, by anybody, in any later state. A client's node may also show one leaf
more than the chain will ever have. A proof is the triple of its public inputs.
`Prove` is `generateWithdrawProof`, and its proofs are of listed notes because of how it
makes them. `ProveOtherwise` is everybody else: a proof with a nullifier of
`OtherNullifiers`, for any root in the ring, behind which there need be no leaf. That a
proof which verifies is always of a listed note is what `docs/CIRCUIT_SPEC.md:90-98` says of
the circuit; nothing here assumes it or shows it. Recipients whose keys share the 31 bytes that enter the proof are one
recipient to `Verify`, as in the code. SOL and SPL pools differ in how
lamports or tokens are moved, which `Pay` does not distinguish.

### SdkClient

Several processes use one pool, which is the ledger of `ShieldedLedger`: `Pool`
implements it, so a client can be checked against it without its trees. The leaves a
client reads are a prefix of the ledger with zeros behind, and a root is named by
the number of leaves under it. A call is a record in `call`, suspended at the await
named by `pc`, with everything it read so far.

| actions | code |
|---|---|
| `Deposit`, `DepositSend`, `DepositReturns` | `deposit()` |
| `FetchPool`, `FetchCommitments`, `CheckAndProve`, `BuildCreateAta`, `WithdrawSend`, `WithdrawReturns` | `withdraw()`, with `findCommitmentIndex` and the spend limiter |
| `PostRelay`, `RelayReturns` | `withdrawViaRelayer()` |
| `UpdateTreasury`, `TreasuryReturns` | `updateTreasury()` |
| `Fails` | an error or a time-out at any await |
| `Land`, `Refuse`, `DepositElsewhere`, `Tick` | the cluster, other depositors, time |

What a call computed from its reads goes into its transaction, and is compared with
the ledger only when the transaction executes, perhaps after the call has failed.
The node that serves the pages may be up to `Lag` deposits behind the one that
served the account. The relayer of this module is `RelayPromise`: it answers once
per note, when the note is spent. One call is open per client: concurrent calls of
one client share a limiter that is checked before their awaits and told after
them, so its limits hold only for callers that await each call.

### Gateway

Replicas share the table `rows`; each has a clock that is ahead by its `drift` and a
configuration (`config`). `Accept` is `relay()` up to its first await, hence one
step: it counts the windows, looks for the nullifier and inserts the row. A refused
request leaves nothing behind and is no step; what the refused client is told is
`Refusal` and `RetryAfter`. `Pass` and `Reject` are the fee checks once the pool
was fetched; `GetInfo` quotes; `Restart` starts a replica with other fees. A client
signs for a fee it was quoted or for one of its own choice, and a request may be
delivered late, twice, and to any replica. The freshness that the envelope demands
only takes behaviours away and is left out.

### NoteJournal

Every script that deposits is a program, a sequence of step names such as `<<"depositRetry",
"plan", "persist", "await", "deposited", "persist">>` for `journaledDeposit`, and
each step is one await with the code up to the next. The module interprets the
programs: each action is one kind of step, guarded by `Op`.

| state | code |
|---|---|
| `prog`, `pc`, `tries` | the script, where it is, the failed attempts of `withDevnetRetry` |
| `batch`, `todo`, `done` | its notes of the current scenario |
| `mem`, `file` | `PersistentNoteJournal` in memory and on disk |
| `flight`, `landed`, `pend`, `spentBy` | deposits and withdrawals at the cluster |
| `accepted`, `answer` | the relayer's database, and the statuses in the artifact |
| `rec` | `recover-devnet-notes.ts` and its copy of the journal |

The relayer validation runs the scenarios it was started with (`Selections`); the
concurrency check goes through two of its three levels, each of which is one `Level`.
`Failed` is a call that throws: it is retried, continues behind the `catch` of the try
block around it, or ends the script. A call may fail and execute later
(`Ambiguous`, bounded by `faults`). `Crash` ends a script anywhere. `Bucket` is the
classification of `reconcile-relayer-burst.ts`. `JournalPromise` is what all of this is for: it
has the pool, the notes on file and the marks, and nothing of scripts and recoveries.

## 3. Properties and runs

Each run asks one question. Bounds are the smallest at which the case it is
about occurs; PROJECT.json names for every property the mutant that breaks it.

**`RelayerRace`** (two requests for one note, no RPC failure, one crash, legacy
pools, 2 transactions, 1 retry). Two requests for one note make the unique
index matter; a handler and the retry manager on one row make copies go stale;
the crash falls between any two awaits; legacy pools are the ones where the
nullifier is looked up in a pool account fetched earlier. Shows `TypeOK`;
`ConfirmedIsSpent`: nothing is confirmed or answered with success that is not
spent on chain; `KeepsPromise`: the relayer implements `RelayPromise`.

**`RelayerRecovery`** (two requests found in the database at start-up, the retry
manager alone, 4 transactions, 1 retry, 1 failure, PDA pools). Four signatures
are the two submissions each that one retry allows.
`SignatureOfOwnRequest`; `OneLiveTransaction`; `SubmissionsBounded`;
`ConfirmedHasSignature`; `TerminalIsFinal`. The last four are properties of the
retry manager *alone*: with the handler of a request on the same row they do not
hold, because each of the two acts on a copy of the row. The code takes this
race, and what still holds under it is what `RelayerRace` and `RelayerLive` say. What does
not, the retry limit, is the run `RelayerSubmissions` below.

**`RelayerLive`** (one request, handler and retry manager, 3 transactions, no
retry, 1 failure). `Settles`: however often the two reopen the row
under each other, from some point on it stays terminal; `Answered`: the client
gets an answer. The fairness is that of the runtime, no more: a
suspended call is resumed (RPC calls have time-outs), timers fire, the retry
interval ticks, and block heights grow, so that each blockhash expires. No
transaction has to be executed and no request has to arrive. `Respond` and
`HandlerPicks` share one fairness condition because they are the two ways on from
one loop. With no retry the race of the two sends two transactions where the
retry manager alone would send one, and never three (theorem `SubmissionsUnderRace`), so the
bound of three leaves nothing out and `Send` is never disabled for want of one. No retry is a
bound of cost: a second one takes five transactions and more states than a run should.

**`Pool`** (all five kinds, depth 2, 2 roots kept, pages of 2 leaves, 3 notes
of which one has the nullifier zero, 1 nullifier of nobody's note, 2 recipients, 2
treasuries, 2 proofs).
Four leaves fill the tree, two pages and the ring twice over; a pool with one
inline leaf starts its first page at an offset; a note may be deposited twice; an
amount of 59 with 500 basis points makes the fee round down, and a relayer's
fee of 57 fits in a pool without a protocol fee and is refused where there is one. Two
proofs are what it takes to spend one note twice, to two recipients, or before
and after the root left the ring.

* `KeepsLedger`: the program implements `ShieldedLedger`: what a client rebuilds
  from the accounts is every deposit in order; a nullifier is spent once, whoever made
  its proof, and one that a proof of the SDK spends is that of a deposited note; the vault
  moves by exactly one deposit. That nobody but the owner of a note can make a proof
  is no part of it.
* `Solvent`: the vault is the leaves less the spent nullifiers.
* `RootsOfLastDeposits`: accepted roots are those of the last deposits, as the
  client computes them: the incremental tree of the program is compared with the
  recomputation of the SDK after every deposit.
* `PageTakesNext`: while the tree has room, the page of the next leaf, new or begun,
  accepts it; a page that refused its next leaf would stop all deposits for good.
* `FreshProofAccepted`: in every state every note that is deposited and not
  spent can be proved and withdrawn (`ENABLED`), as long as only proofs of the SDK were
  spent: others may have emptied the vault. Notes with the nullifier zero
  are excluded: every deposit accepts them and every withdrawal refuses them.
* `PaidAsProved`: recipients are paid at most what was proved for them.
* `FeesToTreasury`: a withdrawal of a fee-capable pool pays the fee to the treasury the pool
  has when it executes and nothing to any other; no other step pays a treasury.
* `TypeOK` bounds the tree's index by its capacity.

**`SdkClient`** (clients `a`, which withdraws directly, and `b`, which withdraws
through a relayer and is the authority; a legacy pool and an SPL pool with fees; capacity
4, pages of one leaf, two roots, two deposits that raced for the first leaf already
in the pool, one more by a client and one by another depositor; 2 transactions, lag
1, a day of two ticks). Pages of one leaf make every deposit in between change the page
index; two roots are forgotten after two deposits; two transactions are a deposit that
overtakes a withdrawal, or two withdrawals of one note; the per-hour policy of `a`
and the per-day policy of `b` allow one withdrawal in their window.

* `DepositedIsKept`: a note that was returned to a caller is in the pool.
* `AnsweredByItsOwn`: a direct withdrawal is answered only if its own transaction
  took the note.
* `WithinPolicy`: the withdrawals that a client was told of stay within its hourly
  and daily limits, over errors, prunings and other clients.
* `HeldIsFound`: a held note is found in the leaves a client reads, even when the
  deposit ended at another index than the note says.
* `RefusedOnlyIfOvertaken`: the program refuses a withdrawal only because of
  something that happened after its first read.

**`Gateway`** (2 replicas, 2 addresses, 3 notes, a limit of 1 per address and 2 for
all, a window of 2 ticks, clocks that differ by one, 4 instants, 1 restart, a SOL and an
SPL pool, two configurations of which one has a fee that exceeds the deposit). Limits of 1
and 2 let both refuse; three notes are one more than the global limit; four instants are
a window and the first instant behind it. Replicas, addresses and notes are symmetric,
which is sound here because every property is one of safety and names none of them.

* `WindowLimits`: no window holds more accepted requests than the limits, whatever the
  clocks and restarts. (A limit of zero lets the first request of a window pass,
  as in the code; `Largest` says so.)
* `WaitedIsServed`: whoever waits longer than a 429 says is not refused by the same limit
  again, if nothing was accepted meanwhile. Waiting exactly `retryAfter` is not
  enough: the window counts its oldest instant.
* `QuotedIsAccepted`: a request for a quoted fee is refused for its fee only by a replica
  that was started with other fees.

**`NoteJournal`** (11 scripts, 1 retry, bursts of 2; long scripts, that of the
concurrency check among them, with one run, one recovery and one ambiguous failure, the
others with two of each; the relayer validation with baseline, burst and restart selected, or
with raw throughput and restart). All four scenarios in one run only repeat a
burst and are left to the proofs, which take any selection. Two runs are a script that stopped and is resumed, two recoveries one that
died and is started again; a burst of two is one request that succeeds beside one that
does not. `MaxNotes` is 14, more than any run makes.

* `OneAtRisk`: when a script that keeps a journal dies, at most one deposit that
  returned is unknown to its file.
* `WithdrawnIsSpent`: what a journal calls withdrawn is withdrawn.
* `RecoveredOrReported`: a recovery over all notes leaves none in the pool but
  those it reports as failed or the script had.
* `ReconciledTruly`: the bucket of a request names who withdrew its note, after one
  recovery that lost no call.
* `ExposureBounded`: a run deposits at most what its program has and, for each deposit
  that is retried, the retries whose predecessors executed all the same. The guardrails
  of the scripts are compared with a plan without retries.
* `KeptOnFile`: a note on file is removed only by a later run that starts a new journal.
* `KeepsJournal`: scripts and recoveries implement `JournalPromise`: besides the above, a mark
  is of a note that was withdrawn when the file was written, and no write of a resumed
  run or of a recovery, which writes a copy it made earlier, takes a mark back.

No run checks for
deadlock: a full tree, a full pool whose notes are all withdrawn, a relayer whose
requests are all settled, clients with no transactions left and scripts that have
ended, really stop.

### Disagreements between the code and its documentation

Each is a run with a single property that TLC violates; PROJECT.json quotes the
lines.

* **`RelayerUnverified`** / `VerifiedBeforeSubmission`: the README of the relayer
  says requests are verified before submission. The row is reserved, pending and
  due, before the checks and their awaits; a tick in between submits it.
* **`RelayerSignature`** / `ConfirmedByItsSignature`: a transaction that lands
  between two calls of one inspection is taken for expired, a second one is
  sent and lost, and the row is confirmed with the signature that never landed.
* **`RelayerAbandoned`** / `AbandonedAtLimit`: any failure to fetch the pool
  account becomes a 404, which is final; the README says failed requests are
  retried up to the limit.
* **`RelayerSubmissions`** / `SubmissionsBounded`: the README of the relayer has
  `MAX_RETRIES` bound the retries after the initial submission. A handler and the retry
  manager on one row each submit from their copy, and a call of one that fails reopens
  the row behind the other: three transactions with one retry and one failed call.
  `SubmissionsUnderRace` says how far this can go.
* **`SeedAgain`** / `SavedArePreserved`: when seeding fails, the script says that the
  notes saved so far are preserved; the next run collects its notes in an empty
  list and writes them over the file.

## 4. Theorems

All hold for every value of the constants that satisfies the named assumptions
of the modules (`StoreAssumption`, `RelayerAssumption`, `TreeAssumption`,
`PoolAssumption`, `SdkClientAssumption`, `GatewayAssumption`, `NoteJournalAssumption`,
`ScriptsAssumption`), which say what the configuration of the code allows: a tree has a level, pages and histories hold
something, recipients and treasuries are finitely many, a backlog of
notes fit the tree, an hour is no longer than a day. TLC evaluates each of them on a run.

**`RelayerProofs`**: `TypeCorrect`, `ConfirmedCorrect`, `SignatureCorrect`,
`PromiseKept` (`Spec => KeepsPromise`).
`ConfirmedIsSpent` is not inductive: a row is confirmed on evidence that is
second-hand, a copy of the row read steps ago, a signature from that copy, a
pool account fetched before other awaits. The invariant `Inv` says of
each piece that it was true when it was read and speaks of something stable:
a nullifier stays spent (`SeenOK`, `WorkOK`), a transaction keeps its request
(`ChainOK`, `RowOK`, `TodoOK`), a stored row stays stored. `UniqueOK` is the
unique index and gives the one-request-per-note half of the promise;
`ReplyOK` ties answers to rows. One lemma per update of the store and per group of
actions; `PromiseStep` maps each step to a step of `RelayPromise` or to a stutter.

**`RetryProofs`**: what `RelayerRecovery` checks on two requests, for any number of
them, any retries, faults and signatures. The theorems carry the hypothesis
`RetryAlone`, that every request is already in the database when the relayer starts, so
no handler ever runs: the situation after a restart. It is needed, not convenient: with
a handler on the same row the properties fail.

* `ConfirmedWithSignature` and `SettledForGood` (`Spec => TerminalIsFinal`) hold over
  any crashes.
* `NeverTwoLive` (`Spec => []OneLiveTransaction`) and `SubmissionsAreBounded` assume
  `MaxCrashes = 0` as well. A crash between `sendRawTransaction` and
  `markSubmitted` leaves a transaction that no row knows of; the row is due again
  and is submitted once more. `SubmissionsAreCounted` says how much that costs: at most
  one transaction beyond the limit for each crash.

The invariant `RetryInv` is about staleness: a tick copies all due rows and then works
through the copies. It says that each copy still agrees with its row (`CopiesOK`,
`JobOK`), which transaction of a row can still land (`LiveOK`), and that the
retries a row has counted pay for the transactions sent (`CountOK`).

The second part drops every hypothesis: handlers and the retry manager work on the same
rows, with any crashes. `SubmissionsUnderRace` (`Spec => []RacedSubmissionsBounded`): for
each request at most `2 * MAX_RETRIES + 3` transactions are sent (two without
retries), and one more for each crash. That is more than the documented `MAX_RETRIES + 1`,
which the run `RelayerSubmissions` shows to be exceeded. The bound is not loose: TLC reaches five with one
retry and two with none, without a crash. A failure is counted in the row but judged by the
copy that failed, so the row may be open again for the other worker although the limit is
reached. `RaceInv` therefore counts ahead: `PaidFor` says that the transactions sent, the one
that each worker is about to send (`Intends`) and the one it may send from the next copy it
takes (`May`) stay within what the retries counted in the row pay for (`Budget`). `CopiesAged`
says that a copy has counted no more retries than its row, `OneStale` that at the limit at
most one of the two workers still has a copy that would reopen the row, and `StepsFit` that
the retry manager does not hold a row twice.

**`TreeProofs`** is about the operators alone, for trees of any depth. Program, SDK and
circuit are each compared with `NodeAt`, the node of a level at a position when
everything right of the leaves is empty. `ListedIsProvable`: getProof's path
leads the circuit to getRoot's root. `InsertFacts`: `append_v2_commitment` computes
that root too, from one left sibling per level (`FilledFor` says which of
`filled_subtrees` matter). The lemma `RootsDiffer`: lists with the same root are the same
list, as long as hashes do not collide. **`GrowthProofs`** concludes `ProgramAgreesWithSdk`
(`Spec => []IncrementalIsFull`) and `CircuitAcceptsEveryLeaf`
(`Spec => []EveryLeafProvable`) of `TreeGrowth`. The `Pool` run checks the same
agreement, of a tree of depth 2, as parts of `RootsOfLastDeposits` and `FreshProofAccepted`.

**`PoolProofs`**, for trees, pages, histories, deposits and fees of any size:

* `PoolSolvent` (`Spec => []Solvent`). `Solvent` counts
  spent nullifiers, the program counts withdrawals. `Inv` adds that the two counts
  agree (`CountOK`), that the vault is what the counters make it (`MoneyOK`), and
  that a pool uses one of the two places for nullifiers and never the other
  (`PlaceOK`); without that a nullifier could be listed in one and recorded in the
  other, and the counts would part. `EveryWithdrawal` reduces the ten
  instructions to one shape, so that the argument is made once.
* `RootsAreRecent` (`Spec => []RootsOfLastDeposits`) and `PoolKeepsLedger`
  (`Spec => KeepsLedger`), from `ListInv`. `PagesOK` says which leaf is in which
  account, so that a deposit appends to what the client merges (`PagesGrow`), also
  into a page that starts behind inline leaves. `TreeOK` says that `filled_subtrees` is that
  of the list and that each entry of the ring is the root of one of its last
  prefixes (`RingTurns` for the entry that is overwritten). For the
  ledger a withdrawal with a proof of the SDK must be of a listed note: the proof is of a note
  in *some* list (`ProofsOK`), its root is in the ring, hence the root of a prefix, and by
  `RootsDiffer` the list is that prefix. Of other proofs (`OtherNullifiers`) only what the
  program enforces is shown: one payment per nullifier, of one deposit.
* `NoNoteStranded` (`Spec => []Withdrawable`): what `FreshProofAccepted` says with
  `ENABLED`, guard by guard, in states in which only proofs of the SDK were spent. For every note that is listed and not spent the path of the
  SDK is accepted by the circuit, the root of the whole list is in the ring, and the vault
  holds one more deposit: spent nullifiers are then those of listed notes (`SpentListed`, kept
  by every step of the ledger), so there are fewer of them than leaves. The protocol
  fee leaves something to pay (`FeeLeavesSome`).
* `PagesNeverWedge` (`Spec => []PageTakesNext`) and `RootsAgeOut`: the root of the first k
  deposits is accepted exactly while fewer than `RootHistorySize` followed them. The one
  follows from `PagesOK` (`OpenPageFacts`), the other from `RingIsRecent` and `RootsDiffer`, since a
  root that came back would be the root of two lists. These are the two facts about the
  program that `SdkClient` builds in: there a deposit for the right page is
  accepted, and a root is known or not by its age.
* `NobodyOverpaid` (`Spec => []PaidAsProved`), whoever made the proofs, and
  `EveryFeeCollected` (`Spec => FeesToTreasury`), step by step: `FeeStep` for the ten
  withdrawals, `OthersPayNobody` for the rest; with a few lemmas about sums over finite sets (`SumStep`).
* `TypeCorrect`.

**`SdkClientProofs`**, for any clients, calls, capacities, histories and lag:
`TypeCorrect`, `DepositsAreKept` (`[]DepositedIsKept`), `AnswersAreOwn`
(`[]AnsweredByItsOwn`), `HeldNotesAreFound` (`[]HeldIsFound`), `RefusalsAreOvertaken`
(`[]RefusedOnlyIfOvertaken`). A call acts on what it read steps before. `Inv` says that
what it read is of the past of the pool (`ReadOK`), the same of a
transaction under way (`WithdrawalsOK`), and ties calls to transactions (`SentOK`)
and notes to their one deposit (`DepositsOK`); `Kept` says what no step takes
back. `PolicyHolds` (`[]WithinPolicy`) has the hypothesis `OneAtATime`: a client with a
limiter has one call open at a time. The limiter is asked before the awaits of a
withdrawal and told after them, so two calls of one client may both pass, and
the limit is then exceeded. `LimitsInv` says that what a call
was allowed is still allowed when it is answered, and that pruning forgets nothing that
a window still counts, because an hour is no longer than a day.

**`GatewayProofs`**: `TypeCorrect`, `LimitsHold` (`Spec => []WindowLimits`),
`WaitedServed` (`Spec => []WaitedIsServed`), `QuotesHold` (`Spec => QuotedIsAccepted`),
for any number of replicas and requests, any drift, limits and windows.
`WindowLimits` is inductive with `TypeOK` because of whom a reservation counts: every
row not older than one window before it, those of clocks ahead included. So of the
rows of a window, whichever was inserted last has counted all the others, although
it need not be the youngest. `WaitedIsServed` rests on it: what a refusal counted is
at most the limit, and the oldest row of it has left the window by then, so fewer
are counted, or none. For `QuotesHold` the invariant `QuoteOK` says that the fee of a request with a quote is the
one `getInfo` computed from it, and that a quoted fee can be paid.

**`NoteJournalProofs`**: all eight properties of the run, for every set of scripts, any burst,
retries, notes and bounds: `TypeCorrect`, `MarksAreTrue` (`[]WithdrawnIsSpent`),
`AtMostOneAtRisk` (`[]OneAtRisk`), `FileIsKept` (`KeptOnFile`), `NothingLeftUnreported`
(`[]RecoveredOrReported`), `ExposureIsBounded` (`[]ExposureBounded`), `VerdictsAreTrue`
(`[]ReconciledTruly`), `JournalsKeepTheirPromise` (`Spec => KeepsJournal`).

* None of the properties is inductive: that a mark is true rests on what the script did
  before it wrote it, and that differs from step to step of eleven scripts, whose length
  grows with the burst. So a program is read as a walk through sixteen *stages*
  (`"clean"`: every note that was made is on file and nobody has taken one; `"made"`,
  `"noted"`: one is not on file yet; `"asked"`: some have been withdrawn and not
  marked; ...). `Edge(a, op, b)` lists the steps from one stage to another, and
  `PoolStaged` to `SmallStaged` show each script that keeps notes on file to be such a walk
  (the canary of the relayer and the soak test keep none, `Loose`), from its parts
  (`LeadsThen`, `LeadsRound` for what is repeated, `LeadsGuarded` for a `try` block). A
  script out of order, one that marks before it asks or goes on before it has written, is
  no walk.
* `Holds(s, op)` says what is so at a stage, and `StageOK` that it is so where the script
  is. One lemma for each kind of step shows that it leads from one stage to the next,
  `StageReached` that this suffices also when a call throws, because every catch is a stage
  of which little is asked.
* `RiskOK` is the one unfiled deposit: a deposit is made only at `"clean"`. `JournalsOK`
  relates memory to file (what a running script has forgotten is of an earlier run), which
  gives `KeptOnFile`. `RecoveryOK` follows a recovery through its copy.
* `ExposureIsBounded` counts: `CostOK` says that the notes made so far are paid for by the
  steps passed (`Ticks`) and the attempts of the one the script is at; `TimesMore` adds up
  the repetitions.
* `ReconciledTruly` is about the two scripts that burst. `Takers` says who can have taken a
  note at all, `MarksAnswered` that before a first recovery only notes with the answer
  200 (or of an earlier run) are marked, and `FoundOut` what each verdict of that recovery
  is evidence of. With a second recovery, or a lost call, that no longer holds, and
  neither does the conclusion.
* `JournalsKeepTheirPromise` adds two parts to the invariant: only a note in the pool is
  withdrawn or about to be (`PooledOK`), and the copy a recovery works on has every mark of
  the file it will replace (`CopyOK`). Each step is then a step of `JournalPromise` or a
  stutter: a deposit or a withdrawal that lands (`PoolGrows`, `NoteIsTaken`), a write
  (`FileIsWritten`), or the begin of a run.

Induction is done where it is needed, over levels, leaves and cardinalities, without the
library's induction theorems, which take an operator: `Least` derives
from a theorem about well-founded orders that a set of naturals has a least
element, and `Upwards` that a set with 0 that is closed under successor up to n holds
all of 0..n; a proof by induction gives the set of numbers for which its claim holds.

**Model-checked only.** Liveness (`Settles`, `Answered`) and `FreshProofAccepted`, which is
stated with `ENABLED`, are out of the prover's reach; `NoNoteStranded` proves the guards of
the latter one by one. Every other property of a passing run is a theorem. The five
disagreements of section 3 are TLC's.

## 5. Not modelled

* The demo-only `withdraw` instruction, rent and account sizes, and
  instructions that name accounts of another pool (refused by their constraints).
* In the relayer: the branch of `processRecord` for a row whose stored payload
  cannot be read, parsing and freshness of the envelope, metrics, and the parsing
  of the environment. Signatures and fees enter `Relayer` as the sets `ProofOk`,
  `FeeOk`, `FeeExcessive`; a run for the loop of a row in `FeeExcessive` (see the
  hazards) is left to a later step.
* In the SDK: concurrent calls of one client, estimates, the note store and the
  history. A note whose deposit landed although its call failed is lost with the
  call; there is no state a property could compare it with.
* In the scripts: a recovery beside a running script, the legacy derivation of a missing
  burst artifact, measurements, simulations and balances, temporary keys, and the
  scripts that deposit nothing.
* Cryptography: Poseidon, Groth16, key derivation, encryption; and the soundness of the
  withdraw circuits. They constrain neither `pathIndices` to bits nor, therefore, the leaf
  to be one of the tree, and the models claim nothing that would need it.
* Integrations, the agent kit, samples: they pass arguments on.

## 6. Plan

Done: the relayer and the pool with their abstract specifications, the client over the
pool's, the reservation with its limits and fees, the operator scripts, and theorems about
all of them and about the tree. Left:

1. `NoteStore` and `History`: upserts and imports against the in-memory registry; the
   timeline against the ledger.
2. What of `TerminalIsFinal` and `OneLiveTransaction` survives with a handler on a row, as
   `SubmissionsUnderRace` does for the bound.

## 7. Running

    tlc -config Pool.cfg MCPool.tla
    tlc -config RelayerRace.cfg MCRelayer.tla
    tlc -config SdkClient.cfg MCSdkClient.tla
    tlc -config Gateway.cfg MCGateway.tla
    tlc -config NoteJournal.cfg MCNoteJournal.tla
    tlc -config RelayerSubmissions.cfg MCRelayer.tla    (and the other disagreements alike)
    tlapm RelayerProofs.tla
    tlapm RetryProofs.tla
    tlapm GrowthProofs.tla
    tlapm TreeProofs.tla
    tlapm PoolProofs.tla
    tlapm SdkClientProofs.tla
    tlapm GatewayProofs.tla
    tlapm NoteJournalProofs.tla

PROJECT.json lists every run with its module, the source lines of every definition
("map"), the hazards of the code with the properties aimed at each, and the theorems.
