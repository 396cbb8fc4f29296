----------------------------- MODULE SdkClient -----------------------------
(***************************************************************************)
(* The client library (sdk-package/src/snap-client.ts): deposits, direct   *)
(* and relayed withdrawals and treasury updates of several processes on    *)
(* one pool, with the spend limiter (spend-limits.ts) and the registered   *)
(* notes of each.                                                          *)
(*                                                                         *)
(* The pool is the ledger of ShieldedLedger.  A call is suspended at every *)
(* await: what it read from the accounts, a delay of its own choosing and  *)
(* the proof ago, is compared with the ledger only when its transaction    *)
(* executes.  A transaction may execute after its call has given up.       *)
(*                                                                         *)
(* The leaves a client reads are a prefix of the ledger, and missing       *)
(* leaves are zero, so a root is named by the number of leaves under it.   *)
(***************************************************************************)
EXTENDS Naturals, Sequences, FiniteSets, FiniteSetsExt, SequencesExt

CONSTANTS
    Clients, Calls,    \* processes, and the calls each may have open at a time
    ClientOf,
    Other,             \* a depositor that is not one of the clients
    Ways,              \* how each client withdraws: "withdraw", "relay" or both
    Limited,           \* clients with a spendLimiter
    Authority,         \* the pool's authority
    None,
    Options,           \* the options createPool is called with
    Recipients,
    DepositAmount, Capacity, PageCapacity, RootHistorySize,
    Policy,            \* SpendPolicy, its allowlist as "is the pool allowed?"
    Hour, Day,         \* HOUR_MS and DAY_MS, in ticks of the clock
    Quotes,            \* the fees a relayer may publish
    Backlog,           \* the notes already in the pool, of agents that stored them
    Lag,               \* deposits the node that serves the pages may be behind
    MaxNotes, MaxTxs, MaxTreasury, MaxTime

ASSUME SdkClientAssumption ==
    /\ ClientOf \in [Calls -> Clients]
    /\ Other \notin Clients
    /\ Ways \in [Clients -> SUBSET {"withdraw", "relay"}] /\ Limited \subseteq Clients
    /\ DepositAmount \in Nat \ {0} /\ Capacity \in Nat
    /\ PageCapacity \in Nat \ {0} /\ RootHistorySize \in Nat \ {0}
    /\ Policy \in [Clients -> [maxPerTransaction : Nat, requireOwnerApproval : Nat,
                               allowedPool : BOOLEAN, maxPerHour : Nat, maxPerDay : Nat]]
    /\ Hour \in Nat /\ Day \in Nat /\ Hour <= Day /\ Lag \in Nat
    /\ Backlog \in Seq([by : Clients, index : Nat])
    /\ \A n \in DOMAIN Backlog : Backlog[n].index < n
    /\ Len(Backlog) <= Capacity /\ Len(Backlog) <= MaxNotes
    /\ MaxNotes \in Nat

VARIABLES
    kind,                    \* the kind of the pool
    listed, spent, held,     \* the pool: its deposits, withdrawn notes, vault
    treasury,                \* how often its treasury was changed
    accounts,                \* the recipients that have a token account
    tx,                      \* transactions sent
    made,                    \* the notes created: by whom, with which index
    kept,                    \* the notes deposit() returned to each client
    history,                 \* what each limiter remembers
    ok,                      \* the withdrawals answered since the client started
    call,                    \* the state of each call
    now

pool   == <<kind, listed, spent, held, treasury, accounts>>
memory == <<made, kept, history, ok>>
vars   == <<pool, tx, memory, call, now>>

NoteIds == 1..(MaxNotes + 1)      \* one of them is of another depositor
\* All that withdraw are clients of the SDK.
Ledger  == INSTANCE ShieldedLedger WITH Notes <- NoteIds, NullifierOf <- [n \in NoteIds |-> n],
                                        OtherNullifiers <- {}

-----------------------------------------------------------------------------
(* createPool, and the pools it makes or finds.                            *)

FeeCapable(o) == o.treasury \/ o.bps # None

Creatable(o) ==
    /\ FeeCapable(o) => o.treasury /\ o.bps \in 0..500
    /\ o.mint => o.treeDepth = 20

KindOf(o) == IF o.mint THEN IF FeeCapable(o) THEN "feeSpl" ELSE "spl"
             ELSE IF FeeCapable(o) THEN "feeV2" ELSE "v2"

Bps(o) == IF FeeCapable(o) THEN o.bps ELSE 0

Spl       == kind.name \in {"spl", "feeSpl"}
Fees      == kind.name \in {"feeV2", "feeSpl"}
Legacy    == kind.name = "legacy"

Init ==
    /\ \/ \E o \in Options : Creatable(o) /\ kind = [name |-> KindOf(o), bps |-> Bps(o)]
       \/ kind = [name |-> "legacy", bps |-> 0]
    /\ listed = [i \in DOMAIN Backlog |-> i] /\ spent = {}
    /\ held = DepositAmount * Len(Backlog)
    /\ treasury = 0
    /\ accounts = {}
    /\ tx = <<>>
    /\ made = Backlog
    /\ kept = [c \in Clients |-> {n \in DOMAIN Backlog : Backlog[n].by = c}]
    /\ history = [c \in Clients |-> {}] /\ ok = [c \in Clients |-> {}]
    /\ call = [k \in Calls |-> [pc |-> "idle"]]
    /\ now = 0

-----------------------------------------------------------------------------
(* Steps of a call.                                                        *)

Waiting == {"depositDelay", "depositSent", "pages", "check", "account", "send", "sent",
            "post", "posted", "treasurySend", "treasurySent"}

Ready(k)   == call[k].pc = "idle"
At(k, pc)  == call[k].pc = pc
Set(k, r)  == call' = [call EXCEPT ![k] = r]
End(k)     == Set(k, [pc |-> "idle"])
Goto(k, l) == call' = [call EXCEPT ![k].pc = l]

\* The call sends transaction t and waits for it at label l.
Submit(k, t, l) ==
    /\ Len(tx) < MaxTxs
    /\ tx' = Append(tx, t)
    /\ Set(k, [pc |-> l, note |-> t.note, recipient |-> t.recipient, tx |-> Len(tx) + 1])

NoTx == [op |-> "none", note |-> 0, recipient |-> "none", page |-> 0, count |-> 0, root |-> 0,
         treasury |-> 0, creates |-> FALSE, state |-> "inflight"]

TxOf(k) == tx[call[k].tx].state

-----------------------------------------------------------------------------
(* deposit().                                                              *)

\* Mutant of Deposit: the note counts itself.
DepositCountsItself(k) ==
    /\ Ready(k)
    /\ Cardinality({n \in DOMAIN made : made[n].by # Other}) < MaxNotes
    /\ made' = Append(made, [by |-> ClientOf[k], index |-> Len(listed) + 1])
    /\ Set(k, [pc |-> "depositDelay", note |-> Len(made) + 1,
               page |-> Len(listed) \div PageCapacity])
    /\ UNCHANGED <<pool, tx, kept, history, ok, now>>

\* The pool is fetched; the note and the page follow from its nextIndex.
Deposit(k) ==
    /\ Ready(k)
    /\ Cardinality({n \in DOMAIN made : made[n].by # Other}) < MaxNotes
    /\ made' = Append(made, [by |-> ClientOf[k], index |-> Len(listed)])
    /\ Set(k, [pc |-> "depositDelay", note |-> Len(made) + 1,
               page |-> Len(listed) \div PageCapacity])
    /\ UNCHANGED <<pool, tx, kept, history, ok, now>>

DepositSend(k) ==
    /\ At(k, "depositDelay")
    /\ Submit(k, [NoTx EXCEPT !.op = "deposit", !.note = call[k].note, !.page = call[k].page],
              "depositSent")
    /\ UNCHANGED <<pool, memory, now>>

\* Mutant of DepositReturns: it does not wait for the confirmation.
DepositReturnsEarly(k) ==
    /\ At(k, "depositSent")
    /\ End(k)
    /\ kept' = [kept EXCEPT ![ClientOf[k]] = @ \cup {call[k].note}]
    /\ UNCHANGED <<pool, tx, made, history, ok, now>>

\* The note is registered, and handed to the caller, only now.
DepositReturns(k) ==
    /\ At(k, "depositSent")
    /\ TxOf(k) = "landed"
    /\ End(k)
    /\ kept' = [kept EXCEPT ![ClientOf[k]] = @ \cup {call[k].note}]
    /\ UNCHANGED <<pool, tx, made, history, ok, now>>

-----------------------------------------------------------------------------
(* The spend limiter.                                                      *)

\* Mutant of Prune: entries are forgotten after an hour.
PruneEarly(h) == {e \in h : e.time + Hour >= now}

\* pruneHistory.
Prune(h) == {e \in h : e.time + Day >= now}

Total(h) == DepositAmount * Cardinality(h)

SumSince(h, window) == Total({e \in h : e.time + window >= now})

\* check(), once the history is pruned.
Check(c, h) ==
    /\ DepositAmount <= Policy[c].maxPerTransaction
    /\ Policy[c].requireOwnerApproval > 0 => DepositAmount <= Policy[c].requireOwnerApproval
    /\ Policy[c].allowedPool
    /\ SumSince(h, Hour) + DepositAmount <= Policy[c].maxPerHour
    /\ SumSince(h, Day) + DepositAmount <= Policy[c].maxPerDay

\* record(), and the answer to the caller.
Record(k) ==
    LET c     == ClientOf[k]
        entry == [note |-> call[k].note, tx |-> call[k].tx, time |-> now]
    IN  /\ history' = IF c \in Limited THEN [history EXCEPT ![c] = Prune(@) \cup {entry}]
                      ELSE history
        /\ ok' = [ok EXCEPT ![c] = @ \cup {entry}]

-----------------------------------------------------------------------------
(* withdraw() and withdrawViaRelayer().                                    *)

Hint(n) == made[n].index + 1

\* A caller withdraws a note that some client returned or stores: notes are
\* handed from one to another.  First the pool account is fetched.
FetchPool(k, op, n, r) ==
    /\ Ready(k)
    /\ n \in UNION {kept[c] : c \in Clients}
    /\ Set(k, [pc |-> IF Legacy THEN "check" ELSE "pages", op |-> op, note |-> n,
               recipient |-> r, count |-> Len(listed), root |-> Len(listed),
               used |-> Legacy /\ n \in spent,
               treasury |-> IF op = "withdraw" THEN treasury ELSE 0, creates |-> FALSE])
    /\ UNCHANGED <<pool, tx, memory, now>>

\* Mutant of FetchCommitments: only the first page is fetched.
FetchCommitmentsFirstPage(k) ==
    /\ At(k, "pages")
    /\ \E shown \in 0..Len(listed) :
          /\ shown + Lag >= Len(listed)
          /\ call' = [call EXCEPT ![k].pc = "check", ![k].root = Min({@, shown, PageCapacity})]
    /\ UNCHANGED <<pool, tx, memory, now>>

\* fetchCommitments: the pages come from a later call, maybe from a node that is
\* behind, and are cut at the nextIndex of the account.
FetchCommitments(k) ==
    /\ At(k, "pages")
    /\ \E shown \in 0..Len(listed) :
          /\ shown + Lag >= Len(listed)
          /\ call' = [call EXCEPT ![k].pc = "check", ![k].root = Min({@, shown})]
    /\ UNCHANGED <<pool, tx, memory, now>>

IsNullifierUsed(k) == IF Legacy THEN call[k].used ELSE call[k].note \in spent

\* Mutant of FindCommitmentIndex: only the index in the note is tried.
FindCommitmentIndexHinted(n, count) == Hint(n) <= count /\ listed[Hint(n)] = n

\* findCommitmentIndex: the hint is tried first, then every leaf.
FindCommitmentIndex(n, count) ==
    \/ Hint(n) <= count /\ listed[Hint(n)] = n
    \/ \E i \in 1..count : listed[i] = n

\* withdrawViaRelayer checks what withdraw does, and goes on with the relayer.
Proved(k) == IF call[k].op = "relay" THEN "post" ELSE IF Spl THEN "account" ELSE "send"

\* From the nullifier check to the start of the proof.
CheckAndProve(k) ==
    LET c       == ClientOf[k]
        limited == c \in Limited /\ ~IsNullifierUsed(k)
        pruned  == IF limited THEN Prune(history[c]) ELSE history[c]
    IN  /\ At(k, "check")
        /\ history' = [history EXCEPT ![c] = pruned]
        /\ \/ IsNullifierUsed(k) /\ End(k)
           \/ limited /\ ~Check(c, pruned) /\ End(k)
           \/ /\ ~IsNullifierUsed(k)
              /\ limited => Check(c, pruned)
              /\ IF FindCommitmentIndex(call[k].note, call[k].root)
                 THEN Goto(k, Proved(k)) ELSE End(k)
        /\ UNCHANGED <<pool, tx, made, kept, ok, now>>

\* buildCreateAtaInstructions: is there a token account to pay to?
BuildCreateAta(k) ==
    /\ At(k, "account")
    /\ call' = [call EXCEPT ![k].pc = "send", ![k].creates = call[k].recipient \notin accounts]
    /\ UNCHANGED <<pool, tx, memory, now>>

\* The relayer looks up the treasury and the token account itself.
Withdrawal(k) ==
    LET c == call[k]
    IN  IF c.op = "relay"
        THEN [NoTx EXCEPT !.op = "relay", !.note = c.note, !.recipient = c.recipient, !.root = c.root]
        ELSE [NoTx EXCEPT !.op = "withdraw", !.note = c.note, !.recipient = c.recipient,
                 !.count = c.count, !.root = c.root, !.treasury = c.treasury, !.creates = c.creates]

WithdrawSend(k) ==
    /\ At(k, "send")
    /\ Submit(k, Withdrawal(k), "sent")
    /\ UNCHANGED <<pool, memory, now>>

\* Mutant of WithdrawReturns: a note that was spent by somebody is a success.
WithdrawReturnsIfSpent(k) ==
    /\ At(k, "sent")
    /\ call[k].note \in spent
    /\ Record(k)
    /\ End(k)
    /\ UNCHANGED <<pool, tx, made, kept, now>>

WithdrawReturns(k) ==
    /\ At(k, "sent")
    /\ TxOf(k) = "landed"
    /\ Record(k)
    /\ End(k)
    /\ UNCHANGED <<pool, tx, made, kept, now>>

ProtocolFee      == (DepositAmount * kind.bps) \div 10000
RelayerFee(q)    == Max({(DepositAmount * q.feeBps) \div 10000, IF Spl THEN 0 ELSE q.minFee})

\* buildWithdrawalAmounts: the fees have to leave something to the recipient.
Affordable(q) == ProtocolFee + RelayerFee(q) < DepositAmount

\* GET /info, then POST /relay with the fee the quote asks for.
PostRelay(k) ==
    /\ At(k, "post")
    /\ \E q \in Quotes :
          IF Affordable(q) THEN Submit(k, Withdrawal(k), "posted") ELSE End(k) /\ UNCHANGED tx
    /\ UNCHANGED <<pool, memory, now>>

\* The relayer (RelayPromise) reports success once per note, when it is spent.
RelayReturns(k) ==
    /\ At(k, "posted")
    /\ call[k].note \in spent
    /\ \A t \in DOMAIN tx : tx[t].op = "relay" /\ tx[t].note = call[k].note
                                => tx[t].state # "answered"
    /\ tx' = [tx EXCEPT ![call[k].tx].state = "answered"]
    /\ Record(k)
    /\ End(k)
    /\ UNCHANGED <<pool, made, kept, now>>

-----------------------------------------------------------------------------
(* updateTreasury().                                                       *)

UpdateTreasury(k) ==
    /\ Ready(k)
    /\ Fees
    /\ ClientOf[k] = Authority
    /\ treasury < MaxTreasury
    /\ Submit(k, [NoTx EXCEPT !.op = "treasury"], "treasurySent")
    /\ UNCHANGED <<pool, memory, now>>

TreasuryReturns(k) ==
    /\ At(k, "treasurySent")
    /\ TxOf(k) = "landed"
    /\ End(k)
    /\ UNCHANGED <<pool, tx, memory, now>>

-----------------------------------------------------------------------------
(* Errors.                                                                 *)

\* A request, a confirmation or the prover times out or fails, or the program
\* refuses the transaction; what was sent stays sent.
Fails(k) ==
    /\ call[k].pc \in Waiting
    /\ End(k)
    /\ UNCHANGED <<pool, tx, memory, now>>

-----------------------------------------------------------------------------
(* The cluster.                                                            *)

RootKnown(root) == root \in 1..Len(listed) /\ Len(listed) - root < RootHistorySize

Acceptable(t) ==
    CASE t.op = "deposit"  -> /\ Len(listed) < Capacity
                              /\ Legacy \/ t.page = Len(listed) \div PageCapacity
      [] t.op = "withdraw" -> /\ t.note \notin spent
                              /\ RootKnown(t.root)
                              /\ Fees => t.treasury = treasury
                              /\ t.creates => t.recipient \notin accounts
      [] t.op = "relay"    -> t.note \notin spent /\ RootKnown(t.root)
      [] t.op = "treasury" -> TRUE

\* It executes; from then on only its outcome matters.
Land(i) ==
    LET t == tx[i]
    IN  /\ t.state = "inflight" /\ Acceptable(t)
        /\ tx' = [tx EXCEPT ![i] = [NoTx EXCEPT !.op = t.op, !.note = t.note, !.state = "landed"]]
        /\ CASE t.op = "deposit"  -> Ledger!Deposit(t.note)
             [] t.op = "treasury" -> UNCHANGED <<listed, spent, held>>
             [] OTHER             -> Ledger!Withdraw(t.note)
        /\ treasury' = IF t.op = "treasury" THEN treasury + 1 ELSE treasury
        /\ accounts' = IF Spl /\ t.op \in {"withdraw", "relay"} THEN accounts \cup {t.recipient}
                       ELSE accounts
        /\ UNCHANGED <<kind, memory, call, now>>

Refuse(i) ==
    /\ tx[i].state = "inflight" /\ ~Acceptable(tx[i])
    /\ tx' = [tx EXCEPT ![i].state = "failed"]
    /\ UNCHANGED <<pool, memory, call, now>>

\* A deposit of somebody else, once.
DepositElsewhere ==
    /\ \A i \in DOMAIN made : made[i].by # Other
    /\ made' = Append(made, [by |-> Other, index |-> Len(listed)])
    /\ Ledger!Deposit(Len(made) + 1)
    /\ UNCHANGED <<kind, treasury, accounts, tx, kept, history, ok, call, now>>

\* Time matters once a limiter has something to remember.
Tick ==
    /\ now < MaxTime
    /\ \E c \in Clients : history[c] # {}
    /\ now' = now + 1
    /\ UNCHANGED <<pool, tx, memory, call>>

Next ==
    \/ \E k \in Calls :
          \/ Deposit(k) \/ DepositSend(k) \/ DepositReturns(k)
          \/ \E op \in Ways[ClientOf[k]], n \in NoteIds, r \in Recipients : FetchPool(k, op, n, r)
          \/ FetchCommitments(k) \/ CheckAndProve(k) \/ BuildCreateAta(k)
          \/ WithdrawSend(k) \/ WithdrawReturns(k)
          \/ PostRelay(k) \/ RelayReturns(k)
          \/ UpdateTreasury(k) \/ TreasuryReturns(k)
          \/ Fails(k)
    \/ \E i \in DOMAIN tx : Land(i) \/ Refuse(i)
    \/ DepositElsewhere \/ Tick

Spec == Init /\ [][Next]_vars

-----------------------------------------------------------------------------
(* Properties.                                                             *)

TypeOK ==
    /\ listed \in Seq(NoteIds) /\ spent \subseteq NoteIds /\ held \in Nat
    /\ Len(listed) <= Capacity
    /\ \A n \in DOMAIN made : made[n].by \in Clients \cup {Other} /\ made[n].index \in 0..(n - 1)
    /\ kept \in [Clients -> SUBSET DOMAIN made]
    /\ \A k \in Calls : call[k].pc \in Waiting \cup {"idle"}
    /\ \A i \in DOMAIN tx : tx[i].state \in {"inflight", "landed", "failed", "answered"}

\* A note that deposit() returned or stored is in the pool, whatever the
\* outcome of other calls on it, and an agent has stored what it returned.
DepositedIsKept ==
    \A c \in Clients :
        /\ kept[c] \subseteq ToSet(listed)

\* A direct withdrawal is answered only if its own transaction took the note:
\* it is the one that executed of all that were sent for the note.
AnsweredByItsOwn ==
    \A c \in Clients : \A e \in ok[c] :
        tx[e.tx].op = "withdraw" =>
            /\ tx[e.tx].state = "landed"
            /\ e.note \in spent

\* As long as a client has one call open at a time, its withdrawals within any
\* hour and any day stay within its policy.
WithinPolicy ==
    \A c \in Limited : \A last \in ok[c] :
        LET since(window) == {e \in ok[c] : e.time <= last.time /\ e.time + window >= last.time}
        IN  /\ Total(since(Hour)) <= Policy[c].maxPerHour
            /\ Total(since(Day)) <= Policy[c].maxPerDay

\* A note that a client holds is found in the leaves it reads, wherever the
\* deposit ended up, unless the pages it reads are older than its account.
HeldIsFound ==
    \A k \in Calls :
        At(k, "check") /\ call[k].root = call[k].count =>
            FindCommitmentIndex(call[k].note, call[k].root)

\* The program refuses a direct withdrawal only for what happened after it began:
\* the note was spent, or so many deposits came that its root is forgotten, or
\* the treasury was changed, or its recipient has got a token account.
RefusedOnlyIfOvertaken ==
    \A i \in DOMAIN tx :
        LET t == tx[i]
        IN  t.op = "withdraw" /\ t.state = "failed" =>
                \/ t.note \in spent
                \/ Len(listed) + Lag >= t.count + RootHistorySize
                \/ Fees /\ t.treasury # treasury
                \/ t.creates /\ t.recipient \in accounts
=============================================================================
