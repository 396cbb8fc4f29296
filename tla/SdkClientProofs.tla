--------------------------- MODULE SdkClientProofs ---------------------------
(***************************************************************************)
(* Theorems about the client library (SdkClient), for any number of        *)
(* clients, calls, notes and transactions, any capacity, root history and  *)
(* lag, and any policies.                                                  *)
(*                                                                         *)
(* A call acts on what it read some steps before: the number of leaves,    *)
(* the root, the treasury, whether its note was spent.  What makes it come *)
(* right is that the pool only grows (Kept), so that whatever was read is  *)
(* of its past; Inv says so of every call that prepares a withdrawal       *)
(* (ReadOK) and of every transaction that is under way (WithdrawalsOK),    *)
(* ties each waiting call to its transaction (SentOK) and each note to one *)
(* deposit (DepositsOK).  The policy is argued separately (LimitsInv):     *)
(* between the check of a call and its answer nothing enters the windows.  *)
(***************************************************************************)
EXTENDS SdkClient, FiniteSetTheorems, TLAPS

-----------------------------------------------------------------------------
(* The inductive invariant.                                                *)

Ops == {"deposit", "withdraw", "relay", "treasury"}

Txs == [op : Ops, note : Nat, recipient : Recipients \cup {"none"}, page : Nat, count : Nat,
        root : Nat, treasury : Nat, creates : BOOLEAN,
        state : {"inflight", "landed", "failed", "answered"}]

Makings == [by : Clients \cup {Other}, index : Nat]
Entries == [note : Nat, tx : Nat, time : Nat]

\* What a call holds while it prepares a withdrawal, and once it has sent one.
Preparing == {"pages", "check", "account", "send", "post"}
Sent      == {"depositSent", "sent", "posted", "treasurySent"}

Idle       == [pc : {"idle"}]
Depositing == [pc : {"depositDelay"}, note : Nat, page : Nat]
Withdrawing ==
    [pc : Preparing, op : {"withdraw", "relay"}, note : Nat, recipient : Recipients,
     count : Nat, root : Nat, used : BOOLEAN, treasury : Nat, creates : BOOLEAN]
Awaiting   == [pc : Sent, note : Nat, recipient : Recipients \cup {"none"}, tx : Nat]

CallStates == Idle \cup Depositing \cup Withdrawing \cup Awaiting

Types ==
    /\ listed \in Seq(Nat) /\ Len(listed) <= Capacity
    /\ treasury \in Nat /\ now \in Nat
    /\ tx \in Seq(Txs)
    /\ made \in Seq(Makings)
    /\ kept \in [Clients -> SUBSET Nat]
    /\ history \in [Clients -> SUBSET Entries] /\ ok \in [Clients -> SUBSET Entries]
    /\ call \in [Calls -> CallStates]

Listed(n) == \E i \in 1..Len(listed) : listed[i] = n

\* Every note has one place among those that were made.
NotesOK ==
    /\ \A m, n \in 1..Len(made) : made[m].by = Other /\ made[n].by = Other => m = n
    /\ Cardinality({n \in 1..Len(made) : made[n].by # Other}) <= MaxNotes
    /\ \A n \in 1..Len(made) : made[n].index < n

\* The pool lists a note that was made once, and holds what was not withdrawn.
ListedOK ==
    /\ \A i \in 1..Len(listed) : listed[i] \in 1..Len(made)
    /\ \A i, j \in 1..Len(listed) : listed[i] = listed[j] => i = j
    /\ \A n \in spent : Listed(n)
    /\ held = DepositAmount * (Len(listed) - Cardinality(spent))

\* A note is sent once, and is in the pool when that transaction has executed.
DepositsOK ==
    /\ \A k \in Calls : At(k, "depositDelay") =>
          /\ call[k].note \in 1..Len(made)
          /\ ~Listed(call[k].note)
          /\ \A i \in 1..Len(tx) : tx[i].op = "deposit" => tx[i].note # call[k].note
    /\ \A k, l \in Calls :
          At(k, "depositDelay") /\ At(l, "depositDelay") /\ call[k].note = call[l].note => k = l
    /\ \A i \in 1..Len(tx) : tx[i].op = "deposit" =>
          /\ tx[i].note \in 1..Len(made)
          /\ tx[i].state = "landed" => Listed(tx[i].note)
          /\ tx[i].state = "inflight" => ~Listed(tx[i].note)
    /\ \A i, j \in 1..Len(tx) :
          tx[i].op = "deposit" /\ tx[j].op = "deposit" /\ tx[i].note = tx[j].note => i = j
    /\ \A c \in Clients : \A n \in kept[c] : Listed(n)

\* What a call has read is of the past of the pool, and not too old.
ReadBy(k) ==
    /\ call[k].count <= Len(listed) /\ call[k].root <= call[k].count
    /\ call[k].count <= call[k].root + Lag
    /\ call[k].treasury <= treasury
    /\ \E i \in 1..call[k].count : listed[i] = call[k].note
    /\ call[k].pc \in {"account", "send", "post"} => call[k].root >= 1
    /\ call[k].pc = "post" => call[k].op = "relay"
    /\ call[k].pc \in {"account", "send"} => call[k].op = "withdraw"

ReadOK == \A k \in Calls : call[k].pc \in Preparing => ReadBy(k)

\* A call waits for the transaction that it sent.
SentOK ==
    \A k \in Calls : call[k].pc \in Sent =>
        /\ call[k].tx \in 1..Len(tx)
        /\ tx[call[k].tx].note = call[k].note
        /\ call[k].pc = "depositSent" => tx[call[k].tx].op = "deposit"
        /\ call[k].pc = "sent" => tx[call[k].tx].op = "withdraw"
        /\ call[k].pc = "posted" => tx[call[k].tx].op = "relay"
        /\ call[k].pc = "treasurySent" => tx[call[k].tx].op = "treasury"

\* A direct withdrawal that has not executed was proved from the past of the pool;
\* one that has executed has spent its note.
WithdrawalOK(i) ==
    /\ tx[i].state = "inflight" =>
          /\ tx[i].root \in 1..Len(listed) /\ tx[i].count <= tx[i].root + Lag
    /\ tx[i].treasury <= treasury
    /\ tx[i].state = "landed" => tx[i].note \in spent

WithdrawalsOK == \A i \in 1..Len(tx) : tx[i].op = "withdraw" => WithdrawalOK(i)

\* An answer is of a transaction for the note, and of a direct withdrawal only if
\* that one executed.
AnswersOK ==
    \A c \in Clients : \A e \in ok[c] :
        /\ e.tx \in 1..Len(tx)
        /\ tx[e.tx].note = e.note
        /\ tx[e.tx].op = "withdraw" => tx[e.tx].state = "landed"

Inv ==
    /\ Types /\ NotesOK /\ ListedOK /\ DepositsOK /\ ReadOK /\ SentOK
    /\ WithdrawalsOK /\ AnswersOK /\ RefusedOnlyIfOvertaken

\* What the limiter of a client remembers, and what it has let through.
Recent(c, window) == {e \in ok[c] : e.time + window >= now}

HistoryOK ==
    \A c \in Limited :
        /\ IsFiniteSet(ok[c])
        /\ history[c] \subseteq ok[c]
        /\ \A e \in ok[c] : e.time <= now
        /\ Recent(c, Day) \subseteq history[c]

Passed(k) ==
    LET c == ClientOf[k]
    IN  /\ Total(Recent(c, Hour)) + DepositAmount <= Policy[c].maxPerHour
        /\ Total(Recent(c, Day)) + DepositAmount <= Policy[c].maxPerDay

\* Past the limiter, and not yet answered.
Past == {"account", "send", "sent", "post", "posted"}

PassedOK == \A k \in Calls : ClientOf[k] \in Limited /\ call[k].pc \in Past => Passed(k)

LimitsInv == HistoryOK /\ PassedOK /\ WithinPolicy

\* A client with a limiter has one call open at a time.  Nothing in the library keeps
\* two calls from asking the limiter before either is recorded, so this is for whoever
\* holds the client to see to.
OneAtATime ==
    \A k, l \in Calls : ClientOf[k] = ClientOf[l] /\ ClientOf[k] \in Limited => k = l

-----------------------------------------------------------------------------
(* What every step does.                                                   *)

\* The steps of one call, and those of the cluster.
CallStep(k) ==
    \/ Deposit(k) \/ DepositSend(k) \/ DepositReturns(k)
    \/ \E op \in Ways[ClientOf[k]], n \in NoteIds, r \in Recipients : FetchPool(k, op, n, r)
    \/ FetchCommitments(k) \/ CheckAndProve(k) \/ BuildCreateAta(k)
    \/ WithdrawSend(k) \/ WithdrawReturns(k)
    \/ PostRelay(k) \/ RelayReturns(k)
    \/ UpdateTreasury(k) \/ TreasuryReturns(k)
    \/ Fails(k)

\* The smaller of two numbers.
LEMMA MinOfTwo ==
    ASSUME NEW x \in Nat, NEW y \in Nat
    PROVE  /\ Min({x, y}) \in {x, y}
           /\ Min({x, y}) <= x /\ Min({x, y}) <= y
  <1>1. \E m \in {x, y} : \A z \in {x, y} : m <= z
    <2>1. CASE x <= y
      BY <2>1
    <2>2. CASE ~(x <= y)
      BY <2>2
    <2> QED BY <2>1, <2>2
  <1> QED BY <1>1 DEF Min

\* A call that waits for nothing more holds nothing.
LEMMA EndOfCall ==
    ASSUME Types, NEW k \in Calls, End(k)
    PROVE  /\ call' \in [Calls -> CallStates]
           /\ call'[k].pc = "idle"
           /\ \A l \in Calls \ {k} : call'[l] = call[l]
  <1>1. [pc |-> "idle"] \in CallStates
    BY DEF CallStates, Idle
  <1> QED BY <1>1 DEF Types, End, Set

\* The transactions a call sends are typed, and appended to those sent before.
LEMMA SubmitFacts ==
    ASSUME Types, NEW k \in Calls, NEW t \in Txs, NEW l \in Sent, Submit(k, t, l)
    PROVE  /\ tx' \in Seq(Txs) /\ Len(tx') = Len(tx) + 1
           /\ tx'[Len(tx) + 1] = t
           /\ \A i \in 1..Len(tx) : tx'[i] = tx[i]
           /\ call' \in [Calls -> CallStates]
           /\ call'[k] = [pc |-> l, note |-> t.note, recipient |-> t.recipient,
                          tx |-> Len(tx) + 1]
           /\ \A j \in Calls \ {k} : call'[j] = call[j]
  <1>1. tx \in Seq(Txs) /\ Len(tx) \in Nat
    BY DEF Types
  <1>2. tx' = Append(tx, t)
    BY DEF Submit
  <1>3. /\ tx' \in Seq(Txs) /\ Len(tx') = Len(tx) + 1
        /\ tx'[Len(tx) + 1] = t
        /\ \A i \in 1..Len(tx) : tx'[i] = tx[i]
    BY <1>1, <1>2
  <1> DEFINE r == [pc |-> l, note |-> t.note, recipient |-> t.recipient, tx |-> Len(tx) + 1]
  <1>4. r \in CallStates
    BY <1>1 DEF CallStates, Awaiting, Txs
  <1>5. call' = [call EXCEPT ![k] = r]
    BY DEF Submit, Set
  <1> QED BY <1>3, <1>4, <1>5 DEF Types

\* deposit() sends its note.
LEMMA DepositSends ==
    ASSUME Types, NEW k \in Calls, DepositSend(k)
    PROVE  \E t \in Txs :
              /\ Submit(k, t, "depositSent")
              /\ t.op = "deposit" /\ t.note = call[k].note /\ t.state = "inflight"
  <1> DEFINE t == [NoTx EXCEPT !.op = "deposit", !.note = call[k].note, !.page = call[k].page]
  <1>1. call[k] \in Depositing
    BY DEF Types, CallStates, DepositSend, At, Idle, Depositing, Withdrawing, Awaiting, Preparing,
           Sent
  <1>2. t \in Txs
    BY <1>1 DEF NoTx, Txs, Ops, Depositing
  <1>3. Submit(k, t, "depositSent")
    BY DEF DepositSend
  <1>4. t.op = "deposit" /\ t.note = call[k].note /\ t.state = "inflight"
    BY DEF NoTx
  <1> HIDE DEF t
  <1> QED BY <1>2, <1>3, <1>4

\* A call between its reads and its transaction holds a withdrawal.
LEMMA PreparingShape ==
    ASSUME Types, NEW k \in Calls, call[k].pc \in Preparing
    PROVE  call[k] \in Withdrawing
  BY DEF Types, CallStates, Idle, Depositing, Awaiting, Preparing, Sent

\* A call that waits for a transaction holds its place.
LEMMA SentShape ==
    ASSUME Types, NEW k \in Calls, call[k].pc \in Sent
    PROVE  call[k] \in Awaiting
  BY DEF Types, CallStates, Idle, Depositing, Withdrawing, Preparing, Sent

\* withdraw() sends what it has read.
LEMMA WithdrawSends ==
    ASSUME Types, ReadOK, NEW k \in Calls, WithdrawSend(k)
    PROVE  \E t \in Txs :
              /\ Submit(k, t, "sent")
              /\ t.op = "withdraw" /\ t.note = call[k].note /\ t.state = "inflight"
              /\ t.root = call[k].root /\ t.count = call[k].count /\ t.treasury = call[k].treasury
  <1> DEFINE c == call[k]
             t == [NoTx EXCEPT !.op = "withdraw", !.note = c.note, !.recipient = c.recipient,
                     !.count = c.count, !.root = c.root, !.treasury = c.treasury,
                     !.creates = c.creates]
  <1>1. c \in Withdrawing /\ c.op = "withdraw"
    BY PreparingShape DEF WithdrawSend, At, Preparing, ReadOK, ReadBy
  <1>2. t \in Txs
    BY <1>1 DEF NoTx, Txs, Ops, Withdrawing
  <1>3. Submit(k, t, "sent")
    BY <1>1 DEF WithdrawSend, Withdrawal
  <1>4. /\ t.op = "withdraw" /\ t.note = c.note /\ t.state = "inflight"
        /\ t.root = c.root /\ t.count = c.count /\ t.treasury = c.treasury
    BY DEF NoTx
  <1> HIDE DEF t
  <1> QED BY <1>2, <1>3, <1>4

\* withdrawViaRelayer() sends a relayed withdrawal, or gives up.
LEMMA RelaySends ==
    ASSUME Types, ReadOK, NEW k \in Calls, PostRelay(k)
    PROVE  \/ End(k) /\ UNCHANGED tx
           \/ \E t \in Txs :
                 /\ Submit(k, t, "posted")
                 /\ t.op = "relay" /\ t.note = call[k].note /\ t.state = "inflight"
  <1> DEFINE c == call[k]
             t == [NoTx EXCEPT !.op = "relay", !.note = c.note, !.recipient = c.recipient,
                               !.root = c.root]
  <1>1. c \in Withdrawing /\ c.op = "relay"
    BY PreparingShape DEF PostRelay, At, Preparing, ReadOK, ReadBy
  <1>2. t \in Txs
    BY <1>1 DEF NoTx, Txs, Ops, Withdrawing
  <1>3. Submit(k, t, "posted") \/ (End(k) /\ UNCHANGED tx)
    BY <1>1 DEF PostRelay, Withdrawal
  <1>4. t.op = "relay" /\ t.note = c.note /\ t.state = "inflight"
    BY DEF NoTx
  <1> HIDE DEF t
  <1> QED BY <1>2, <1>3, <1>4

\* updateTreasury() sends a change of the treasury.
LEMMA TreasurySends ==
    ASSUME Types, NEW k \in Calls, UpdateTreasury(k)
    PROVE  \E t \in Txs :
              /\ Submit(k, t, "treasurySent")
              /\ t.op = "treasury" /\ t.note = 0 /\ t.state = "inflight"
  <1> DEFINE t == [NoTx EXCEPT !.op = "treasury"]
  <1>1. t \in Txs
    BY DEF NoTx, Txs, Ops
  <1>2. Submit(k, t, "treasurySent")
    BY DEF UpdateTreasury
  <1>3. t.op = "treasury" /\ t.note = 0 /\ t.state = "inflight"
    BY DEF NoTx
  <1> HIDE DEF t
  <1> QED BY <1>1, <1>2, <1>3

\* What the module assumes of its constants.
LEMMA Facts ==
    /\ ClientOf \in [Calls -> Clients] /\ Limited \subseteq Clients
    /\ Other \notin Clients
    /\ DepositAmount \in Nat /\ Capacity \in Nat /\ RootHistorySize \in Nat
    /\ PageCapacity \in Nat \ {0}
    /\ Hour \in Nat /\ Day \in Nat /\ Hour <= Day /\ Lag \in Nat /\ MaxNotes \in Nat
    /\ \A c \in Clients : Policy[c].maxPerHour \in Nat /\ Policy[c].maxPerDay \in Nat
  BY SdkClientAssumption

\* A withdrawal that has only been begun, read or checked is still prepared.
LEMMA PreparingStep ==
    ASSUME Types, NEW k \in Calls
    PROVE  /\ \A op \in Ways[ClientOf[k]], n \in NoteIds, r \in Recipients :
                  FetchPool(k, op, n, r) =>
                      /\ call' \in [Calls -> CallStates]
                      /\ call'[k].pc \in {"check", "pages"}
                      /\ call'[k].op = op /\ call'[k].note = n
                      /\ call'[k].count = Len(listed) /\ call'[k].root = Len(listed)
                      /\ call'[k].treasury <= treasury
           /\ FetchCommitments(k) =>
                  /\ call' \in [Calls -> CallStates]
                  /\ call'[k].pc = "check"
                  /\ call'[k].op = call[k].op /\ call'[k].note = call[k].note
                  /\ call'[k].count = call[k].count /\ call'[k].treasury = call[k].treasury
                  /\ \E shown \in 0..Len(listed) :
                        /\ shown + Lag >= Len(listed)
                        /\ call'[k].root = Min({call[k].root, shown})
           /\ \A l \in {"post", "account", "send"} :
                  At(k, "check") /\ Goto(k, l) =>
                      /\ call' \in [Calls -> CallStates]
                      /\ call'[k].pc = l
                      /\ call'[k].op = call[k].op /\ call'[k].note = call[k].note
                      /\ call'[k].count = call[k].count /\ call'[k].root = call[k].root
                      /\ call'[k].treasury = call[k].treasury
           /\ BuildCreateAta(k) =>
                  /\ call' \in [Calls -> CallStates]
                  /\ call'[k].pc = "send"
                  /\ call'[k].op = call[k].op /\ call'[k].note = call[k].note
                  /\ call'[k].count = call[k].count /\ call'[k].root = call[k].root
                  /\ call'[k].treasury = call[k].treasury
  <1>1. ASSUME NEW op \in Ways[ClientOf[k]], NEW n \in NoteIds, NEW r \in Recipients,
               FetchPool(k, op, n, r)
        PROVE  /\ call' \in [Calls -> CallStates]
               /\ call'[k].pc \in {"check", "pages"}
               /\ call'[k].op = op /\ call'[k].note = n
               /\ call'[k].count = Len(listed) /\ call'[k].root = Len(listed)
               /\ call'[k].treasury <= treasury
    <2> DEFINE w == [pc |-> IF Legacy THEN "check" ELSE "pages", op |-> op, note |-> n,
                     recipient |-> r, count |-> Len(listed), root |-> Len(listed),
                     used |-> Legacy /\ n \in spent,
                     treasury |-> IF op = "withdraw" THEN treasury ELSE 0, creates |-> FALSE]
    <2>1. call' = [call EXCEPT ![k] = w]
      BY <1>1 DEF FetchPool, Set
    <2>2. op \in {"withdraw", "relay"} /\ n \in Nat /\ Len(listed) \in Nat /\ treasury \in Nat
      <3>1. ClientOf[k] \in Clients
        BY Facts
      <3>2. op \in {"withdraw", "relay"}
        BY <3>1, SdkClientAssumption
      <3> QED BY <3>2, Facts DEF NoteIds, Types
    <2>3. w.used \in BOOLEAN /\ w.creates \in BOOLEAN
      OBVIOUS
    <2>4. w \in Withdrawing
      BY <2>2, <2>3 DEF Withdrawing, Preparing
    <2>5. /\ w.pc \in {"check", "pages"} /\ w.op = op /\ w.note = n
          /\ w.count = Len(listed) /\ w.root = Len(listed) /\ w.treasury <= treasury
      BY <2>2
    <2> HIDE DEF w
    <2> QED BY <2>1, <2>4, <2>5 DEF Types, CallStates
  <1>2. ASSUME FetchCommitments(k)
        PROVE  /\ call' \in [Calls -> CallStates]
               /\ call'[k].pc = "check"
               /\ call'[k].op = call[k].op /\ call'[k].note = call[k].note
               /\ call'[k].count = call[k].count /\ call'[k].treasury = call[k].treasury
               /\ \E shown \in 0..Len(listed) :
                     /\ shown + Lag >= Len(listed)
                     /\ call'[k].root = Min({call[k].root, shown})
    <2>1. call[k] \in Withdrawing
      BY <1>2, PreparingShape DEF FetchCommitments, At, Preparing
    <2>2. PICK shown \in 0..Len(listed) :
              /\ shown + Lag >= Len(listed)
              /\ call' = [call EXCEPT ![k].pc = "check", ![k].root = Min({@, shown})]
      BY <1>2 DEF FetchCommitments
    <2> DEFINE m == Min({call[k].root, shown})
    <2>3. m \in Nat
      <3>1. shown \in Nat /\ call[k].root \in Nat
        BY <2>1 DEF Withdrawing, Types
      <3> QED BY <3>1, MinOfTwo
    <2>4. call' = [call EXCEPT ![k].pc = "check", ![k].root = m]
      BY <2>1, <2>2 DEF Withdrawing, Types
    <2> HIDE DEF m
    <2>5. call'[k] = [call[k] EXCEPT !.pc = "check", !.root = m]
      BY <2>4, <2>1 DEF Withdrawing, Types
    <2>6. call'[k] \in Withdrawing /\ call'[k].root = m
      BY <2>5, <2>1, <2>3 DEF Withdrawing, Preparing
    <2>7. call' \in [Calls -> CallStates]
      BY <2>4, <2>6 DEF Types, CallStates
    <2> QED BY <2>1, <2>2, <2>5, <2>6, <2>7 DEF Withdrawing, m
  <1>3. ASSUME NEW l \in {"post", "account", "send"}, At(k, "check"), Goto(k, l)
        PROVE  /\ call' \in [Calls -> CallStates]
               /\ call'[k].pc = l
               /\ call'[k].op = call[k].op /\ call'[k].note = call[k].note
               /\ call'[k].count = call[k].count /\ call'[k].root = call[k].root
               /\ call'[k].treasury = call[k].treasury
    <2>1. call[k] \in Withdrawing
      BY <1>3, PreparingShape DEF At, Preparing
    <2>2. call' = [call EXCEPT ![k] = [call[k] EXCEPT !.pc = l]]
      BY <1>3, <2>1 DEF Goto, Types
    <2>3. [call[k] EXCEPT !.pc = l] \in Withdrawing
      BY <2>1 DEF Withdrawing, Preparing
    <2> QED BY <2>1, <2>2, <2>3 DEF Types, CallStates, Withdrawing
  <1>4. ASSUME BuildCreateAta(k)
        PROVE  /\ call' \in [Calls -> CallStates]
               /\ call'[k].pc = "send"
               /\ call'[k].op = call[k].op /\ call'[k].note = call[k].note
               /\ call'[k].count = call[k].count /\ call'[k].root = call[k].root
               /\ call'[k].treasury = call[k].treasury
    <2>1. call[k] \in Withdrawing
      BY <1>4, PreparingShape DEF BuildCreateAta, At, Preparing
    <2> DEFINE b == call[k].recipient \notin accounts
    <2>2. b \in BOOLEAN
      OBVIOUS
    <2>3. call' = [call EXCEPT ![k] = [call[k] EXCEPT !.pc = "send", !.creates = b]]
      BY <1>4, <2>1 DEF BuildCreateAta, Types
    <2> HIDE DEF b
    <2>4. [call[k] EXCEPT !.pc = "send", !.creates = b] \in Withdrawing
      BY <2>1, <2>2 DEF Withdrawing, Preparing
    <2> QED BY <2>1, <2>3, <2>4 DEF Types, CallStates, Withdrawing
  <1> QED BY <1>1, <1>2, <1>3, <1>4

-----------------------------------------------------------------------------
(* Types, and what only grows.                                             *)

\* A step of one call leaves the others as they are.
LEMMA OthersWait ==
    ASSUME Types, NEW k \in Calls, CallStep(k), NEW l \in Calls, l # k
    PROVE  call'[l] = call[l]
  BY DEF CallStep, Deposit, DepositSend, DepositReturns, FetchPool, FetchCommitments,
         CheckAndProve, BuildCreateAta, WithdrawSend, WithdrawReturns, PostRelay, RelayReturns,
         UpdateTreasury, TreasuryReturns, Fails, Submit, Set, End, Goto, Types

\* What a step keeps: the list and the transactions grow at the end, nothing is
\* unspent or unmade, a transaction keeps its note, and one of a client that has
\* executed stays so.
Kept ==
    /\ Len(listed) <= Len(listed') /\ \A i \in 1..Len(listed) : listed'[i] = listed[i]
    /\ spent \subseteq spent' /\ treasury <= treasury'
    /\ Len(made) <= Len(made') /\ \A n \in 1..Len(made) : made'[n] = made[n]
    /\ Len(tx) <= Len(tx')
    /\ \A i \in 1..Len(tx) :
          /\ tx'[i].op = tx[i].op /\ tx'[i].note = tx[i].note
          /\ tx[i].op # "relay" /\ tx[i].state = "landed" => tx'[i].state = "landed"

\* Appending to a sequence keeps what it held.
LEMMA Appended ==
    ASSUME NEW S, NEW s \in Seq(S), NEW x \in S, NEW t, t = Append(s, x)
    PROVE  /\ t \in Seq(S) /\ Len(t) = Len(s) + 1 /\ Len(s) \in Nat
           /\ t[Len(s) + 1] = x
           /\ \A i \in 1..Len(s) : t[i] = s[i]
  OBVIOUS

\* A step that only sends keeps the rest.
LEMMA SubmitKeeps ==
    ASSUME Types, NEW k \in Calls, NEW t \in Txs, NEW l \in Sent, Submit(k, t, l),
           UNCHANGED <<pool, memory, now>>
    PROVE  Types' /\ Kept
  <1>1. UNCHANGED <<listed, spent, treasury, made, kept, history, ok, now>>
    BY DEF pool, memory
  <1>2. /\ tx' \in Seq(Txs) /\ Len(tx') = Len(tx) + 1
        /\ \A i \in 1..Len(tx) : tx'[i] = tx[i]
        /\ call' \in [Calls -> CallStates]
    BY SubmitFacts
  <1>3. Types'
    BY <1>1, <1>2 DEF Types
  <1>4. Len(listed) \in Nat /\ Len(made) \in Nat /\ Len(tx) \in Nat /\ treasury \in Nat
    BY DEF Types
  <1>5. Kept
    BY <1>1, <1>2, <1>4 DEF Kept
  <1> QED BY <1>3, <1>5

\* A step that only moves the call keeps the rest.
LEMMA MoveKeeps ==
    ASSUME Types, call' \in [Calls -> CallStates], UNCHANGED <<pool, tx, made, now>>,
           kept' \in [Clients -> SUBSET Nat], history' \in [Clients -> SUBSET Entries],
           ok' \in [Clients -> SUBSET Entries]
    PROVE  Types' /\ Kept
  <1>1. UNCHANGED <<listed, spent, treasury, made, tx, now>>
    BY DEF pool
  <1>2. Len(listed) \in Nat /\ Len(tx) \in Nat /\ Len(made) \in Nat /\ treasury \in Nat
    BY DEF Types
  <1> QED BY <1>1, <1>2 DEF Types, Kept

\* The answers and the history of a client are entries of its calls.
LEMMA RecordFacts ==
    ASSUME Types, NEW k \in Calls, call[k].pc \in {"sent", "posted"}, Record(k)
    PROVE  LET entry == [note |-> call[k].note, tx |-> call[k].tx, time |-> now]
               c     == ClientOf[k]
           IN  /\ c \in Clients /\ entry \in Entries
               /\ history' \in [Clients -> SUBSET Entries] /\ ok' \in [Clients -> SUBSET Entries]
               /\ ok'[c] = ok[c] \cup {entry} /\ \A d \in Clients \ {c} : ok'[d] = ok[d]
               /\ c \in Limited => history'[c] = Prune(history[c]) \cup {entry}
               /\ \A d \in Clients \ {c} : history'[d] = history[d]
  <1> DEFINE entry == [note |-> call[k].note, tx |-> call[k].tx, time |-> now]
             c     == ClientOf[k]
             h     == Prune(history[c]) \cup {entry}
  <1>1. c \in Clients
    BY Facts
  <1>2. entry \in Entries
    BY SentShape DEF Sent, Awaiting, Entries, Types
  <1>3. history' = IF c \in Limited THEN [history EXCEPT ![c] = h] ELSE history
    BY DEF Record
  <1>4. ok' = [ok EXCEPT ![c] = @ \cup {entry}]
    BY DEF Record
  <1>5. h \subseteq Entries
    BY <1>1, <1>2 DEF Prune, Types
  <1>6. history \in [Clients -> SUBSET Entries] /\ ok \in [Clients -> SUBSET Entries]
    BY DEF Types
  <1> HIDE DEF entry
  <1>7. /\ ok' \in [Clients -> SUBSET Entries] /\ ok'[c] = ok[c] \cup {entry}
        /\ \A d \in Clients \ {c} : ok'[d] = ok[d]
    BY <1>1, <1>2, <1>4, <1>6
  <1> HIDE DEF h, c
  <1>8. /\ history' \in [Clients -> SUBSET Entries]
        /\ c \in Limited => history'[c] = h
        /\ \A d \in Clients \ {c} : history'[d] = history[d]
    BY <1>1, <1>3, <1>5, <1>6
  <1> QED BY <1>1, <1>2, <1>7, <1>8 DEF entry, c, h

\* What an executing transaction does to the pool.
LEMMA LandFacts ==
    ASSUME Types, NEW i \in 1..Len(tx), Land(i)
    PROVE  /\ tx[i].state = "inflight" /\ Acceptable(tx[i])
           /\ tx' \in Seq(Txs) /\ Len(tx') = Len(tx)
           /\ tx'[i].op = tx[i].op /\ tx'[i].note = tx[i].note /\ tx'[i].state = "landed"
           /\ tx'[i].treasury = 0
           /\ \A j \in 1..Len(tx) \ {i} : tx'[j] = tx[j]
           /\ tx[i].op = "deposit" => Ledger!Deposit(tx[i].note)
           /\ tx[i].op = "treasury" => UNCHANGED <<listed, spent, held>>
           /\ tx[i].op \in {"withdraw", "relay"} => Ledger!Withdraw(tx[i].note)
           /\ tx[i].op \in {"deposit", "treasury", "withdraw", "relay"}
           /\ treasury' = IF tx[i].op = "treasury" THEN treasury + 1 ELSE treasury
           /\ accounts \subseteq accounts' /\ UNCHANGED <<kind, memory, call, now>>
  <1> DEFINE t == tx[i]
             e == [NoTx EXCEPT !.op = t.op, !.note = t.note, !.state = "landed"]
  <1>1. t \in Txs
    BY DEF Types
  <1>2. e \in Txs /\ e.op = t.op /\ e.note = t.note /\ e.state = "landed" /\ e.treasury = 0
    BY <1>1 DEF NoTx, Txs
  <1>3. tx' = [tx EXCEPT ![i] = e]
    BY DEF Land
  <1> HIDE DEF e
  <1>4. /\ tx' \in Seq(Txs) /\ Len(tx') = Len(tx) /\ tx'[i] = e
        /\ \A j \in 1..Len(tx) \ {i} : tx'[j] = tx[j]
    BY <1>2, <1>3 DEF Types
  <1>5. t.op \in Ops
    BY <1>1 DEF Txs
  <1>6. CASE t.op = "deposit"
    BY <1>6, <1>2, <1>4 DEF Land
  <1>7. CASE t.op = "treasury"
    BY <1>7, <1>2, <1>4 DEF Land
  <1>8. CASE t.op \in {"withdraw", "relay"}
    BY <1>8, <1>2, <1>4 DEF Land
  <1> QED BY <1>5, <1>6, <1>7, <1>8 DEF Ops

\* A note of the list stays in the list, and the rest of the list is new.
LEMMA StillListed ==
    ASSUME Types, Kept, NEW n, Listed(n)
    PROVE  Listed(n)'
  <1>1. PICK i \in 1..Len(listed) : listed[i] = n
    BY DEF Listed
  <1>2. listed'[i] = n /\ i \in 1..Len(listed')
    <2>1. Len(listed) \in Nat /\ Len(listed) <= Len(listed') /\ listed'[i] = listed[i]
      BY DEF Types, Kept
    <2>2. Len(listed') >= i
      BY <2>1
    <2> QED BY <1>1, <2>1, <2>2
  <1> QED BY <1>2 DEF Listed

\* The answer of the relayer changes the state of the relayed withdrawal only.
LEMMA AnswerFacts ==
    ASSUME Types, SentOK, NEW k \in Calls, RelayReturns(k)
    PROVE  /\ tx' \in Seq(Txs) /\ Len(tx') = Len(tx)
           /\ call[k].tx \in 1..Len(tx) /\ tx[call[k].tx].op = "relay"
           /\ tx'[call[k].tx].op = "relay" /\ tx'[call[k].tx].note = tx[call[k].tx].note
           /\ \A i \in 1..Len(tx) \ {call[k].tx} : tx'[i] = tx[i]
  <1> DEFINE j == call[k].tx
             a == [tx[j] EXCEPT !.state = "answered"]
  <1>1. j \in 1..Len(tx) /\ tx[j].op = "relay"
    BY DEF RelayReturns, SentOK, At, Sent
  <1>2. tx \in Seq(Txs) /\ tx[j] \in Txs
    BY <1>1 DEF Types
  <1>3. tx' = [tx EXCEPT ![j] = a]
    BY <1>1, <1>2 DEF RelayReturns
  <1>4. a \in Txs /\ a.op = "relay" /\ a.note = tx[j].note
    BY <1>1, <1>2 DEF Txs
  <1> HIDE DEF a, j
  <1>5. /\ tx' \in Seq(Txs) /\ Len(tx') = Len(tx) /\ tx'[j] = a
        /\ \A i \in 1..Len(tx) \ {j} : tx'[i] = tx[i]
    BY <1>1, <1>2, <1>3, <1>4
  <1> QED BY <1>1, <1>4, <1>5 DEF j

\* A step of a call keeps the types, and what only grows.
LEMMA CallStepKeeps ==
    ASSUME Types, ReadOK, SentOK, NEW k \in Calls, CallStep(k)
    PROVE  Types' /\ Kept
  <1>0. ClientOf[k] \in Clients /\ Len(made) \in Nat /\ Len(listed) \in Nat
    BY Facts DEF Types
  <1>1. CASE Deposit(k)
    <2> DEFINE m == [by |-> ClientOf[k], index |-> Len(listed)]
               r == [pc |-> "depositDelay", note |-> Len(made) + 1,
                     page |-> Len(listed) \div PageCapacity]
    <2>1. m \in Makings
      BY <1>0 DEF Makings
    <2>2. r \in CallStates
      <3>1. Len(listed) \div PageCapacity \in Nat
        BY <1>0, Facts
      <3> QED BY <1>0, <3>1 DEF CallStates, Depositing
    <2>3. made' = Append(made, m) /\ call' = [call EXCEPT ![k] = r]
      BY <1>1 DEF Deposit, Set
    <2>4. UNCHANGED <<listed, spent, treasury, tx, kept, history, ok, now>>
      BY <1>1 DEF Deposit, pool
    <2> HIDE DEF m, r
    <2>5. made' \in Seq(Makings) /\ Len(made') = Len(made) + 1
          /\ \A n \in 1..Len(made) : made'[n] = made[n]
      BY <2>1, <2>3, Appended DEF Types
    <2>6. Types'
      BY <2>2, <2>3, <2>4, <2>5 DEF Types
    <2>7. Len(tx) \in Nat /\ treasury \in Nat
      BY DEF Types
    <2>8. Kept
      BY <1>0, <2>4, <2>5, <2>7 DEF Kept
    <2> QED BY <2>6, <2>8
  <1>2. CASE DepositSend(k)
    <2>1. PICK t \in Txs : Submit(k, t, "depositSent")
      BY <1>2, DepositSends
    <2>2. UNCHANGED <<pool, memory, now>>
      BY <1>2 DEF DepositSend
    <2> QED BY <2>1, <2>2, SubmitKeeps DEF Sent
  <1>3. CASE DepositReturns(k)
    <2>1. call' \in [Calls -> CallStates]
      BY <1>3, EndOfCall DEF DepositReturns
    <2>2. call[k].note \in Nat
      BY <1>3, SentShape DEF DepositReturns, At, Sent, Awaiting
    <2>3. kept' \in [Clients -> SUBSET Nat]
      BY <1>3, <2>2 DEF DepositReturns, Types
    <2> QED BY <1>3, <2>1, <2>3, MoveKeeps DEF DepositReturns, Types
  <1>4. CASE \E op \in Ways[ClientOf[k]], n \in NoteIds, r \in Recipients : FetchPool(k, op, n, r)
    <2>1. call' \in [Calls -> CallStates]
      BY <1>4, PreparingStep
    <2> QED BY <1>4, <2>1, MoveKeeps DEF FetchPool, memory, Types
  <1>5. CASE FetchCommitments(k)
    <2>1. call' \in [Calls -> CallStates]
      BY <1>5, PreparingStep
    <2> QED BY <1>5, <2>1, MoveKeeps DEF FetchCommitments, memory, Types
  <1>6. CASE CheckAndProve(k)
    <2>1. call' \in [Calls -> CallStates]
      <3>1. At(k, "check") /\ (End(k) \/ \E l \in {"post", "account", "send"} : Goto(k, l))
        BY <1>6 DEF Proved, CheckAndProve
      <3> QED BY <3>1, EndOfCall, PreparingStep
    <2>2. history' \in [Clients -> SUBSET Entries]
      <3> DEFINE c      == ClientOf[k]
                 pruned == IF c \in Limited /\ ~IsNullifierUsed(k) THEN Prune(history[c])
                           ELSE history[c]
      <3>1. history' = [history EXCEPT ![c] = pruned]
        BY <1>6 DEF CheckAndProve
      <3>2. pruned \subseteq Entries
        BY <1>0 DEF Prune, Types
      <3> HIDE DEF pruned
      <3> QED BY <3>1, <3>2 DEF Types
    <2>3. UNCHANGED <<pool, tx, made, kept, ok, now>>
      BY <1>6 DEF CheckAndProve
    <2> QED BY <2>1, <2>2, <2>3, MoveKeeps DEF Types
  <1>7. CASE BuildCreateAta(k)
    <2>1. call' \in [Calls -> CallStates]
      BY <1>7, PreparingStep
    <2> QED BY <1>7, <2>1, MoveKeeps DEF BuildCreateAta, memory, Types
  <1>8. CASE WithdrawSend(k)
    <2>1. PICK t \in Txs : Submit(k, t, "sent")
      BY <1>8, WithdrawSends
    <2>2. UNCHANGED <<pool, memory, now>>
      BY <1>8 DEF WithdrawSend
    <2> QED BY <2>1, <2>2, SubmitKeeps DEF Sent
  <1>9. CASE WithdrawReturns(k)
    <2>1. call' \in [Calls -> CallStates]
      BY <1>9, EndOfCall DEF WithdrawReturns
    <2>2. history' \in [Clients -> SUBSET Entries] /\ ok' \in [Clients -> SUBSET Entries]
      BY <1>9, RecordFacts DEF WithdrawReturns, At
    <2> QED BY <1>9, <2>1, <2>2, MoveKeeps DEF WithdrawReturns, Types
  <1>10. CASE PostRelay(k)
    <2>1. UNCHANGED <<pool, memory, now>>
      BY <1>10 DEF PostRelay
    <2>2. CASE End(k) /\ UNCHANGED tx
      <3>1. call' \in [Calls -> CallStates]
        BY <2>2, EndOfCall
      <3> QED BY <2>1, <2>2, <3>1, MoveKeeps DEF memory, Types
    <2>3. CASE \E t \in Txs : Submit(k, t, "posted")
      BY <2>1, <2>3, SubmitKeeps DEF Sent
    <2> QED BY <1>10, <2>2, <2>3, RelaySends
  <1>11. CASE RelayReturns(k)
    <2>1. call' \in [Calls -> CallStates]
      BY <1>11, EndOfCall DEF RelayReturns
    <2>2. history' \in [Clients -> SUBSET Entries] /\ ok' \in [Clients -> SUBSET Entries]
      BY <1>11, RecordFacts DEF RelayReturns, At
    <2>3. /\ tx' \in Seq(Txs) /\ Len(tx') = Len(tx)
          /\ \A i \in 1..Len(tx) :
                /\ tx'[i].op = tx[i].op /\ tx'[i].note = tx[i].note
                /\ tx[i].op # "relay" => tx'[i] = tx[i]
      BY <1>11, AnswerFacts
    <2>4. UNCHANGED <<listed, spent, treasury, made, kept, now>>
      BY <1>11 DEF RelayReturns, pool
    <2>5. Types'
      BY <2>1, <2>2, <2>3, <2>4 DEF Types
    <2>6. Len(tx) \in Nat /\ treasury \in Nat
      BY DEF Types
    <2>7. Kept
      BY <1>0, <2>3, <2>4, <2>6 DEF Kept
    <2> QED BY <2>5, <2>7
  <1>12. CASE UpdateTreasury(k)
    <2>1. PICK t \in Txs : Submit(k, t, "treasurySent")
      BY <1>12, TreasurySends
    <2>2. UNCHANGED <<pool, memory, now>>
      BY <1>12 DEF UpdateTreasury
    <2> QED BY <2>1, <2>2, SubmitKeeps DEF Sent
  <1>13. CASE TreasuryReturns(k) \/ Fails(k)
    <2>1. End(k) /\ UNCHANGED <<pool, tx, memory, now>>
      BY <1>13 DEF TreasuryReturns, Fails
    <2>2. call' \in [Calls -> CallStates]
      BY <2>1, EndOfCall
    <2> QED BY <2>1, <2>2, MoveKeeps DEF memory, Types
  <1> QED BY <1>1, <1>2, <1>3, <1>4, <1>5, <1>6, <1>7, <1>8, <1>9, <1>10, <1>11, <1>12, <1>13
          DEF CallStep

\* The withdrawal of a note that is listed, or a deposit, of the ledger.
LEMMA LedgerFacts ==
    /\ \A n : Ledger!Deposit(n) =>
          /\ Len(listed) < Capacity /\ listed' = Append(listed, n)
          /\ held' = held + DepositAmount /\ spent' = spent
    /\ \A n : Ledger!Withdraw(n) =>
          /\ Listed(n)
          /\ n \in NoteIds => n \notin spent /\ spent' = spent \cup {n}
          /\ spent \subseteq spent'
          /\ held' = held - DepositAmount /\ listed' = listed
  BY DEF Ledger!Deposit, Ledger!Withdraw, Listed

\* A step of the cluster keeps the types, and what only grows.
LEMMA LandKeeps ==
    ASSUME Types, NEW i \in 1..Len(tx), Land(i)
    PROVE  Types' /\ Kept
  <1>0. /\ Len(made) \in Nat /\ Len(listed) \in Nat /\ Len(tx) \in Nat /\ treasury \in Nat
        /\ tx[i] \in Txs
    BY DEF Types
  <1>1. /\ listed' \in Seq(Nat) /\ Len(listed') <= Capacity /\ Len(listed) <= Len(listed')
        /\ \A j \in 1..Len(listed) : listed'[j] = listed[j]
        /\ spent \subseteq spent'
    <2>1. tx[i].note \in Nat /\ Capacity \in Nat
      BY <1>0, Facts DEF Txs
    <2>2. CASE tx[i].op = "deposit"
      <3>1. Len(listed) < Capacity /\ listed' = Append(listed, tx[i].note) /\ spent' = spent
        BY <2>2, LandFacts, LedgerFacts
      <3>2. /\ listed' \in Seq(Nat) /\ Len(listed') = Len(listed) + 1
            /\ \A j \in 1..Len(listed) : listed'[j] = listed[j]
        BY <2>1, <3>1, Appended DEF Types
      <3> QED BY <1>0, <2>1, <3>1, <3>2
    <2>3. CASE tx[i].op # "deposit"
      <3>1. listed' = listed /\ spent \subseteq spent'
        BY <2>3, LandFacts, LedgerFacts
      <3> QED BY <1>0, <3>1 DEF Types
    <2> QED BY <2>2, <2>3
  <1>2. /\ tx' \in Seq(Txs) /\ Len(tx') = Len(tx)
        /\ \A j \in 1..Len(tx) :
              /\ tx'[j].op = tx[j].op /\ tx'[j].note = tx[j].note
              /\ tx[j].state = "landed" => tx'[j].state = "landed"
    BY LandFacts
  <1>3. UNCHANGED <<made, kept, history, ok, call, now>>
    BY LandFacts DEF memory
  <1>4. treasury' \in Nat /\ treasury <= treasury'
    BY <1>0, LandFacts
  <1>5. Types'
    BY <1>1, <1>2, <1>3, <1>4 DEF Types
  <1>6. Len(made) <= Len(made') /\ Len(tx) <= Len(tx')
    BY <1>0, <1>2, <1>3
  <1>7. Kept
    BY <1>1, <1>2, <1>3, <1>4, <1>6 DEF Kept
  <1> QED BY <1>5, <1>7

\* A refused transaction has failed.
LEMMA RefuseFacts ==
    ASSUME Types, NEW i \in 1..Len(tx), Refuse(i)
    PROVE  /\ tx[i].state = "inflight" /\ ~Acceptable(tx[i])
           /\ tx' \in Seq(Txs) /\ Len(tx') = Len(tx)
           /\ tx'[i] = [tx[i] EXCEPT !.state = "failed"]
           /\ \A j \in 1..Len(tx) \ {i} : tx'[j] = tx[j]
  <1>1. tx \in Seq(Txs) /\ tx[i] \in Txs
    BY DEF Types
  <1> DEFINE f == [tx[i] EXCEPT !.state = "failed"]
  <1>2. tx' = [tx EXCEPT ![i] = f] /\ f \in Txs
    BY <1>1 DEF Refuse, Txs
  <1> HIDE DEF f
  <1>3. /\ tx' \in Seq(Txs) /\ Len(tx') = Len(tx) /\ tx'[i] = f
        /\ \A j \in 1..Len(tx) \ {i} : tx'[j] = tx[j]
    BY <1>1, <1>2
  <1> QED BY <1>3 DEF f, Refuse

\* A transaction that the cluster refuses changes only its own state.
LEMMA RefuseKeeps ==
    ASSUME Types, NEW i \in 1..Len(tx), Refuse(i)
    PROVE  Types' /\ Kept
  <1>1. /\ tx' \in Seq(Txs) /\ Len(tx') = Len(tx)
        /\ \A j \in 1..Len(tx) :
              /\ tx'[j].op = tx[j].op /\ tx'[j].note = tx[j].note
              /\ tx[j].state = "landed" => tx'[j].state = "landed"
    <2>0. tx[i] \in Txs
      BY DEF Types
    <2>1. tx[i].state = "inflight"
      BY RefuseFacts
    <2>2. tx'[i] = [tx[i] EXCEPT !.state = "failed"]
      BY RefuseFacts
    <2>3. tx'[i].op = tx[i].op /\ tx'[i].note = tx[i].note
      BY <2>0, <2>2 DEF Txs
    <2> QED BY <2>1, <2>3, RefuseFacts
  <1>2. UNCHANGED <<listed, spent, treasury, made, kept, history, ok, call, now>>
    BY DEF Refuse, pool, memory
  <1>3. /\ Len(made) \in Nat /\ Len(listed) \in Nat /\ Len(tx) \in Nat /\ treasury \in Nat
    BY DEF Types
  <1> QED BY <1>1, <1>2, <1>3 DEF Types, Kept

\* A deposit of somebody else adds its note to those made, and its leaf to the pool.
LEMMA ElsewhereKeeps ==
    ASSUME Types, DepositElsewhere
    PROVE  Types' /\ Kept
  <1>0. /\ Len(made) \in Nat /\ Len(listed) \in Nat /\ Len(tx) \in Nat /\ treasury \in Nat
        /\ Capacity \in Nat
    BY Facts DEF Types
  <1> DEFINE m == [by |-> Other, index |-> Len(listed)]
  <1>1. m \in Makings /\ made' = Append(made, m)
    BY <1>0 DEF Makings, DepositElsewhere
  <1> HIDE DEF m
  <1>2. /\ made' \in Seq(Makings) /\ Len(made') = Len(made) + 1
        /\ \A j \in 1..Len(made) : made'[j] = made[j]
    BY <1>1, Appended DEF Types
  <1>3. Len(listed) < Capacity /\ listed' = Append(listed, Len(made) + 1) /\ spent' = spent
    BY LedgerFacts DEF DepositElsewhere
  <1>4. /\ listed' \in Seq(Nat) /\ Len(listed') = Len(listed) + 1
        /\ \A j \in 1..Len(listed) : listed'[j] = listed[j]
    BY <1>0, <1>3, Appended DEF Types
  <1>5. UNCHANGED <<treasury, tx, kept, history, ok, call, now>>
    BY DEF DepositElsewhere
  <1> QED BY <1>0, <1>2, <1>3, <1>4, <1>5 DEF Types, Kept

\* Every step keeps the types, and what only grows.
LEMMA StepKeeps == Types /\ ReadOK /\ SentOK /\ [Next]_vars => Types' /\ Kept
  <1> SUFFICES ASSUME Types, ReadOK, SentOK, [Next]_vars PROVE Types' /\ Kept
    OBVIOUS
  <1>0. /\ Len(made) \in Nat /\ Len(listed) \in Nat /\ Len(tx) \in Nat /\ treasury \in Nat
        /\ DOMAIN tx = 1..Len(tx) /\ now \in Nat
    BY DEF Types
  <1>1. CASE \E k \in Calls : CallStep(k)
    BY <1>1, CallStepKeeps
  <1>2. CASE \E i \in 1..Len(tx) : Land(i) \/ Refuse(i)
    BY <1>2, LandKeeps, RefuseKeeps
  <1>3. CASE DepositElsewhere
    BY <1>3, ElsewhereKeeps
  <1>4. CASE Tick \/ UNCHANGED vars
    <2>1. /\ UNCHANGED <<listed, spent, treasury, made, tx, kept, history, ok, call>>
          /\ now' \in Nat
      BY <1>0, <1>4 DEF Tick, vars, pool, memory
    <2> QED BY <1>0, <2>1 DEF Types, Kept
  <1> QED BY <1>0, <1>1, <1>2, <1>3, <1>4 DEF Next, CallStep

-----------------------------------------------------------------------------
(* Notes, the list and the vault.                                          *)

\* The first n positions of a sequence are n.
LEMMA Positions ==
    ASSUME NEW n \in Nat
    PROVE  IsFiniteSet(1..n) /\ Cardinality(1..n) = n
  BY FS_Interval

\* The notes made by clients, and those of the other depositor.
OfClients == {n \in 1..Len(made) : made[n].by # Other}

\* There is a name for one more note than the clients have made.
LEMMA NotesBound ==
    ASSUME Types, NotesOK
    PROVE  /\ IsFiniteSet(OfClients) /\ Cardinality(OfClients) \in Nat
           /\ Len(made) <= Cardinality(OfClients) + 1
           /\ Len(made) <= MaxNotes + 1
           /\ (\A n \in 1..Len(made) : made[n].by # Other) => Len(made) = Cardinality(OfClients)
  <1>1. Len(made) \in Nat /\ MaxNotes \in Nat
    BY Facts DEF Types
  <1>2. IsFiniteSet(1..Len(made)) /\ Cardinality(1..Len(made)) = Len(made)
    BY <1>1, Positions
  <1>3. IsFiniteSet(OfClients) /\ Cardinality(OfClients) \in Nat
    BY <1>2, FS_Subset, FS_CardinalityType DEF OfClients
  <1>6. Cardinality(OfClients) <= MaxNotes
    BY DEF NotesOK, OfClients
  <1>4. CASE \A n \in 1..Len(made) : made[n].by # Other
    <2>1. OfClients = 1..Len(made)
      BY <1>4 DEF OfClients
    <2> QED BY <1>1, <1>2, <1>3, <1>6, <2>1
  <1>5. CASE \E n \in 1..Len(made) : made[n].by = Other
    <2>1. PICK o \in 1..Len(made) : made[o].by = Other
      BY <1>5
    <2>2. 1..Len(made) = OfClients \cup {o} /\ o \notin OfClients
      BY <2>1 DEF NotesOK, OfClients
    <2>3. Len(made) = Cardinality(OfClients) + 1
      BY <1>2, <1>3, <2>2, FS_AddElement
    <2> QED BY <1>1, <1>3, <1>5, <1>6, <2>3
  <1> QED BY <1>4, <1>5

\* The list is no longer than the notes that were made: none is listed twice.
LEMMA ListBound ==
    ASSUME Types, ListedOK
    PROVE  Len(listed) <= Len(made)
  <1>1. Len(made) \in Nat /\ Len(listed) \in Nat
    BY DEF Types
  <1>2. IsFiniteSet(1..Len(made)) /\ Cardinality(1..Len(made)) = Len(made)
    BY <1>1, Positions
  <1>4. IsFiniteSet(1..Len(listed)) /\ Cardinality(1..Len(listed)) = Len(listed)
    BY <1>1, Positions
  <1> DEFINE f == [i \in 1..Len(listed) |-> listed[i]]
  <1>3. f \in Injection(1..Len(listed), 1..Len(made))
    BY DEF ListedOK, Injection, IsInjective
  <1> HIDE DEF f
  <1> QED BY <1>2, <1>3, <1>4, FS_Injection DEF ExistsInjection

\* deposit() and a deposit elsewhere make the next note; no other step makes one.
LEMMA MadeCases ==
    ASSUME Types, [Next]_vars
    PROVE  \/ made' = made
           \/ \E k \in Calls : Deposit(k)
           \/ DepositElsewhere
  <1>1. ASSUME NEW k \in Calls, CallStep(k), ~Deposit(k) PROVE made' = made
    BY <1>1 DEF CallStep, DepositSend, DepositReturns, FetchPool, FetchCommitments, CheckAndProve,
       BuildCreateAta, WithdrawSend, WithdrawReturns, PostRelay, RelayReturns, UpdateTreasury,
       TreasuryReturns, Fails, memory
  <1>2. ASSUME NEW i \in DOMAIN tx, Land(i) \/ Refuse(i) PROVE made' = made
    BY <1>2 DEF Land, Refuse, memory
  <1>3. Tick \/ UNCHANGED vars => made' = made
    BY DEF Tick, vars, memory
  <1> QED BY <1>1, <1>2, <1>3 DEF Next, CallStep

\* Notes stay apart: a new one takes the next place, and a client makes no more than
\* MaxNotes.
LEMMA NotesStep ==
    ASSUME Types, NotesOK, ListedOK, [Next]_vars
    PROVE  NotesOK'
  <1> DEFINE L == Len(made)
             C == OfClients
  <1>0. /\ L \in Nat /\ Len(listed) \in Nat /\ Len(listed) <= L /\ MaxNotes \in Nat
        /\ IsFiniteSet(C) /\ Cardinality(C) \in Nat
        /\ Other \notin Clients /\ made \in Seq(Makings) /\ Cardinality(C) <= MaxNotes
    BY ListBound, NotesBound, Facts DEF Types, NotesOK, OfClients
  <1>1. CASE made' = made
    BY <1>1 DEF NotesOK
  <1>2. ASSUME NEW b \in Clients \cup {Other}, made' = Append(made, [by |-> b, index |-> Len(listed)]),
               b = Other => \A n \in 1..L : made[n].by # Other,
               b # Other => Cardinality(C) < MaxNotes
        PROVE  NotesOK'
    <2> DEFINE m == [by |-> b, index |-> Len(listed)]
    <2>1. m \in Makings /\ m.by = b /\ m.index = Len(listed)
      BY <1>0, <1>2 DEF Makings
    <2> HIDE DEF m
    <2>2. /\ Len(made') = L + 1 /\ made'[L + 1] = m
          /\ \A n \in 1..L : made'[n] = made[n]
      BY <1>0, <1>2, <2>1, Appended DEF m
    <2>3. 1..Len(made') = 1..L \cup {L + 1} /\ L + 1 \notin 1..L
      BY <1>0, <2>2
    <2>4. \A i, j \in 1..Len(made') : made'[i].by = Other /\ made'[j].by = Other => i = j
      BY <1>2, <2>1, <2>2, <2>3 DEF NotesOK
    <2>5. \A n \in 1..Len(made') : made'[n].index < n
      BY <1>0, <2>1, <2>2, <2>3 DEF NotesOK
    <2>6. Cardinality({n \in 1..Len(made') : made'[n].by # Other}) <= MaxNotes
      <3> DEFINE D == {n \in 1..Len(made') : made'[n].by # Other}
      <3>1. ASSUME b = Other PROVE Cardinality(D) <= MaxNotes
        <4>1. D = C
          BY <2>1, <2>2, <2>3, <3>1 DEF OfClients
        <4> HIDE DEF D, C
        <4> QED BY <1>0, <4>1
      <3>2. ASSUME b # Other PROVE Cardinality(D) <= MaxNotes
        <4>1. D = C \cup {L + 1} /\ L + 1 \notin C
          BY <2>1, <2>2, <2>3, <3>2 DEF OfClients
        <4>2. Cardinality(D) = Cardinality(C) + 1
          BY <1>0, <4>1, FS_AddElement
        <4> HIDE DEF D, C
        <4> QED BY <1>0, <1>2, <3>2, <4>2
      <3>3. Cardinality(D) <= MaxNotes
        BY <3>1, <3>2
      <3> QED BY <3>3
    <2> QED BY <2>4, <2>5, <2>6 DEF NotesOK
  <1>3. CASE \E k \in Calls : Deposit(k)
    <2>1. PICK k \in Calls : Deposit(k)
      BY <1>3
    <2>2. ClientOf[k] \in Clients /\ ClientOf[k] # Other
      BY <1>0, Facts
    <2>3. DOMAIN made = 1..L
      BY <1>0
    <2>4. Cardinality(C) < MaxNotes
      BY <2>1, <2>3 DEF Deposit, OfClients
    <2> QED BY <1>2, <2>1, <2>2, <2>4 DEF Deposit
  <1>4. CASE DepositElsewhere
    <2>1. DOMAIN made = 1..L
      BY <1>0
    <2> QED BY <1>2, <1>4, <2>1 DEF DepositElsewhere
  <1> QED BY <1>1, <1>3, <1>4, MadeCases

\* One deposit in or out of the vault.
LEMMA OneDeposit ==
    ASSUME NEW d \in Nat, NEW m \in Int
    PROVE  d * (m + 1) = d * m + d /\ d * (m - 1) = d * m - d
  OBVIOUS

\* What is spent is finite, and every note of the list has a name.
LEMMA SpentFacts ==
    ASSUME Types, NotesOK, ListedOK
    PROVE  /\ IsFiniteSet(spent) /\ Cardinality(spent) \in Nat
           /\ \A n : Listed(n) => n \in NoteIds /\ n \in 1..Len(made)
  <1>1. Len(made) \in Nat /\ Len(made) <= MaxNotes + 1 /\ MaxNotes \in Nat
    BY NotesBound, Facts DEF Types
  <1>2. \A n : Listed(n) => n \in 1..Len(made)
    BY DEF ListedOK, Listed
  <1>3. spent \subseteq 1..Len(made)
    BY <1>2 DEF ListedOK
  <1>4. IsFiniteSet(spent) /\ Cardinality(spent) \in Nat
    BY <1>1, <1>3, Positions, FS_Subset, FS_CardinalityType
  <1>5. \A n \in 1..Len(made) : n \in NoteIds
    BY <1>1 DEF NoteIds
  <1> QED BY <1>2, <1>4, <1>5

\* A deposit of a note that is not listed yet.
LEMMA ListOneMore ==
    ASSUME Types, NotesOK, ListedOK, Len(made) <= Len(made'),
           NEW n, n \in 1..Len(made'), ~Listed(n), Len(made') \in Nat,
           listed' = Append(listed, n), spent' = spent, held' = held + DepositAmount
    PROVE  ListedOK'
  <1>1. Len(listed) \in Nat /\ Len(made) \in Nat /\ n \in Nat /\ DepositAmount \in Nat
    BY Facts DEF Types
  <1>2. /\ Len(listed') = Len(listed) + 1 /\ listed'[Len(listed) + 1] = n
        /\ \A i \in 1..Len(listed) : listed'[i] = listed[i]
    BY <1>1, Appended DEF Types
  <1>3. 1..Len(listed') = 1..Len(listed) \cup {Len(listed) + 1}
    BY <1>1, <1>2
  <1>4. \A i \in 1..Len(listed) : listed[i] # n
    BY DEF Listed
  <1>5. \A i \in 1..Len(listed') : listed'[i] \in 1..Len(made')
    BY <1>1, <1>2, <1>3 DEF ListedOK
  <1>6. \A i, j \in 1..Len(listed') : listed'[i] = listed'[j] => i = j
    BY <1>2, <1>3, <1>4 DEF ListedOK
  <1>7. \A m \in spent' : Listed(m)'
    BY <1>2, <1>3 DEF ListedOK, Listed
  <1>8. held' = DepositAmount * (Len(listed') - Cardinality(spent'))
    <2> DEFINE d == Len(listed) - Cardinality(spent)
    <2>1. Cardinality(spent) \in Nat
      BY SpentFacts
    <2>2. held = DepositAmount * d
      BY DEF ListedOK
    <2>3. d \in Int /\ Len(listed') - Cardinality(spent') = d + 1
      BY <1>1, <1>2, <2>1
    <2> HIDE DEF d
    <2> QED BY <1>1, <2>2, <2>3, OneDeposit
  <1> QED BY <1>5, <1>6, <1>7, <1>8 DEF ListedOK

\* A withdrawal of a listed note that is not spent.
LEMMA SpendOneMore ==
    ASSUME Types, NotesOK, ListedOK, made' = made,
           NEW n, Listed(n), n \notin spent,
           listed' = listed, spent' = spent \cup {n}, held' = held - DepositAmount
    PROVE  ListedOK'
  <1>1. Len(listed) \in Nat /\ DepositAmount \in Nat /\ IsFiniteSet(spent)
        /\ Cardinality(spent) \in Nat
    BY SpentFacts, Facts DEF Types
  <1>2. Cardinality(spent') = Cardinality(spent) + 1
    BY <1>1, FS_AddElement
  <1> DEFINE d == Len(listed) - Cardinality(spent)
  <1>3. held = DepositAmount * d
    BY DEF ListedOK
  <1>4. d \in Int /\ Len(listed') - Cardinality(spent') = d - 1
    BY <1>1, <1>2
  <1>5. held' = DepositAmount * (Len(listed') - Cardinality(spent'))
    <2> HIDE DEF d
    <2> QED BY <1>1, <1>3, <1>4, OneDeposit
  <1>6. \A m \in spent' : Listed(m)'
    BY DEF ListedOK, Listed
  <1> QED BY <1>5, <1>6 DEF ListedOK

\* Only the cluster changes the pool.
LEMMA PoolCases ==
    ASSUME Types, [Next]_vars
    PROVE  \/ UNCHANGED pool
           \/ \E i \in 1..Len(tx) : Land(i)
           \/ DepositElsewhere
  <1>1. DOMAIN tx = 1..Len(tx)
    BY DEF Types
  <1>2. ASSUME NEW k \in Calls, CallStep(k) PROVE UNCHANGED pool
    BY <1>2 DEF CallStep, Deposit, DepositSend, DepositReturns, FetchPool, FetchCommitments,
       CheckAndProve, BuildCreateAta, WithdrawSend, WithdrawReturns, PostRelay, RelayReturns,
       UpdateTreasury, TreasuryReturns, Fails
  <1>3. ASSUME NEW i \in 1..Len(tx), Refuse(i) PROVE UNCHANGED pool
    BY <1>3 DEF Refuse
  <1>4. Tick \/ UNCHANGED vars => UNCHANGED pool
    BY DEF Tick, vars
  <1> QED BY <1>1, <1>2, <1>3, <1>4 DEF Next, CallStep

\* A withdrawal or a relayed one that executes spends its note.
LEMMA LandSpends ==
    ASSUME Types, NotesOK, ListedOK, NEW i \in 1..Len(tx), Land(i),
           tx[i].op \in {"withdraw", "relay"}
    PROVE  /\ Listed(tx[i].note) /\ tx[i].note \notin spent
           /\ spent' = spent \cup {tx[i].note}
           /\ listed' = listed /\ held' = held - DepositAmount /\ made' = made
  <1>1. Ledger!Withdraw(tx[i].note) /\ made' = made
    BY LandFacts DEF memory
  <1>2. Listed(tx[i].note)
    BY <1>1, LedgerFacts
  <1>3. tx[i].note \in NoteIds
    BY <1>2, SpentFacts
  <1> QED BY <1>1, <1>2, <1>3, LedgerFacts

\* The pool lists each note once, and only a listed note is spent.
LEMMA ListedStep ==
    ASSUME Types, NotesOK, ListedOK, DepositsOK, ReadOK, SentOK, [Next]_vars
    PROVE  ListedOK'
  <1>0. Types' /\ Kept
    BY StepKeeps
  <1>1. Len(made) \in Nat /\ Len(made') \in Nat /\ Len(made) <= Len(made')
    BY <1>0 DEF Types, Kept
  <1>2. CASE UNCHANGED pool
    <2>1. UNCHANGED <<listed, spent, held>>
      BY <1>2 DEF pool
    <2> QED BY <1>1, <2>1 DEF ListedOK, Listed
  <1>3. ASSUME NEW i \in 1..Len(tx), Land(i) PROVE ListedOK'
    <2>0. made' = made
      BY <1>3, LandFacts DEF memory
    <2>1. CASE tx[i].op = "deposit"
      <3>1. tx[i].note \in 1..Len(made) /\ ~Listed(tx[i].note)
        BY <1>3, <2>1, LandFacts DEF DepositsOK
      <3>2. /\ listed' = Append(listed, tx[i].note) /\ spent' = spent
            /\ held' = held + DepositAmount
        BY <1>3, <2>1, LandFacts, LedgerFacts
      <3> QED BY <1>1, <2>0, <3>1, <3>2, ListOneMore
    <2>2. CASE tx[i].op = "treasury"
      BY <1>3, <2>0, <2>2, LandFacts DEF ListedOK, Listed
    <2>3. CASE tx[i].op \in {"withdraw", "relay"}
      BY <1>3, <2>3, LandSpends, SpendOneMore
    <2> QED BY <1>3, <2>1, <2>2, <2>3, LandFacts
  <1>4. CASE DepositElsewhere
    <2>1. /\ listed' = Append(listed, Len(made) + 1) /\ spent' = spent
          /\ held' = held + DepositAmount
      BY <1>4, LedgerFacts DEF DepositElsewhere
    <2>2. Len(made') = Len(made) + 1
      BY <1>4 DEF DepositElsewhere, Types
    <2>3. ~Listed(Len(made) + 1)
      BY <1>1 DEF ListedOK, Listed
    <2>4. Len(made) + 1 \in 1..Len(made')
      BY <1>1, <2>2
    <2> QED BY <1>1, <2>1, <2>3, <2>4, ListOneMore
  <1> QED BY <1>2, <1>3, <1>4, PoolCases

-----------------------------------------------------------------------------
(* Deposits.                                                               *)

\* What a call sends: one transaction, for the note it holds.
Sends(k, l, op) ==
    \E t \in Txs :
        /\ Submit(k, t, l)
        /\ t.op = op /\ t.state = "inflight"
        /\ op # "treasury" => t.note = call[k].note
        /\ op = "withdraw" => /\ t.root = call[k].root /\ t.count = call[k].count
                              /\ t.treasury = call[k].treasury

\* What the steps of a call do to the transactions.
LEMMA SendCases ==
    ASSUME Types, ReadOK, SentOK, NEW k \in Calls, CallStep(k)
    PROVE  \/ tx' = tx /\ call'[k].pc \notin Sent
           \/ DepositSend(k) /\ Sends(k, "depositSent", "deposit")
           \/ WithdrawSend(k) /\ Sends(k, "sent", "withdraw")
           \/ PostRelay(k) /\ Sends(k, "posted", "relay")
           \/ UpdateTreasury(k) /\ Sends(k, "treasurySent", "treasury")
           \/ RelayReturns(k)
  <1>1. CASE Deposit(k)
    <2>1. tx' = tx /\ call' = [call EXCEPT ![k] = [pc |-> "depositDelay", note |-> Len(made) + 1,
                                          page |-> Len(listed) \div PageCapacity]]
      BY <1>1 DEF Deposit, Set
    <2> QED BY <2>1 DEF Types, Sent
  <1>2. CASE DepositSend(k)
    BY <1>2, DepositSends DEF Sends
  <1>3. CASE \E op \in Ways[ClientOf[k]], n \in NoteIds, r \in Recipients : FetchPool(k, op, n, r)
    <2>1. tx' = tx
      BY <1>3 DEF FetchPool
    <2> QED BY <1>3, <2>1, PreparingStep DEF Sent
  <1>4. CASE FetchCommitments(k)
    <2>1. tx' = tx
      BY <1>4 DEF FetchCommitments
    <2> QED BY <1>4, <2>1, PreparingStep DEF Sent
  <1>5. CASE CheckAndProve(k)
    <2>1. tx' = tx /\ At(k, "check") /\ (End(k) \/ \E l \in {"post", "account", "send"} : Goto(k, l))
      BY <1>5 DEF Proved, CheckAndProve
    <2> QED BY <2>1, EndOfCall, PreparingStep DEF Sent
  <1>6. CASE BuildCreateAta(k)
    <2>1. tx' = tx
      BY <1>6 DEF BuildCreateAta
    <2> QED BY <1>6, <2>1, PreparingStep DEF Sent
  <1>7. CASE WithdrawSend(k)
    BY <1>7, WithdrawSends DEF Sends
  <1>8. CASE PostRelay(k)
    <2>1. CASE End(k) /\ UNCHANGED tx
      BY <2>1, EndOfCall DEF Sent
    <2>2. CASE ~(End(k) /\ UNCHANGED tx)
      BY <1>8, <2>2, RelaySends DEF Sends
    <2> QED BY <2>1, <2>2
  <1>9. CASE UpdateTreasury(k)
    BY <1>9, TreasurySends DEF Sends
  <1>10. CASE DepositReturns(k) \/ WithdrawReturns(k) \/ TreasuryReturns(k) \/ Fails(k)
    <2>1. tx' = tx /\ End(k)
      BY <1>10 DEF DepositReturns, WithdrawReturns, TreasuryReturns, Fails
    <2> QED BY <2>1, EndOfCall DEF Sent
  <1> QED BY <1>1, <1>2, <1>3, <1>4, <1>5, <1>6, <1>7, <1>8, <1>9, <1>10 DEF CallStep

\* Nothing was deposited, begun or sent, and nothing registered.
LEMMA NoDeposit ==
    ASSUME Types, Types', Kept, DepositsOK,
           \A k \in Calls : At(k, "depositDelay")' =>
               At(k, "depositDelay") /\ call'[k].note = call[k].note,
           \A i \in 1..Len(tx') : tx'[i].op = "deposit" =>
               /\ i \in 1..Len(tx)
               /\ tx'[i].state = tx[i].state \/ tx'[i].state = "failed",
           listed' = listed, kept' = kept
    PROVE  DepositsOK'
  <1>1. \A n : Listed(n)' <=> Listed(n)
    BY DEF Listed
  <1>2. \A i \in 1..Len(tx) : tx'[i].op = tx[i].op /\ tx'[i].note = tx[i].note
    BY DEF Kept
  <1>3. \A n \in 1..Len(made) : n \in 1..Len(made')
    BY DEF Kept, Types
  <1>4. \A k \in Calls : At(k, "depositDelay")' =>
            /\ call'[k].note \in 1..Len(made')
            /\ ~Listed(call[k].note)'
            /\ \A i \in 1..Len(tx') : tx'[i].op = "deposit" => tx'[i].note # call'[k].note
    BY <1>1, <1>2, <1>3 DEF DepositsOK
  <1>5. \A k, l \in Calls :
            At(k, "depositDelay")' /\ At(l, "depositDelay")' /\ call'[k].note = call'[l].note => k = l
    BY DEF DepositsOK
  <1>6. \A i \in 1..Len(tx') : tx'[i].op = "deposit" =>
            /\ tx'[i].note \in 1..Len(made')
            /\ tx'[i].state = "landed" => Listed(tx[i].note)'
            /\ tx'[i].state = "inflight" => ~Listed(tx[i].note)'
    BY <1>1, <1>2, <1>3 DEF DepositsOK
  <1>7. \A i, j \in 1..Len(tx') :
            tx'[i].op = "deposit" /\ tx'[j].op = "deposit" /\ tx'[i].note = tx'[j].note => i = j
    BY <1>2 DEF DepositsOK
  <1>8. \A c \in Clients : \A n \in kept'[c] : Listed(n)'
    BY <1>1 DEF DepositsOK
  <1> QED BY <1>4, <1>5, <1>6, <1>7, <1>8 DEF DepositsOK, Listed, At

\* What Sends does to the transactions and the calls.
LEMMA SendsFacts ==
    ASSUME Types, NEW k \in Calls, NEW l \in Sent, NEW op, Sends(k, l, op)
    PROVE  /\ Len(tx') = Len(tx) + 1 /\ Len(tx) \in Nat
           /\ \A i \in 1..Len(tx) : tx'[i] = tx[i]
           /\ 1..Len(tx') = 1..Len(tx) \cup {Len(tx) + 1}
           /\ tx'[Len(tx) + 1].op = op /\ tx'[Len(tx) + 1].state = "inflight"
           /\ op # "treasury" => tx'[Len(tx) + 1].note = call[k].note
           /\ op = "withdraw" => /\ tx'[Len(tx) + 1].root = call[k].root
                                 /\ tx'[Len(tx) + 1].count = call[k].count
                                 /\ tx'[Len(tx) + 1].treasury = call[k].treasury
           /\ call'[k].pc = l /\ call'[k].tx = Len(tx) + 1
           /\ call'[k].note = tx'[Len(tx) + 1].note
  <1>1. PICK t \in Txs :
            /\ Submit(k, t, l)
            /\ t.op = op /\ t.state = "inflight"
            /\ op # "treasury" => t.note = call[k].note
            /\ op = "withdraw" => /\ t.root = call[k].root /\ t.count = call[k].count
                                  /\ t.treasury = call[k].treasury
    BY DEF Sends
  <1>2. Len(tx) \in Nat
    BY DEF Types
  <1>3. /\ Len(tx') = Len(tx) + 1 /\ tx'[Len(tx) + 1] = t
        /\ \A i \in 1..Len(tx) : tx'[i] = tx[i]
        /\ call'[k] = [pc |-> l, note |-> t.note, recipient |-> t.recipient, tx |-> Len(tx) + 1]
    BY <1>1, SubmitFacts
  <1>4. 1..Len(tx') = 1..Len(tx) \cup {Len(tx) + 1}
    BY <1>2, <1>3
  <1> QED BY <1>1, <1>2, <1>3, <1>4

\* deposit() makes a note that nothing else knows.
LEMMA DepositBegins ==
    ASSUME Types, Types', Kept, ListedOK, DepositsOK, NEW k \in Calls, Deposit(k)
    PROVE  DepositsOK'
  <1>1. /\ Len(made') = Len(made) + 1 /\ Len(made) \in Nat
        /\ call'[k].pc = "depositDelay" /\ call'[k].note = Len(made) + 1
        /\ \A l \in Calls \ {k} : call'[l] = call[l]
        /\ UNCHANGED <<listed, tx, kept>>
    BY DEF Deposit, Set, pool, Types
  <1>2. \A n : Listed(n)' <=> Listed(n)
    BY <1>1 DEF Listed
  <1>3. 1..Len(made') = 1..Len(made) \cup {Len(made) + 1} /\ Len(made) + 1 \notin 1..Len(made)
    BY <1>1
  <1>4. ~Listed(Len(made) + 1)
    BY <1>3 DEF ListedOK, Listed
  <1>5. \A i \in 1..Len(tx) : tx[i].op = "deposit" => tx[i].note # Len(made) + 1
    BY <1>3 DEF DepositsOK
  <1>6. \A l \in Calls : At(l, "depositDelay")' =>
            /\ call'[l].note \in 1..Len(made')
            /\ ~Listed(call[l].note)'
            /\ \A i \in 1..Len(tx') : tx'[i].op = "deposit" => tx'[i].note # call'[l].note
    BY <1>1, <1>2, <1>3, <1>4, <1>5 DEF DepositsOK, At
  <1>7. \A l, m \in Calls :
            At(l, "depositDelay")' /\ At(m, "depositDelay")' /\ call'[l].note = call'[m].note => l = m
    BY <1>1, <1>3 DEF DepositsOK, At
  <1>8. \A i \in 1..Len(tx') : tx'[i].op = "deposit" =>
            /\ tx'[i].note \in 1..Len(made')
            /\ tx'[i].state = "landed" => Listed(tx[i].note)'
            /\ tx'[i].state = "inflight" => ~Listed(tx[i].note)'
    BY <1>1, <1>2, <1>3 DEF DepositsOK
  <1>9. \A i, j \in 1..Len(tx') :
            tx'[i].op = "deposit" /\ tx'[j].op = "deposit" /\ tx'[i].note = tx'[j].note => i = j
    BY <1>1 DEF DepositsOK
  <1>10. \A c \in Clients : \A n \in kept'[c] : Listed(n)'
    BY <1>1, <1>2 DEF DepositsOK
  <1> QED BY <1>6, <1>7, <1>8, <1>9, <1>10 DEF DepositsOK, Listed, At

\* deposit() sends the note that it made, once.
LEMMA DepositIsSent ==
    ASSUME Types, Types', Kept, DepositsOK, NEW k \in Calls, DepositSend(k),
           Sends(k, "depositSent", "deposit")
    PROVE  DepositsOK'
  <1> DEFINE n == call[k].note
             j == Len(tx) + 1
  <1>1. /\ Len(tx) \in Nat /\ 1..Len(tx') = 1..Len(tx) \cup {j} /\ j \notin 1..Len(tx)
        /\ tx'[j].op = "deposit" /\ tx'[j].note = n /\ tx'[j].state = "inflight"
        /\ \A i \in 1..Len(tx) : tx'[i] = tx[i]
        /\ call'[k].pc = "depositSent"
    BY SendsFacts DEF Sent
  <1>2. UNCHANGED <<listed, kept, made>> /\ At(k, "depositDelay")
    BY DEF DepositSend, pool, memory
  <1>3. \A l \in Calls \ {k} : call'[l] = call[l]
    BY OthersWait DEF CallStep
  <1>4. \A m : Listed(m)' <=> Listed(m)
    BY <1>2 DEF Listed
  <1>5. /\ n \in 1..Len(made) /\ ~Listed(n)
        /\ \A i \in 1..Len(tx) : tx[i].op = "deposit" => tx[i].note # n
        /\ \A l \in Calls \ {k} : At(l, "depositDelay") => call[l].note # n
    BY <1>2 DEF DepositsOK
  <1> HIDE DEF n, j
  <1>6. \A l \in Calls : At(l, "depositDelay")' =>
            /\ call'[l].note \in 1..Len(made')
            /\ ~Listed(call[l].note)'
            /\ \A i \in 1..Len(tx') : tx'[i].op = "deposit" => tx'[i].note # call'[l].note
    <2> SUFFICES ASSUME NEW l \in Calls, At(l, "depositDelay")'
                 PROVE  /\ call'[l].note \in 1..Len(made')
                        /\ ~Listed(call[l].note)'
                        /\ \A i \in 1..Len(tx') :
                               tx'[i].op = "deposit" => tx'[i].note # call'[l].note
      OBVIOUS
    <2>1. l # k /\ call'[l] = call[l] /\ At(l, "depositDelay")
      BY <1>1, <1>3 DEF At
    <2>2. /\ call[l].note \in 1..Len(made) /\ ~Listed(call[l].note)
          /\ \A i \in 1..Len(tx) : tx[i].op = "deposit" => tx[i].note # call[l].note
      BY <2>1 DEF DepositsOK
    <2>3. Listed(call[l].note)' <=> Listed(call[l].note)
      BY <1>2, <2>1 DEF Listed
    <2> QED BY <1>1, <1>2, <1>5, <2>1, <2>2, <2>3
  <1>7. \A l, m \in Calls :
            At(l, "depositDelay")' /\ At(m, "depositDelay")' /\ call'[l].note = call'[m].note => l = m
    BY <1>1, <1>3 DEF DepositsOK, At
  <1>8. \A i \in 1..Len(tx') : tx'[i].op = "deposit" =>
            /\ tx'[i].note \in 1..Len(made')
            /\ tx'[i].state = "landed" => Listed(tx[i].note)'
            /\ tx'[i].state = "inflight" => ~Listed(tx[i].note)'
    BY <1>1, <1>2, <1>4, <1>5 DEF DepositsOK
  <1>9. \A h, i \in 1..Len(tx') :
            tx'[h].op = "deposit" /\ tx'[i].op = "deposit" /\ tx'[h].note = tx'[i].note => h = i
    <2>1. \A h, i \in 1..Len(tx) :
            tx[h].op = "deposit" /\ tx[i].op = "deposit" /\ tx[h].note = tx[i].note => h = i
      BY DEF DepositsOK
    <2> QED BY <1>1, <1>5, <2>1
  <1>10. \A c \in Clients : \A m \in kept'[c] : Listed(m)'
    BY <1>2, <1>4 DEF DepositsOK
  <1> QED BY <1>6, <1>7, <1>8, <1>9, <1>10 DEF DepositsOK, Listed, At

\* deposit() registers a note whose transaction has executed.
LEMMA DepositIsKept ==
    ASSUME Types, Types', Kept, DepositsOK, SentOK, NEW k \in Calls, DepositReturns(k)
    PROVE  DepositsOK'
  <1>1. /\ UNCHANGED <<listed, tx, made>>
        /\ kept' = [kept EXCEPT ![ClientOf[k]] = @ \cup {call[k].note}]
        /\ End(k)
    BY DEF DepositReturns, pool
  <1>2. call'[k].pc = "idle" /\ \A l \in Calls \ {k} : call'[l] = call[l]
    BY <1>1, EndOfCall
  <1>3. \A n : Listed(n)' <=> Listed(n)
    BY <1>1 DEF Listed
  <1>4. Listed(call[k].note)
    BY DEF DepositReturns, At, TxOf, SentOK, Sent, DepositsOK
  <1>5. \A c \in Clients : \A n \in kept'[c] : n \in kept[c] \/ n = call[k].note
    BY <1>1 DEF Types
  <1>6. \A c \in Clients : \A n \in kept'[c] : Listed(n)'
    BY <1>3, <1>4, <1>5 DEF DepositsOK
  <1>7. \A l \in Calls : At(l, "depositDelay")' => At(l, "depositDelay") /\ call'[l] = call[l]
    BY <1>2 DEF At
  <1> QED BY <1>1, <1>3, <1>6, <1>7 DEF DepositsOK, Listed, At

\* An executing deposit puts its note into the list, where it was not before.
LEMMA DepositLands ==
    ASSUME Types, Types', Kept, DepositsOK, NEW i \in 1..Len(tx), Land(i),
           tx[i].op = "deposit"
    PROVE  DepositsOK'
  <1> DEFINE n == tx[i].note
  <1>1. /\ Len(tx') = Len(tx) /\ UNCHANGED <<made, kept, call>>
        /\ tx'[i].op = "deposit" /\ tx'[i].note = n /\ tx'[i].state = "landed"
        /\ \A j \in 1..Len(tx) \ {i} : tx'[j] = tx[j]
        /\ tx[i].state = "inflight"
    BY LandFacts DEF memory
  <1>2. listed' = Append(listed, n) /\ n \in Nat
    <2>0. tx[i] \in Txs
      BY DEF Types
    <2>1. n \in Nat
      BY <2>0 DEF Txs
    <2>2. listed' = Append(listed, n)
      BY LandFacts, LedgerFacts
    <2> QED BY <2>1, <2>2
  <1>3. \A m : Listed(m)' <=> Listed(m) \/ m = n
    <2>1. /\ Len(listed') = Len(listed) + 1 /\ Len(listed) \in Nat
          /\ listed'[Len(listed) + 1] = n
          /\ \A j \in 1..Len(listed) : listed'[j] = listed[j]
      BY <1>2, Appended DEF Types
    <2>2. 1..Len(listed') = 1..Len(listed) \cup {Len(listed) + 1}
      BY <2>1
    <2> QED BY <2>1, <2>2 DEF Listed
  <1>4. \A j \in 1..Len(tx) \ {i} : tx[j].op = "deposit" => tx[j].note # n
    BY DEF DepositsOK
  <1>5. \A k \in Calls : At(k, "depositDelay") => call[k].note # n
    BY DEF DepositsOK
  <1>6. \A k \in Calls : At(k, "depositDelay")' =>
            /\ call'[k].note \in 1..Len(made')
            /\ ~Listed(call[k].note)'
            /\ \A j \in 1..Len(tx') : tx'[j].op = "deposit" => tx'[j].note # call'[k].note
    <2> SUFFICES ASSUME NEW k \in Calls, At(k, "depositDelay")'
                 PROVE  /\ call'[k].note \in 1..Len(made')
                        /\ ~Listed(call[k].note)'
                        /\ \A j \in 1..Len(tx') :
                               tx'[j].op = "deposit" => tx'[j].note # call'[k].note
      OBVIOUS
    <2>1. At(k, "depositDelay") /\ call'[k] = call[k]
      BY <1>1 DEF At
    <2>2. /\ call[k].note \in 1..Len(made) /\ ~Listed(call[k].note) /\ call[k].note # n
          /\ \A j \in 1..Len(tx) : tx[j].op = "deposit" => tx[j].note # call[k].note
      BY <1>5, <2>1 DEF DepositsOK
    <2>3. ~Listed(call[k].note)'
      <3> DEFINE m == call[k].note
      <3>1. ~Listed(m) /\ m # n /\ m = m'
        BY <2>1, <2>2
      <3> QED BY <1>1, <1>3, <2>2, <3>1 DEF Listed
    <2> QED BY <1>1, <2>1, <2>2, <2>3
  <1>7. \A k, l \in Calls :
            At(k, "depositDelay")' /\ At(l, "depositDelay")' /\ call'[k].note = call'[l].note => k = l
    BY <1>1 DEF DepositsOK, At
  <1>8. \A j \in 1..Len(tx') : tx'[j].op = "deposit" =>
            /\ tx'[j].note \in 1..Len(made')
            /\ tx'[j].state = "landed" => Listed(tx[j].note)'
            /\ tx'[j].state = "inflight" => ~Listed(tx[j].note)'
    <2> SUFFICES ASSUME NEW j \in 1..Len(tx), tx'[j].op = "deposit"
                 PROVE  /\ tx'[j].note \in 1..Len(made')
                        /\ tx'[j].state = "landed" => Listed(tx[j].note)'
                        /\ tx'[j].state = "inflight" => ~Listed(tx[j].note)'
      BY <1>1
    <2>1. CASE j = i
      BY <1>1, <1>3, <2>1 DEF DepositsOK, Listed
    <2>2. CASE j # i
      <3>1. tx'[j] = tx[j] /\ tx[j].note # n
        BY <1>1, <1>4, <2>2
      <3>2. Listed(tx[j].note)' <=> Listed(tx[j].note)
        BY <1>3, <3>1 DEF Listed
      <3>3. /\ tx[j].note \in 1..Len(made)
            /\ tx[j].state = "landed" => Listed(tx[j].note)
            /\ tx[j].state = "inflight" => ~Listed(tx[j].note)
        BY <1>1, <2>2 DEF DepositsOK
      <3> QED BY <1>1, <3>1, <3>2, <3>3
    <2> QED BY <2>1, <2>2
  <1>9. \A h, j \in 1..Len(tx') :
            tx'[h].op = "deposit" /\ tx'[j].op = "deposit" /\ tx'[h].note = tx'[j].note => h = j
    BY <1>1 DEF DepositsOK
  <1>10. \A c \in Clients : \A m \in kept'[c] : Listed(m)'
    BY <1>1, <1>3 DEF DepositsOK
  <1> QED BY <1>6, <1>7, <1>8, <1>9, <1>10 DEF DepositsOK, Listed, At

\* A deposit of somebody else is of a note of its own.
LEMMA DepositElsewhereIsOther ==
    ASSUME Types, Types', Kept, DepositsOK, DepositElsewhere
    PROVE  DepositsOK'
  <1> DEFINE n == Len(made) + 1
  <1>1. /\ UNCHANGED <<tx, kept, call>> /\ Len(made) \in Nat /\ n \in Nat
        /\ \A m \in 1..Len(made) : m \in 1..Len(made') /\ m # n
    BY DEF DepositElsewhere, Kept, Types
  <1>2. listed' = Append(listed, n)
    BY LedgerFacts DEF DepositElsewhere
  <1> HIDE DEF n
  <1>3. \A m : Listed(m)' <=> Listed(m) \/ m = n
    <2>1. /\ Len(listed') = Len(listed) + 1 /\ Len(listed) \in Nat
          /\ listed'[Len(listed) + 1] = n
          /\ \A j \in 1..Len(listed) : listed'[j] = listed[j]
      BY <1>1, <1>2, Appended DEF Types
    <2>2. 1..Len(listed') = 1..Len(listed) \cup {Len(listed) + 1}
      BY <2>1
    <2> QED BY <2>1, <2>2 DEF Listed
  <1>6. \A k \in Calls : At(k, "depositDelay")' =>
            /\ call'[k].note \in 1..Len(made')
            /\ ~Listed(call[k].note)'
            /\ \A j \in 1..Len(tx') : tx'[j].op = "deposit" => tx'[j].note # call'[k].note
    BY <1>1, <1>3 DEF DepositsOK, At, Listed
  <1>8. \A j \in 1..Len(tx') : tx'[j].op = "deposit" =>
            /\ tx'[j].note \in 1..Len(made')
            /\ tx'[j].state = "landed" => Listed(tx[j].note)'
            /\ tx'[j].state = "inflight" => ~Listed(tx[j].note)'
    <2>1. \A j \in 1..Len(tx) : Listed(tx[j].note)' <=> (\E i \in 1..Len(listed') : listed'[i] = tx[j].note)
      BY <1>1 DEF Listed
    <2>2. \A m : (\E i \in 1..Len(listed') : listed'[i] = m) <=> Listed(m) \/ m = n
      BY <1>3 DEF Listed
    <2>3. \A j \in 1..Len(tx) : tx[j].op = "deposit" =>
            /\ tx[j].note \in 1..Len(made)
            /\ tx[j].state = "landed" => Listed(tx[j].note)
            /\ tx[j].state = "inflight" => ~Listed(tx[j].note)
      BY DEF DepositsOK
    <2> QED BY <1>1, <2>1, <2>2, <2>3
  <1>10. \A c \in Clients : \A m \in kept'[c] : Listed(m)'
    BY <1>1, <1>3 DEF DepositsOK
  <1> QED BY <1>1, <1>6, <1>8, <1>10 DEF DepositsOK, Listed, At

\* A note is sent once, and what a client keeps is listed.
LEMMA DepositsStep ==
    ASSUME Types, NotesOK, ListedOK, DepositsOK, ReadOK, SentOK, [Next]_vars
    PROVE  DepositsOK'
  <1>0. Types' /\ Kept
    BY StepKeeps
  <1>00. DOMAIN tx = 1..Len(tx)
    BY DEF Types
  <1>1. ASSUME NEW k \in Calls, CallStep(k),
               ~Deposit(k), ~DepositSend(k), ~DepositReturns(k)
        PROVE  DepositsOK'
    <2>1. UNCHANGED <<listed, kept>>
      BY <1>1 DEF CallStep, FetchPool, FetchCommitments, CheckAndProve, BuildCreateAta,
         WithdrawSend, WithdrawReturns, PostRelay, RelayReturns, UpdateTreasury,
         TreasuryReturns, Fails, pool, memory
    <2>2. call'[k].pc # "depositDelay"
      <3>1. CASE \/ DepositReturns(k) \/ WithdrawReturns(k) \/ RelayReturns(k)
                 \/ TreasuryReturns(k) \/ Fails(k)
        <4>1. End(k)
          BY <3>1 DEF DepositReturns, WithdrawReturns, RelayReturns, TreasuryReturns, Fails
        <4> QED BY <4>1, EndOfCall
      <3>2. CASE CheckAndProve(k)
        <4>1. At(k, "check") /\ (End(k) \/ \E l \in {"post", "account", "send"} : Goto(k, l))
          BY <3>2 DEF Proved, CheckAndProve
        <4> QED BY <4>1, EndOfCall, PreparingStep
      <3>3. CASE FetchCommitments(k) \/ BuildCreateAta(k)
        BY <3>3, PreparingStep
      <3>4. CASE \E op \in Ways[ClientOf[k]], n \in NoteIds, r \in Recipients :
                    FetchPool(k, op, n, r)
        BY <3>4, PreparingStep
      <3>5. CASE WithdrawSend(k) \/ UpdateTreasury(k)
        <4>1. Sends(k, "sent", "withdraw") \/ Sends(k, "treasurySent", "treasury")
          BY <3>5, WithdrawSends, TreasurySends DEF Sends
        <4> QED BY <4>1, SendsFacts DEF Sent
      <3>6. CASE PostRelay(k)
        <4>1. End(k) \/ Sends(k, "posted", "relay")
          BY <3>6, RelaySends DEF Sends
        <4> QED BY <4>1, EndOfCall, SendsFacts DEF Sent
      <3> QED BY <1>1, <3>1, <3>2, <3>3, <3>4, <3>5, <3>6 DEF CallStep
    <2>3. \A i \in 1..Len(tx') : tx'[i].op = "deposit" => i \in 1..Len(tx) /\ tx'[i] = tx[i]
      <3>1. CASE tx' = tx
        BY <3>1
      <3>2. CASE \/ Sends(k, "sent", "withdraw") \/ Sends(k, "posted", "relay")
                 \/ Sends(k, "treasurySent", "treasury")
        <4>1. PICK l \in Sent, op \in {"withdraw", "relay", "treasury"} : Sends(k, l, op)
          BY <3>2 DEF Sent
        <4> QED BY <4>1, SendsFacts
      <3>3. CASE RelayReturns(k)
        BY <3>3, AnswerFacts
      <3> QED BY <1>1, <3>1, <3>2, <3>3, SendCases
    <2>4. \A l \in Calls : At(l, "depositDelay")' =>
              At(l, "depositDelay") /\ call'[l].note = call[l].note
      BY <1>1, <2>2, OthersWait DEF At
    <2> QED BY <1>0, <2>1, <2>3, <2>4, NoDeposit
  <1>2. ASSUME NEW k \in Calls, Deposit(k) \/ DepositSend(k) \/ DepositReturns(k)
        PROVE  DepositsOK'
    <2>1. CASE Deposit(k)
      BY <1>0, <2>1, DepositBegins
    <2>2. CASE DepositSend(k)
      BY <1>0, <2>2, DepositIsSent, DepositSends DEF Sends
    <2>3. CASE DepositReturns(k)
      BY <1>0, <2>3, DepositIsKept
    <2> QED BY <1>2, <2>1, <2>2, <2>3
  <1>3. ASSUME NEW i \in 1..Len(tx), Land(i) PROVE DepositsOK'
    <2>1. CASE tx[i].op = "deposit"
      BY <1>0, <1>3, <2>1, DepositLands
    <2>2. CASE tx[i].op # "deposit"
      <3>1. listed' = listed
        <4>1. \/ Ledger!Withdraw(tx[i].note)
              \/ UNCHANGED <<listed, spent, held>>
          BY <1>3, <2>2, LandFacts
        <4> QED BY <4>1, LedgerFacts
      <3>2. UNCHANGED <<kept, call>>
        BY <1>3, LandFacts DEF memory
      <3>3. \A j \in 1..Len(tx') : tx'[j].op = "deposit" => j \in 1..Len(tx) /\ tx'[j] = tx[j]
        BY <1>3, <2>2, LandFacts
      <3> QED BY <1>0, <3>1, <3>2, <3>3, NoDeposit DEF At
    <2> QED BY <2>1, <2>2
  <1>4. ASSUME NEW i \in 1..Len(tx), Refuse(i) PROVE DepositsOK'
    <2>1. UNCHANGED <<listed, kept, call>>
      BY <1>4 DEF Refuse, pool, memory
    <2>2. \A j \in 1..Len(tx') : j \in 1..Len(tx) /\ (tx'[j] = tx[j] \/ tx'[j].state = "failed")
      <3>1. tx[i] \in Txs
        BY DEF Types
      <3>2. tx'[i].state = "failed"
        BY <1>4, <3>1, RefuseFacts DEF Txs
      <3> QED BY <1>4, <3>2, RefuseFacts
    <2> QED BY <1>0, <2>1, <2>2, NoDeposit DEF At
  <1>5. CASE DepositElsewhere
    BY <1>0, <1>5, DepositElsewhereIsOther
  <1>6. CASE Tick \/ UNCHANGED vars
    <2>1. UNCHANGED <<listed, kept, call, tx>>
      BY <1>6 DEF Tick, vars, pool, memory
    <2> QED BY <1>0, <2>1, NoDeposit DEF At
  <1> QED BY <1>00, <1>1, <1>2, <1>3, <1>4, <1>5, <1>6 DEF Next, CallStep

-----------------------------------------------------------------------------
(* What a call has read.                                                   *)

\* What was read before stays of the past.
LEMMA ReadStays ==
    ASSUME Types, Types', Kept, NEW k \in Calls, call[k].pc \in Preparing, ReadBy(k),
           call'[k] = call[k]
    PROVE  ReadBy(k)'
  <1>1. /\ Len(listed) \in Nat /\ Len(listed') \in Nat /\ treasury \in Nat /\ treasury' \in Nat
        /\ call[k].count \in Nat /\ call[k].treasury \in Nat
    BY PreparingShape DEF Types, Withdrawing
  <1>2. /\ Len(listed) <= Len(listed') /\ treasury <= treasury'
        /\ \A i \in 1..Len(listed) : listed'[i] = listed[i]
    BY DEF Kept
  <1>3. PICK i \in 1..call[k].count : listed[i] = call[k].note
    BY DEF ReadBy
  <1>4. i \in 1..Len(listed) /\ call[k].count <= Len(listed')
    BY <1>1, <1>2, <1>3 DEF ReadBy
  <1>5. listed'[i] = call'[k].note /\ i \in 1..call'[k].count
    BY <1>2, <1>3, <1>4
  <1>6. call'[k].treasury <= treasury'
    BY <1>1, <1>2 DEF ReadBy
  <1> QED BY <1>4, <1>5, <1>6 DEF ReadBy

\* The steps that read, and those that check what was read.
LEMMA ReadMoves ==
    ASSUME Types, NotesOK, ListedOK, DepositsOK, ReadOK, NEW k \in Calls,
           \/ \E op \in Ways[ClientOf[k]], n \in NoteIds, r \in Recipients : FetchPool(k, op, n, r)
           \/ FetchCommitments(k) \/ CheckAndProve(k) \/ BuildCreateAta(k),
           call'[k].pc \in Preparing
    PROVE  ReadBy(k)'
  <1>0. Len(listed) \in Nat /\ treasury \in Nat /\ Lag \in Nat
    BY Facts DEF Types
  <1>1. ASSUME NEW op \in Ways[ClientOf[k]], NEW n \in NoteIds, NEW r \in Recipients,
               FetchPool(k, op, n, r)
        PROVE  ReadBy(k)'
    <2>1. UNCHANGED <<listed, treasury>>
      BY <1>1 DEF FetchPool, pool
    <2>2. Listed(n)
      BY <1>1 DEF FetchPool, DepositsOK
    <2>3. /\ call'[k].pc \in {"check", "pages"} /\ call'[k].note = n
          /\ call'[k].count = Len(listed) /\ call'[k].root = Len(listed)
          /\ call'[k].treasury <= treasury
      BY <1>1, PreparingStep
    <2> QED BY <1>0, <2>1, <2>2, <2>3 DEF ReadBy, Listed
  <1>2. CASE FetchCommitments(k)
    <2>1. UNCHANGED <<listed, treasury>>
      BY <1>2 DEF FetchCommitments, pool
    <2>2. ReadBy(k) /\ call[k] \in Withdrawing
      BY <1>2, PreparingShape DEF ReadOK, FetchCommitments, At, Preparing
    <2>3. PICK shown \in 0..Len(listed) :
              shown + Lag >= Len(listed) /\ call'[k].root = Min({call[k].root, shown})
      BY <1>2, PreparingStep
    <2>4. /\ call'[k].root \in {call[k].root, shown}
          /\ call'[k].root <= call[k].root /\ shown \in Nat
          /\ call[k].root \in Nat /\ call[k].count \in Nat
      BY <1>0, <2>2, <2>3, MinOfTwo DEF Withdrawing
    <2>5. call'[k].root <= call[k].count /\ call[k].count <= call'[k].root + Lag
      BY <1>0, <2>2, <2>3, <2>4 DEF ReadBy
    <2>6. /\ call'[k].pc = "check" /\ call'[k].note = call[k].note
          /\ call'[k].count = call[k].count /\ call'[k].treasury = call[k].treasury
      BY <1>2, PreparingStep
    <2> QED BY <2>1, <2>2, <2>5, <2>6 DEF ReadBy
  <1>3. CASE CheckAndProve(k)
    <2>1. UNCHANGED <<listed, treasury>> /\ At(k, "check")
      BY <1>3 DEF CheckAndProve, pool
    <2>2. ReadBy(k) /\ call[k] \in Withdrawing
      BY <2>1, PreparingShape DEF ReadOK, At, Preparing
    <2>3. ~End(k)
      BY EndOfCall DEF Preparing
    <2>4. PICK l \in {"post", "account", "send"} :
              /\ Goto(k, l)
              /\ l = "post" => call[k].op = "relay"
              /\ l # "post" => call[k].op # "relay"
              /\ FindCommitmentIndex(call[k].note, call[k].root)
      BY <1>3, <2>3 DEF Proved, CheckAndProve
    <2>5. call[k].root >= 1
      <3>1. call[k].root \in Nat /\ call[k].count \in Nat
        BY <2>2 DEF Withdrawing
      <3>2. Listed(call[k].note)
        <4>1. PICK i \in 1..call[k].count : listed[i] = call[k].note
          BY <2>2 DEF ReadBy
        <4>2. i \in 1..Len(listed)
          BY <1>0, <2>2, <3>1, <4>1 DEF ReadBy
        <4> QED BY <4>1, <4>2 DEF Listed
      <3>3. Hint(call[k].note) >= 1
        <4>1. call[k].note \in 1..Len(made)
          BY <3>2, SpentFacts
        <4>2. made[call[k].note] \in Makings
          BY <4>1 DEF Types
        <4> QED BY <4>2 DEF Hint, Makings
      <3>4. CASE Hint(call[k].note) <= call[k].root
        <4>1. Hint(call[k].note) \in Nat
          <5>1. call[k].note \in 1..Len(made)
            BY <3>2, SpentFacts
          <5>2. made[call[k].note] \in Makings
            BY <5>1 DEF Types
          <5> QED BY <5>2 DEF Hint, Makings
        <4> QED BY <3>1, <3>3, <3>4, <4>1
      <3>5. CASE \E i \in 1..call[k].root : listed[i] = call[k].note
        BY <3>1, <3>5
      <3> QED BY <2>4, <3>4, <3>5 DEF FindCommitmentIndex
    <2>6. /\ call'[k].pc = l /\ call'[k].note = call[k].note /\ call'[k].op = call[k].op
          /\ call'[k].count = call[k].count /\ call'[k].root = call[k].root
          /\ call'[k].treasury = call[k].treasury
      BY <2>1, <2>4, PreparingStep
    <2>7. call[k].op \in {"withdraw", "relay"}
      BY <2>2 DEF Withdrawing
    <2> QED BY <2>1, <2>2, <2>4, <2>5, <2>6, <2>7 DEF ReadBy
  <1>4. CASE BuildCreateAta(k)
    <2>1. UNCHANGED <<listed, treasury>> /\ At(k, "account")
      BY <1>4 DEF BuildCreateAta, pool
    <2>2. ReadBy(k)
      BY <2>1 DEF ReadOK, At, Preparing
    <2>3. /\ call'[k].pc = "send" /\ call'[k].note = call[k].note /\ call'[k].op = call[k].op
          /\ call'[k].count = call[k].count /\ call'[k].root = call[k].root
          /\ call'[k].treasury = call[k].treasury
      BY <1>4, PreparingStep
    <2> QED BY <2>1, <2>2, <2>3 DEF ReadBy, At
  <1> QED BY <1>1, <1>2, <1>3, <1>4

\* What a call has read stays of the past of the pool: the pool only grows.
LEMMA ReadStep ==
    ASSUME Types, NotesOK, ListedOK, DepositsOK, ReadOK, SentOK, [Next]_vars
    PROVE  ReadOK'
  <1>0. Types' /\ Kept
    BY StepKeeps
  <1>1. ASSUME NEW k \in Calls, CallStep(k), NEW l \in Calls, call'[l].pc \in Preparing
        PROVE  ReadBy(l)'
    <2>1. CASE l # k
      <3>1. call'[l] = call[l]
        BY <1>1, <2>1, OthersWait
      <3> QED BY <1>0, <1>1, <3>1, ReadStays DEF ReadOK
    <2>2. CASE l = k
      <3>1. CASE \/ \E op \in Ways[ClientOf[k]], n \in NoteIds, r \in Recipients :
                        FetchPool(k, op, n, r)
                 \/ FetchCommitments(k) \/ CheckAndProve(k) \/ BuildCreateAta(k)
        BY <1>1, <2>2, <3>1, ReadMoves
      <3>2. CASE Deposit(k)
        <4>1. call'[k].pc = "depositDelay"
          BY <3>2 DEF Deposit, Set, Types
        <4> QED BY <1>1, <2>2, <4>1 DEF Preparing
      <3>3. CASE \/ DepositReturns(k) \/ WithdrawReturns(k) \/ RelayReturns(k)
                 \/ TreasuryReturns(k) \/ Fails(k)
        <4>1. End(k)
          BY <3>3 DEF DepositReturns, WithdrawReturns, RelayReturns, TreasuryReturns, Fails
        <4> QED BY <1>1, <2>2, <4>1, EndOfCall DEF Preparing
      <3>4. CASE DepositSend(k) \/ WithdrawSend(k) \/ UpdateTreasury(k) \/ PostRelay(k)
        <4>1. \/ End(k) \/ Sends(k, "depositSent", "deposit") \/ Sends(k, "sent", "withdraw")
              \/ Sends(k, "treasurySent", "treasury") \/ Sends(k, "posted", "relay")
          BY <3>4, DepositSends, WithdrawSends, TreasurySends, RelaySends DEF Sends
        <4> QED BY <1>1, <2>2, <4>1, EndOfCall, SendsFacts DEF Sent, Preparing
      <3> QED BY <1>1, <3>1, <3>2, <3>3, <3>4 DEF CallStep
    <2> QED BY <2>1, <2>2
  <1>2. CASE call' = call
    BY <1>0, <1>2, ReadStays DEF ReadOK
  <1>3. (\E k \in Calls : CallStep(k)) \/ call' = call
    BY DEF Next, CallStep, Land, Refuse, DepositElsewhere, Tick, vars
  <1> QED BY <1>1, <1>2, <1>3 DEF ReadOK

-----------------------------------------------------------------------------
(* What a call has sent.                                                   *)

\* A call waits for its own transaction.
LEMMA SentStep ==
    ASSUME Types, ReadOK, SentOK, [Next]_vars
    PROVE  SentOK'
  <1>0. Types' /\ Kept /\ Len(tx) \in Nat /\ Len(tx') \in Nat
    BY StepKeeps DEF Types
  <1> DEFINE Waits(l) == /\ call[l].tx \in 1..Len(tx)
                         /\ tx[call[l].tx].note = call[l].note
                         /\ call[l].pc = "depositSent" => tx[call[l].tx].op = "deposit"
                         /\ call[l].pc = "sent" => tx[call[l].tx].op = "withdraw"
                         /\ call[l].pc = "posted" => tx[call[l].tx].op = "relay"
                         /\ call[l].pc = "treasurySent" => tx[call[l].tx].op = "treasury"
  <1>1. ASSUME NEW l \in Calls, call[l].pc \in Sent, call'[l] = call[l] PROVE Waits(l)'
    <2>1. Waits(l)
      BY <1>1 DEF SentOK
    <2>2. Len(tx) <= Len(tx') /\ tx'[call[l].tx].op = tx[call[l].tx].op
          /\ tx'[call[l].tx].note = tx[call[l].tx].note
      BY <1>0, <2>1 DEF Kept
    <2>3. call[l].tx \in 1..Len(tx')
      BY <1>0, <2>1, <2>2
    <2> QED BY <1>1, <2>1, <2>2, <2>3
  <1>2. ASSUME NEW k \in Calls, CallStep(k), call'[k].pc \in Sent PROVE Waits(k)'
    <2>1. CASE RelayReturns(k)
      <3>1. End(k)
        BY <2>1 DEF RelayReturns
      <3> QED BY <1>2, <3>1, EndOfCall DEF Sent
    <2>2. CASE \/ Sends(k, "depositSent", "deposit") \/ Sends(k, "sent", "withdraw")
               \/ Sends(k, "treasurySent", "treasury") \/ Sends(k, "posted", "relay")
      <3>1. PICK l \in Sent, op \in Ops :
                /\ Sends(k, l, op)
                /\ l = "depositSent" => op = "deposit"
                /\ l = "sent" => op = "withdraw"
                /\ l = "posted" => op = "relay"
                /\ l = "treasurySent" => op = "treasury"
        BY <2>2 DEF Sent, Ops
      <3>2. /\ call'[k].pc = l /\ call'[k].tx = Len(tx) + 1 /\ Len(tx') = Len(tx) + 1
            /\ tx'[Len(tx) + 1].op = op /\ call'[k].note = tx'[Len(tx) + 1].note
        BY <3>1, SendsFacts
      <3>3. Len(tx) + 1 \in 1..Len(tx')
        BY <1>0, <3>2
      <3> QED BY <3>1, <3>2, <3>3
    <2> QED BY <1>2, <2>1, <2>2, SendCases
  <1>3. (\E k \in Calls : CallStep(k)) \/ call' = call
    BY DEF Next, CallStep, Land, Refuse, DepositElsewhere, Tick, vars
  <1>4. ASSUME NEW l \in Calls, call'[l].pc \in Sent PROVE Waits(l)'
    <2>1. CASE call'[l] = call[l]
      BY <1>1, <1>4, <2>1
    <2>2. CASE call'[l] # call[l]
      <3>1. PICK k \in Calls : CallStep(k)
        BY <1>3, <2>2
      <3>2. l = k
        BY <2>2, <3>1, OthersWait
      <3> QED BY <1>2, <1>4, <3>1, <3>2
    <2> QED BY <2>1, <2>2
  <1> QED BY <1>4 DEF SentOK

-----------------------------------------------------------------------------
(* Direct withdrawals.                                                     *)

\* A direct withdrawal is as it was, was just sent, executes or is refused.
LEMMA WithdrawalCases ==
    ASSUME Types, ReadOK, SentOK, [Next]_vars, NEW i \in 1..Len(tx'), tx'[i].op = "withdraw"
    PROVE  \/ i \in 1..Len(tx) /\ tx'[i] = tx[i]
           \/ /\ i = Len(tx) + 1
              /\ \E k \in Calls : WithdrawSend(k) /\ Sends(k, "sent", "withdraw")
           \/ i \in 1..Len(tx) /\ (Land(i) \/ Refuse(i))
  <1>0. DOMAIN tx = 1..Len(tx) /\ Len(tx) \in Nat
    BY DEF Types
  <1>1. ASSUME NEW k \in Calls, CallStep(k)
        PROVE  \/ i \in 1..Len(tx) /\ tx'[i] = tx[i]
               \/ i = Len(tx) + 1 /\ WithdrawSend(k) /\ Sends(k, "sent", "withdraw")
    <2>1. CASE tx' = tx
      BY <2>1
    <2>2. CASE RelayReturns(k)
      BY <2>2, AnswerFacts
    <2>3. CASE \/ Sends(k, "depositSent", "deposit") \/ Sends(k, "posted", "relay")
               \/ Sends(k, "treasurySent", "treasury")
      <3>1. PICK l \in Sent, op \in {"deposit", "relay", "treasury"} : Sends(k, l, op)
        BY <2>3 DEF Sent
      <3> QED BY <3>1, SendsFacts
    <2>4. CASE WithdrawSend(k) /\ Sends(k, "sent", "withdraw")
      BY <2>4, SendsFacts DEF Sent
    <2> QED BY <1>1, <2>1, <2>2, <2>3, <2>4, SendCases
  <1>2. ASSUME NEW j \in 1..Len(tx), Land(j)
        PROVE  i \in 1..Len(tx) /\ (tx'[i] = tx[i] \/ i = j)
    BY <1>2, LandFacts
  <1>3. ASSUME NEW j \in 1..Len(tx), Refuse(j)
        PROVE  i \in 1..Len(tx) /\ (tx'[i] = tx[i] \/ i = j)
    BY <1>3, RefuseFacts
  <1>4. DepositElsewhere \/ Tick \/ UNCHANGED vars => tx' = tx
    BY DEF DepositElsewhere, Tick, vars
  <1> QED BY <1>0, <1>1, <1>2, <1>3, <1>4 DEF Next, CallStep

\* What a direct withdrawal was proved from stays of the past, and an executed one has
\* spent its note.
LEMMA WithdrawalsStep ==
    ASSUME Types, NotesOK, ListedOK, DepositsOK, ReadOK, SentOK, WithdrawalsOK, [Next]_vars
    PROVE  WithdrawalsOK'
  <1>0. Types' /\ Kept /\ Len(listed) \in Nat /\ Len(listed') \in Nat
        /\ treasury \in Nat /\ treasury' \in Nat
    BY StepKeeps DEF Types
  <1>1. Len(listed) <= Len(listed') /\ treasury <= treasury' /\ spent \subseteq spent'
    BY <1>0 DEF Kept
  <1>2. ASSUME NEW i \in 1..Len(tx'), tx'[i].op = "withdraw" PROVE WithdrawalOK(i)'
    <2>1. CASE i \in 1..Len(tx) /\ tx'[i] = tx[i]
      <3>1. WithdrawalOK(i) /\ tx[i] \in Txs
        BY <1>2, <2>1 DEF WithdrawalsOK, Types
      <3>2. tx[i].treasury \in Nat /\ tx[i].root \in Nat
        BY <3>1 DEF Txs
      <3> QED BY <1>0, <1>1, <2>1, <3>1, <3>2 DEF WithdrawalOK
    <2>2. CASE i = Len(tx) + 1 /\ \E k \in Calls : WithdrawSend(k) /\ Sends(k, "sent", "withdraw")
      <3>1. PICK k \in Calls : WithdrawSend(k) /\ Sends(k, "sent", "withdraw")
        BY <2>2
      <3>2. /\ tx'[i].state = "inflight" /\ tx'[i].root = call[k].root
            /\ tx'[i].count = call[k].count /\ tx'[i].treasury = call[k].treasury
        BY <2>2, <3>1, SendsFacts DEF Sent
      <3>3. ReadBy(k) /\ call[k].pc = "send" /\ call[k] \in Withdrawing
        BY <3>1, PreparingShape DEF ReadOK, WithdrawSend, At, Preparing
      <3>4. call[k].root \in Nat /\ call[k].count \in Nat /\ call[k].treasury \in Nat
        BY <3>3 DEF Withdrawing
      <3>5. call[k].root \in 1..Len(listed')
        BY <1>0, <1>1, <3>3, <3>4 DEF ReadBy
      <3>6. call[k].treasury <= treasury'
        BY <1>0, <1>1, <3>3, <3>4 DEF ReadBy
      <3> QED BY <3>2, <3>3, <3>5, <3>6 DEF ReadBy, WithdrawalOK
    <2>3. CASE i \in 1..Len(tx) /\ Land(i)
      <3>1. /\ tx'[i].op = tx[i].op /\ tx'[i].note = tx[i].note /\ tx'[i].state = "landed"
            /\ tx'[i].treasury = 0
        BY <2>3, LandFacts
      <3>2. spent' = spent \cup {tx[i].note}
        BY <1>2, <2>3, <3>1, LandSpends
      <3> QED BY <1>0, <3>1, <3>2 DEF WithdrawalOK
    <2>4. CASE i \in 1..Len(tx) /\ Refuse(i)
      <3>1. tx'[i] = [tx[i] EXCEPT !.state = "failed"]
        BY <2>4, RefuseFacts
      <3>2. tx[i] \in Txs
        BY <2>4 DEF Types
      <3>3. /\ tx'[i].op = tx[i].op /\ tx'[i].treasury = tx[i].treasury
            /\ tx'[i].state = "failed" /\ tx[i].treasury \in Nat
        BY <3>1, <3>2 DEF Txs
      <3>4. tx[i].treasury <= treasury
        BY <1>2, <2>4, <3>3 DEF WithdrawalsOK, WithdrawalOK
      <3> QED BY <1>0, <1>1, <3>3, <3>4 DEF WithdrawalOK
    <2> QED BY <1>2, <2>1, <2>2, <2>3, <2>4, WithdrawalCases
  <1> QED BY <1>2 DEF WithdrawalsOK

\* The answers of a client change only when one of its calls is answered.
LEMMA AnswerCases ==
    ASSUME Types, [Next]_vars
    PROVE  \/ ok' = ok
           \/ \E k \in Calls : (WithdrawReturns(k) \/ RelayReturns(k)) /\ Record(k)
  <1>1. ASSUME NEW k \in Calls, CallStep(k), ~WithdrawReturns(k), ~RelayReturns(k)
        PROVE  ok' = ok
    BY <1>1 DEF CallStep, Deposit, DepositSend, DepositReturns, FetchPool, FetchCommitments,
       CheckAndProve, BuildCreateAta, WithdrawSend, PostRelay, UpdateTreasury, TreasuryReturns,
       Fails, memory
  <1>2. ASSUME NEW i \in DOMAIN tx, Land(i) \/ Refuse(i) PROVE ok' = ok
    BY <1>2 DEF Land, Refuse, memory
  <1>3. DepositElsewhere \/ Tick \/ UNCHANGED vars => ok' = ok
    BY DEF DepositElsewhere, Tick, vars, memory
  <1>4. \A k \in Calls : WithdrawReturns(k) \/ RelayReturns(k) => Record(k)
    BY DEF WithdrawReturns, RelayReturns
  <1> QED BY <1>1, <1>2, <1>3, <1>4 DEF Next, CallStep

\* An answer is of the transaction that the call waited for.
LEMMA AnswersStep ==
    ASSUME Types, ReadOK, SentOK, AnswersOK, [Next]_vars
    PROVE  AnswersOK'
  <1>0. Types' /\ Kept /\ Len(tx) \in Nat /\ Len(tx') \in Nat
    BY StepKeeps DEF Types
  <1> DEFINE Answered(e) == /\ e.tx \in 1..Len(tx)
                            /\ tx[e.tx].note = e.note
                            /\ tx[e.tx].op = "withdraw" => tx[e.tx].state = "landed"
  <1>1. \A e : Answered(e) => Answered(e)'
    <2> SUFFICES ASSUME NEW e, Answered(e) PROVE Answered(e)'
      OBVIOUS
    <2>1. Len(tx) <= Len(tx') /\ tx'[e.tx].op = tx[e.tx].op /\ tx'[e.tx].note = tx[e.tx].note
          /\ (tx[e.tx].op # "relay" /\ tx[e.tx].state = "landed" => tx'[e.tx].state = "landed")
      BY <1>0 DEF Kept
    <2>2. e.tx \in 1..Len(tx')
      BY <1>0, <2>1
    <2> QED BY <2>1, <2>2
  <1>2. CASE ok' = ok
    BY <1>1, <1>2 DEF AnswersOK
  <1>3. CASE \E k \in Calls : (WithdrawReturns(k) \/ RelayReturns(k)) /\ Record(k)
    <2>1. PICK k \in Calls : (WithdrawReturns(k) \/ RelayReturns(k)) /\ Record(k)
      BY <1>3
    <2> DEFINE entry == [note |-> call[k].note, tx |-> call[k].tx, time |-> now]
    <2>2. call[k].pc \in {"sent", "posted"}
      BY <2>1 DEF WithdrawReturns, RelayReturns, At
    <2>3. \A c \in Clients : \A e \in ok'[c] : e \in ok[c] \/ e = entry
      <3>1. /\ ok'[ClientOf[k]] = ok[ClientOf[k]] \cup {entry}
            /\ \A d \in Clients \ {ClientOf[k]} : ok'[d] = ok[d]
        BY <2>1, <2>2, RecordFacts
      <3> HIDE DEF entry
      <3> QED BY <3>1
    <2>4. Answered(entry)
      <3>1. WithdrawReturns(k) => TxOf(k) = "landed" /\ call[k].pc = "sent"
        BY DEF WithdrawReturns, At
      <3>2. RelayReturns(k) => call[k].pc = "posted"
        BY DEF RelayReturns, At
      <3> QED BY <2>1, <3>1, <3>2 DEF SentOK, Sent, TxOf
    <2> HIDE DEF entry, Answered
    <2>5. \A c \in Clients : \A e \in ok'[c] : Answered(e)'
      <3> SUFFICES ASSUME NEW c \in Clients, NEW e \in ok'[c] PROVE Answered(e)'
        OBVIOUS
      <3>1. CASE e \in ok[c]
        <4>1. Answered(e)
          BY <3>1 DEF AnswersOK, Answered
        <4> QED BY <1>1, <4>1
      <3>2. CASE e = entry
        <4>1. Answered(e)
          BY <2>4, <3>2 DEF Answered
        <4> QED BY <1>1, <4>1
      <3> QED BY <2>3, <3>1, <3>2
    <2> QED BY <2>5 DEF AnswersOK, Answered
  <1> QED BY <1>2, <1>3, AnswerCases

\* The kind of a pool never changes, and a token account is never closed.
LEMMA PoolKept ==
    ASSUME Types, [Next]_vars
    PROVE  kind' = kind /\ accounts \subseteq accounts'
  <1>1. CASE UNCHANGED pool
    BY <1>1 DEF pool
  <1>2. ASSUME NEW i \in 1..Len(tx), Land(i) PROVE kind' = kind /\ accounts \subseteq accounts'
    BY <1>2, LandFacts
  <1>3. CASE DepositElsewhere
    BY <1>3 DEF DepositElsewhere
  <1> QED BY <1>1, <1>2, <1>3, PoolCases

\* A withdrawal that the pool refuses was overtaken after it was read: by a spend of
\* its note, by more roots than the history holds, by a new treasury, or by the token
\* account it would create.
LEMMA RefusedStep ==
    ASSUME Types, NotesOK, ListedOK, DepositsOK, ReadOK, SentOK, WithdrawalsOK,
           RefusedOnlyIfOvertaken, [Next]_vars
    PROVE  RefusedOnlyIfOvertaken'
  <1>0. /\ Types' /\ Kept /\ Len(listed) \in Nat /\ Len(listed') \in Nat
        /\ treasury \in Nat /\ treasury' \in Nat /\ Lag \in Nat /\ RootHistorySize \in Nat
        /\ kind' = kind /\ accounts \subseteq accounts' /\ DOMAIN tx' = 1..Len(tx')
    <2>1. Types' /\ Kept
      BY StepKeeps
    <2> QED BY <2>1, PoolKept, Facts DEF Types
  <1>1. Len(listed) <= Len(listed') /\ treasury <= treasury' /\ spent \subseteq spent'
    BY <1>0 DEF Kept
  <1> DEFINE Over(t) == \/ t.note \in spent
                        \/ Len(listed) + Lag >= t.count + RootHistorySize
                        \/ Fees /\ t.treasury # treasury
                        \/ t.creates /\ t.recipient \in accounts
  <1>2. ASSUME NEW t \in Txs, t.treasury <= treasury, Over(t)
        PROVE  Over(t)'
    <2>1. t.treasury \in Nat /\ t.count \in Nat
      BY <1>2 DEF Txs
    <2>2. Fees' <=> Fees
      BY <1>0 DEF Fees
    <2>3. CASE t.note \in spent
      BY <1>1, <2>3
    <2>4. CASE Len(listed) + Lag >= t.count + RootHistorySize
      BY <1>0, <1>1, <2>1, <2>4
    <2>5. CASE Fees /\ t.treasury # treasury
      BY <1>0, <1>1, <1>2, <2>1, <2>2, <2>5
    <2>6. CASE t.creates /\ t.recipient \in accounts
      BY <1>0, <2>6
    <2> QED BY <1>2, <2>3, <2>4, <2>5, <2>6
  <1>3. ASSUME NEW i \in 1..Len(tx'), tx'[i].op = "withdraw", tx'[i].state = "failed"
        PROVE  Over(tx[i])'
    <2>1. CASE i \in 1..Len(tx) /\ tx'[i] = tx[i]
      <3>1. tx[i] \in Txs /\ tx[i].treasury <= treasury
        BY <1>3, <2>1 DEF Types, WithdrawalsOK, WithdrawalOK
      <3>2. DOMAIN tx = 1..Len(tx)
        BY DEF Types
      <3>3. Over(tx[i])
        BY <1>3, <2>1, <3>2 DEF RefusedOnlyIfOvertaken
      <3> HIDE DEF Over
      <3> DEFINE t == tx[i]
      <3>4. t \in Txs /\ t.treasury <= treasury /\ Over(t) /\ t' = t
        BY <2>1, <3>1, <3>3
      <3> QED BY <1>2, <3>4 DEF Over
    <2>2. CASE i = Len(tx) + 1 /\ \E k \in Calls : WithdrawSend(k) /\ Sends(k, "sent", "withdraw")
      BY <1>3, <2>2, SendsFacts DEF Sent
    <2>3. CASE i \in 1..Len(tx) /\ Land(i)
      BY <1>3, <2>3, LandFacts
    <2>4. CASE i \in 1..Len(tx) /\ Refuse(i)
      <3>1. tx[i] \in Txs
        BY <2>4 DEF Types
      <3>2. /\ tx'[i] = [tx[i] EXCEPT !.state = "failed"]
            /\ tx[i].state = "inflight" /\ ~Acceptable(tx[i])
        BY <2>4, RefuseFacts
      <3>3. /\ tx'[i].op = tx[i].op /\ tx'[i].note = tx[i].note /\ tx'[i].count = tx[i].count
            /\ tx'[i].treasury = tx[i].treasury /\ tx'[i].creates = tx[i].creates
            /\ tx'[i].recipient = tx[i].recipient
        BY <3>1, <3>2 DEF Txs
      <3>4. UNCHANGED <<listed, spent, treasury, accounts, kind>>
        BY <2>4 DEF Refuse, pool
      <3>5. /\ tx[i].root \in 1..Len(listed) /\ tx[i].count <= tx[i].root + Lag
        BY <1>3, <2>4, <3>2, <3>3 DEF WithdrawalsOK, WithdrawalOK
      <3>6. tx[i].count \in Nat /\ tx[i].root \in Nat
        BY <3>1 DEF Txs
      <3>7. \/ tx[i].note \in spent
            \/ ~RootKnown(tx[i].root)
            \/ Fees /\ tx[i].treasury # treasury
            \/ tx[i].creates /\ tx[i].recipient \in accounts
        BY <1>3, <3>2, <3>3 DEF Acceptable
      <3>8. ~RootKnown(tx[i].root) => Len(listed) + Lag >= tx[i].count + RootHistorySize
        <4>1. Len(listed) \in Nat /\ Lag \in Nat /\ RootHistorySize \in Nat
          BY <1>0
        <4>2. ~RootKnown(tx[i].root) => Len(listed) >= tx[i].root + RootHistorySize
          <5> DEFINE root == tx[i].root
          <5>1. root \in Nat /\ 1 <= root /\ root <= Len(listed)
            BY <3>5, <3>6, <4>1
          <5> HIDE DEF root
          <5>2. ~RootKnown(root) => Len(listed) >= root + RootHistorySize
            BY <4>1, <5>1 DEF RootKnown
          <5> QED BY <5>2 DEF root
        <4>3. ASSUME NEW count \in Nat, NEW root \in Nat, count <= root + Lag,
                     Len(listed) >= root + RootHistorySize
              PROVE  Len(listed) + Lag >= count + RootHistorySize
          BY <4>1, <4>3
        <4> QED BY <3>5, <3>6, <4>2, <4>3
      <3> QED BY <3>3, <3>4, <3>7, <3>8 DEF Fees
    <2> QED BY <1>3, <2>1, <2>2, <2>3, <2>4, WithdrawalCases
  <1> QED BY <1>0, <1>3 DEF RefusedOnlyIfOvertaken, Fees

-----------------------------------------------------------------------------
(* The theorems.                                                           *)

\* The invariant holds at first.
LEMMA InitInv == Init => Inv
  <1> SUFFICES ASSUME Init PROVE Inv
    OBVIOUS
  <1> DEFINE L == Len(Backlog)
  <1>1. /\ Backlog \in Seq([by : Clients, index : Nat]) /\ L \in Nat /\ DOMAIN Backlog = 1..L
        /\ L <= Capacity /\ L <= MaxNotes /\ Other \notin Clients /\ DepositAmount \in Nat
        /\ \A n \in 1..L : Backlog[n].index < n
        /\ \A n \in 1..L : Backlog[n] \in [by : Clients, index : Nat]
    <2>1. /\ Backlog \in Seq([by : Clients, index : Nat])
          /\ \A n \in DOMAIN Backlog : Backlog[n].index < n
          /\ L <= Capacity /\ L <= MaxNotes
      BY SdkClientAssumption
    <2> HIDE DEF L
    <2> DEFINE B == [by : Clients, index : Nat]
    <2>2. Backlog \in Seq(B)
      BY <2>1
    <2> HIDE DEF B
    <2>3. L \in Nat /\ DOMAIN Backlog = 1..L /\ \A n \in 1..L : Backlog[n] \in B
      BY <2>2 DEF L
    <2> QED BY <2>1, <2>3, Facts DEF B
  <1>2. made = Backlog /\ tx = <<>> /\ Len(tx) = 0 /\ treasury = 0 /\ now = 0 /\ spent = {}
    BY DEF Init
  <1>3. /\ listed \in Seq(Nat) /\ Len(listed) = L /\ \A i \in 1..L : listed[i] = i
    <2>1. listed = [i \in 1..L |-> i]
      BY <1>1 DEF Init
    <2>2. \A i \in 1..L : i \in Nat
      BY <1>1
    <2> QED BY <1>1, <2>1, <2>2
  <1>4. \A k \in Calls : call[k] = [pc |-> "idle"]
    BY DEF Init
  <1>5. \A n \in 1..L : Backlog[n].by \in Clients /\ Backlog[n].by # Other
    BY <1>1
  <1>6. made \in Seq(Makings)
    <2>1. [by : Clients, index : Nat] \subseteq Makings
      BY DEF Makings
    <2> DEFINE B == [by : Clients, index : Nat]
    <2>2. Backlog \in Seq(B) /\ B \subseteq Makings
      BY <1>1, <2>1
    <2> HIDE DEF B
    <2> QED BY <1>2, <2>2
  <1>7. kept \in [Clients -> SUBSET Nat] /\ \A c \in Clients : kept[c] \subseteq 1..L
    <2>1. kept = [c \in Clients |-> {n \in 1..L : Backlog[n].by = c}]
      BY <1>1 DEF Init
    <2> HIDE DEF L
    <2>2. \A c \in Clients : {n \in 1..L : Backlog[n].by = c} \in SUBSET Nat
      BY <1>1
    <2> QED BY <2>1, <2>2
  <1>8. call \in [Calls -> CallStates]
    <2>1. [pc |-> "idle"] \in CallStates
      BY DEF CallStates, Idle
    <2> QED BY <2>1 DEF Init
  <1> HIDE DEF L
  <1>9. Types
    <2>1. history \in [Clients -> SUBSET Entries] /\ ok \in [Clients -> SUBSET Entries]
      BY DEF Init
    <2> QED BY <1>1, <1>2, <1>3, <1>6, <1>7, <1>8, <2>1 DEF Types
  <1>10. NotesOK
    <2>1. {n \in 1..L : Backlog[n].by # Other} = 1..L
      BY <1>5
    <2>2. Cardinality(1..L) = L
      BY <1>1, Positions
    <2>3. Len(made) = L
      BY <1>2 DEF L
    <2> QED BY <1>1, <1>2, <1>5, <2>1, <2>2, <2>3 DEF NotesOK
  <1>11. Len(made) = L /\ \A n \in 1..L : Listed(n)
    BY <1>2, <1>3 DEF L, Listed
  <1>12. ListedOK
    <2>1. Cardinality(spent) = 0
      BY <1>2, FS_EmptySet
    <2>2. held = DepositAmount * L
      BY DEF Init, L
    <2>3. L - 0 = L
      BY <1>1
    <2> QED BY <1>2, <1>3, <1>11, <2>1, <2>2, <2>3 DEF ListedOK
  <1>13. DepositsOK
    BY <1>2, <1>4, <1>7, <1>11 DEF DepositsOK, At
  <1>14. ReadOK /\ SentOK
    BY <1>4 DEF ReadOK, SentOK, Preparing, Sent
  <1>15. WithdrawalsOK /\ RefusedOnlyIfOvertaken
    BY <1>2 DEF WithdrawalsOK, RefusedOnlyIfOvertaken
  <1>16. AnswersOK
    BY DEF Init, AnswersOK
  <1> QED BY <1>9, <1>10, <1>12, <1>13, <1>14, <1>15, <1>16 DEF Inv

\* Every step preserves the invariant.
LEMMA NextInv == Inv /\ [Next]_vars => Inv'
  <1> SUFFICES ASSUME Inv, [Next]_vars PROVE Inv'
    OBVIOUS
  <1>1. /\ Types /\ NotesOK /\ ListedOK /\ DepositsOK /\ ReadOK /\ SentOK
        /\ WithdrawalsOK /\ AnswersOK /\ RefusedOnlyIfOvertaken
    BY DEF Inv
  <1>2. Types'
    BY <1>1, StepKeeps
  <1>3. NotesOK' /\ ListedOK'
    BY <1>1, NotesStep, ListedStep
  <1>4. DepositsOK' /\ ReadOK' /\ SentOK'
    BY <1>1, DepositsStep, ReadStep, SentStep
  <1>5. WithdrawalsOK' /\ AnswersOK' /\ RefusedOnlyIfOvertaken'
    BY <1>1, WithdrawalsStep, AnswersStep, RefusedStep
  <1> QED BY <1>2, <1>3, <1>4, <1>5 DEF Inv

\* The invariant holds in every state that the clients and the pool reach.
LEMMA InvAlways == Spec => []Inv
  BY InitInv, NextInv, PTL DEF Spec

\* What is spent is no more than what is listed.
LEMMA SpentBound ==
    ASSUME Types, NotesOK, ListedOK
    PROVE  Cardinality(spent) <= Len(listed)
  <1>1. Len(listed) \in Nat
    BY DEF Types
  <1>2. IsFiniteSet(1..Len(listed)) /\ Cardinality(1..Len(listed)) = Len(listed)
    BY <1>1, Positions
  <1> DEFINE place == [n \in spent |-> CHOOSE i \in 1..Len(listed) : listed[i] = n]
  <1>3. \A n \in spent : place[n] \in 1..Len(listed) /\ listed[place[n]] = n
    <2> SUFFICES ASSUME NEW n \in spent
                 PROVE  place[n] \in 1..Len(listed) /\ listed[place[n]] = n
      OBVIOUS
    <2>1. \E i \in 1..Len(listed) : listed[i] = n
      BY DEF ListedOK, Listed
    <2> QED BY <2>1
  <1>4. place \in [spent -> 1..Len(listed)]
    BY <1>3
  <1> HIDE DEF place
  <1>5. place \in Injection(spent, 1..Len(listed))
    BY <1>3, <1>4 DEF Injection, IsInjective
  <1> QED BY <1>2, <1>5, FS_Injection DEF ExistsInjection

\* The notes, the list, the vault, the calls and the transactions keep their types:
\* no deposit is listed without a note, and nothing is paid that was not deposited.
THEOREM TypeCorrect == Spec => []TypeOK
  <1>1. Inv => TypeOK
    <2> SUFFICES ASSUME Inv PROVE TypeOK
      OBVIOUS
    <2>0. Types /\ NotesOK /\ ListedOK /\ DepositsOK
      BY DEF Inv
    <2>1. /\ Len(listed) \in Nat /\ Len(made) \in Nat /\ MaxNotes \in Nat
          /\ DOMAIN made = 1..Len(made) /\ DOMAIN tx = 1..Len(tx)
          /\ Len(listed) <= Capacity
      BY <2>0, Facts DEF Types
    <2>2. \A n \in 1..Len(made) : n \in NoteIds
      BY <2>0, <2>1, NotesBound DEF NoteIds
    <2>3. listed \in Seq(NoteIds)
      <3>1. \A i \in 1..Len(listed) : listed[i] \in NoteIds
        BY <2>0, <2>2 DEF ListedOK
      <3>2. listed = [i \in 1..Len(listed) |-> listed[i]] /\ Len(listed) \in Nat
        BY <2>0 DEF Types
      <3> QED BY <3>1, <3>2
    <2>4. spent \subseteq NoteIds
      BY <2>0, SpentFacts DEF ListedOK
    <2>5. held \in Nat
      <3> DEFINE d == Len(listed) - Cardinality(spent)
      <3>1. d \in Nat
        BY <2>0, <2>1, SpentFacts, SpentBound
      <3>2. held = DepositAmount * d
        BY <2>0 DEF ListedOK
      <3> HIDE DEF d
      <3> QED BY <3>1, <3>2, Facts
    <2>6. \A n \in DOMAIN made : made[n].by \in Clients \cup {Other} /\ made[n].index \in 0..(n - 1)
      <3> SUFFICES ASSUME NEW n \in 1..Len(made)
                   PROVE  made[n].by \in Clients \cup {Other} /\ made[n].index \in 0..(n - 1)
        BY <2>1
      <3>1. made[n] \in Makings
        BY <2>0 DEF Types
      <3>2. made[n].index < n
        BY <2>0 DEF NotesOK
      <3> QED BY <2>1, <3>1, <3>2 DEF Makings
    <2>7. kept \in [Clients -> SUBSET DOMAIN made]
      <3>1. \A c \in Clients : kept[c] \subseteq 1..Len(made)
        BY <2>0, SpentFacts DEF DepositsOK
      <3> QED BY <2>0, <2>1, <3>1 DEF Types
    <2>8. \A k \in Calls : call[k].pc \in Waiting \cup {"idle"}
      <3>1. \A k \in Calls : call[k] \in CallStates
        BY <2>0 DEF Types
      <3> QED BY <3>1 DEF CallStates, Idle, Depositing, Withdrawing, Awaiting, Preparing, Sent,
                          Waiting
    <2>9. \A i \in DOMAIN tx : tx[i].state \in {"inflight", "landed", "failed", "answered"}
      <3>1. \A i \in 1..Len(tx) : tx[i] \in Txs
        BY <2>0 DEF Types
      <3> QED BY <2>1, <3>1 DEF Txs
    <2> QED BY <2>1, <2>3, <2>4, <2>5, <2>6, <2>7, <2>8, <2>9 DEF TypeOK
  <1> QED BY <1>1, InvAlways, PTL

\* A note that deposit() has returned is in the pool, whatever the pages, the other
\* calls and the failures.
THEOREM DepositsAreKept == Spec => []DepositedIsKept
  <1>1. Inv => DepositedIsKept
    <2> SUFFICES ASSUME Inv PROVE DepositedIsKept
      OBVIOUS
    <2>1. DepositsOK /\ DOMAIN listed = 1..Len(listed)
      BY DEF Inv, Types
    <2> QED BY <2>1 DEF DepositsOK, DepositedIsKept, Listed, ToSet
  <1> QED BY <1>1, InvAlways, PTL

\* withdraw() answers with success only for a transaction of its own that executed,
\* and that one has spent the note.
THEOREM AnswersAreOwn == Spec => []AnsweredByItsOwn
  <1>1. Inv => AnsweredByItsOwn
    BY DEF Inv, AnsweredByItsOwn, AnswersOK, WithdrawalsOK, WithdrawalOK
  <1> QED BY <1>1, InvAlways, PTL

\* findCommitmentIndex finds every note that a client withdraws in the leaves that
\* it has read, if they are those of the account that it read.
THEOREM HeldNotesAreFound == Spec => []HeldIsFound
  <1>1. Inv => HeldIsFound
    BY DEF Inv, HeldIsFound, ReadOK, ReadBy, At, Preparing, FindCommitmentIndex
  <1> QED BY <1>1, InvAlways, PTL

\* The program refuses a direct withdrawal only for what happened after it began,
\* for any root history and any lag of the node that serves the pages.
THEOREM RefusalsAreOvertaken == Spec => []RefusedOnlyIfOvertaken
  <1>1. Inv => RefusedOnlyIfOvertaken
    BY DEF Inv
  <1> QED BY <1>1, InvAlways, PTL

-----------------------------------------------------------------------------
(* The spend limiter.                                                      *)

\* Multiplying keeps the order.
LEMMA TimesMonotone ==
    ASSUME NEW d \in Nat, NEW m \in Nat, NEW n \in Nat, m <= n
    PROVE  d * m <= d * n
  <1>1. PICK x \in Nat : n = m + x
    <2>1. n - m \in Nat /\ n = m + (n - m)
      OBVIOUS
    <2> QED BY <2>1
  <1>2. d * (m + x) = d * m + d * x /\ d * x \in Nat /\ d * m \in Nat
    OBVIOUS
  <1> QED BY <1>1, <1>2

\* More withdrawals are no less money, and one more is one deposit more.
LEMMA TotalFacts ==
    ASSUME NEW S, NEW T, IsFiniteSet(T), S \subseteq T
    PROVE  /\ Total(S) \in Nat /\ Total(T) \in Nat /\ Total(S) <= Total(T)
           /\ \A e : Total(T \cup {e}) <= Total(T) + DepositAmount
  <1>1. DepositAmount \in Nat
    BY Facts
  <1>2. /\ Cardinality(S) \in Nat /\ Cardinality(T) \in Nat
        /\ Cardinality(S) <= Cardinality(T)
    BY FS_Subset, FS_CardinalityType
  <1>3. Total(S) \in Nat /\ Total(T) \in Nat /\ Total(S) <= Total(T)
    BY <1>1, <1>2, TimesMonotone DEF Total
  <1>4. ASSUME NEW e PROVE Total(T \cup {e}) <= Total(T) + DepositAmount
    <2>1. CASE e \in T
      <3>1. T \cup {e} = T
        BY <2>1
      <3>2. Total(T \cup {e}) = Total(T)
        BY <3>1
      <3> QED BY <1>1, <1>3, <3>2
    <2>2. CASE e \notin T
      <3>1. Cardinality(T \cup {e}) = Cardinality(T) + 1
        BY <2>2, FS_AddElement
      <3>2. Total(T \cup {e}) = Total(T) + DepositAmount
        BY <1>1, <1>2, <3>1, OneDeposit DEF Total
      <3> QED BY <1>1, <1>3, <3>2
    <2> QED BY <2>1, <2>2
  <1> QED BY <1>3, <1>4

\* Time does not run backwards, and stands still while a call moves.
LEMMA TimeFacts ==
    ASSUME Types, [Next]_vars
    PROVE  /\ now \in Nat /\ now' \in Nat /\ now <= now'
           /\ (\E k \in Calls : CallStep(k)) => now' = now
  <1>1. now \in Nat
    BY DEF Types
  <1>2. \A k \in Calls : CallStep(k) => now' = now
    BY DEF CallStep, Deposit, DepositSend, DepositReturns, FetchPool, FetchCommitments,
       CheckAndProve, BuildCreateAta, WithdrawSend, WithdrawReturns, PostRelay, RelayReturns,
       UpdateTreasury, TreasuryReturns, Fails
  <1>3. ~(\E k \in Calls : CallStep(k)) => now' = now \/ now' = now + 1
    BY DEF Next, CallStep, Land, Refuse, DepositElsewhere, Tick, vars
  <1> QED BY <1>1, <1>2, <1>3

\* What the limiter of c remembers is pruned, or gets an entry, or stays.
LEMMA HistoryCases ==
    ASSUME Types, [Next]_vars
    PROVE  \/ history' = history /\ ok' = ok
           \/ ok' = ok /\ \E k \in Calls : CheckAndProve(k)
           \/ \E k \in Calls : (WithdrawReturns(k) \/ RelayReturns(k)) /\ Record(k)
  <1>1. ASSUME NEW k \in Calls, CallStep(k), ~WithdrawReturns(k), ~RelayReturns(k),
               ~CheckAndProve(k)
        PROVE  history' = history /\ ok' = ok
    BY <1>1 DEF CallStep, Deposit, DepositSend, DepositReturns, FetchPool, FetchCommitments,
       BuildCreateAta, WithdrawSend, PostRelay, UpdateTreasury, TreasuryReturns, Fails, memory
  <1>2. \A k \in Calls : CheckAndProve(k) => ok' = ok
    BY DEF CheckAndProve
  <1>3. ASSUME NEW i \in DOMAIN tx, Land(i) \/ Refuse(i) PROVE history' = history /\ ok' = ok
    BY <1>3 DEF Land, Refuse, memory
  <1>4. DepositElsewhere \/ Tick \/ UNCHANGED vars => history' = history /\ ok' = ok
    BY DEF DepositElsewhere, Tick, vars, memory
  <1>5. \A k \in Calls : WithdrawReturns(k) \/ RelayReturns(k) => Record(k)
    BY DEF WithdrawReturns, RelayReturns
  <1> QED BY <1>1, <1>2, <1>3, <1>4, <1>5 DEF Next, CallStep

\* What the check prunes is older than a day.
LEMMA PruneFacts ==
    ASSUME Types, NEW k \in Calls, CheckAndProve(k)
    PROVE  /\ \A c \in Clients : history'[c] \in {history[c], Prune(history[c])}
           /\ now' = now /\ ok' = ok
  <1> DEFINE c == ClientOf[k]
             p == IF c \in Limited /\ ~IsNullifierUsed(k) THEN Prune(history[c])
                  ELSE history[c]
  <1>1. history' = [history EXCEPT ![c] = p] /\ now' = now /\ ok' = ok
    BY DEF CheckAndProve
  <1>2. p \in {history[c], Prune(history[c])}
    OBVIOUS
  <1> HIDE DEF p, c
  <1>3. \A d \in Clients : history'[d] \in {history[d], Prune(history[d])}
    BY <1>1, <1>2 DEF Types
  <1> QED BY <1>1, <1>3

\* A limiter forgets only answers that have left its longest window.
LEMMA HistoryStep ==
    ASSUME Types, HistoryOK, [Next]_vars
    PROVE  HistoryOK'
  <1>0. /\ now \in Nat /\ now' \in Nat /\ now <= now' /\ Hour \in Nat /\ Day \in Nat
        /\ Limited \subseteq Clients
        /\ \A c \in Clients : \A e \in ok[c] : e.time \in Nat
    BY TimeFacts, Facts DEF Types, Entries
  <1> SUFFICES ASSUME NEW c \in Limited
               PROVE  /\ IsFiniteSet(ok'[c])
                      /\ history'[c] \subseteq ok'[c]
                      /\ \A e \in ok'[c] : e.time <= now'
                      /\ \A e \in ok'[c] : e.time + Day >= now' => e \in history'[c]
    BY DEF HistoryOK, Recent
  <1>1. /\ IsFiniteSet(ok[c]) /\ history[c] \subseteq ok[c]
        /\ \A e \in ok[c] : e.time \in Nat /\ e.time <= now
        /\ \A e \in ok[c] : e.time + Day >= now => e \in history[c]
        /\ c \in Clients
    BY <1>0 DEF HistoryOK, Recent
  <1>2. CASE history' = history /\ ok' = ok
    <2>1. \A e \in ok[c] : e.time <= now' /\ (e.time + Day >= now' => e.time + Day >= now)
      BY <1>0, <1>1
    <2> QED BY <1>1, <1>2, <2>1
  <1>3. CASE ok' = ok /\ \E k \in Calls : CheckAndProve(k)
    <2>1. now' = now /\ history'[c] \in {history[c], Prune(history[c])}
      BY <1>1, <1>3, PruneFacts
    <2> QED BY <1>1, <1>3, <2>1 DEF Prune
  <1>4. CASE \E k \in Calls : (WithdrawReturns(k) \/ RelayReturns(k)) /\ Record(k)
    <2>1. PICK k \in Calls : (WithdrawReturns(k) \/ RelayReturns(k)) /\ Record(k)
      BY <1>4
    <2>2. now' = now /\ call[k].pc \in {"sent", "posted"}
      BY <2>1 DEF WithdrawReturns, RelayReturns, At
    <2> DEFINE entry == [note |-> call[k].note, tx |-> call[k].tx, time |-> now]
    <2>3. CASE c = ClientOf[k]
      <3>1. ok'[c] = ok[c] \cup {entry} /\ history'[c] = Prune(history[c]) \cup {entry}
        BY <2>1, <2>2, <2>3, RecordFacts
      <3>2. entry.time = now
        OBVIOUS
      <3> HIDE DEF entry
      <3>3. IsFiniteSet(ok'[c])
        BY <1>1, <3>1, FS_AddElement
      <3> QED BY <1>0, <1>1, <2>2, <3>1, <3>2, <3>3 DEF Prune
    <2>4. CASE c # ClientOf[k]
      <3>1. ok'[c] = ok[c] /\ history'[c] = history[c]
        BY <1>1, <2>1, <2>2, <2>4, RecordFacts
      <3> QED BY <1>1, <2>2, <3>1
    <2> QED BY <2>3, <2>4
  <1> QED BY <1>2, <1>3, <1>4, HistoryCases

\* A withdrawal that the limiter lets through leaves room for itself.
LEMMA CheckFacts ==
    ASSUME Types, HistoryOK, NEW k \in Calls, CheckAndProve(k), ClientOf[k] \in Limited,
           call'[k].pc # "idle"
    PROVE  Passed(k)
  <1> DEFINE c == ClientOf[k]
             p == Prune(history[c])
  <1>1. Check(c, p)
    <2>1. ~End(k)
      BY EndOfCall
    <2>2. ~IsNullifierUsed(k)
      BY <2>1 DEF CheckAndProve
    <2> QED BY <2>1, <2>2 DEF CheckAndProve
  <1>2. /\ IsFiniteSet(ok[c]) /\ p \subseteq ok[c]
        /\ \A e \in ok[c] : e.time + Day >= now => e \in p
    BY DEF HistoryOK, Recent, Prune
  <1>3. /\ now \in Nat /\ Hour \in Nat /\ Day \in Nat /\ Hour <= Day /\ DepositAmount \in Nat
        /\ \A e \in ok[c] : e.time \in Nat
        /\ Policy[c].maxPerHour \in Nat /\ Policy[c].maxPerDay \in Nat
    BY Facts DEF Types, Entries
  <1>4. ASSUME NEW w \in {Hour, Day}
        PROVE  /\ Total(Recent(c, w)) <= SumSince(p, w)
               /\ Total(Recent(c, w)) \in Nat /\ SumSince(p, w) \in Nat
    <2> DEFINE T == {e \in p : e.time + w >= now}
    <2>1. Recent(c, w) \subseteq T
      BY <1>2, <1>3 DEF Recent
    <2>2. IsFiniteSet(T)
      BY <1>2, FS_Subset
    <2>3. SumSince(p, w) = Total(T)
      BY DEF SumSince
    <2> HIDE DEF T
    <2> QED BY <2>1, <2>2, <2>3, TotalFacts
  <1> HIDE DEF p
  <1>5. /\ SumSince(p, Hour) + DepositAmount <= Policy[c].maxPerHour
        /\ SumSince(p, Day) + DepositAmount <= Policy[c].maxPerDay
    BY <1>1 DEF Check
  <1>6. /\ Total(Recent(c, Hour)) + DepositAmount <= Policy[c].maxPerHour
        /\ Total(Recent(c, Day)) + DepositAmount <= Policy[c].maxPerDay
    BY <1>3, <1>4, <1>5
  <1> QED BY <1>6 DEF Passed

\* What a call has been granted stays granted while nothing is answered to its client.
LEMMA PassedStays ==
    ASSUME Types, Types', HistoryOK, [Next]_vars, NEW k \in Calls, ClientOf[k] \in Limited,
           Passed(k), ok'[ClientOf[k]] = ok[ClientOf[k]]
    PROVE  Passed(k)'
  <1> DEFINE c == ClientOf[k]
  <1>1. /\ now \in Nat /\ now' \in Nat /\ now <= now' /\ Hour \in Nat /\ Day \in Nat
        /\ c \in Clients /\ DepositAmount \in Nat
        /\ Policy[c].maxPerHour \in Nat /\ Policy[c].maxPerDay \in Nat
    BY TimeFacts, Facts
  <1>2. \A e \in ok[c] : e.time \in Nat
    BY <1>1 DEF Types, Entries
  <1>3. IsFiniteSet(ok[c])
    BY DEF HistoryOK
  <1>4. ASSUME NEW w \in {Hour, Day}
        PROVE  /\ Total(Recent(c, w))' <= Total(Recent(c, w))
               /\ Total(Recent(c, w))' \in Nat /\ Total(Recent(c, w)) \in Nat
    <2> DEFINE N == {e \in ok'[c] : e.time + w >= now'}
    <2>1. N \subseteq Recent(c, w)
      BY <1>1, <1>2 DEF Recent
    <2>2. IsFiniteSet(Recent(c, w))
      BY <1>3, FS_Subset DEF Recent
    <2>3. /\ Total(N) <= Total(Recent(c, w))
          /\ Total(N) \in Nat /\ Total(Recent(c, w)) \in Nat
      <3> HIDE DEF N
      <3> QED BY <2>1, <2>2, TotalFacts
    <2>4. Total(Recent(c, w))' = Total(N)
      BY DEF Recent, Total
    <2> HIDE DEF N
    <2> QED BY <2>3, <2>4
  <1>5. /\ Total(Recent(c, Hour)) + DepositAmount <= Policy[c].maxPerHour
        /\ Total(Recent(c, Day)) + DepositAmount <= Policy[c].maxPerDay
    BY DEF Passed
  <1>6. /\ Total(Recent(c, Hour))' + DepositAmount <= Policy[c].maxPerHour
        /\ Total(Recent(c, Day))' + DepositAmount <= Policy[c].maxPerDay
    BY <1>1, <1>4, <1>5
  <1> QED BY <1>6 DEF Passed

\* What the limiter has let through stays within the policy until it is answered: no
\* other answer of the client comes in between.
LEMMA PassedStep ==
    ASSUME OneAtATime, Inv, HistoryOK, PassedOK, [Next]_vars
    PROVE  PassedOK'
  <1>0. Types /\ Types' /\ ReadOK /\ SentOK
    BY StepKeeps DEF Inv
  <1> SUFFICES ASSUME NEW k \in Calls, ClientOf[k] \in Limited, call'[k].pc \in Past
               PROVE  Passed(k)'
    BY DEF PassedOK
  <1>1. CASE call'[k] = call[k]
    <2>1. Passed(k)
      BY <1>1 DEF PassedOK
    <2>2. ok'[ClientOf[k]] = ok[ClientOf[k]]
      <3>1. CASE ok' = ok
        BY <3>1
      <3>2. CASE \E l \in Calls : (WithdrawReturns(l) \/ RelayReturns(l)) /\ Record(l)
        <4>1. PICK l \in Calls : (WithdrawReturns(l) \/ RelayReturns(l)) /\ Record(l)
          BY <3>2
        <4>2. call'[l].pc = "idle" /\ call[l].pc \in {"sent", "posted"}
          BY <1>0, <4>1, EndOfCall DEF WithdrawReturns, RelayReturns, At
        <4>3. ClientOf[l] # ClientOf[k]
          BY <4>2 DEF OneAtATime, Past
        <4>4. ClientOf[k] \in Clients
          BY Facts
        <4> QED BY <1>0, <4>1, <4>2, <4>3, <4>4, RecordFacts
      <3> QED BY <1>0, <3>1, <3>2, AnswerCases
    <2> QED BY <1>0, <2>1, <2>2, PassedStays
  <1>2. CASE call'[k] # call[k]
    <2>1. CallStep(k)
      <3>1. (\E l \in Calls : CallStep(l)) \/ call' = call
        BY DEF Next, CallStep, Land, Refuse, DepositElsewhere, Tick, vars
      <3> QED BY <1>0, <1>2, <3>1, OthersWait
    <2>2. CASE CheckAndProve(k)
      <3>1. call'[k].pc # "idle"
        BY DEF Past
      <3>2. Passed(k)
        BY <1>0, <2>2, <3>1, CheckFacts
      <3>3. ok' = ok
        BY <2>2 DEF CheckAndProve
      <3> QED BY <1>0, <3>2, <3>3, PassedStays
    <2>3. CASE BuildCreateAta(k) \/ WithdrawSend(k) \/ PostRelay(k)
      <3>1. call[k].pc \in Past /\ ok' = ok
        BY <2>3 DEF BuildCreateAta, WithdrawSend, PostRelay, At, Past, memory
      <3>2. Passed(k)
        BY <3>1 DEF PassedOK
      <3> QED BY <1>0, <3>1, <3>2, PassedStays
    <2>4. CASE \/ \E op \in Ways[ClientOf[k]], n \in NoteIds, r \in Recipients :
                      FetchPool(k, op, n, r)
               \/ FetchCommitments(k)
      BY <1>0, <2>4, PreparingStep DEF Past
    <2>5. CASE \/ DepositReturns(k) \/ WithdrawReturns(k) \/ RelayReturns(k)
               \/ TreasuryReturns(k) \/ Fails(k)
      <3>1. End(k)
        BY <2>5 DEF DepositReturns, WithdrawReturns, RelayReturns, TreasuryReturns, Fails
      <3> QED BY <1>0, <3>1, EndOfCall DEF Past
    <2>6. CASE Deposit(k)
      <3>1. call'[k].pc = "depositDelay"
        BY <1>0, <2>6 DEF Deposit, Set, Types
      <3> QED BY <3>1 DEF Past
    <2>7. CASE DepositSend(k) \/ UpdateTreasury(k)
      <3>1. Sends(k, "depositSent", "deposit") \/ Sends(k, "treasurySent", "treasury")
        BY <1>0, <2>7, DepositSends, TreasurySends DEF Sends
      <3> QED BY <1>0, <3>1, SendsFacts DEF Sent, Past
    <2> QED BY <2>1, <2>2, <2>3, <2>4, <2>5, <2>6, <2>7 DEF CallStep
  <1> QED BY <1>1, <1>2

\* An answer, and those of the window before it.
Since(c, last, window) == {e \in ok[c] : e.time <= last.time /\ e.time + window >= last.time}

\* The answer that a step adds stays within the policy in the windows that it ends, and
\* is in no earlier one.
LEMMA PolicyStep ==
    ASSUME Types, HistoryOK, PassedOK, WithinPolicy, [Next]_vars
    PROVE  WithinPolicy'
  <1>0. /\ \A c \in Clients : \A e \in ok[c] : e.time \in Nat
        /\ Limited \subseteq Clients /\ Hour \in Nat /\ Day \in Nat /\ DepositAmount \in Nat
        /\ now \in Nat
        /\ \A c \in Clients : Policy[c].maxPerHour \in Nat /\ Policy[c].maxPerDay \in Nat
    BY Facts DEF Types, Entries
  <1>1. \A c \in Limited : \A last \in ok[c] :
            /\ Total(Since(c, last, Hour)) <= Policy[c].maxPerHour
            /\ Total(Since(c, last, Day)) <= Policy[c].maxPerDay
    BY DEF WithinPolicy, Since
  <1>2. ASSUME NEW c \in Limited, NEW last \in ok'[c]
        PROVE  /\ Total({e \in ok'[c] : e.time <= last.time /\ e.time + Hour >= last.time})
                     <= Policy[c].maxPerHour
               /\ Total({e \in ok'[c] : e.time <= last.time /\ e.time + Day >= last.time})
                     <= Policy[c].maxPerDay
    <2> DEFINE S(w) == {e \in ok'[c] : e.time <= last.time /\ e.time + w >= last.time}
    <2>1. CASE ok'[c] = ok[c]
      BY <1>1, <2>1 DEF Since
    <2>2. CASE ok'[c] # ok[c]
      <3>1. PICK k \in Calls : (WithdrawReturns(k) \/ RelayReturns(k)) /\ Record(k)
        BY <2>2, AnswerCases
      <3>2. call[k].pc \in {"sent", "posted"}
        BY <3>1 DEF WithdrawReturns, RelayReturns, At
      <3> DEFINE entry == [note |-> call[k].note, tx |-> call[k].tx, time |-> now]
      <3>3. c = ClientOf[k] /\ ok'[c] = ok[c] \cup {entry}
        BY <1>0, <2>2, <3>1, <3>2, RecordFacts
      <3>4. entry.time = now
        OBVIOUS
      <3> HIDE DEF entry
      <3>5. /\ IsFiniteSet(ok[c]) /\ \A e \in ok[c] : e.time \in Nat /\ e.time <= now
        BY <1>0 DEF HistoryOK
      <3>6. CASE last.time # now
        <4>1. last \in ok[c] /\ last.time < now
          BY <1>0, <3>3, <3>4, <3>5, <3>6
        <4>2. \A w \in {Hour, Day} : S(w) = Since(c, last, w)
          BY <1>0, <3>3, <3>4, <3>5, <4>1 DEF Since
        <4> QED BY <1>1, <4>1, <4>2
      <3>7. CASE last.time = now
        <4>1. Passed(k)
          BY <3>2, <3>3 DEF PassedOK, Past
        <4>2. ASSUME NEW w \in {Hour, Day}
              PROVE  /\ Total(S(w)) <= Total(Recent(c, w)) + DepositAmount
                     /\ Total(S(w)) \in Nat /\ Total(Recent(c, w)) \in Nat
          <5> DEFINE R == Recent(c, w)
                     T == S(w)
          <5>1. T = R \cup {entry}
            BY <1>0, <3>3, <3>4, <3>5, <3>7 DEF Recent
          <5>2. IsFiniteSet(R)
            BY <3>5, FS_Subset DEF Recent
          <5> HIDE DEF R, T
          <5>3. IsFiniteSet(R \cup {entry})
            BY <5>2, FS_AddElement
          <5>4. /\ Total(R) \in Nat /\ Total(R \cup {entry}) \in Nat
                /\ Total(R \cup {entry}) <= Total(R) + DepositAmount
            BY <5>2, <5>3, TotalFacts
          <5>5. Total(T) = Total(R \cup {entry})
            BY <5>1
          <5>6. Total(T) <= Total(R) + DepositAmount /\ Total(T) \in Nat /\ Total(R) \in Nat
            BY <5>4, <5>5
          <5> QED BY <5>6 DEF R, T
        <4> HIDE DEF S
        <4>3. /\ Total(Recent(c, Hour)) + DepositAmount <= Policy[c].maxPerHour
              /\ Total(Recent(c, Day)) + DepositAmount <= Policy[c].maxPerDay
          BY <3>3, <4>1 DEF Passed
        <4>4. Total(S(Hour)) <= Policy[c].maxPerHour /\ Total(S(Day)) <= Policy[c].maxPerDay
          BY <1>0, <4>2, <4>3
        <4> QED BY <4>4 DEF S
      <3> QED BY <3>6, <3>7
    <2> QED BY <2>1, <2>2
  <1> QED BY <1>2 DEF WithinPolicy, Total

\* As long as a client with a limiter has one call open at a time, its withdrawals of
\* any hour and of any day stay within its policy, however the answers are delayed and
\* the clock moves.
THEOREM PolicyHolds == ASSUME OneAtATime PROVE Spec => []WithinPolicy
  <1>1. Init => HistoryOK /\ PassedOK /\ WithinPolicy
    <2> SUFFICES ASSUME Init PROVE HistoryOK /\ PassedOK /\ WithinPolicy
      OBVIOUS
    <2>1. /\ \A c \in Clients : ok[c] = {} /\ history[c] = {}
          /\ \A k \in Calls : call[k].pc = "idle"
          /\ Limited \subseteq Clients /\ IsFiniteSet({})
      BY Facts, FS_EmptySet DEF Init
    <2> QED BY <2>1 DEF HistoryOK, PassedOK, WithinPolicy, Recent, Past
  <1>2. Inv /\ LimitsInv /\ [Next]_vars => LimitsInv'
    <2> SUFFICES ASSUME Inv, LimitsInv, [Next]_vars PROVE LimitsInv'
      OBVIOUS
    <2>1. Types /\ HistoryOK /\ PassedOK /\ WithinPolicy
      BY DEF Inv, LimitsInv
    <2> QED BY <2>1, HistoryStep, PassedStep, PolicyStep DEF LimitsInv
  <1> QED BY <1>1, <1>2, InvAlways, PTL DEF Spec, LimitsInv
=============================================================================
