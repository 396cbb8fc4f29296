-------------------------------- MODULE Pool --------------------------------
(***************************************************************************)
(* The on-chain program, agent-privacy-pool/src/lib.rs, for one pool and   *)
(* its vault, commitment pages and nullifier records.  An instruction is   *)
(* executed atomically and either succeeds or changes nothing, so each is  *)
(* an action whose guard is that it succeeds; what interleaves is the      *)
(* instructions of different users, and with them the proofs made from an  *)
(* earlier state of the pool.                                              *)
(*                                                                         *)
(* A commitment is identified with its note.  An account that does not     *)
(* belong to the pool fails the constraints of its instruction and is left *)
(* out, except for the treasury, which may have been replaced meanwhile.   *)
(***************************************************************************)
EXTENDS MerkleTree, FiniteSets, Functions

CONSTANTS
    Notes,
    NullifierOf,       \* the nullifier hash of each note
    ZeroNullifier,     \* the hash of the nullifier 0
    Recipients, Relayer, Treasuries,
    RecipientInput,    \* the field element of each recipient: 31 bytes of its key
    Kinds,             \* the kinds of pool considered
    InlineLengths,     \* leaves a pool may hold from before there were pages
    DepositAmount,
    ProtocolFeeBps,
    RelayerFees,       \* fees a relayer may ask for
    RootHistorySize,   \* ROOT_HISTORY_SIZE
    PageCapacity,      \* COMMITMENT_PAGE_CAPACITY
    OtherNullifiers,   \* nullifiers of proofs that were not made by the SDK
    MaxProofs          \* bound on the proofs made

Accounts == Recipients \cup {Relayer} \cup Treasuries
FeeKinds == {"fee_v2", "fee_spl"}
AllKinds == {"legacy", "v2", "spl"} \cup FeeKinds

ASSUME PoolAssumption ==
    /\ ZeroLeaf \notin Notes
    /\ Relayer \notin Recipients \cup Treasuries /\ Recipients \cap Treasuries = {}
    /\ IsFiniteSet(Recipients) /\ IsFiniteSet(Treasuries)
    /\ Kinds \subseteq AllKinds
    /\ InlineLengths \subseteq 0..Capacity
    /\ DOMAIN RecipientInput = Recipients
    /\ DepositAmount \in Nat \ {0} /\ RelayerFees \subseteq Nat
    /\ ProtocolFeeBps \in 0..500
    /\ RootHistorySize \in Nat \ {0} /\ PageCapacity \in Nat \ {0} /\ MaxProofs \in Nat

VARIABLES
    kind,              \* which account type the pool is, and which asset it takes
    nextIndex, rootCount, roots, filledSubtrees,
    commitments,       \* leaves listed in the pool account itself
    pages,             \* the CommitmentPage account of each page index
    usedNullifiers,    \* nullifiers listed in the pool account
    nullifierRecords,  \* nullifiers with a NullifierRecord account
    nullifierCount,
    treasury,
    vault,             \* money in the pool's vault
    paid,              \* money the pool has paid to each account
    proofs             \* withdrawal proofs made so far

tree  == <<nextIndex, rootCount, roots, filledSubtrees, commitments, pages>>
spend == <<usedNullifiers, nullifierRecords, nullifierCount>>
vars  == <<kind, tree, spend, treasury, vault, paid, proofs>>

-----------------------------------------------------------------------------
(* Pools as initialize* creates them, and as pools from before the pages   *)
(* are found: the leaves of those are inline.                              *)

PageIndexes == 0..(Capacity \div PageCapacity)
Page   == [start : 0..PageCapacity, count : 0..PageCapacity, leaves : Seq(Notes)]
NoPage == [start |-> 0, count |-> 0, leaves |-> <<>>]

\* The tree after the first i leaves of s were inserted.
TreeAfter(s) ==
    LET after[i \in 0..Len(s)] ==
            IF i = 0 THEN [filled |-> EmptySubtrees, root |-> Zeros[Depth]]
            ELSE Insert(after[i-1].filled, i - 1, s[i])
    IN  after

Init ==
    /\ kind \in Kinds
    /\ \E k \in InlineLengths : commitments \in [1..k -> Notes]
    /\ kind \in FeeKinds => commitments = <<>>
    /\ nextIndex = Len(commitments)
    /\ rootCount = nextIndex
    /\ LET after == TreeAfter(commitments)
           latest(slot) == {i \in 1..nextIndex : (i - 1) % RootHistorySize = slot}
       IN  /\ filledSubtrees = [l \in Levels |-> after[nextIndex].filled[l]]
           /\ roots = [slot \in 0..(RootHistorySize - 1) |->
                        IF latest(slot) = {} THEN ZeroLeaf
                        ELSE after[CHOOSE i \in latest(slot) :
                                        \A j \in latest(slot) : j <= i].root]
    /\ pages = [p \in PageIndexes |-> NoPage]
    /\ usedNullifiers = <<>> /\ nullifierRecords = {} /\ nullifierCount = 0
    /\ treasury \in Treasuries
    /\ vault = DepositAmount * nextIndex
    /\ paid = [a \in Accounts |-> 0]
    /\ proofs = {}

-----------------------------------------------------------------------------
(* Deposits.                                                               *)

\* Mutant of AppendLeaf: a full pool goes on accepting deposits.
AppendLeafUnbounded(n) ==
    /\ LET inserted == Insert(filledSubtrees, nextIndex, n)
       IN  /\ filledSubtrees' = inserted.filled
           /\ roots' = [roots EXCEPT ![rootCount % RootHistorySize] = inserted.root]
    /\ rootCount' = rootCount + 1
    /\ nextIndex' = nextIndex + 1
    /\ vault' = vault + DepositAmount

\* The leaf goes into the tree and its root into the ring of recent roots.
AppendLeaf(n) ==
    /\ nextIndex < Capacity
    /\ LET inserted == Insert(filledSubtrees, nextIndex, n)
       IN  /\ filledSubtrees' = inserted.filled
           /\ roots' = [roots EXCEPT ![rootCount % RootHistorySize] = inserted.root]
    /\ rootCount' = rootCount + 1
    /\ nextIndex' = nextIndex + 1
    /\ vault' = vault + DepositAmount

Deposit(n) ==
    /\ kind = "legacy"
    /\ AppendLeaf(n)
    /\ commitments' = Append(commitments, n)
    /\ UNCHANGED <<kind, pages, spend, treasury, paid, proofs>>

\* The page that a leaf goes to: one that does not exist yet starts at the offset
\* of its first leaf.
OpenPage(pgs, index, offset) ==
    IF pgs[index] = NoPage THEN [NoPage EXCEPT !.start = offset] ELSE pgs[index]

\* The checks append_commitment_page makes of the page for a leaf at an offset.
NextOfPage(page, offset) ==
    LET local == offset - page.start
    IN  offset >= page.start /\ local = page.count /\ local < PageCapacity

\* Mutant of AppendCommitmentPage: the leaf is written but not counted.
AppendCommitmentPageUncounted(index, offset, n) ==
    LET page == OpenPage(pages, index, offset)
    IN  /\ NextOfPage(page, offset)
        /\ pages' = [pages EXCEPT ![index] = [page EXCEPT !.leaves = Append(@, n)]]

AppendCommitmentPage(index, offset, n) ==
    LET page == OpenPage(pages, index, offset)
    IN  /\ NextOfPage(page, offset)
        /\ pages' = [pages EXCEPT ![index] =
                        [page EXCEPT !.count = @ + 1, !.leaves = Append(@, n)]]

\* The page index is an argument: the depositor read next_index some time ago.
DepositPaged(n, index) ==
    /\ index = nextIndex \div PageCapacity
    /\ AppendCommitmentPage(index, nextIndex % PageCapacity, n)
    /\ AppendLeaf(n)
    /\ UNCHANGED <<kind, commitments, spend, treasury, paid, proofs>>

DepositV2(n, index)     == kind = "v2"      /\ DepositPaged(n, index)
DepositSpl(n, index)    == kind = "spl"     /\ DepositPaged(n, index)
DepositFeeV2(n, index)  == kind = "fee_v2"  /\ DepositPaged(n, index)
DepositFeeSpl(n, index) == kind = "fee_spl" /\ DepositPaged(n, index)

-----------------------------------------------------------------------------
(* The client: what it reads from the accounts, and the proofs it makes.   *)

\* mergeCommitmentSources: inline leaves first, then the pages over them.
MergeCommitmentSources ==
    LET InPage(i, p) == LET local == i - p * PageCapacity - pages[p].start
                        IN  0 <= local /\ local < pages[p].count
    IN  [i \in 1..nextIndex |->
            IF \E p \in PageIndexes : InPage(i - 1, p)
            THEN LET p == CHOOSE p \in PageIndexes : InPage(i - 1, p)
                 IN  pages[p].leaves[i - p * PageCapacity - pages[p].start]
            ELSE IF i <= Len(commitments) THEN commitments[i] ELSE ZeroLeaf]

\* The owner of a note proves it for a recipient, from the leaves its node shows:
\* those of the pool, or one more that the chain has not, or will never, accept.
Prove(n, r) ==
    LET listed == MergeCommitmentSources
        views  == {listed} \cup (IF nextIndex < Capacity THEN {Append(listed, n)} ELSE {})
    IN  /\ Cardinality(proofs) < MaxProofs
        /\ \E leaves \in views : \E i \in 1..Len(leaves) :
              /\ leaves[i] = n
              /\ Provable(leaves, i - 1)
              /\ proofs' = proofs \cup
                    {[root |-> TreeRoot(leaves), nullifier |-> NullifierOf[n],
                      recipient |-> RecipientInput[r]]}
        /\ UNCHANGED <<kind, tree, spend, treasury, vault, paid>>

\* Mutant of KnownRoots: the oldest slot is not compared.
KnownRootsButOne ==
    {roots[i] : i \in {j \in 0..(RootHistorySize - 1) : j + 1 < rootCount}}

\* ensure_root_known.
KnownRoots ==
    {roots[i] : i \in {j \in 0..(RootHistorySize - 1) : j < rootCount}}

\* A proof made by other means than the SDK.  The circuit does not constrain its
\* pathIndices to bits, so all that such a proof says is its public inputs: it
\* need not be of a leaf of the tree.
ProveOtherwise(x, r) ==
    /\ Cardinality(proofs) < MaxProofs
    /\ \E root \in KnownRoots :
          proofs' = proofs \cup
              {[root |-> root, nullifier |-> x, recipient |-> RecipientInput[r]]}
    /\ UNCHANGED <<kind, tree, spend, treasury, vault, paid>>

-----------------------------------------------------------------------------
(* Withdrawals.                                                            *)

\* Mutant of Verify: the recipient is not an input of the proof.
VerifyAnyRecipient(proof, r) ==
    /\ proof.nullifier # ZeroNullifier
    /\ proof.root \in KnownRoots

\* The checks every withdrawal makes of a proof, for the recipient it pays.
Verify(proof, r) ==
    /\ proof.nullifier # ZeroNullifier
    /\ proof.root \in KnownRoots
    /\ proof.recipient = RecipientInput[r]

\* In a legacy pool the nullifier goes into the account, else into a record of
\* its own, which can be created only once.
UseNullifier(nullifier) ==
    /\ nullifier \notin Range(usedNullifiers)
    /\ usedNullifiers' = Append(usedNullifiers, nullifier)
    /\ nullifierCount' = nullifierCount + 1
    /\ UNCHANGED nullifierRecords

\* Mutant of RecordNullifier: the record is created if needed, not always new.
RecordNullifierAgain(nullifier) ==
    /\ nullifierRecords' = nullifierRecords \cup {nullifier}
    /\ nullifierCount' = nullifierCount + 1
    /\ UNCHANGED usedNullifiers

RecordNullifier(nullifier) ==
    /\ nullifier \notin nullifierRecords
    /\ nullifierRecords' = nullifierRecords \cup {nullifier}
    /\ nullifierCount' = nullifierCount + 1
    /\ UNCHANGED usedNullifiers

\* The transfers out of the vault: the amounts go to a recipient, to the relayer
\* and to a treasury, and the instruction fails if the vault cannot pay them.
Pay(r, amount, relayerFee, t, protocolFee) ==
    LET total == amount + relayerFee + protocolFee
        due   == [a \in Accounts |-> IF a = r THEN amount ELSE IF a = Relayer THEN relayerFee
                                     ELSE IF a = t THEN protocolFee ELSE 0]
    IN  /\ total <= vault
        /\ vault' = vault - total
        /\ paid' = [a \in Accounts |-> paid[a] + due[a]]
        /\ UNCHANGED <<kind, tree, treasury, proofs>>

PayRecipient(r) == Pay(r, DepositAmount, 0, treasury, 0)

\* Mutant of PayRelayed: the fee comes on top of the deposit.
PayRelayedOnTop(r, fee) ==
    /\ fee < DepositAmount
    /\ Pay(r, DepositAmount, fee, treasury, 0)

PayRelayed(r, fee) ==
    /\ fee < DepositAmount
    /\ Pay(r, DepositAmount - fee, fee, treasury, 0)

\* compute_protocol_fee, in integers.
ProtocolFee == (DepositAmount * ProtocolFeeBps) \div 10000

\* Mutant of PayWithFees: the treasury account is taken as the client names it.
PayWithFeesAnywhere(r, fee, t) ==
    /\ ProtocolFee + fee < DepositAmount
    /\ Pay(r, DepositAmount - ProtocolFee - fee, fee, t, ProtocolFee)

\* The treasury account was named by the client and must still be the pool's.
PayWithFees(r, fee, t) ==
    /\ t = treasury
    /\ ProtocolFee + fee < DepositAmount
    /\ Pay(r, DepositAmount - ProtocolFee - fee, fee, t, ProtocolFee)

WithdrawZk(proof, r) ==
    kind = "legacy" /\ Verify(proof, r) /\ UseNullifier(proof.nullifier) /\ PayRecipient(r)
WithdrawZkRelayed(proof, r, fee) ==
    kind = "legacy" /\ Verify(proof, r) /\ UseNullifier(proof.nullifier) /\ PayRelayed(r, fee)

WithdrawZkV2(proof, r) ==
    kind = "v2" /\ Verify(proof, r) /\ RecordNullifier(proof.nullifier) /\ PayRecipient(r)
WithdrawZkRelayedV2(proof, r, fee) ==
    kind = "v2" /\ Verify(proof, r) /\ RecordNullifier(proof.nullifier) /\ PayRelayed(r, fee)
WithdrawZkSpl(proof, r) ==
    kind = "spl" /\ Verify(proof, r) /\ RecordNullifier(proof.nullifier) /\ PayRecipient(r)
WithdrawZkRelayedSpl(proof, r, fee) ==
    kind = "spl" /\ Verify(proof, r) /\ RecordNullifier(proof.nullifier) /\ PayRelayed(r, fee)

WithdrawZkFeeV2(proof, r, t) ==
    kind = "fee_v2" /\ Verify(proof, r) /\ RecordNullifier(proof.nullifier) /\ PayWithFees(r, 0, t)
WithdrawZkRelayedFeeV2(proof, r, fee, t) ==
    kind = "fee_v2" /\ Verify(proof, r) /\ RecordNullifier(proof.nullifier) /\ PayWithFees(r, fee, t)
WithdrawZkFeeSpl(proof, r, t) ==
    kind = "fee_spl" /\ Verify(proof, r) /\ RecordNullifier(proof.nullifier) /\ PayWithFees(r, 0, t)
WithdrawZkRelayedFeeSpl(proof, r, fee, t) ==
    kind = "fee_spl" /\ Verify(proof, r) /\ RecordNullifier(proof.nullifier) /\ PayWithFees(r, fee, t)

\* The authority of a fee-capable pool names another treasury.
UpdateTreasury(t) ==
    /\ kind \in FeeKinds
    /\ treasury' = t
    /\ UNCHANGED <<kind, tree, spend, vault, paid, proofs>>

DepositNext ==
    \E n \in Notes :
        \/ Deposit(n)
        \/ \E index \in PageIndexes :
              DepositV2(n, index) \/ DepositSpl(n, index) \/ DepositFeeV2(n, index)
              \/ DepositFeeSpl(n, index)

DirectNext(proof, r) ==
    \/ WithdrawZk(proof, r) \/ WithdrawZkV2(proof, r) \/ WithdrawZkSpl(proof, r)
    \/ \E t \in Treasuries : WithdrawZkFeeV2(proof, r, t) \/ WithdrawZkFeeSpl(proof, r, t)

RelayedNext(proof, r, fee) ==
    \/ WithdrawZkRelayed(proof, r, fee) \/ WithdrawZkRelayedV2(proof, r, fee)
    \/ WithdrawZkRelayedSpl(proof, r, fee)
    \/ \E t \in Treasuries :
          WithdrawZkRelayedFeeV2(proof, r, fee, t) \/ WithdrawZkRelayedFeeSpl(proof, r, fee, t)

Next ==
    \/ DepositNext
    \/ \E n \in Notes, r \in Recipients : Prove(n, r)
    \/ \E x \in OtherNullifiers, r \in Recipients : ProveOtherwise(x, r)
    \/ \E proof \in proofs, r \in Recipients :
          DirectNext(proof, r) \/ \E fee \in RelayerFees : RelayedNext(proof, r, fee)
    \/ \E t \in Treasuries : UpdateTreasury(t)

Spec == Init /\ [][Next]_vars

-----------------------------------------------------------------------------
(* Properties.                                                             *)

Nullifiers == {NullifierOf[n] : n \in Notes} \cup OtherNullifiers
Spent      == Range(usedNullifiers) \cup nullifierRecords

TypeOK ==
    /\ kind \in AllKinds
    /\ nextIndex \in 0..Capacity /\ rootCount \in Nat
    /\ DOMAIN roots = 0..(RootHistorySize - 1) /\ DOMAIN filledSubtrees = Levels
    /\ commitments \in Seq(Notes)
    /\ pages \in [PageIndexes -> Page]
    /\ usedNullifiers \in Seq(Nullifiers) /\ nullifierRecords \subseteq Nullifiers
    /\ nullifierCount \in Nat
    /\ treasury \in Treasuries
    /\ vault \in Nat
    /\ paid \in [Accounts -> Nat]
    /\ \A proof \in proofs : proof.nullifier \in Nullifiers /\ proof.recipient \in Range(RecipientInput)

\* The program keeps the ledger of ShieldedLedger: what a client rebuilds from
\* the account and its pages is every deposit in order, a proof of the SDK takes
\* only a deposited note, no nullifier is used twice whoever made its proof, and
\* the vault holds all that was not withdrawn.
Ledger == INSTANCE ShieldedLedger WITH
    listed <- MergeCommitmentSources, spent <- Spent, held <- vault
KeepsLedger == Ledger!Spec

\* The vault holds exactly the deposits that were not withdrawn: one deposit for
\* every leaf of the tree, less one for every nullifier that is spent.
Solvent == vault = DepositAmount * (nextIndex - Cardinality(Spent))

\* The roots a proof may be made against are those of the last RootHistorySize
\* deposits, as a client computes them, and no others.
RootsOfLastDeposits ==
    LET listed == MergeCommitmentSources
    IN  KnownRoots = {TreeRoot(SubSeq(listed, 1, k)) :
                        k \in {j \in 1..nextIndex : j + RootHistorySize > nextIndex}}

\* A pool never wedges before it is full: its next leaf always passes the checks of
\* the page it belongs to, whatever was inline before there were pages.
PageTakesNext ==
    kind # "legacy" /\ nextIndex < Capacity =>
        NextOfPage(OpenPage(pages, nextIndex \div PageCapacity, nextIndex % PageCapacity),
                   nextIndex % PageCapacity)

\* A note that was deposited and not withdrawn can be proved from the accounts
\* of the pool, and a withdrawal with that proof succeeds, in every state that
\* proofs of the SDK lead to.
FreshProofAccepted ==
    LET listed == MergeCommitmentSources
        root   == TreeRoot(listed)
        FreshProof(i, r) == [root |-> root, nullifier |-> NullifierOf[listed[i]],
                             recipient |-> RecipientInput[r]]
    IN  Spent \cap OtherNullifiers = {} => \A i \in 1..nextIndex :
            NullifierOf[listed[i]] \notin Spent \cup {ZeroNullifier}
            => /\ Provable(listed, i - 1)
               /\ \A r \in Recipients : \A proof \in {FreshProof(i, r)} : ENABLED DirectNext(proof, r)

\* The recipients a proof can pay are together paid at most one deposit for each
\* nullifier that was spent and proved for them, whoever submits the proofs.
PaidAsProved ==
    \A input \in Range(RecipientInput) :
        SumFunctionOnSet(paid, {r \in Recipients : RecipientInput[r] = input})
            <= DepositAmount * Cardinality(
                 {proof.nullifier : proof \in {q \in proofs : q.recipient = input
                                                              /\ q.nullifier \in Spent}})

\* A withdrawal of a fee-capable pool, relayed or not, pays the protocol fee to the
\* treasury the pool has when it executes, not to one its client read earlier; no
\* other step, and no withdrawal of another pool, pays a treasury anything.
FeesToTreasury ==
    [][LET due == IF kind \in FeeKinds /\ nullifierCount' # nullifierCount THEN ProtocolFee ELSE 0
       IN  \A t \in Treasuries : paid'[t] = paid[t] + (IF t = treasury THEN due ELSE 0)]_vars
=============================================================================
