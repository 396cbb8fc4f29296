SPECIFICATION Spec
CONSTANTS
    n1 = n1  n2 = n2  n3 = n3  hash1 = hash1  hash2 = hash2
    alice = alice  bob = bob  input1 = input1  input2 = input2
    treasury1 = treasury1  treasury2 = treasury2
    Notes = {n1, n2, n3}
    NullifierOf <- ThreeNotes
    ZeroNullifier = zeroHash
    OtherNullifiers = {other}
    Recipients = {alice, bob}
    RecipientInput <- TwoInputs
    Relayer = relayer
    Treasuries = {treasury1, treasury2}
    Kinds = {"legacy", "v2", "spl", "fee_v2", "fee_spl"}
    InlineLengths = {0, 1}
    DepositAmount = 59
    ProtocolFeeBps = 500
    RelayerFees = {0, 57}
    RootHistorySize = 2
    PageCapacity = 2
    MaxProofs = 2
    Depth = 2
    ZeroLeaf = zero
SYMMETRY Symmetry
INVARIANTS TypeOK Solvent RootsOfLastDeposits PageTakesNext FreshProofAccepted PaidAsProved
PROPERTIES FeesToTreasury KeepsLedger
CHECK_DEADLOCK FALSE
