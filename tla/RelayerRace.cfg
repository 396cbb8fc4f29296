SPECIFICATION Spec
CONSTANTS
  r1 = r1
  r2 = r2
  n1 = n1
  n2 = n2
  Retry = Retry
  External = External
  Requests = {r1, r2}
  Nullifiers = {n1}
  NullifierOf <- OneNote
  Backlog = {}
  ProofOk = {r1, r2}
  FeeOk = {r1, r2}
  FeeExcessive = {}
  TxIds = {1, 2}
  NullifierVersion = 0
  MaxRetries = 1
  MaxFaults = 0
  MaxCrashes = 1
INVARIANTS TypeOK ConfirmedIsSpent
PROPERTY KeepsPromise
SYMMETRY SameNote
CHECK_DEADLOCK FALSE
