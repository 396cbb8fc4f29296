SPECIFICATION Spec
CONSTANTS
  r1 = r1
  r2 = r2
  n1 = n1
  n2 = n2
  Retry = Retry
  External = External
  Requests = {r1}
  Nullifiers = {n1}
  NullifierOf <- OneNote
  Backlog = {r1}
  ProofOk = {r1}
  FeeOk = {r1}
  FeeExcessive = {}
  TxIds = {1, 2}
  NullifierVersion = 1
  MaxRetries = 1
  MaxFaults = 1
  MaxCrashes = 1
PROPERTY AbandonedAtLimit
CHECK_DEADLOCK FALSE
