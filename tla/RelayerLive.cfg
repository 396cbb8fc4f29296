SPECIFICATION FairSpec
CONSTANTS
  r1 = r1
  r2 = r2
  n1 = n1
  n2 = n2
  Retry = Retry
  External = External
  Requests = {r1}
  Nullifiers = {n1}
  NullifierOf <- OneNote
  Backlog = {}
  ProofOk = {r1}
  FeeOk = {r1}
  FeeExcessive = {}
  TxIds = {1, 2, 3}
  NullifierVersion = 1
  MaxRetries = 0
  MaxFaults = 1
  MaxCrashes = 0
PROPERTIES Settles Answered
CHECK_DEADLOCK FALSE
