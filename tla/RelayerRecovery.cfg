SPECIFICATION Spec
CONSTANTS
  r1 = r1
  r2 = r2
  n1 = n1
  n2 = n2
  Retry = Retry
  External = External
  Requests = {r1, r2}
  Nullifiers = {n1, n2}
  NullifierOf <- TwoNotes
  Backlog = {r1, r2}
  ProofOk = {r1, r2}
  FeeOk = {r1, r2}
  FeeExcessive = {}
  TxIds = {1, 2, 3, 4}
  NullifierVersion = 1
  MaxRetries = 1
  MaxFaults = 1
  MaxCrashes = 0
INVARIANTS SignatureOfOwnRequest OneLiveTransaction SubmissionsBounded
           ConfirmedHasSignature
PROPERTY TerminalIsFinal
CHECK_DEADLOCK FALSE
