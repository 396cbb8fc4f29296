SPECIFICATION Spec
CONSTANTS
    Scripts = {"pool", "relayer", "phase13b", "phase13bRelayer", "phase14aDirect", "phase14aRelayed", "concurrency", "recoveryCanary", "relayerCanary", "soak", "seed"}
    Selections = {{"baseline", "burst", "restart"}, {"raw", "restart"}}
    Retries = 1
    Burst = 2
    MaxNotes = 14
    Bounds <- MCBounds
INVARIANTS TypeOK WithdrawnIsSpent OneAtRisk ExposureBounded RecoveredOrReported ReconciledTruly
PROPERTIES KeptOnFile KeepsJournal
CHECK_DEADLOCK FALSE
