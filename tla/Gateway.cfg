CONSTANTS
    Replicas = {r1, r2}
    IPs = {a, b}
    Notes = {n1, n2, n3}
    Pools <- MCPools
    Configs <- MCConfigs
    PerIpLimit = 1
    GlobalLimit = 2
    WindowMs = 2
    MaxDrift = 1
    None = None
    MaxRestarts = 1
    MaxTime = 3
SPECIFICATION Spec
SYMMETRY MCSymmetry
INVARIANTS TypeOK WindowLimits WaitedIsServed
PROPERTIES QuotedIsAccepted
CHECK_DEADLOCK FALSE
