SPECIFICATION Spec
CONSTANTS
    a = a
    Other = Other
    b = b
    ka = ka
    kb = kb
    r1 = r1
    None = None
    Clients = {a, b}
    Calls = {ka, kb}
    ClientOf <- MCClientOf
    Ways <- MCWays
    Limited = {a, b}
    Authority = b
    Options <- MCOptions
    Recipients = {r1}
    DepositAmount = 100
    Capacity = 4
    PageCapacity = 1
    RootHistorySize = 2
    Policy <- MCPolicy
    Hour = 0
    Day = 1
    Quotes <- MCQuotes
    Backlog <- MCBacklog
    Lag = 1
    MaxNotes = 3
    MaxTxs = 2
    MaxTreasury = 1
    MaxTime = 1
INVARIANTS TypeOK DepositedIsKept AnsweredByItsOwn WithinPolicy HeldIsFound RefusedOnlyIfOvertaken
CHECK_DEADLOCK FALSE
