SPECIFICATION Spec
CONSTANTS
    p1 = p1
    t1 = t1
    r1 = r1
    h1 = h1
    s1 = s1
    Peers = {p1}
    MaxItems = 1
    Ticks = {t1}
    Runs = {r1}
    Hubs = {h1}
    Stops = {s1}
    MaxAttempts = 2
    BackoffBase = 1
    BackoffCeiling = 2
    RetryAfters = {1}
    MaxRounds = 2
    MaxTime = 0
    LastSend = 0
    MaxKills = 1
    MaxExits = 1
    Brisk = FALSE
INVARIANTS GivenUpOnlyAfterBudget
CHECK_DEADLOCK FALSE
