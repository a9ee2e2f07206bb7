SPECIFICATION Spec
CONSTANTS
    p1 = p1
    p2 = p2
    t1 = t1
    Peers = {p1, p2}
    MaxItems = 2
    Ticks = {t1}
    Runs = {}
    Hubs = {}
    Stops = {}
    MaxAttempts = 2
    BackoffBase = 1
    BackoffCeiling = 2
    RetryAfters = {1, 2}
    MaxRounds = 2
    MaxTime = 3
    LastSend = 3
    MaxKills = 1
    MaxExits = 1
    Brisk = FALSE
PROPERTIES DeliveryContract ScheduleIsKept
SYMMETRY Symmetry
CHECK_DEADLOCK FALSE
