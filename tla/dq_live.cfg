SPECIFICATION RuntimeSpec
CONSTANTS
    p1 = p1
    t1 = t1
    Peers = {p1}
    MaxItems = 2
    Ticks = {t1}
    Runs = {}
    Hubs = {}
    Stops = {}
    MaxAttempts = 2
    BackoffBase = 1
    BackoffCeiling = 2
    RetryAfters = {1, 2}
    MaxRounds = 2
    MaxTime = 8
    LastSend = 1
    MaxKills = 0
    MaxExits = 0
    Brisk = TRUE
    LoopOrder <- Loops
    Interval <- Intervals
    Jitters = {0, 1}
    Drivers = {"timers", "alarm"}
    Hosted <- TwoHubs
    PeersOf <- TwoPeers
    Posts = {"x"}
    Patience = 1
    Late = 1
    Longest = 1
    MaxThrows = 1
    Horizon = 5
INVARIANTS Surfaced ScheduleIsFair
PROPERTIES EverySettles DrainEnds
CHECK_DEADLOCK FALSE
