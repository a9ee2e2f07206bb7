SPECIFICATION InstanceSpec
CONSTANTS
    Procs = {"s1", "s2", "k1", "k2", "b1", "r1"}
    Plans <- MCPlans
    MaxKills = 1
    Peers = {"p", "q"}
    Acts = {"pay", "wipe"}
    Refuses = {"wipe"}
    Lifetime = 1
    MaxNow = 2
    Hubs = {"h"}
    Crew = {"a"}
    MaxTrail = 4
    MaxHubRestarts = 1
    Approvers = {"c"}
    Actors = {"a", "b"}
    Authors = {"a", "b"}
    Rank <- MCRank
    LastInstant = 2
    Threads = {"t"}
    Decisions = {"d", "e"}
    Actions = {"ship", "hold"}
    MaxBook = 3
    MaxCalls = 2
    Demo = {"a"}
    Models = {"m1", "m2"}
    Versions <- MCVersions
    MaxEdits = 1
    MaxStarts = 3
    MaxDeeds = 1
    MaxDisowns = 1
INVARIANTS OneWriter ChainUnbroken RecordKeepsUp BackupRestores SeatEndsAgree DecidedOnce
    CharterHolds
PROPERTIES KeysKeepTheirWord NoActAfterReconciled
CHECK_DEADLOCK FALSE
