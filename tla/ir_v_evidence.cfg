SPECIFICATION Spec
CONSTANTS
    Procs = {"s1", "s2", "k1", "k2", "b1", "r1"}
    Plans <- Evidence
    MaxKills = 0
    Peers = {"p"}
    Acts = {"pay"}
    Refuses = {}
    Lifetime = 1
    MaxNow = 2
INVARIANTS
    NoRevocationUnsigns
CHECK_DEADLOCK FALSE
