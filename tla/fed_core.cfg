SPECIFICATION BoundarySpec
CONSTANTS
    a = a
    b = b
    c = c
    g1 = g1
    g2 = g2
    g3 = g3
    w1 = w1
    w2 = w2
    w3 = w3
    h = h
    Parties = {a, b, c}
    Agreements = {g1, g2, g3}
    Works = {w1, w2, w3}
    Hubs = {h}
    Between <- BetweenDef
    Expires <- ExpiresDef
    Grants <- GrantsDef
    Requester <- ByA
    Worker <- AtB
    Capability <- Caps
    Host <- HostDef
    Seated <- SeatedDef
    Proof <- ProofDef
    Audits <- AuditsDef
    Attached <- AttachedDef
    Plans <- Scenarios
    MaxNow = 3
    MaxAsking = 1
    MaxKills = 1
    Deliveries = {"d1", "d2"}
    Carries <- CarriesDef
    Known = {{"rfc9421", "cavage"}, {"cavage"}}
    Skew = 1
    KeepsFor = 1
    Capacity = 1
    Window = 2
    Budgets <- SomeBudgets
    LastTick = 3
    Exporters = {"A", "B"}
    Staff = {"p"}
    Pacts <- PactsDef
    Openness <- OpennessDef
    Duties <- DutiesDef
    Requests <- RequestsDef
    MaxActivities = 3
INVARIANTS CrossingsHold InFlightLands ReadsAreCovered DoorHolds
    LegacyForCause BundlesReplay
CHECK_DEADLOCK FALSE
