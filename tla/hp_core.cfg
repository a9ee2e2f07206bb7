SPECIFICATION Spec
CONSTANTS
    home = home
    away = away
    inst = inst
    ann = ann
    bob = bob
    Replicas = {home, away}
    Instances = {inst}
    Agents = {ann, bob}
    Acts = {"follow", "undo", "again", "ann1", "ann2", "bob1", "leave", "expel", "sold",
            "sold2", "doc1", "doc2", "note", "drop"}
    Act <- Signed
    Digest <- InOrder
    OperatedBy <- AllByInst
    Directs <- Scenarios
    Ratified <- RatifiedAtHome
    SeatRequired = TRUE
    Urgent = {}
    MaxOffers = 1
    Mortal = {away}
    MaxRestarts = 1
INVARIANTS MembersAreSeated ReplicasAgree HandsOn
PROPERTIES ReplaysChangeNothing
CHECK_DEADLOCK FALSE
