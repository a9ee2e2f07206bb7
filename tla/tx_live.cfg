SPECIFICATION FairSpec
CONSTANTS
    t1 = t1
    p1 = p1
    Tasks = {t1}
    Timed = {t1}
    Events = {}
    Performers = {p1}
    Held = {}
    Span = 0
    SeenTtl = 1
    MaxTime = 2
    MaxOffers = 1
    MaxKills = 1
    MaxPauses = 0
    Lossy = TRUE
PROPERTIES AnsweredIsReplayed WorkEnds
CHECK_DEADLOCK FALSE
