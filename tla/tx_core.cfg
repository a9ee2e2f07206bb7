SPECIFICATION Spec
CONSTANTS
    t1 = t1
    p1 = p1
    t2 = t2
    Tasks = {t1, t2}
    Timed = {t1}
    Events = {t2}
    Performers = {p1}
    Held = {}
    Span = 0
    SeenTtl = 9
    MaxTime = 2
    MaxOffers = 2
    MaxKills = 1
    MaxPauses = 1
    Lossy = FALSE
INVARIANTS ClosedWithEvidence OneAnswerPerOffer
PROPERTIES ReopenedByAcceptOnly
CHECK_DEADLOCK FALSE
