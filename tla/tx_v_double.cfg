SPECIFICATION Spec
CONSTANTS
    t1 = t1
    p1 = p1
    Tasks = {t1}
    Timed = {t1}
    Events = {}
    Performers = {p1}
    Held = {}
    Span = 0
    SeenTtl = 9
    MaxTime = 2
    MaxOffers = 2
    MaxKills = 0
    MaxPauses = 0
    Lossy = FALSE
INVARIANT OneExecution
CHECK_DEADLOCK FALSE
