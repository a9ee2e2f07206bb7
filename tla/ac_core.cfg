SPECIFICATION AccountsSpec
CONSTANTS
    a = a
    b = b
    c = c
    solo = a
    left = b
    right = c
    m1 = m1
    m2 = m2
    t1 = t1
    t2 = t2
    Bidders = {a, b, c}
    Candidates = {a, b, c}
    Estimators <- LeftEstimatedSecond
    Wall <- SecondAfterFirst
    Choice <- SmallestCover
    MaxKills = 1
    Key <- Order
    RowOf <- Alphabetical
    Domains = {"x", "y"}
    Bids <- SomeBids
    Rules <- SomeRules
    Entries <- SomeEntries
    Vindications <- SomeVindications
    Bonus = 25
    MaxSettled = 2
    MaxTime = 2
    Members = {m1, m2}
    Agents = {a, b}
    Tasks = {t1, t2}
    Jobs = {t1, t2}
    Works <- SomeWorks
    Marks <- SomeMarks
    Scopes <- SomeScopes
    FirstOperator <- Homes
    Payees <- SomePayees
    Moves <- SomeMoves
    MaxMoves = 1
    MaxSummaries = 1
    LastInstant = 2
INVARIANTS AuctionInv Watched AwardRecomputes ScoresStand AccountsAddUp
CHECK_DEADLOCK FALSE
