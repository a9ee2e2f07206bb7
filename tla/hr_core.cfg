SPECIFICATION Spec
CONSTANTS
    vote = vote
    review = review
    twice = twice
    mate = mate
    lone = lone
    acme = acme
    other = other
    Rounds = {vote, review}
    Agents = {twice, mate, lone}
    Operator <- TwoOperators
    Signed <- SignedBallots
    Declining <- LoneDeclines
    Asked <- Electorates
    Values = {"yes", "no"}
    Options <- YesNo
    Rule <- MajorityThenTwo
    Threshold = 2
    Expires <- VoteExpires
    Hardened = {vote}
    Subject <- AboutTwice
    Order <- TwiceFirst
    Mobile = {twice}
    MaxTime = 2
    MaxRecords <- TwoThenOne
    MaxKills = 1
INVARIANTS RoundInv QuorumsIntersect NoOperatorDecidesAlone
PROPERTIES DoomLiftedOnlyByRevote
CHECK_DEADLOCK FALSE
