------------------------------ MODULE MCAccounts ------------------------------
(* For TLC: the auction, the arithmetic of an award and that of a period, each *)
(* over its own part of the record; a behaviour is about one of them.          *)
EXTENDS MCAllocation, SelectionRules, Contribution, TLC

CONSTANTS a, b, c, m1, m2
VARIABLE about

Order == (a :> 2) @@ (b :> 3) @@ (c :> 1)
Alphabetical == (a :> 1) @@ (b :> 2) @@ (c :> 3)
Bid(match, latency, covers) == [match |-> match, cost |-> 1, latency |-> latency, covers |-> covers]
SomeBids == {Bid(1, 2, {"x"}), Bid(2, Unparsed, {"y"}), Bid(1, 2, {"x", "y"}),
             Bid(3, 4, {})}
Weights(w, l, r) == [match |-> w, cost |-> -1, latency |-> l, reputation |-> r]
Rule(name, weights, domains) == [name |-> name, weights |-> weights, domains |-> domains]
SomeRules == {Rule("ranking", Weights(10, 0, 1), {}), Rule("ranking", Weights(3, -1, 0), {}),
              Rule("coverage", Weights(0, 0, 0), {"x", "y"})}
Entry(usable, est, act) == [usable |-> usable, est |-> est, act |-> act]
Of(e, f) == (a :> e) @@ (b :> f) @@ (c :> Entry(FALSE, 0, 0))
SomeEntries == {Of(Entry(TRUE, 3, 4), Entry(FALSE, 3, 4)), Of(Entry(TRUE, 2, 2), Entry(TRUE, 2, 9)),
                Of(Entry(FALSE, 0, 0), Entry(TRUE, 4, 4))}

SomeVindications == {{}, {b}}

Result(t, m, class, shares) == [task |-> t, by |-> m, class |-> class, shares |-> shares]
SomeWorks == {Result(t1, m2, "hub", (a :> 2) @@ (b :> 1)), Result(t2, m1, "parties", (a :> 1) @@ (b :> 1))}
SomeMarks == {[task |-> t1, by |-> m1, class |-> "parties"]}
SomeScopes == {{"hub"}, {"hub", "parties"}}
SomePayees == {{a, b}}
SomeMoves == {[act |-> "Enroll", agent |-> a, operator |-> m2],
              [act |-> "Unenroll", agent |-> b, operator |-> m2]}
Homes == (a :> m1) @@ (b :> m2)

\* The bids of an auction, the scores of its bidders, the sum of a period, and the
\* auction itself, from the announce to the settlement.
AccountsInit ==
    /\ Init /\ AwardInit /\ PeriodInit
    /\ about \in {"bids", "scores", "period", "auction"}

AccountsNext ==
    \/ /\ about = "bids" /\ AwardNext /\ ledger' = <<>>
       /\ UNCHANGED <<vars, sumVars, about>>
    \/ /\ about = "scores" /\ AwardNext /\ Cardinality({x \in Candidates : opened'[x] # NoBid}) <= 1
       /\ UNCHANGED <<vars, sumVars, about>>
    \/ about = "period" /\ PeriodNext /\ UNCHANGED <<vars, ruleVars, about>>
    \/ about = "auction" /\ Next /\ UNCHANGED <<ruleVars, sumVars, about>>

AccountsSpec == AccountsInit /\ [][AccountsNext]_<<vars, ruleVars, sumVars, about>>
=============================================================================
