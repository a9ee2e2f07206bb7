----------------------------- MODULE MCAllocation -----------------------------
(* Allocation for TLC: the coverage rule over three bidders, of which solo covers all *)
(* domains and the pair left, right only together, and a task whose announce excludes *)
(* the performers of another.                                                         *)
EXTENDS Allocation

CONSTANTS solo, left, right, t1, t2

\* The rule `coverage`: the smallest set that covers.
SmallestCover ==
    [S \in SUBSET {solo, left, right} |->
        IF solo \in S THEN {solo} ELSE IF {left, right} \subseteq S THEN {left, right} ELSE {}]

LeftEstimatedSecond == [t \in {t1, t2} |-> IF t = t2 THEN {left} ELSE {}]
SecondAfterFirst == [t \in {t1, t2} |-> IF t = t2 THEN {t1} ELSE {}]
=============================================================================
