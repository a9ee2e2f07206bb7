------------------------------ MODULE MCHubRound ------------------------------
(* HubRound for TLC: two agents of one operator and one of another, and two rounds:   *)
(* a hardened one, in which `twice` signs two conflicting ballots and `lone` votes    *)
(* again, so that records cut off by a kill may decide differently, and one about     *)
(* `twice`.                                                                           *)
EXTENDS HubRound

CONSTANTS vote, review, twice, mate, lone, acme, other

TwoOperators == [a \in {twice, mate, lone} |-> IF a = lone THEN other ELSE acme]

InPhase(phase, seq, value) ==
    [phase |-> phase, seq |-> seq, value |-> value, proposal |-> TRUE, snapshot |-> TRUE]
Plain(value) == InPhase("none", 0, value)

SignedBallots ==
    [r \in {vote, review} |-> [a \in {twice, mate, lone} |->
        CASE r = vote /\ a = twice -> {InPhase("prepare", 1, "yes"), InPhase("prepare", 1, "no")}
          [] r = vote /\ a = mate -> {InPhase("commit", 1, "no")}
          [] r = vote /\ a = lone -> {InPhase("prepare", 1, "yes"), InPhase("commit", 1, "no")}
          [] r = review /\ a = twice -> {Plain("yes")}
          [] OTHER -> {}]]

LoneDeclines == {<<review, lone>>}
Everyone == {twice, mate, lone}
Electorates ==
    [r \in {vote, review} |->
        IF r = vote THEN {[voters |-> Everyone, recused |-> {}]}
        ELSE {[voters |-> Everyone, recused |-> {}], [voters |-> {lone}, recused |-> {twice}]}]
TwoThenOne == [r \in {vote, review} |-> IF r = vote THEN 2 ELSE 1]

YesNo == <<"yes", "no">>
MajorityThenTwo ==
    [r \in {vote, review} |-> IF r = vote THEN "majority-of-total" ELSE "explicit"]
VoteExpires == [r \in {vote, review} |-> IF r = vote THEN 1 ELSE NoDeadline]
AboutTwice == [r \in {vote, review} |-> IF r = review THEN twice ELSE Nobody]
TwiceFirst == <<twice, mate, lone>>
=============================================================================
