------------------------------ MODULE HubRound ------------------------------
(***************************************************************************)
(* The decision rounds of one hub: hub/hub.ts over the hub_* tables.  A    *)
(* round pins its voters and their weights when it is proposed; members    *)
(* vote, re-vote or decline; a voter caught with two conflicting ballots   *)
(* is convicted and its weight zeroed in that round and later ones, until  *)
(* a decision restores it; the hub closes the round with a DecisionRecord  *)
(* that names the ballots it counted.                                      *)
(*                                                                         *)
(* Handlers are synchronous, so each is one step; no transaction spans the *)
(* statements of one, and the process may be killed between any two.       *)
(* Messages are delivered in any order, at any time, and again after a     *)
(* restart, since the ids the hub has seen are kept in memory.             *)
(*                                                                         *)
(* What agents sign is an input: Signed names the ballots each agent ever  *)
(* signs in each round, conflicting ones and re-votes included.            *)
(***************************************************************************)
EXTENDS Integers, Sequences, FiniteSets

CONSTANTS
    Rounds, Agents,
    Operator,       \* per agent: the effective operator it counts for
    Values,         \* what a vote may say, options or not
    Signed,         \* per round and agent: the ballots it signs
    Declining,      \* pairs of a round and an agent that rejects its proposal
    Asked,          \* per round: the electorates and recusals its caller may ask for
    Options,        \* the options of every proposal, in declared order
    Rule,           \* per round: afp:quorumRule's form, or "none"
    Threshold,      \* the bar of the form "explicit"
    Expires,        \* per round: afp:deadline, or NoDeadline
    Hardened,       \* rounds proposed with afp:level 1
    Subject,        \* per round: afp:governanceSubject, or Nobody
    Order,          \* the agents in the order of the membership set
    Mobile,         \* bound: agents whose seats move
    MaxTime,        \* bound: instants of the clock
    MaxRecords,     \* bound, per round: its DecisionRecords
    MaxKills        \* bound: times the process is killed

NoDeadline == -1
Nobody == "nobody"
Phases == {"prepare", "commit"}
Reasons == {"none", "expired", "threshold-not-met", "quorum-impossible",
            "electorate-exhausted"}
Forms == {"none", "majority-of-total", "two-thirds-of-total", "explicit"}

\* A vote; whether its afp:proposalHash and its afp:quorumSnapshot are those of its
\* round.  An L0 vote has no phase and no number.
Tuple == [phase : Phases, seq : Nat \ {0}, value : Values, proposal : BOOLEAN, snapshot : BOOLEAN]
Ballot == Tuple \cup [phase : {"none"}, seq : {0}, value : Values \cup {"none"},
                     proposal : BOOLEAN, snapshot : BOOLEAN]
NoBallot == [phase |-> "none", seq |-> 0, value |-> "none", proposal |-> FALSE, snapshot |-> FALSE]

ASSUME RoundAssumption ==
    /\ IsFiniteSet(Agents) /\ Nobody \notin Agents
    /\ Signed \in [Rounds -> [Agents -> SUBSET (Ballot \ {NoBallot})]]
    /\ Declining \subseteq Rounds \X Agents
    /\ Asked \in [Rounds -> SUBSET [voters : SUBSET Agents, recused : SUBSET Agents]]
    /\ {"none", "abstain", "no-decision"} \cap Values = {}
    /\ Options \in Seq(Values)
    /\ Rule \in [Rounds -> Forms]
    /\ Threshold \in Nat \ {0}
    /\ Expires \in [Rounds -> Nat \cup {NoDeadline}]
    /\ Hardened \subseteq Rounds
    /\ Subject \in [Rounds -> Agents \cup {Nobody}]
    /\ Order \in Seq(Agents)
    /\ Mobile \subseteq Agents
    /\ MaxTime \in Nat /\ MaxRecords \in [Rounds -> Nat] /\ MaxKills \in Nat

\* A DecisionRecord: the voters whose ballots it counts, those it lists as
\* uncounted because they said nothing, and, as history, the voters a proof on the
\* hub's record convicted in the round when it was signed.
Outcomes == Values \cup {"abstain", "no-decision"}
Decision == [outcome : Outcomes, reason : Reasons, counted : SUBSET Agents,
             backers : SUBSET Agents, silent : SUBSET Agents, known : SUBSET Agents]

VARIABLES
    status,     \* hub_rounds.status; "none" where there is no row
    created,    \* hub_rounds.created_at
    voters,     \* hub_rounds.voters_json
    weights,    \* hub_rounds.weights_json
    level,      \* rounds whose roundMeta register says level 1
    receipts,   \* hub_vote_receipts: the one ballot held per round and voter
    kept,       \* voteActivities: the ballot held per round, voter and phase
    declined,   \* hub_round_declines
    convicted,  \* hub_convictions
    restored,   \* hub_restorations: one per decision acted on
    decisions,  \* the chain: DecisionRecords per round, in order
    proofs,     \* the record: voters with an EquivocationProof per round
    members,    \* live member-role agents
    seen,       \* L0 votes dispatched since the process started; lost with it
    clock, kills

rows == <<status, created, voters, weights>>
ballots == <<receipts, kept, declined>>
verdicts == <<convicted, proofs>>
seats == <<members, restored>>
vars == <<rows, level, ballots, verdicts, seats, decisions, seen, clock, kills>>

------------------------------------------------------------------------------
(* The pinned electorate *)

OptionSet == {Options[i] : i \in DOMAIN Options}

\* One operator, one weight: lcm of the voters per operator, over this operator's.
Voting(S, a) == Cardinality({b \in S : Operator[b] = Operator[a]})
Divisible(S, n) == \A a \in S : n % Voting(S, a) = 0
CommonMultiple(S) ==
    LET most == 2 ^ (Cardinality(S) * Cardinality(S))       \* more than |S|!, hence enough
    IN  CHOOSE n \in 1..most : Divisible(S, n) /\ \A k \in 1..(n - 1) : ~Divisible(S, k)

\* Mutant: every voter weighs the same, whoever operates it.
UniformWeights(S) == [a \in S |-> 1]

\* voterWeights
Weights(S) == [a \in S |-> CommonMultiple(S) \div Voting(S, a)]

\* What the voters in T weigh together: the unit votes they have.
Sum(weigh, T) == Cardinality(UNION {{a} \X (1..weigh[a]) : a \in T})

\* Mutant: half of the weight is enough.
HalfOver(r, weigh) ==
    LET total == Sum(weigh, DOMAIN weigh) IN
    CASE Rule[r] = "majority-of-total" -> total \div 2
      [] Rule[r] = "two-thirds-of-total" -> (2 * total) \div 3
      [] OTHER -> Threshold

\* thresholdOf
BarOver(r, weigh) ==
    LET total == Sum(weigh, DOMAIN weigh) IN
    CASE Rule[r] = "majority-of-total" -> total \div 2 + 1
      [] Rule[r] = "two-thirds-of-total" -> (2 * total) \div 3 + 1
      [] OTHER -> Threshold

PastDeadline(r) == Expires[r] # NoDeadline /\ clock > Expires[r]

------------------------------------------------------------------------------
(* Convictions *)

IsTuple(b) == b.phase \in Phases

\* convicts(a, b), for two ballots of one voter in one round.
Convicts(b, c) ==
    /\ IsTuple(b) /\ IsTuple(c)
    /\ b.phase = c.phase /\ b.seq = c.seq
    /\ b.value # c.value \/ b.proposal # c.proposal

Restorations(a) == {s \in restored : Subject[s.round] = a}

\* isZeroedFor: convicted in this round or one created no later, and not restored
\* between the two.
Zeroed(r, a) ==
    \E c \in Rounds :
        /\ a \in convicted[c] /\ created[c] <= created[r]
        /\ ~\E s \in Restorations(a) : s.at >= created[c] /\ s.at < created[r]

------------------------------------------------------------------------------
(* Tallies *)

Held(r) == {a \in Agents : receipts[r][a] # NoBallot}
Counted(r) == {a \in Held(r) : ~Zeroed(r, a)}

\* tally: a voter not counted, or voting for no option, abstains.
Choice(r, a) ==
    IF receipts[r][a].value \in OptionSet /\ ~Zeroed(r, a)
    THEN receipts[r][a].value ELSE "abstain"
Backers(r, o) == {a \in voters[r] : Choice(r, a) = o}
Tally(r, o) == Sum(weights[r], Backers(r, o))

\* The i-th is the first of the highest, options in declared order before abstain.
Ranking == Append(Options, "abstain")
Leads(r, i) ==
    /\ \A j \in DOMAIN Ranking : Tally(r, Ranking[i]) >= Tally(r, Ranking[j])
    /\ \A j \in 1..(i - 1) : Tally(r, Ranking[j]) < Tally(r, Ranking[i])

\* With a rule the leader must reach the bar, and abstain never wins.
Clears(r, o) ==
    \/ Rule[r] = "none"
    \/ o # "abstain" /\ Tally(r, o) >= BarOver(r, weights[r])

\* Mutant: a convicted voter may still be heard from.
UnheardAll(r) == {a \in voters[r] : receipts[r][a] = NoBallot \/ Zeroed(r, a)}

\* Those who may still be heard.
Unheard(r) == {a \in voters[r] : receipts[r][a] = NoBallot /\ ~Zeroed(r, a)}

\* doomed: no option can reach the bar any more.
Doomed(r) ==
    /\ Rule[r] # "none" /\ Options # <<>>
    /\ LET missing == BarOver(r, weights[r]) - Sum(weights[r], Unheard(r))
       IN  \A o \in OptionSet : Tally(r, o) < missing

------------------------------------------------------------------------------
Init ==
    /\ status = [r \in Rounds |-> "none"]
    /\ created = [r \in Rounds |-> 0]
    /\ voters = [r \in Rounds |-> {}]
    /\ weights = [r \in Rounds |-> <<>>]
    /\ level = {}
    /\ receipts = [r \in Rounds |-> [a \in Agents |-> NoBallot]]
    /\ kept = [r \in Rounds |->
                 [a \in Agents |-> [p \in Phases |-> [ballot |-> NoBallot, at |-> 0]]]]
    /\ declined = [r \in Rounds |-> {}]
    /\ convicted = [r \in Rounds |-> {}]
    /\ restored = {}
    /\ decisions = [r \in Rounds |-> <<>>]
    /\ proofs = [r \in Rounds |-> {}]
    /\ members = Agents
    /\ seen = {}
    /\ clock = 1
    /\ kills = 0

Killed ==
    /\ kills < MaxKills
    /\ kills' = kills + 1
    /\ seen' = {}
    /\ UNCHANGED clock

Running == UNCHANGED <<seen, clock, kills>>

------------------------------------------------------------------------------
(* Opening a round *)

\* recusalResolves: convicted, on the record or in the table, or the round's subject.
Recusable(r) ==
    {a \in Agents : a = Subject[r] \/ \E c \in Rounds : a \in convicted[c] \cup proofs[c]}

\* The electorate cannot reach the bar once recusals are taken out; only then is
\* the question asked.
Exhausted(r, S, recused) ==
    /\ recused # {}
    /\ LET weigh == Weights(S) IN
       IF Rule[r] = "none" THEN S = {} ELSE Sum(weigh, S) < BarOver(r, weigh)

\* The caller names voters among the live members and recuses some; it uses a round
\* id once.
MayPropose(r, S, recused) ==
    /\ status[r] = "none"
    /\ S \subseteq members \ recused
    /\ recused \subseteq Recusable(r)

OpenRow(r, S) ==
    /\ created' = [created EXCEPT ![r] = clock]
    /\ voters' = [voters EXCEPT ![r] = S]
    /\ weights' = [weights EXCEPT ![r] = Weights(S)]

\* The DecisionRecord of a round whose electorate was exhausted when it opened.
ExhaustedRecord(S) ==
    [outcome |-> "no-decision", reason |-> "electorate-exhausted", counted |-> {},
     backers |-> {}, silent |-> S, known |-> {}]

\* proposeRound.  An exhausted electorate is closed in the same call.
Propose(r, S, recused) ==
    /\ MayPropose(r, S, recused)
    /\ OpenRow(r, S)
    /\ level' = IF r \in Hardened THEN level \cup {r} ELSE level
    /\ LET spent == Exhausted(r, S, recused) IN
       /\ status' = [status EXCEPT ![r] = IF spent THEN "closed" ELSE "open"]
       /\ decisions' = IF spent THEN [decisions EXCEPT ![r] = Append(@, ExhaustedRecord(S))]
                       ELSE decisions
    /\ UNCHANGED <<ballots, verdicts, seats>> /\ Running

\* Killed after saveRound, before the level reaches its register or the exhausted
\* round is saved as closed.  (Before saveRound, nobody can vote on the proposal.)
KilledInPropose(r, S, recused) ==
    /\ MayPropose(r, S, recused)
    /\ Killed
    /\ OpenRow(r, S)
    /\ status' = [status EXCEPT ![r] = "open"]
    /\ \/ UNCHANGED <<level, decisions>>
       \/ /\ level' = IF r \in Hardened THEN level \cup {r} ELSE level
          /\ Exhausted(r, S, recused)
          /\ decisions' \in {decisions, [decisions EXCEPT ![r] = Append(@, ExhaustedRecord(S))]}
    /\ UNCHANGED <<ballots, verdicts, seats>>

------------------------------------------------------------------------------
(* Voting *)

\* The early returns of onVote: the round is open, the voter pinned, the ballot names
\* the proposal and the snapshot, the deadline has not passed, and a hardened round
\* wants a tuple.
Admissible(r, a, b) ==
    /\ b \in Signed[r][a] /\ <<r, a, b>> \notin seen
    /\ status[r] = "open"
    /\ a \in voters[r]
    /\ b.proposal /\ b.snapshot
    /\ ~PastDeadline(r)
    /\ r \in level => IsTuple(b)

\* The id of an L0 vote keeps a copy of it from being counted; a tuple has its number.
Dispatched(r, a, b) ==
    /\ seen' = IF IsTuple(b) THEN seen ELSE seen \cup {<<r, a, b>>}
    /\ UNCHANGED <<clock, kills>>

Prior(r, a, b) == kept[r][a][b.phase].ballot
Rank(b) == IF b.phase = "commit" THEN 1 ELSE 0

\* An earlier phase arrives after a later one was counted.
Backwards(r, a, b) ==
    LET counted == receipts[r][a] IN IsTuple(counted) /\ Rank(b) < Rank(counted)

\* Neither a copy nor older than the ballot kept for its phase.
Supersedes(r, a, b) == IsTuple(b) => b.seq > Prior(r, a, b).seq

\* rememberVoteActivity: a register, so a ballot of the same instant does not replace.
Remember(r, a, b) ==
    kept' = IF IsTuple(b) /\ (Prior(r, a, b) = NoBallot \/ kept[r][a][b.phase].at < clock)
            THEN [kept EXCEPT ![r][a][b.phase] = [ballot |-> b, at |-> clock]] ELSE kept

CountVote(r, a, b) ==
    /\ Admissible(r, a, b)
    /\ Supersedes(r, a, b)
    /\ ~(IsTuple(b) /\ Backwards(r, a, b))
    /\ receipts' = [receipts EXCEPT ![r][a] = b]
    /\ Remember(r, a, b)
    /\ Dispatched(r, a, b)
    /\ UNCHANGED <<rows, level, declined, verdicts, seats, decisions>>

KeepVote(r, a, b) ==
    /\ Admissible(r, a, b)
    /\ Supersedes(r, a, b)
    /\ IsTuple(b) /\ Backwards(r, a, b)
    /\ Remember(r, a, b)
    /\ Dispatched(r, a, b)
    /\ UNCHANGED <<rows, level, receipts, declined, verdicts, seats, decisions>>

\* Killed after saveVoteReceipt, before the ballot is kept as material for a proof.
KilledInVote(r, a, b) ==
    /\ Admissible(r, a, b)
    /\ Supersedes(r, a, b)
    /\ ~(IsTuple(b) /\ Backwards(r, a, b))
    /\ Killed
    /\ receipts' = [receipts EXCEPT ![r][a] = b]
    /\ UNCHANGED <<rows, level, kept, declined, verdicts, seats, decisions>>

\* The ballot conflicts with the one kept for its phase, and nobody has said so yet.
Caught(r, a, b) ==
    /\ Admissible(r, a, b)
    /\ IsTuple(b) /\ Convicts(Prior(r, a, b), b)
    /\ a \notin convicted[r]

\* publishEquivocationAndZero.
Convict(r, a, b) ==
    /\ Caught(r, a, b)
    /\ proofs' = [proofs EXCEPT ![r] = @ \cup {a}]
    /\ convicted' = [convicted EXCEPT ![r] = @ \cup {a}]
    /\ Dispatched(r, a, b)
    /\ UNCHANGED <<rows, level, ballots, seats, decisions>>

\* Killed between publishing the proof and recording the conviction.
KilledInConvict(r, a, b) ==
    /\ Caught(r, a, b)
    /\ Killed
    /\ proofs' = [proofs EXCEPT ![r] = @ \cup {a}]
    /\ UNCHANGED <<rows, level, ballots, convicted, seats, decisions>>

\* The ballots a proof about this round may embed.
Evidence(r, a) == Signed[r][a]

\* onEquivocationProofAnnounce: a member assembles the proof, of an open round or not.
AnnounceProof(r, a) ==
    /\ status[r] # "none"
    /\ a \in voters[r] /\ a \notin convicted[r]
    /\ \E b, c \in Evidence(r, a) : Convicts(b, c)
    /\ proofs' = [proofs EXCEPT ![r] = @ \cup {a}]
    /\ convicted' = [convicted EXCEPT ![r] = @ \cup {a}]
    /\ UNCHANGED <<rows, level, ballots, seats, decisions>> /\ Running

\* Mutant: a round is declined whether it is open or not.
DeclineLate(r, a) ==
    /\ <<r, a>> \in Declining
    /\ a \in voters[r] \ declined[r]
    /\ declined' = [declined EXCEPT ![r] = @ \cup {a}]
    /\ UNCHANGED <<rows, level, receipts, kept, verdicts, seats, decisions>> /\ Running

\* onRoundDecline.
Decline(r, a) ==
    /\ status[r] = "open"
    /\ <<r, a>> \in Declining
    /\ a \in voters[r] \ declined[r]
    /\ declined' = [declined EXCEPT ![r] = @ \cup {a}]
    /\ UNCHANGED <<rows, level, receipts, kept, verdicts, seats, decisions>> /\ Running

------------------------------------------------------------------------------
(* Closing *)

RecordOf(r, outcome, reason) ==
    [outcome |-> outcome, reason |-> reason, counted |-> Counted(r),
     backers |-> Backers(r, outcome), silent |-> (voters[r] \ Counted(r)) \ declined[r],
     known |-> proofs[r]]

\* The record of a round whose leader is o.
ClosingRecord(r, o) ==
    IF Clears(r, o) THEN RecordOf(r, o, "none")
    ELSE RecordOf(r, "no-decision", IF PastDeadline(r) THEN "expired" ELSE "threshold-not-met")

DoomRecord(r) == RecordOf(r, "no-decision", "quorum-impossible")

Published(r, record) == decisions' = [decisions EXCEPT ![r] = Append(@, record)]

\* finishClose: the record is published, then the round is saved as closed.
Finish(r, record) ==
    /\ Published(r, record)
    /\ status' = [status EXCEPT ![r] = "closed"]
    /\ UNCHANGED <<created, voters, weights, level, ballots, verdicts, seats>>

MayClose(r) ==
    /\ status[r] # "none"
    /\ Len(decisions[r]) < MaxRecords[r]

\* closeRound does not ask whether the round is still open.
CloseRound(r) ==
    /\ MayClose(r)
    /\ \E i \in DOMAIN Ranking : Leads(r, i) /\ Finish(r, ClosingRecord(r, Ranking[i]))
    /\ Running

DemandClose(r) ==
    /\ MayClose(r)
    /\ status[r] = "open"
    /\ Doomed(r)
    /\ Finish(r, DoomRecord(r))
    /\ Running

\* Killed between the two statements of finishClose.
KilledInClose(r) ==
    /\ MayClose(r)
    /\ Killed
    /\ \/ \E i \in DOMAIN Ranking : Leads(r, i) /\ Published(r, ClosingRecord(r, Ranking[i]))
       \/ status[r] = "open" /\ Doomed(r) /\ Published(r, DoomRecord(r))
    /\ UNCHANGED <<rows, level, ballots, verdicts, seats>>

------------------------------------------------------------------------------
(* Acting on a decision *)

\* onMembershipActuation: a seated member, a DecisionRecord of this hub, and the
\* subject of its round; the outcome is not asked for.
MayActuate(r, n) ==
    /\ members # {}
    /\ n \in DOMAIN decisions[r]
    /\ Subject[r] # Nobody

Expel(r, n) ==
    /\ MayActuate(r, n)
    /\ Subject[r] \in members
    /\ members' = members \ {Subject[r]}
    /\ UNCHANGED <<rows, level, ballots, verdicts, restored, decisions>> /\ Running

\* recordRestoration: the first act on a decision counts.
Admit(r, n) ==
    /\ MayActuate(r, n)
    /\ ~\E s \in restored : s.round = r /\ s.number = n
    /\ restored' = restored \cup {[round |-> r, number |-> n, at |-> clock]}
    /\ UNCHANGED <<rows, level, ballots, verdicts, members, decisions>> /\ Running

------------------------------------------------------------------------------
(* Seats, time *)

Enroll(a) ==
    /\ a \in Mobile \ members
    /\ members' = members \cup {a}
    /\ UNCHANGED <<rows, level, ballots, verdicts, restored, decisions>> /\ Running

Unenroll(a) ==
    /\ a \in Mobile \cap members
    /\ members' = members \ {a}
    /\ UNCHANGED <<rows, level, ballots, verdicts, restored, decisions>> /\ Running

Kill ==
    /\ Killed
    /\ UNCHANGED <<rows, level, ballots, verdicts, seats, decisions>>

Tick ==
    /\ clock < MaxTime
    /\ clock' = clock + 1
    /\ UNCHANGED <<rows, level, ballots, verdicts, seats, decisions, seen, kills>>

Vote(r, a, b) ==
    \/ CountVote(r, a, b) \/ KeepVote(r, a, b) \/ Convict(r, a, b)
    \/ KilledInVote(r, a, b) \/ KilledInConvict(r, a, b)

Next ==
    \/ \E r \in Rounds :
        \/ \E q \in Asked[r] :
              Propose(r, q.voters, q.recused) \/ KilledInPropose(r, q.voters, q.recused)
        \/ \E a \in Agents :
              \/ \E b \in Signed[r][a] : Vote(r, a, b)
              \/ AnnounceProof(r, a) \/ Decline(r, a)
        \/ CloseRound(r) \/ DemandClose(r) \/ KilledInClose(r)
        \/ \E n \in DOMAIN decisions[r] : Expel(r, n) \/ Admit(r, n)
    \/ \E a \in Agents : Enroll(a) \/ Unenroll(a)
    \/ Kill \/ Tick

Spec == Init /\ [][Next]_vars

------------------------------------------------------------------------------
(* Properties *)

\* Every table and register holds what it may hold, and nothing of an agent that
\* the round did not pin (hub.ts onVote, onRoundDecline).
TypeOK ==
    /\ status \in [Rounds -> {"none", "open", "closed"}]
    /\ created \in [Rounds -> Nat]
    /\ voters \in [Rounds -> SUBSET Agents]
    /\ DOMAIN weights = Rounds /\ \A r \in Rounds : DOMAIN weights[r] = voters[r]
    /\ level \subseteq Rounds
    /\ receipts \in [Rounds -> [Agents -> Ballot]]
    /\ kept \in [Rounds -> [Agents -> [Phases -> [ballot : Ballot, at : Nat]]]]
    /\ declined \in [Rounds -> SUBSET Agents]
    /\ convicted \in [Rounds -> SUBSET Agents]
    /\ restored \subseteq [round : Rounds, number : Nat, at : Nat]
    /\ decisions \in [Rounds -> Seq(Decision)]
    /\ proofs \in [Rounds -> SUBSET Agents]
    /\ members \subseteq Agents
    /\ seen \subseteq Rounds \X Agents \X Ballot
    /\ clock \in Nat /\ kills \in Nat
    /\ \A r \in Rounds : Held(r) \cup declined[r] \cup convicted[r] \subseteq voters[r]
    /\ \A r \in Rounds : status[r] = "none" => voters[r] = {}

\* Nobody loses its weight who did not sign two conflicting ballots in that very
\* round, whatever arrives twice, late or out of order, and whatever is announced.
ConvictionsBacked ==
    \A r \in Rounds : \A a \in convicted[r] :
        \E b, c \in Signed[r][a] : Convicts(b, c)

\* A restoration looks forward: no act of a member, and no round opened since, gives
\* a zeroed voter its weight back in a round that was open before.
RestorationsLookForward ==
    [][\A r \in Rounds : status[r] # "none" =>
          \A a \in Agents : Zeroed(r, a) => Zeroed(r, a)']_vars

\* A DecisionRecord counts no voter whose equivocation in the round was on record
\* when it was signed, unless the process was killed between the proof and its row.
CountsNoConvicted ==
    kills = 0 =>
        \A r \in Rounds : \A n \in DOMAIN decisions[r] :
            decisions[r][n].counted \cap decisions[r][n].known = {}

\* One operator, one weight: with a majority rule, no operator decides alone a round
\* that pins voters of another one.
NoOperatorDecidesAlone ==
    \A r \in Rounds : \A n \in DOMAIN decisions[r] :
        LET d == decisions[r][n] IN
        /\ Rule[r] = "majority-of-total" /\ d.outcome # "no-decision"
        /\ Cardinality({Operator[a] : a \in voters[r]}) > 1
        => Cardinality({Operator[a] : a \in d.backers}) > 1

\* A doomed round stays doomed while it is open, unless a voter already heard from
\* replaces its ballot: no late vote, conviction or restoration brings it back.
DoomLiftedOnlyByRevote ==
    [][\A r \in Rounds :
          status[r] = "open" /\ Doomed(r) /\ ~Doomed(r)' =>
              \E a \in voters[r] : a \in Counted(r) /\ receipts'[r][a] # receipts[r][a]]_vars

\* A round closed again, or whose close was cut off by a kill, may get a second
\* DecisionRecord; it decides otherwise only if a voter behind the first one changed
\* its ballot: the bar leaves no room for two disjoint quorums, whoever was convicted.
QuorumsIntersect ==
    \A r \in Rounds : \A n, k \in DOMAIN decisions[r] :
        LET d == decisions[r][n]
            e == decisions[r][k]
        IN  /\ Rule[r] \in {"majority-of-total", "two-thirds-of-total"}
            /\ {d.outcome, e.outcome} \subseteq OptionSet
            /\ d.outcome # e.outcome
            => d.backers \cap e.backers # {}

\* The successor that hub.ts derives from its tables, and the one a reader derives
\* from the signed record: the first voter in order neither convicted in the round
\* nor silent in it.  The stalled round's proposer is the hub, which is no voter.
FirstOf(S) ==
    IF \E i \in DOMAIN Order : Order[i] \in S
    THEN Order[CHOOSE i \in DOMAIN Order :
                 Order[i] \in S /\ \A j \in 1..(i - 1) : Order[j] \notin S]
    ELSE Nobody

Successor(r) == FirstOf({a \in voters[r] \ convicted[r] : a \in Held(r) \cup declined[r]})

\* Once a round is closed, the live view and the signed one of who was silent agree
\* (hub.ts:1358) and name one successor, however late votes, declines and proofs come;
\* but for a voter zeroed by an earlier round, whom the record lists as silent even if
\* it voted.
SuccessorAgrees ==
    \A r \in Rounds :
        /\ status[r] = "closed" /\ Len(decisions[r]) = 1 /\ kills = 0
        /\ \A a \in voters[r] : Zeroed(r, a) => a \in convicted[r]
        => Successor(r) = FirstOf((voters[r] \ convicted[r]) \ decisions[r][1].silent)

\* The inductive invariant behind ConvictionsBacked, RestorationsLookForward,
\* CountsNoConvicted and SuccessorAgrees.
\* No round is opened in the future; a ballot kept as material for a proof was signed
\* for its round.
RowsInOrder == \A r \in Rounds : created[r] <= clock
KeptSigned ==
    \A r \in Rounds : \A a \in Agents : \A p \in Phases :
        kept[r][a][p].ballot \in Signed[r][a] \cup {NoBallot}

\* While the process was not killed, proof and conviction are one, a round that is not
\* closed has no record, and the record of one closed once lists as silent whoever was
\* not heard, and nobody else but for the zeroed.
VerdictsMatch == kills = 0 => proofs = convicted
RecordMatches(r) ==
    /\ status[r] # "closed" => decisions[r] = <<>>
    /\ status[r] = "closed" /\ Len(decisions[r]) = 1 =>
           \A a \in voters[r] :
               /\ a \notin Held(r) \cup declined[r] => a \in decisions[r][1].silent
               /\ a \in decisions[r][1].silent =>
                      a \notin declined[r] /\ (a \notin Held(r) \/ Zeroed(r, a))
RecordsMatch == kills = 0 => \A r \in Rounds : RecordMatches(r)

RoundInv ==
    /\ TypeOK /\ RowsInOrder /\ KeptSigned /\ ConvictionsBacked
    /\ VerdictsMatch /\ CountsNoConvicted /\ RecordsMatch

\* The inductive invariant behind QuorumsIntersect, NoOperatorDecidesAlone and
\* DoomLiftedOnlyByRevote: a round's weights are those of the voters it pinned, and a
\* record that decides by a rule names an option whose pinned backers reach the bar.
Reached(r, d) ==
    Rule[r] # "none" /\ d.outcome # "no-decision" =>
        /\ d.outcome # "abstain" /\ d.backers \subseteq voters[r]
        /\ Sum(weights[r], d.backers) >= BarOver(r, weights[r])
BarsMet ==
    \A r \in Rounds :
        /\ IF status[r] = "none" THEN decisions[r] = <<>> ELSE weights[r] = Weights(voters[r])
        /\ \A n \in DOMAIN decisions[r] : Reached(r, decisions[r][n])
=============================================================================
