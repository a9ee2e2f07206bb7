---------------------------- MODULE SelectionRules ----------------------------
(***************************************************************************)
(* How an award is computed: allocation/rules.ts and reputation.ts, as     *)
(* closeAuction calls them, beside what the replay recomputes from the     *)
(* record with code of its own, verifier/allocation.py and reputation.py.  *)
(*                                                                         *)
(* A hub settles past tasks, announces one with its rule, and bids are     *)
(* revealed.  A bidder's reputation comes from the settlements pinned in   *)
(* the announce, whatever is settled later.  Instants are those of the     *)
(* hub's clock; the announce is stamped when it is emitted, perhaps after  *)
(* the instant its snapshot was taken at.                                  *)
(***************************************************************************)
EXTENDS Integers, Sequences, FiniteSets, FiniteSetsExt, SequencesExt

CONSTANTS
    Candidates,
    Key,            \* tieBreak of the task and the bidder, as an order
    RowOf,          \* where bidsFor (ORDER BY bidder) lists a bidder
    Domains,
    Bids,           \* payloads: [match, cost, latency, covers]
    Rules,          \* [name, weights, domains]
    Entries,        \* what a settlement may say of the bidders
    Vindications,   \* bidders whose dissent it may vindicate
    Bonus,          \* dissentBonus
    MaxSettled,     \* bound: settlements
    MaxTime         \* bound: the clock

Unparsed == -1      \* a latency outside the PTnHnMnS subset: Infinity
NoBid == [match |-> 0, cost |-> 0, latency |-> 0, covers |-> {}]
NoRule == [name |-> "none", weights |-> [match |-> 0, cost |-> 0, latency |-> 0, reputation |-> 0],
           domains |-> {}]

\* bidPayload: what is under the commitment, of which a rule reads these fields.
IsPayload(p) ==
    /\ p.match \in Nat /\ p.cost \in Nat /\ p.latency \in Nat \cup {Unparsed}
    /\ p.covers \subseteq Domains /\ p # NoBid

\* The parameters of a rule are canonical JSON, whose numbers are integers.
IsRule(r) ==
    /\ r.weights \in [match : Int, cost : Int, latency : Int, reputation : Int]
    /\ r.domains \subseteq Domains

ASSUME RulesAssumption ==
    /\ IsFiniteSet(Candidates)
    /\ IsInjective(Key) /\ DOMAIN Key = Candidates /\ \A b \in Candidates : Key[b] \in Nat
    /\ RowOf \in [Candidates -> 1..Cardinality(Candidates)] /\ IsInjective(RowOf)
    /\ \A p \in Bids : IsPayload(p)
    /\ \A r \in Rules : IsRule(r)
    /\ NoRule \notin Rules
    /\ Entries \subseteq [Candidates -> [usable : BOOLEAN, est : Int, act : Int]]
    /\ Bonus \in Nat /\ MaxSettled \in Nat /\ MaxTime \in Nat \ {0}

VARIABLES
    clock,
    ledger,     \* the chain: Settlements in order, [at, digest, entry, vindicated]
    onFile,     \* alloc_settlement_records: the Settlements that have a row
    rule,       \* the rule of the announce
    pinned,     \* afp:settlementSnapshot, as positions in the ledger
    stamped,    \* the announce: instants the snapshot was taken and it was emitted
    opened      \* alloc_bids.reveal_json

ruleVars == <<clock, ledger, onFile, rule, pinned, stamped, opened>>

------------------------------------------------------------------------------
(* Reputation *)

\* Whether an entry compares two costs, and whether a settlement counts for a bidder:
\* with a usable entry, or by a vindicated dissent.
Usable(s, b) == ledger[s].entry[b].usable /\ ledger[s].entry[b].est > 0
Counts(s, b) == Usable(s, b) \/ b \in ledger[s].vindicated

\* The integer percent of the estimate that a usable entry leaves; full without one.
Accuracy(s, b) ==
    LET e == ledger[s].entry[b]
        off == IF e.act > e.est THEN e.act - e.est ELSE e.est - e.act
        missed == (100 * off) \div e.est
        kept == IF missed >= 100 THEN 0 ELSE 100 - missed IN
    IF Usable(s, b) THEN kept + (IF b \in ledger[s].vindicated THEN Bonus ELSE 0) ELSE 100

\* The order of the derivation: by instant, ties by digest.
Older(s, u) ==
    \/ ledger[s].at < ledger[u].at
    \/ ledger[s].at = ledger[u].at /\ ledger[s].digest < ledger[u].digest

\* decayNum = 1, decayDen = 2, over the common denominator.
Weight(S, s) == 2 ^ Cardinality({u \in S : Older(u, s)})

\* The settlements that weigh: those with an accuracy for the bidder.
Weighed(S, b) == {s \in S : Counts(s, b)}

\* divergenceDecay: the weighted mean, rounded down, and 50 for no history.
ScoreOver(S, b) ==
    LET of == Weighed(S, b)
        sum == SumFunction([s \in of |-> Weight(S, s) * Accuracy(s, b)]) IN
    IF of = {} THEN 50 ELSE sum \div SumFunction([s \in of |-> Weight(S, s)])

\* The Settlements whose digests the announce pinned.
Snapshot == pinned

Reputation(b) == ScoreOver(Snapshot, b)

------------------------------------------------------------------------------
(* Ranking *)

Revealed == {b \in Candidates : opened[b] # NoBid}

\* The published linear weights.  A weight of 0 adds nothing, whatever the field.
Endless(b) == rule.weights.latency # 0 /\ opened[b].latency = Unparsed
Finite(b) ==
    LET w == rule.weights IN
    w.match * opened[b].match + w.cost * opened[b].cost + w.reputation * Reputation(b)
        + (IF opened[b].latency = Unparsed THEN 0 ELSE w.latency * opened[b].latency)

\* Whether a score is higher; an infinite one has the sign of the weight.
Higher(a, b) ==
    \/ Endless(a) /\ ~Endless(b) /\ rule.weights.latency > 0
    \/ Endless(b) /\ ~Endless(a) /\ rule.weights.latency < 0
    \/ ~Endless(a) /\ ~Endless(b) /\ Finite(a) > Finite(b)

\* The comparator of the sort.  Two infinite scores differ by NaN, which is not 0, and
\* a sort takes for it.
Beats(a, b) ==
    \/ Higher(a, b)
    \/ /\ ~Higher(b, a) /\ ~(Endless(a) /\ Endless(b))
       /\ Key[a] < Key[b]

\* Mutant: equal scores are left in the order of the rows.
SortedByScore(a, b) == Higher(a, b) \/ (~Higher(b, a) /\ RowOf[a] < RowOf[b])

\* The sort is stable.
SortsBefore(a, b) == Beats(a, b) \/ (~Beats(b, a) /\ RowOf[a] < RowOf[b])

NoSelection == [performers |-> {}, synthesizer |-> {}]

Ranking(P) ==
    IF P = {} THEN NoSelection
    ELSE [performers |-> {CHOOSE a \in P : \A b \in P \ {a} : SortsBefore(a, b)},
          synthesizer |-> {}]

------------------------------------------------------------------------------
(* Coverage *)

Covers(b) == opened[b].covers \cap rule.domains
Covering(S) == rule.domains \subseteq UNION {Covers(b) : b \in S}

\* The comma-joined sorted keys of two sets of one size, compared: the least key that
\* only one of them has decides.
LowerKeys(S, T) ==
    LET differ == SymDiff(S, T) IN
    \E b \in differ \cap S : \A c \in differ : Key[b] <= Key[c]

\* The broadest of several performers, ties by key.
Broadest(S) ==
    LET above(a, b) == \/ Cardinality(Covers(a)) > Cardinality(Covers(b))
                       \/ Cardinality(Covers(a)) = Cardinality(Covers(b)) /\ Key[a] < Key[b] IN
    IF Cardinality(S) <= 1 THEN {} ELSE {a \in S : \A b \in S \ {a} : above(a, b)}

\* How many rows of a pool come before a bidder's, and the subset a mask stands for.
Index(P, b) == Cardinality({a \in P : RowOf[a] < RowOf[b]})
Masked(P, mask) == {b \in P : (mask \div 2 ^ Index(P, b)) % 2 = 1}

\* 1 << n, of 32 signed bits.
OneShifted(n) == IF n % 32 = 31 THEN -2147483647 - 1 ELSE 2 ^ (n % 32)

\* One turn of the enumeration.
Better(best, S) ==
    IF /\ Covering(S)
       /\ \/ best = {} \/ Cardinality(S) < Cardinality(best)
          \/ Cardinality(S) = Cardinality(best) /\ LowerKeys(S, best)
    THEN S ELSE best

Coverage(P) ==
    LET masks == [m \in 1..(OneShifted(Cardinality(P)) - 1) |-> m]
        best == FoldLeft(LAMBDA acc, m : Better(acc, Masked(P, m)), {}, masks) IN
    IF rule.domains = {} THEN NoSelection
    ELSE [performers |-> best, synthesizer |-> Broadest(best)]

\* runRule.
RunRule(P) == IF rule.name = "ranking" THEN Ranking(P) ELSE Coverage(P)

------------------------------------------------------------------------------
(* What the replay recomputes *)

\* select_ranking: the least of (-score, key).
SelectRanking(P) ==
    {a \in P : \A b \in P \ {a} : Higher(a, b) \/ (~Higher(b, a) /\ Key[a] < Key[b])}

\* select_coverage: the least of (size, keys) over the covering sets.
SelectCoverage(P) ==
    LET covering == {S \in SUBSET P : rule.domains # {} /\ S # {} /\ Covering(S)} IN
    UNION {S \in covering : \A T \in covering \ {S} :
              \/ Cardinality(S) < Cardinality(T)
              \/ Cardinality(S) = Cardinality(T) /\ LowerKeys(S, T)}

Recomputed(P) ==
    IF rule.name = "ranking" THEN [performers |-> SelectRanking(P), synthesizer |-> {}]
    ELSE [performers |-> SelectCoverage(P), synthesizer |-> Broadest(SelectCoverage(P))]

\* check_award: settlements of this hub before the announce that it does not pin.
Omitted ==
    {s \in DOMAIN ledger : ledger[s].at < stamped.emitted /\ s \notin pinned}

------------------------------------------------------------------------------
AwardInit ==
    /\ clock = 1
    /\ ledger = <<>> /\ onFile = {}
    /\ rule = NoRule /\ pinned = {} /\ stamped = [taken |-> 0, emitted |-> 0]
    /\ opened = [b \in Candidates |-> NoBid]

HubClock ==
    /\ clock < MaxTime
    /\ clock' = clock + 1
    /\ UNCHANGED <<ledger, onFile, rule, pinned, stamped, opened>>

\* settlement: the entries of the bidders, and whose dissent was vindicated.
Settlement(rank, entry, vindicated) ==
    [at |-> clock, digest |-> rank, entry |-> entry, vindicated |-> vindicated]

\* settle: the Settlement is emitted, then recorded by its digest.  A hub killed in
\* between, or one whose record is a replica's, has no row of it.
SettlePast(entry, vindicated, rank, row) ==
    /\ Len(ledger) < MaxSettled
    /\ \A s \in DOMAIN ledger : ledger[s].digest # rank
    /\ ledger' = Append(ledger, Settlement(rank, entry, vindicated))
    /\ onFile' = IF row THEN onFile \cup {Len(ledger')} ELSE onFile
    /\ UNCHANGED <<clock, rule, pinned, stamped, opened>>

\* Mutant: the table is read up to the settlements of the last millisecond but one.
RecordedBeforeLast(at) == {s \in onFile : ledger[s].at + 1 < at}

\* settlementRecordsBefore.
RecordedBefore(at) == {s \in onFile : ledger[s].at < at}

\* announce; a reputation weight asks for a reputation rule, with its snapshot.
AnnounceRule(r, emitted) ==
    /\ rule = NoRule
    /\ emitted \in clock..MaxTime
    /\ rule' = r
    /\ pinned' = RecordedBefore(clock)
    /\ stamped' = [taken |-> clock, emitted |-> emitted]
    /\ clock' = emitted
    /\ UNCHANGED <<ledger, onFile, opened>>

\* onReveal: a bid that was committed to is opened, also after the award.
OpenBid(b, p) ==
    /\ rule # NoRule /\ opened[b] = NoBid
    /\ opened' = [opened EXCEPT ![b] = p]
    /\ UNCHANGED <<clock, ledger, onFile, rule, pinned, stamped>>

AwardNext ==
    \/ HubClock
    \/ \E entry \in Entries, v \in Vindications, rank \in 1..MaxSettled, row \in BOOLEAN :
          SettlePast(entry, v, rank, row)
    \/ \E r \in Rules, emitted \in clock..MaxTime : AnnounceRule(r, emitted)
    \/ \E b \in Candidates, p \in Bids : OpenBid(b, p)

AwardSpec == AwardInit /\ [][AwardNext]_ruleVars

------------------------------------------------------------------------------
(* Properties *)

\* Every table holds what its columns may hold.
RulesTypeOK ==
    /\ clock \in 1..MaxTime
    /\ Len(ledger) <= MaxSettled
    /\ onFile \subseteq DOMAIN ledger /\ pinned \subseteq onFile
    /\ rule \in Rules \cup {NoRule}
    /\ opened \in [Candidates -> Bids \cup {NoBid}]

\* The writer's rules and the replay's, written apart, award any revealed pool alike,
\* whichever bidders a re-auction has left out of it, but where two bids tie at
\* infinity.
RulesAgree ==
    rule # NoRule =>
        \A P \in SUBSET Revealed :
            \/ RunRule(P) = Recomputed(P)
            \/ \E a, b \in P : a # b /\ Endless(a) /\ Endless(b)

\* A bid that does not win does not matter: left out, the award is the same.
LosersDoNotMatter ==
    rule # NoRule =>
        \A b \in Revealed \ RunRule(Revealed).performers :
            RunRule(Revealed \ {b}) = RunRule(Revealed)

\* A score is a mean of what was observed, of which the newest weighs at least as much
\* as all that is older; a bidder without a history scores 50.
NewestWeighsMost ==
    rule # NoRule =>
        \A b \in Candidates :
            LET seen == Weighed(pinned, b) IN
            IF seen = {} THEN Reputation(b) = 50
            ELSE \E newest, low, high \in seen :
                    /\ \A s \in seen \ {newest} : Older(s, newest)
                    /\ \A s \in seen : Accuracy(low, b) <= Accuracy(s, b)
                    /\ \A s \in seen : Accuracy(s, b) <= Accuracy(high, b)
                    /\ Reputation(b) >= (Accuracy(newest, b) + Accuracy(low, b)) \div 2
                    /\ Reputation(b) <= (Accuracy(newest, b) + Accuracy(high, b)) \div 2

\* The snapshot of an announce is exhaustive to a replay: it lacks only settlements
\* that never got their row, or of the millisecond in which it was taken.
SnapshotExhaustive ==
    rule # NoRule => \A s \in Omitted : s \notin onFile \/ ledger[s].at >= stamped.taken

\* The tables are well typed, and the history behind the scores is the newest there
\* was, exhaustive and weighed in order.
ScoresStand == RulesTypeOK /\ NewestWeighsMost /\ SnapshotExhaustive
\* An award is what a replay makes of the bids, and no more of them than matter.
AwardRecomputes == RulesAgree /\ LosersDoNotMatter
=============================================================================
