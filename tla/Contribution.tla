----------------------------- MODULE Contribution -----------------------------
(***************************************************************************)
(* The contribution summary of a period: hub/summary.ts, recomputed by     *)
(* verifier/summary.py over the merged bundles of a case.  A period is an  *)
(* interval of the hub's chain; the settlements in it name tasks, and the  *)
(* Results on the threads of those tasks are the work that is credited.    *)
(* Whoever holds a part of the record may sum it and publish the sum.      *)
(*                                                                         *)
(* Reductions: a thread is its task; the tasks were announced before the   *)
(* first period; every pool holds the hub's chain and the Enroll trail,    *)
(* and differs in the Results and supersessions it holds copies of.        *)
(***************************************************************************)
EXTENDS Integers, Sequences, FiniteSets, FiniteSetsExt, Functions

CONSTANTS
    Members,        \* operators, each with a bundle of its own
    Agents,
    Jobs,
    Works,          \* the Results that may be posted: [task, by, class, shares]
    Marks,          \* supersessions that may be posted: [task, by, class]
    Scopes,         \* afp:inputScope: sets of visibility classes
    FirstOperator,  \* whose an agent is when the record starts
    Payees,         \* whom the entries of a Settlement may name
    Moves,          \* Enrolls and Unenrolls that may come: [act, agent, operator]
    MaxMoves,       \* bound: how many come
    MaxSummaries,   \* bound
    LastInstant     \* bound: the clock

Classes == {"hub", "parties", "internal"}

\* createResult: a share for each author and for nobody else, positive integers; a sole
\* author has no split, and is the whole.
IsResult(w) ==
    /\ w.task \in Jobs /\ w.by \in Members /\ w.class \in Classes
    /\ DOMAIN w.shares \subseteq Agents /\ DOMAIN w.shares # {}
    /\ w.shares \in [DOMAIN w.shares -> Nat \ {0}]
    /\ \A a \in Agents : DOMAIN w.shares = {a} => w.shares[a] = 1

ASSUME ContributionAssumption ==
    /\ IsFiniteSet(Members) /\ IsFiniteSet(Agents)
    /\ \A w \in Works : IsResult(w)
    /\ \A k \in Marks : k.task \in Jobs /\ k.by \in Members /\ k.class \in Classes
    /\ \A c \in Scopes : c \subseteq Classes
    /\ FirstOperator \in [Agents -> Members]
    /\ \A p \in Payees : p \subseteq Agents
    /\ Moves \subseteq [act : {"Enroll", "Unenroll"}, agent : Agents, operator : Members]
    /\ MaxMoves \in Nat /\ MaxSummaries \in Nat /\ LastInstant \in Nat \ {0}

VARIABLES
    now,
    hubChain,   \* the hub's activities: [task, actors, at], a Settlement each
    copies,     \* which bundle holds which Result or supersession: [holder, item]
    trail,      \* Enroll and Unenroll: [act, agent, operator, at]
    summaries   \* published: [frame, totals, saw]

sumVars == <<now, hubChain, copies, trail, summaries>>

------------------------------------------------------------------------------
(* computeContribution *)

\* Mutant: a pool is summed as it is given.
AsGiven(C) == C

\* One copy of each activity, by digest, whoever held it.
Deduplicated(C) == {[item |-> c.item] : c \in C}

\* hubChainSlice: the interval (from, to] of the hub's chain.
Slice(frame) == frame.from + 1 .. frame.to

ClosesAt(frame) == IF Slice(frame) = {} THEN LastInstant ELSE hubChain[frame.to].at

\* The Enrolls of an agent published by the close; an Unenroll clears nothing.
EnrolledBy(agent, at) == {e \in trail : e.act = "Enroll" /\ e.agent = agent /\ e.at <= at}

\* operatorsAt: the operator of the last of them, or the agent's own name.
OperatorAt(agent, at) ==
    LET mine == EnrolledBy(agent, at) IN
    IF mine = {} THEN agent ELSE (CHOOSE e \in mine : \A f \in mine : f.at <= e.at).operator

\* The copies of Results that a settlement of the slice leads to.
ResultsOn(C, frame, s) ==
    {c \in Deduplicated(C) :
        /\ c.item \in Works /\ c.item.task = hubChain[s].task /\ c.item.class \in frame.scope}

\* The rows of credit: an author of a Result, through a settlement.
RowsOn(C, frame, s) ==
    {r \in [through : {s}, work : ResultsOn(C, frame, s), agent : Agents] :
        r.agent \in DOMAIN r.work.item.shares}
Rows(C, frame) == UNION {RowsOn(C, frame, s) : s \in Slice(frame)}

\* creditOf: the denominator of a Result is the sum of its shares, 1 of a sole author.
Whole(work) == SumFunction(work.shares)

\* lcmOf.
CommonDenominator(ds) ==
    Min({n \in 1..ProductSet(ds) : \A d \in ds : n % d = 0})

Denominator(C, frame) == CommonDenominator({Whole(r.work.item) : r \in Rows(C, frame)})

\* Every share over the common denominator, summed by the operator at the close.
Share(r, d) == (r.work.item.shares[r.agent] * d) \div Whole(r.work.item)
Earned(rows, frame, m) == {r \in rows : OperatorAt(r.agent, ClosesAt(frame)) = m}
Credited(C, frame) ==
    LET rows == Rows(C, frame)
        d == Denominator(C, frame) IN
    [m \in Members |-> SumFunction([r \in Earned(rows, frame, m) |-> Share(r, d)])]

\* Settlements of the slice without a Result in sight, counted for their actors.
Unseen(C, frame) == {s \in Slice(frame) : ResultsOn(C, frame, s) = {}}
Unreadable(C, frame) ==
    [m \in Members |->
        Cardinality({s \in Unseen(C, frame) :
                        \E a \in hubChain[s].actors : OperatorAt(a, ClosesAt(frame)) = m})]

\* Results of a thread with a supersession on it, of whatever class.
Superseded(C, task) == \E c \in C : c.item \in Marks /\ c.item.task = task
Qualified(C, frame) ==
    LET rows == {r \in Rows(C, frame) : Superseded(C, r.work.item.task)} IN
    [m \in Members |->
        Cardinality({<<r.through, r.work>> : r \in Earned(rows, frame, m)})]

\* The membership acts between the instants of the slice's ends.
Membership(frame) ==
    {e \in trail : Slice(frame) # {} /\ e.at >= hubChain[frame.from + 1].at
                                     /\ e.at <= hubChain[frame.to].at}

Inputs(C, frame) ==
    [settled |-> Slice(frame),
     works |-> UNION {{c.item : c \in ResultsOn(C, frame, s)} : s \in Slice(frame)}]

Compute(C, frame) ==
    [denominator |-> Denominator(C, frame), credited |-> Credited(C, frame),
     unreadable |-> Unreadable(C, frame), qualified |-> Qualified(C, frame),
     membership |-> Membership(frame), inputs |-> Inputs(C, frame)]

Frames ==
    {f \in [from : 0..Len(hubChain), to : 0..Len(hubChain), scope : Scopes] : f.from < f.to}

\* The bundles of some members, merged.
Merged(ms) == {c \in copies : c.holder \in ms}

\* recompute, which folds the same frame from its own reading of the decision record.
Recompute(frame) == Compute(Merged(Members), frame)

\* check_summary_arithmetic: the inputs, the entries with their denominator, the two
\* records that move no number, and a census that counts at least what is unreadable.
Recomputes(s) ==
    LET r == Recompute(s.frame) IN
    /\ s.totals.inputs = r.inputs
    /\ s.totals.credited = r.credited /\ s.totals.denominator = r.denominator
    /\ s.totals.qualified = r.qualified /\ s.totals.membership = r.membership
    /\ \A m \in Members : r.unreadable[m] > 0 => s.totals.unreadable[m] = r.unreadable[m]

\* What a pool holds on the threads settled in a period.
OnThreads(C, frame) ==
    {c.item : c \in {d \in C : \E s \in Slice(frame) : d.item.task = hubChain[s].task}}

------------------------------------------------------------------------------
PeriodInit ==
    /\ now = 1
    /\ hubChain = <<>>
    /\ copies = {}
    /\ trail = {[act |-> "Enroll", agent |-> a, operator |-> FirstOperator[a], at |-> 0] :
                a \in Agents}
    /\ summaries = {}

Wait ==
    /\ now < LastInstant
    /\ now' = now + 1
    /\ UNCHANGED <<hubChain, copies, trail, summaries>>

\* A Result or a supersession joins the thread, before the settlement or after it.
Post(i) ==
    /\ \A c \in copies : c.item # i
    /\ copies' = copies \cup {[holder |-> i.by, item |-> i]}
    /\ UNCHANGED <<now, hubChain, trail, summaries>>

\* A copy reaches another member, which the class of the activity lets read it.
Receive(m, c) ==
    /\ c.item.class # "internal"
    /\ [holder |-> m, item |-> c.item] \notin copies
    /\ copies' = copies \cup {[holder |-> m, item |-> c.item]}
    /\ UNCHANGED <<now, hubChain, trail, summaries>>

\* The hub settles a task once; its entries name those who were paid.
SettleTask(t, actors) ==
    /\ \A s \in DOMAIN hubChain : hubChain[s].task # t
    /\ hubChain' = Append(hubChain, [task |-> t, actors |-> actors, at |-> now])
    /\ UNCHANGED <<now, copies, trail, summaries>>

\* An agent leaves a hub, or is enrolled by another operator.
Move(e) ==
    /\ Cardinality(trail) < Cardinality(Agents) + MaxMoves
    /\ \A d \in trail : d.agent = e.agent => d.at # now
    /\ trail' = trail \cup {[act |-> e.act, agent |-> e.agent, operator |-> e.operator, at |-> now]}
    /\ UNCHANGED <<now, hubChain, copies, summaries>>

\* contributionSummary, by a member over what it holds.
Publish(m, frame) ==
    /\ Cardinality(summaries) < MaxSummaries
    /\ summaries' = summaries \cup
          {[frame |-> frame, totals |-> Compute(Merged({m}), frame),
            saw |-> OnThreads(Merged({m}), frame)]}
    /\ UNCHANGED <<now, hubChain, copies, trail>>

PeriodNext ==
    \/ Wait
    \/ \E i \in Works \cup Marks : Post(i)
    \/ \E m \in Members, c \in copies : Receive(m, c)
    \/ \E t \in Jobs, actors \in Payees : SettleTask(t, actors)
    \/ \E e \in Moves : Move(e)
    \/ \E m \in Members, frame \in Frames : Publish(m, frame)

PeriodSpec == PeriodInit /\ [][PeriodNext]_sumVars

------------------------------------------------------------------------------
(* Properties *)

\* Whatever part of the record is summed, no credit is lost or made up: the entries add
\* up to one whole per credited Result, and what cannot be read is counted.
CreditConserved ==
    \A ms \in SUBSET Members : \A f \in Frames :
        LET t == Compute(Merged(ms), f)
            paid == {p \in Slice(f) \X t.inputs.works : p[2].task = hubChain[p[1]].task} IN
        /\ SumFunction(t.credited) = t.denominator * Cardinality(paid)
        /\ \A s \in Slice(f) : \A a \in hubChain[s].actors :
              \/ \E p \in paid : p[1] = s
              \/ t.unreadable[OperatorAt(a, ClosesAt(f))] > 0

\* The sums of two adjoining periods are that of the whole, for an operator that had
\* the same agents at both closes.
PeriodsAdd ==
    \A f, g \in Frames :
        f.to = g.from /\ f.scope = g.scope =>
            LET whole == [f EXCEPT !.to = g.to]
                t == Compute(Merged(Members), whole)
                first == Compute(Merged(Members), f)
                second == Compute(Merged(Members), g) IN
            \A m \in Members :
                (\A a \in Agents : (OperatorAt(a, ClosesAt(f)) = m) <=> (OperatorAt(a, ClosesAt(g)) = m))
                => t.credited[m] * first.denominator * second.denominator
                      = t.denominator * (first.credited[m] * second.denominator
                                         + second.credited[m] * first.denominator)

\* A published summary recomputes from the merged bundles, in which Results are found
\* twice, as long as they hold no more on its threads than its author did, and the
\* trail did not move in the millisecond of the close.
SummaryRecomputes ==
    \A s \in summaries :
        OnThreads(Merged(Members), s.frame) = s.saw =>
            \/ Recomputes(s)
            \/ \E e \in trail : e.at = ClosesAt(s.frame)

\* The accounts add up: over any part of the record, over periods, and again later,
\* though agents leave and change hands after the close.
AccountsAddUp == CreditConserved /\ PeriodsAdd /\ SummaryRecomputes
=============================================================================
