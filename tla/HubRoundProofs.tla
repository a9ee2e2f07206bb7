---------------------------- MODULE HubRoundProofs ----------------------------
(***************************************************************************)
(* Proofs about HubRound, for any rounds, agents, operators, ballots,      *)
(* rules, deadlines and number of kills.  What a step may do to a round    *)
(* is stated in a few lemmas; the invariant follows from those.            *)
(***************************************************************************)
EXTENDS HubRound, FiniteSetTheorems, FunctionTheorems, WellFoundedInduction, TLAPS

------------------------------------------------------------------------------
(* Types *)

\* A ballot that an agent signed is a ballot.
LEMMA SignedTyped ==
    ASSUME NEW r \in Rounds, NEW a \in Agents, NEW b \in Signed[r][a]
    PROVE  b \in Ballot /\ b # NoBallot /\ (IsTuple(b) => b.phase \in Phases)
BY RoundAssumption DEF RoundAssumption, IsTuple

\* The empty receipt is a ballot too.
LEMMA NoBallotTyped == NoBallot \in Ballot
BY Zenon DEF NoBallot, Ballot

\* What is held of a typed state, and who is counted.
LEMMA CountedTyped ==
    ASSUME NEW r \in Rounds
    PROVE  /\ Held(r) \in SUBSET Agents /\ Counted(r) \in SUBSET Agents
           /\ Counted(r) \subseteq Held(r)
BY DEF Held, Counted

\* Whatever may lead a round is an outcome of a DecisionRecord.
LEMMA RankingTyped ==
    ASSUME NEW i \in DOMAIN Ranking
    PROVE  Ranking[i] \in Outcomes
<1>1. Options \in Seq(Outcomes)
    BY RoundAssumption DEF RoundAssumption, Outcomes
<1> QED BY <1>1 DEF Ranking, Outcomes

\* A record made from a typed state is a DecisionRecord.
LEMMA RecordTyped ==
    ASSUME TypeOK, NEW r \in Rounds, NEW o \in Outcomes, NEW reason \in Reasons
    PROVE  RecordOf(r, o, reason) \in Decision
<1>1. voters[r] \in SUBSET Agents /\ proofs[r] \in SUBSET Agents
    BY DEF TypeOK
<1>2. Backers(r, o) \in SUBSET Agents
    BY <1>1 DEF Backers
<1> QED BY <1>1, <1>2, CountedTyped DEF RecordOf, Decision

\* So is the record of a round that is closed, whatever its leader,
LEMMA ClosingRecordTyped ==
    ASSUME TypeOK, NEW r \in Rounds, NEW o \in Outcomes
    PROVE  ClosingRecord(r, o) \in Decision
BY RecordTyped DEF ClosingRecord, Outcomes, Reasons

\* the record of a round that no option can win any more,
LEMMA DoomRecordTyped ==
    ASSUME TypeOK, NEW r \in Rounds
    PROVE  DoomRecord(r) \in Decision
BY RecordTyped DEF DoomRecord, Outcomes, Reasons

\* and that of a round whose electorate was exhausted when it opened.
LEMMA ExhaustedRecordTyped ==
    ASSUME NEW S \in SUBSET Agents
    PROVE  ExhaustedRecord(S) \in Decision
BY DEF ExhaustedRecord, Decision, Outcomes, Reasons

\* Publishing a record keeps the chain typed.
LEMMA PublishedTyped ==
    ASSUME TypeOK, NEW r \in Rounds, NEW record \in Decision, Published(r, record)
    PROVE  decisions' \in [Rounds -> Seq(Decision)]
<1>1. decisions[r] \in Seq(Decision)
    BY DEF TypeOK
<1>2. Append(decisions[r], record) \in Seq(Decision)
    BY <1>1
<1> QED BY <1>2 DEF Published, TypeOK

\* The electorate's table of a round that opens.
LEMMA OpenRowTyped ==
    ASSUME TypeOK, NEW r \in Rounds, NEW S \in SUBSET Agents, OpenRow(r, S)
    PROVE  /\ created' \in [Rounds -> Nat] /\ voters' \in [Rounds -> SUBSET Agents]
           /\ DOMAIN weights' = Rounds /\ \A q \in Rounds : DOMAIN weights'[q] = voters'[q]
<1>1. DOMAIN Weights(S) = S
    BY DEF Weights
<1> QED BY <1>1 DEF OpenRow, TypeOK

\* A ballot that is remembered keeps the register typed.
LEMMA RememberTyped ==
    ASSUME TypeOK, NEW r \in Rounds, NEW a \in Agents, NEW b \in Signed[r][a], Remember(r, a, b)
    PROVE  kept' \in [Rounds -> [Agents -> [Phases -> [ballot : Ballot, at : Nat]]]]
<1>1. [ballot |-> b, at |-> clock] \in [ballot : Ballot, at : Nat]
    BY SignedTyped DEF TypeOK
<1>2. CASE UNCHANGED kept
    BY <1>2 DEF TypeOK
<1>3. CASE /\ IsTuple(b)
           /\ kept' = [kept EXCEPT ![r][a][b.phase] = [ballot |-> b, at |-> clock]]
    BY <1>1, <1>3, SignedTyped DEF TypeOK
<1> QED BY <1>2, <1>3 DEF Remember

\* What a round has before anything of it is known.
LEMMA NothingHeld ==
    ASSUME TypeOK, NEW r \in Rounds, status[r] = "none"
    PROVE  voters[r] = {} /\ Held(r) = {} /\ declined[r] = {} /\ convicted[r] = {}
BY DEF TypeOK

\* The empty tables are typed.
LEMMA InitTyped == Init => TypeOK
<1> SUFFICES ASSUME Init PROVE TypeOK
    OBVIOUS
<1>1. receipts \in [Rounds -> [Agents -> Ballot]]
    BY NoBallotTyped DEF Init
<1>2. [ballot |-> NoBallot, at |-> 0] \in [ballot : Ballot, at : Nat]
    BY NoBallotTyped
<1>3. kept \in [Rounds -> [Agents -> [Phases -> [ballot : Ballot, at : Nat]]]]
    BY <1>2 DEF Init
<1>4. \A r \in Rounds : Held(r) = {}
    BY DEF Init, Held
<1>5. DOMAIN weights = Rounds /\ \A r \in Rounds : DOMAIN weights[r] = voters[r]
    BY DEF Init
<1>6. restored \subseteq [round : Rounds, number : Nat, at : Nat]
    BY DEF Init
<1>7. decisions \in [Rounds -> Seq(Decision)]
    BY DEF Init
<1> QED BY <1>1, <1>3, <1>4, <1>5, <1>6, <1>7 DEF Init, TypeOK

\* A proposal opens a row for the voters it pins and touches no other round.
LEMMA ProposeTyped ==
    ASSUME TypeOK, NEW r \in Rounds, NEW S \in SUBSET Agents, NEW recused \in SUBSET Agents,
           \/ Propose(r, S, recused)
           \/ KilledInPropose(r, S, recused)
    PROVE  TypeOK'
<1>1. OpenRow(r, S) /\ status[r] = "none"
    BY DEF Propose, KilledInPropose, MayPropose
<1>2. /\ UNCHANGED <<ballots, verdicts, seats>>
      /\ clock' = clock /\ kills' \in Nat /\ seen' \subseteq seen
    BY DEF Propose, KilledInPropose, Running, Killed, TypeOK
<1>3. level' \subseteq Rounds
    BY RoundAssumption DEF RoundAssumption, Propose, KilledInPropose, TypeOK
<1>4. /\ status' \in [Rounds -> {"none", "open", "closed"}]
      /\ \A q \in Rounds : status'[q] = "none" => q # r /\ status[q] = "none"
    <2>1. \/ status' = [status EXCEPT ![r] = "open"]
          \/ status' = [status EXCEPT ![r] = "closed"]
        <3>1. CASE Propose(r, S, recused)
            <4>1. CASE Exhausted(r, S, recused)
                BY <3>1, <4>1 DEF Propose
            <4>2. CASE ~Exhausted(r, S, recused)
                BY <3>1, <4>2 DEF Propose
            <4> QED BY <4>1, <4>2
        <3>2. CASE KilledInPropose(r, S, recused)
            BY <3>2 DEF KilledInPropose
        <3> QED BY <3>1, <3>2
    <2> QED BY <2>1 DEF TypeOK
<1>5. decisions' \in [Rounds -> Seq(Decision)]
    <2>1. Append(decisions[r], ExhaustedRecord(S)) \in Seq(Decision)
        BY ExhaustedRecordTyped DEF TypeOK
    <2>2. \/ UNCHANGED decisions
          \/ decisions' = [decisions EXCEPT ![r] = Append(@, ExhaustedRecord(S))]
        <3>1. CASE Propose(r, S, recused)
            <4>1. CASE Exhausted(r, S, recused)
                BY <3>1, <4>1 DEF Propose
            <4>2. CASE ~Exhausted(r, S, recused)
                BY <3>1, <4>2 DEF Propose
            <4> QED BY <4>1, <4>2
        <3>2. CASE KilledInPropose(r, S, recused)
            <4>1. CASE UNCHANGED <<level, decisions>>
                BY <4>1
            <4>2. CASE decisions' \in {decisions,
                         [decisions EXCEPT ![r] = Append(@, ExhaustedRecord(S))]}
                BY <4>2
            <4> QED BY <3>2, <4>1, <4>2 DEF KilledInPropose
        <3> QED BY <3>1, <3>2
    <2>3. CASE UNCHANGED decisions
        BY <2>3 DEF TypeOK
    <2>4. CASE decisions' = [decisions EXCEPT ![r] = Append(@, ExhaustedRecord(S))]
        BY <2>1, <2>4 DEF TypeOK
    <2> QED BY <2>2, <2>3, <2>4
<1>6. \A q \in Rounds : Held(q)' = Held(q)
    BY <1>2 DEF Held, ballots
<1>7. \A q \in Rounds : q # r => voters'[q] = voters[q]
    BY <1>1 DEF OpenRow, TypeOK
<1>8. \A q \in Rounds : Held(q)' \cup declined'[q] \cup convicted'[q] \subseteq voters'[q]
    BY <1>1, <1>2, <1>6, <1>7, NothingHeld DEF TypeOK, ballots, verdicts
<1> QED BY <1>1, <1>2, <1>3, <1>4, <1>5, <1>7, <1>8, OpenRowTyped
        DEF TypeOK, ballots, verdicts, seats

\* A ballot that is counted or kept is one of a pinned voter.
LEMMA VoteTyped ==
    ASSUME TypeOK, NEW r \in Rounds, NEW a \in Agents, NEW b \in Signed[r][a],
           CountVote(r, a, b) \/ KeepVote(r, a, b) \/ KilledInVote(r, a, b)
    PROVE  TypeOK'
<1>1. a \in voters[r] /\ b \in Ballot
    BY SignedTyped DEF CountVote, KeepVote, KilledInVote, Admissible
<1>2. UNCHANGED <<rows, level, declined, verdicts, seats, decisions>>
    BY DEF CountVote, KeepVote, KilledInVote
<1>3. clock' = clock /\ kills' \in Nat /\ seen' \subseteq Rounds \X Agents \X Ballot
    <2>1. <<r, a, b>> \in Rounds \X Agents \X Ballot
        BY <1>1
    <2>2. CASE Dispatched(r, a, b)
        <3>1. CASE IsTuple(b)
            BY <2>2, <3>1 DEF Dispatched, TypeOK
        <3>2. CASE ~IsTuple(b)
            BY <2>1, <2>2, <3>2 DEF Dispatched, TypeOK
        <3> QED BY <3>1, <3>2
    <2>3. CASE Killed
        BY <2>3 DEF Killed, TypeOK
    <2> QED BY <2>2, <2>3 DEF CountVote, KeepVote, KilledInVote
<1>4. kept' \in [Rounds -> [Agents -> [Phases -> [ballot : Ballot, at : Nat]]]]
    <2>1. Remember(r, a, b) \/ kept' = kept
        BY DEF CountVote, KeepVote, KilledInVote
    <2> QED BY <2>1, RememberTyped DEF TypeOK
<1>5. receipts' = receipts \/ receipts' = [receipts EXCEPT ![r][a] = b]
    BY DEF CountVote, KeepVote, KilledInVote
<1>6. receipts' \in [Rounds -> [Agents -> Ballot]]
    <2>1. CASE receipts' = [receipts EXCEPT ![r][a] = b]
        <3>1. receipts[r] \in [Agents -> Ballot]
            BY DEF TypeOK
        <3>2. [receipts[r] EXCEPT ![a] = b] \in [Agents -> Ballot]
            BY <1>1, <3>1
        <3> QED BY <2>1, <3>2 DEF TypeOK
    <2> QED BY <1>5, <2>1 DEF TypeOK
<1>7. \A q \in Rounds : Held(q)' \subseteq Held(q) \cup {x \in {a} : q = r}
    BY <1>5 DEF Held, TypeOK
<1>8. \A q \in Rounds : Held(q)' \cup declined'[q] \cup convicted'[q] \subseteq voters'[q]
    BY <1>1, <1>2, <1>7 DEF TypeOK, rows, verdicts
<1> QED BY <1>2, <1>3, <1>4, <1>6, <1>8 DEF TypeOK, rows, verdicts, seats

\* Whoever is convicted was pinned.
LEMMA VerdictTyped ==
    ASSUME TypeOK, NEW r \in Rounds, NEW a \in Agents,
           \/ \E b \in Signed[r][a] : Convict(r, a, b) \/ KilledInConvict(r, a, b)
           \/ AnnounceProof(r, a)
    PROVE  TypeOK'
<1>1. a \in voters[r]
    BY DEF Convict, KilledInConvict, AnnounceProof, Caught, Admissible
<1>2. UNCHANGED <<rows, level, ballots, seats, decisions>>
    BY DEF Convict, KilledInConvict, AnnounceProof
<1>3. clock' = clock /\ kills' \in Nat /\ seen' \subseteq Rounds \X Agents \X Ballot
    <2>1. CASE \E b \in Signed[r][a] : Dispatched(r, a, b)
        <3>1. PICK b \in Signed[r][a] : Dispatched(r, a, b)
            BY <2>1
        <3>2. <<r, a, b>> \in Rounds \X Agents \X Ballot
            BY SignedTyped
        <3>3. CASE IsTuple(b)
            BY <3>1, <3>3 DEF Dispatched, TypeOK
        <3>4. CASE ~IsTuple(b)
            BY <3>1, <3>2, <3>4 DEF Dispatched, TypeOK
        <3> QED BY <3>3, <3>4
    <2>2. CASE Killed
        BY <2>2 DEF Killed, TypeOK
    <2>3. CASE Running
        BY <2>3 DEF Running, TypeOK
    <2> QED BY <2>1, <2>2, <2>3 DEF Convict, KilledInConvict, AnnounceProof
<1>4. /\ proofs' = [proofs EXCEPT ![r] = @ \cup {a}]
      /\ convicted' = convicted \/ convicted' = [convicted EXCEPT ![r] = @ \cup {a}]
    BY DEF Convict, KilledInConvict, AnnounceProof
<1>5. /\ proofs' \in [Rounds -> SUBSET Agents]
      /\ convicted' \in [Rounds -> SUBSET Agents]
      /\ \A q \in Rounds : convicted'[q] \subseteq convicted[q] \cup {x \in {a} : q = r}
    <2>1. proofs' \in [Rounds -> SUBSET Agents]
        BY <1>4 DEF TypeOK
    <2>2. CASE convicted' = convicted
        BY <2>1, <2>2 DEF TypeOK
    <2>3. CASE convicted' = [convicted EXCEPT ![r] = @ \cup {a}]
        <3>1. convicted[r] \cup {a} \in SUBSET Agents
            BY DEF TypeOK
        <3> QED BY <2>1, <2>3, <3>1 DEF TypeOK
    <2> QED BY <1>4, <2>2, <2>3
<1>6. \A q \in Rounds : Held(q)' = Held(q)
    BY <1>2 DEF Held, ballots
<1>7. \A q \in Rounds : Held(q)' \cup declined'[q] \cup convicted'[q] \subseteq voters'[q]
    BY <1>1, <1>2, <1>5, <1>6 DEF TypeOK, rows, ballots
<1> QED BY <1>2, <1>3, <1>5, <1>7 DEF TypeOK, rows, ballots, seats

\* Only a pinned voter declines.
LEMMA DeclineTyped ==
    ASSUME TypeOK, NEW r \in Rounds, NEW a \in Agents, Decline(r, a)
    PROVE  TypeOK'
<1>1. /\ UNCHANGED <<rows, level, receipts, kept, verdicts, seats, decisions, seen, clock, kills>>
      /\ declined' = [declined EXCEPT ![r] = @ \cup {a}] /\ a \in voters[r]
    BY DEF Decline, Running
<1>2. /\ declined' \in [Rounds -> SUBSET Agents]
      /\ \A q \in Rounds : declined'[q] \subseteq declined[q] \cup {x \in {a} : q = r}
    BY <1>1 DEF TypeOK
<1>3. \A q \in Rounds : Held(q)' \cup declined'[q] \cup convicted'[q] \subseteq voters'[q]
    BY <1>1, <1>2 DEF TypeOK, Held, rows, verdicts
<1> QED BY <1>1, <1>2, <1>3 DEF TypeOK, rows, verdicts, seats

\* What closing a round publishes, and what else it changes.
LEMMA CloseEffect ==
    ASSUME TypeOK, NEW r \in Rounds,
           CloseRound(r) \/ DemandClose(r) \/ KilledInClose(r)
    PROVE  /\ \E o \in Outcomes : \E reason \in Reasons : Published(r, RecordOf(r, o, reason))
           /\ UNCHANGED <<created, voters, weights, level, ballots, verdicts, seats, clock>>
           /\ \/ /\ status' = [status EXCEPT ![r] = "closed"] /\ UNCHANGED <<seen, kills>>
              \/ status' = status /\ Killed
<1>1. ASSUME NEW o \in Outcomes, Published(r, ClosingRecord(r, o))
      PROVE  \E p \in Outcomes : \E reason \in Reasons : Published(r, RecordOf(r, p, reason))
    BY <1>1 DEF ClosingRecord, Outcomes, Reasons
<1>2. Published(r, DoomRecord(r)) =>
          \E p \in Outcomes : \E reason \in Reasons : Published(r, RecordOf(r, p, reason))
    BY DEF DoomRecord, Outcomes, Reasons
<1>3. CASE CloseRound(r)
    BY <1>1, <1>3, RankingTyped DEF CloseRound, Finish, Running
<1>4. CASE DemandClose(r)
    BY <1>2, <1>4 DEF DemandClose, Finish, Running
<1>5. CASE KilledInClose(r)
    BY <1>1, <1>2, <1>5, RankingTyped DEF KilledInClose, Killed, rows
<1> QED BY <1>3, <1>4, <1>5

\* A round closes with a DecisionRecord.
LEMMA CloseTyped ==
    ASSUME TypeOK, NEW r \in Rounds,
           CloseRound(r) \/ DemandClose(r) \/ KilledInClose(r)
    PROVE  TypeOK'
<1>1. decisions' \in [Rounds -> Seq(Decision)]
    BY CloseEffect, RecordTyped, PublishedTyped
<1>2. UNCHANGED <<created, voters, weights, level, ballots, verdicts, seats, clock>>
    BY CloseEffect
<1>3. kills' \in Nat /\ seen' \subseteq Rounds \X Agents \X Ballot
    <2>1. UNCHANGED <<seen, kills>> \/ Killed
        BY CloseEffect
    <2> QED BY <2>1 DEF Killed, TypeOK
<1>4. /\ status' \in [Rounds -> {"none", "open", "closed"}]
      /\ \A q \in Rounds : status'[q] = "none" => status[q] = "none"
    BY CloseEffect DEF TypeOK
<1>5. \A q \in Rounds : Held(q)' = Held(q)
    BY <1>2 DEF Held, ballots
<1> QED BY <1>1, <1>2, <1>3, <1>4, <1>5 DEF TypeOK, ballots, verdicts, seats

\* Acts on a decision, moves of a seat, kills and ticks touch no round.
LEMMA SeatsTyped ==
    ASSUME TypeOK,
           \/ \E r \in Rounds : \E n \in DOMAIN decisions[r] : Expel(r, n) \/ Admit(r, n)
           \/ \E a \in Agents : Enroll(a) \/ Unenroll(a)
           \/ Kill \/ Tick
    PROVE  TypeOK'
<1>1. UNCHANGED <<rows, level, ballots, verdicts, decisions>>
    BY DEF Expel, Admit, Enroll, Unenroll, Kill, Tick, seats
<1>2. clock' \in Nat /\ kills' \in Nat /\ seen' \subseteq seen
    BY DEF Expel, Admit, Enroll, Unenroll, Kill, Tick, Killed, Running, TypeOK
<1>3. members' \subseteq Agents
    BY DEF Expel, Admit, Enroll, Unenroll, Kill, Tick, seats, TypeOK
<1>4. restored' \subseteq [round : Rounds, number : Nat, at : Nat]
    <2>1. CASE \E r \in Rounds : \E n \in DOMAIN decisions[r] : Admit(r, n)
        <3>1. PICK r \in Rounds : \E n \in DOMAIN decisions[r] : Admit(r, n)
            BY <2>1
        <3>2. PICK n \in DOMAIN decisions[r] : Admit(r, n)
            BY <3>1
        <3>3. n \in Nat
            BY DEF TypeOK
        <3> QED BY <3>2, <3>3 DEF Admit, TypeOK
    <2>2. CASE UNCHANGED restored
        BY <2>2 DEF TypeOK
    <2> QED BY <2>1, <2>2 DEF Expel, Enroll, Unenroll, Kill, Tick, seats
<1>5. \A q \in Rounds : Held(q)' = Held(q)
    BY <1>1 DEF Held, ballots
<1> QED BY <1>1, <1>2, <1>3, <1>4, <1>5 DEF TypeOK, rows, ballots, verdicts

\* A step of Next is one of these.
LEMMA NextCases ==
    ASSUME Next
    PROVE  \/ \E r \in Rounds : \E q \in Asked[r] :
                 Propose(r, q.voters, q.recused) \/ KilledInPropose(r, q.voters, q.recused)
           \/ \E r \in Rounds : \E a \in Agents : \E b \in Signed[r][a] :
                 CountVote(r, a, b) \/ KeepVote(r, a, b) \/ KilledInVote(r, a, b)
           \/ \E r \in Rounds : \E a \in Agents :
                 \/ \E b \in Signed[r][a] : Convict(r, a, b) \/ KilledInConvict(r, a, b)
                 \/ AnnounceProof(r, a)
           \/ \E r \in Rounds : \E a \in Agents : Decline(r, a)
           \/ \E r \in Rounds : CloseRound(r) \/ DemandClose(r) \/ KilledInClose(r)
           \/ \/ \E r \in Rounds : \E n \in DOMAIN decisions[r] : Expel(r, n) \/ Admit(r, n)
              \/ \E a \in Agents : Enroll(a) \/ Unenroll(a)
              \/ Kill \/ Tick
BY Zenon DEF Next, Vote

\* What a proposal asks for is a set of agents.
LEMMA AskedTyped ==
    ASSUME NEW r \in Rounds, NEW q \in Asked[r]
    PROVE  q.voters \in SUBSET Agents /\ q.recused \in SUBSET Agents
BY RoundAssumption DEF RoundAssumption

\* Every step keeps the types.
LEMMA StepTyped == TypeOK /\ [Next]_vars => TypeOK'
<1> SUFFICES ASSUME TypeOK, [Next]_vars PROVE TypeOK'
    OBVIOUS
<1>1. CASE Next
    BY <1>1, NextCases, AskedTyped, ProposeTyped, VoteTyped, VerdictTyped, DeclineTyped,
       CloseTyped, SeatsTyped
<1>2. CASE UNCHANGED vars
    BY <1>2 DEF vars, rows, ballots, verdicts, seats, TypeOK, Held
<1> QED BY <1>1, <1>2

\* Every table and register of the hub holds what it may hold, and nothing of an
\* agent that the round did not pin.
THEOREM TypeCorrect == Spec => []TypeOK
BY InitTyped, StepTyped, PTL DEF Spec

------------------------------------------------------------------------------
(* What any step does to the table of rounds, to convictions and restorations *)

\* A round opens once, at the time of the clock, which never goes back.
LEMMA RowsStep ==
    ASSUME TypeOK, Next
    PROVE  /\ clock' \in Nat /\ clock <= clock'
           /\ \A q \in Rounds : status[q] # "none" =>
                  created'[q] = created[q] /\ voters'[q] = voters[q] /\ status'[q] # "none"
           /\ \A q \in Rounds : created'[q] \in {created[q], clock}
<1>1. ASSUME NEW r \in Rounds, NEW S, NEW recused,
             Propose(r, S, recused) \/ KilledInPropose(r, S, recused)
      PROVE  /\ OpenRow(r, S) /\ status[r] = "none" /\ clock' = clock
             /\ \A q \in Rounds : q # r => status'[q] = status[q]
    <2>1. \E x : status' = [status EXCEPT ![r] = x]
        BY <1>1 DEF Propose, KilledInPropose
    <2> QED BY <1>1, <2>1 DEF Propose, KilledInPropose, MayPropose, Running, Killed, TypeOK
<1>2. CASE \E r \in Rounds : \E q \in Asked[r] :
               Propose(r, q.voters, q.recused) \/ KilledInPropose(r, q.voters, q.recused)
    <2>1. PICK r \in Rounds : \E S :
              /\ OpenRow(r, S) /\ status[r] = "none" /\ clock' = clock
              /\ \A q \in Rounds : q # r => status'[q] = status[q]
        BY <1>1, <1>2
    <2> QED BY <2>1 DEF OpenRow, TypeOK
<1>3. CASE \E r \in Rounds : CloseRound(r) \/ DemandClose(r) \/ KilledInClose(r)
    <2>1. PICK r \in Rounds : CloseRound(r) \/ DemandClose(r) \/ KilledInClose(r)
        BY <1>3
    <2>2. /\ UNCHANGED <<created, voters, clock>>
          /\ status' = [status EXCEPT ![r] = "closed"] \/ status' = status
        BY <2>1, CloseEffect
    <2> QED BY <2>2 DEF TypeOK
<1>4. CASE UNCHANGED rows /\ (UNCHANGED clock \/ clock' = clock + 1)
    BY <1>4 DEF rows, TypeOK
<1>5. CASE \E r \in Rounds : \E a \in Agents :
               \/ \E b \in Signed[r][a] : \/ CountVote(r, a, b) \/ KeepVote(r, a, b)
                                          \/ KilledInVote(r, a, b)
                                          \/ Convict(r, a, b) \/ KilledInConvict(r, a, b)
               \/ AnnounceProof(r, a) \/ Decline(r, a)
    BY <1>4, <1>5 DEF CountVote, KeepVote, KilledInVote, Convict, KilledInConvict,
       AnnounceProof, Decline, Dispatched, Killed, Running
<1>6. CASE \/ \E r \in Rounds : \E n \in DOMAIN decisions[r] : Expel(r, n) \/ Admit(r, n)
           \/ \E a \in Agents : Enroll(a) \/ Unenroll(a)
           \/ Kill \/ Tick
    BY <1>4, <1>6 DEF Expel, Admit, Enroll, Unenroll, Kill, Tick, Killed, Running
<1> QED BY <1>2, <1>3, <1>5, <1>6, NextCases

\* A conviction stays, and a restoration is dated by the clock.
LEMMA VerdictsStep ==
    ASSUME TypeOK, Next
    PROVE  /\ \A q \in Rounds : convicted[q] \subseteq convicted'[q]
           /\ \A s \in restored' : s \in restored \/ s.at = clock
<1>1. CASE UNCHANGED <<convicted, restored>>
    BY <1>1
<1>2. CASE \E r \in Rounds : \E q \in Asked[r] :
               Propose(r, q.voters, q.recused) \/ KilledInPropose(r, q.voters, q.recused)
    BY <1>1, <1>2 DEF Propose, KilledInPropose, verdicts, seats
<1>3. CASE \E r \in Rounds : CloseRound(r) \/ DemandClose(r) \/ KilledInClose(r)
    BY <1>1, <1>3, CloseEffect DEF verdicts, seats
<1>4. CASE \E r \in Rounds : \E a \in Agents :
               \/ \E b \in Signed[r][a] : \/ CountVote(r, a, b) \/ KeepVote(r, a, b)
                                          \/ KilledInVote(r, a, b)
               \/ Decline(r, a)
    BY <1>1, <1>4 DEF CountVote, KeepVote, KilledInVote, Decline, verdicts, seats
<1>5. CASE \E r \in Rounds : \E a \in Agents :
               \/ \E b \in Signed[r][a] : Convict(r, a, b) \/ KilledInConvict(r, a, b)
               \/ AnnounceProof(r, a)
    <2>1. /\ UNCHANGED restored
          /\ \/ UNCHANGED convicted
             \/ \E r \in Rounds, a \in Agents : convicted' = [convicted EXCEPT ![r] = @ \cup {a}]
        BY <1>5 DEF Convict, KilledInConvict, AnnounceProof, seats
    <2>2. ASSUME NEW r \in Rounds, NEW a \in Agents,
                 convicted' = [convicted EXCEPT ![r] = @ \cup {a}]
          PROVE  \A q \in Rounds : convicted[q] \subseteq convicted'[q]
        BY <2>2 DEF TypeOK
    <2> QED BY <2>1, <2>2
<1>6. CASE \E r \in Rounds : \E n \in DOMAIN decisions[r] : Expel(r, n) \/ Admit(r, n)
    BY <1>6 DEF Expel, Admit, verdicts
<1>7. CASE (\E a \in Agents : Enroll(a) \/ Unenroll(a)) \/ Kill \/ Tick
    BY <1>1, <1>7 DEF Enroll, Unenroll, Kill, Tick, verdicts, seats
<1> QED BY <1>2, <1>3, <1>4, <1>5, <1>6, <1>7, NextCases

\* A voter zeroed in a round stays zeroed in it: what restores it comes after.
LEMMA ZeroedStays ==
    ASSUME TypeOK, RowsInOrder, Next,
           NEW r \in Rounds, NEW a \in Agents, status[r] # "none", Zeroed(r, a)
    PROVE  Zeroed(r, a)'
<1>1. PICK c \in Rounds :
          /\ a \in convicted[c] /\ created[c] <= created[r]
          /\ ~\E s \in Restorations(a) : s.at >= created[c] /\ s.at < created[r]
    BY DEF Zeroed
<1>2. status[c] # "none"
    BY <1>1, NothingHeld
<1>3. created'[c] = created[c] /\ created'[r] = created[r] /\ a \in convicted'[c]
    BY <1>1, <1>2, RowsStep, VerdictsStep
<1>4. ASSUME NEW s \in Restorations(a)', s.at >= created[c], s.at < created[r]
      PROVE  FALSE
    <2>1. s \in restored' /\ Subject[s.round] = a
        BY <1>4 DEF Restorations
    <2>2. CASE s \in restored
        BY <1>1, <1>4, <2>1, <2>2 DEF Restorations
    <2>3. CASE s.at = clock
        BY <1>4, <2>3 DEF RowsInOrder, TypeOK
    <2> QED BY <2>1, <2>2, <2>3, VerdictsStep
<1> QED BY <1>1, <1>3, <1>4 DEF Zeroed

\* A voter convicted in a round is zeroed in it.
LEMMA ConvictedZeroed ==
    ASSUME TypeOK, NEW r \in Rounds, NEW a \in convicted[r]
    PROVE  Zeroed(r, a)
<1>1. created[r] \in Nat
    BY DEF TypeOK
<1>2. created[r] <= created[r]
    BY <1>1
<1>3. \A s \in Restorations(a) : ~(s.at >= created[r] /\ s.at < created[r])
    BY <1>1 DEF Restorations, TypeOK
<1> QED BY <1>2, <1>3 DEF Zeroed

------------------------------------------------------------------------------
(* The parts of the invariant *)

\* Kills are counted: a process never killed was not killed before the step either.
LEMMA KillsStep ==
    ASSUME TypeOK, Next, kills' = 0
    PROVE  kills = 0 /\ ~Killed
<1>1. kills \in Nat
    BY DEF TypeOK
<1>2. ~Killed
    BY <1>1 DEF Killed
<1>3. CASE UNCHANGED kills
    BY <1>2, <1>3
<1>4. CASE \E r \in Rounds : CloseRound(r) \/ DemandClose(r) \/ KilledInClose(r)
    BY <1>2, <1>3, <1>4, CloseEffect
<1>5. CASE \E r \in Rounds : \E q \in Asked[r] :
               Propose(r, q.voters, q.recused) \/ KilledInPropose(r, q.voters, q.recused)
    BY <1>2, <1>3, <1>5 DEF Propose, KilledInPropose, Running
<1>6. CASE \E r \in Rounds : \E a \in Agents :
               \/ \E b \in Signed[r][a] : \/ CountVote(r, a, b) \/ KeepVote(r, a, b)
                                          \/ KilledInVote(r, a, b)
                                          \/ Convict(r, a, b) \/ KilledInConvict(r, a, b)
               \/ AnnounceProof(r, a) \/ Decline(r, a)
    BY <1>2, <1>3, <1>6 DEF CountVote, KeepVote, KilledInVote, Convict, KilledInConvict,
       AnnounceProof, Decline, Dispatched, Running
<1>7. CASE \/ \E r \in Rounds : \E n \in DOMAIN decisions[r] : Expel(r, n) \/ Admit(r, n)
           \/ \E a \in Agents : Enroll(a) \/ Unenroll(a)
           \/ Kill \/ Tick
    BY <1>2, <1>3, <1>7 DEF Expel, Admit, Enroll, Unenroll, Kill, Tick, Running
<1> QED BY <1>4, <1>5, <1>6, <1>7, NextCases

\* No round is ever dated after the clock.
LEMMA RowsInOrderStep == ASSUME TypeOK, RowsInOrder, Next PROVE RowsInOrder'
<1>1. clock \in Nat /\ \A q \in Rounds : created[q] \in Nat
    BY DEF TypeOK
<1> QED BY <1>1, RowsStep DEF RowsInOrder

\* Only a ballot that its voter signed is remembered.
LEMMA KeptSignedStep == ASSUME TypeOK, KeptSigned, Next PROVE KeptSigned'
<1>1. CASE UNCHANGED kept
    BY <1>1 DEF KeptSigned
<1>2. ASSUME NEW r \in Rounds, NEW a \in Agents, NEW b \in Signed[r][a], Remember(r, a, b)
      PROVE  KeptSigned'
    <2>1. CASE IsTuple(b) /\ kept' = [kept EXCEPT ![r][a][b.phase] = [ballot |-> b, at |-> clock]]
        <3>1. b.phase \in Phases
            BY <2>1, SignedTyped
        <3> QED BY <2>1, <3>1 DEF KeptSigned, TypeOK
    <2> QED BY <1>1, <1>2, <2>1 DEF Remember
<1>3. CASE \E r \in Rounds : \E a \in Agents : \E b \in Signed[r][a] :
               CountVote(r, a, b) \/ KeepVote(r, a, b) \/ KilledInVote(r, a, b)
    BY <1>1, <1>2, <1>3 DEF CountVote, KeepVote, KilledInVote
<1>4. CASE \E r \in Rounds : CloseRound(r) \/ DemandClose(r) \/ KilledInClose(r)
    BY <1>1, <1>4, CloseEffect DEF ballots
<1>5. CASE ~\/ \E r \in Rounds : CloseRound(r) \/ DemandClose(r) \/ KilledInClose(r)
            \/ \E r \in Rounds : \E a \in Agents : \E b \in Signed[r][a] :
                   CountVote(r, a, b) \/ KeepVote(r, a, b) \/ KilledInVote(r, a, b)
    BY <1>1, <1>5, NextCases DEF Propose, KilledInPropose, Convict, KilledInConvict,
       AnnounceProof, Decline, Expel, Admit, Enroll, Unenroll, Kill, Tick, ballots
<1> QED BY <1>3, <1>4, <1>5

\* Nobody is convicted but on two conflicting ballots that it signed in that round.
LEMMA BackedStep == ASSUME TypeOK, KeptSigned, ConvictionsBacked, Next PROVE ConvictionsBacked'
<1> DEFINE Guilty(r, a) == \E b, c \in Signed[r][a] : Convicts(b, c)
<1>1. CASE UNCHANGED convicted
    BY <1>1 DEF ConvictionsBacked
<1>2. ASSUME NEW r \in Rounds, NEW a \in Agents, Guilty(r, a),
             convicted' = [convicted EXCEPT ![r] = @ \cup {a}]
      PROVE  ConvictionsBacked'
    <2>1. \A q \in Rounds : \A x \in convicted'[q] : x \in convicted[q] \/ (q = r /\ x = a)
        BY <1>2 DEF TypeOK
    <2> QED BY <1>2, <2>1 DEF ConvictionsBacked
<1>3. ASSUME NEW r \in Rounds, NEW a \in Agents, NEW b \in Signed[r][a], Caught(r, a, b)
      PROVE  Guilty(r, a)
    <2>1. IsTuple(b) /\ Convicts(Prior(r, a, b), b)
        BY <1>3 DEF Caught
    <2>2. b.phase \in Phases /\ Prior(r, a, b) \in Signed[r][a] \cup {NoBallot}
        BY <2>1 DEF KeptSigned, Prior, IsTuple
    <2>3. Prior(r, a, b) # NoBallot
        BY <2>1 DEF Convicts, IsTuple, NoBallot, Phases
    <2> QED BY <2>1, <2>2, <2>3
<1>4. CASE \E r \in Rounds : \E a \in Agents :
               \/ \E b \in Signed[r][a] : Convict(r, a, b) \/ KilledInConvict(r, a, b)
               \/ AnnounceProof(r, a)
    BY <1>1, <1>2, <1>3, <1>4 DEF Convict, KilledInConvict, AnnounceProof, Evidence
<1>5. CASE \E r \in Rounds : CloseRound(r) \/ DemandClose(r) \/ KilledInClose(r)
    BY <1>1, <1>5, CloseEffect DEF verdicts
<1>6. CASE ~\/ \E r \in Rounds : CloseRound(r) \/ DemandClose(r) \/ KilledInClose(r)
            \/ \E r \in Rounds : \E a \in Agents :
                   \/ \E b \in Signed[r][a] : Convict(r, a, b) \/ KilledInConvict(r, a, b)
                   \/ AnnounceProof(r, a)
    BY <1>1, <1>6, NextCases DEF Propose, KilledInPropose, CountVote, KeepVote, KilledInVote,
       Decline, Expel, Admit, Enroll, Unenroll, Kill, Tick, verdicts
<1> QED BY <1>4, <1>5, <1>6

\* Without a kill, the proof and the row of a conviction are written together.
LEMMA VerdictsMatchStep == ASSUME TypeOK, VerdictsMatch, Next PROVE VerdictsMatch'
<1> SUFFICES ASSUME kills' = 0 PROVE proofs' = convicted'
    BY DEF VerdictsMatch
<1>1. proofs = convicted /\ ~Killed
    BY KillsStep DEF VerdictsMatch
<1>2. CASE UNCHANGED verdicts
    BY <1>1, <1>2 DEF verdicts
<1>3. CASE \E r \in Rounds : CloseRound(r) \/ DemandClose(r) \/ KilledInClose(r)
    BY <1>2, <1>3, CloseEffect
<1>4. CASE \E r \in Rounds : \E a \in Agents :
               \/ \E b \in Signed[r][a] : Convict(r, a, b) \/ KilledInConvict(r, a, b)
               \/ AnnounceProof(r, a)
    BY <1>1, <1>4 DEF Convict, KilledInConvict, AnnounceProof
<1>5. CASE ~\/ \E r \in Rounds : CloseRound(r) \/ DemandClose(r) \/ KilledInClose(r)
            \/ \E r \in Rounds : \E a \in Agents :
                   \/ \E b \in Signed[r][a] : Convict(r, a, b) \/ KilledInConvict(r, a, b)
                   \/ AnnounceProof(r, a)
    BY <1>2, <1>5, NextCases DEF Propose, KilledInPropose, CountVote, KeepVote, KilledInVote,
       Decline, Expel, Admit, Enroll, Unenroll, Kill, Tick
<1> QED BY <1>3, <1>4, <1>5

\* Whoever a new record counts had no proof on record; the other records stay.
LEMMA CountsStep ==
    ASSUME TypeOK, VerdictsMatch, CountsNoConvicted, Next
    PROVE  CountsNoConvicted'
<1> SUFFICES ASSUME kills' = 0
             PROVE  \A r \in Rounds : \A n \in DOMAIN decisions'[r] :
                        decisions'[r][n].counted \cap decisions'[r][n].known = {}
    BY DEF CountsNoConvicted
<1>1. kills = 0 /\ proofs = convicted
    BY KillsStep DEF VerdictsMatch
<1>2. CASE UNCHANGED decisions
    BY <1>1, <1>2 DEF CountsNoConvicted
<1>3. ASSUME NEW r \in Rounds, NEW d \in Decision, d.counted \cap d.known = {},
             Published(r, d)
      PROVE  \A q \in Rounds : \A n \in DOMAIN decisions'[q] :
                 decisions'[q][n].counted \cap decisions'[q][n].known = {}
    <2>1. decisions[r] \in Seq(Decision)
        BY DEF TypeOK
    <2>2. \A n \in DOMAIN decisions'[r] :
              \/ n \in DOMAIN decisions[r] /\ decisions'[r][n] = decisions[r][n]
              \/ decisions'[r][n] = d
        BY <1>3, <2>1 DEF Published, TypeOK
    <2>3. \A q \in Rounds : q # r => decisions'[q] = decisions[q]
        BY <1>3 DEF Published, TypeOK
    <2> QED BY <1>1, <1>3, <2>2, <2>3 DEF CountsNoConvicted
<1>4. CASE \E r \in Rounds : \E q \in Asked[r] :
               Propose(r, q.voters, q.recused) \/ KilledInPropose(r, q.voters, q.recused)
    <2>1. PICK r \in Rounds : \E q \in Asked[r] :
              Propose(r, q.voters, q.recused) \/ KilledInPropose(r, q.voters, q.recused)
        BY <1>4
    <2>2. PICK q \in Asked[r] :
              Propose(r, q.voters, q.recused) \/ KilledInPropose(r, q.voters, q.recused)
        BY <2>1
    <2>3. Propose(r, q.voters, q.recused)
        BY <2>2, KillsStep DEF KilledInPropose
    <2>4. ExhaustedRecord(q.voters) \in Decision
        BY AskedTyped, ExhaustedRecordTyped
    <2>5. ExhaustedRecord(q.voters).counted = {}
        BY DEF ExhaustedRecord
    <2>6. CASE Exhausted(r, q.voters, q.recused)
        BY <1>3, <2>3, <2>4, <2>5, <2>6 DEF Propose, Published
    <2>7. CASE ~Exhausted(r, q.voters, q.recused)
        BY <1>2, <2>3, <2>7 DEF Propose
    <2> QED BY <2>6, <2>7
<1>5. CASE \E r \in Rounds : CloseRound(r) \/ DemandClose(r) \/ KilledInClose(r)
    <2>1. PICK r \in Rounds : \E o \in Outcomes : \E reason \in Reasons :
              Published(r, RecordOf(r, o, reason))
        BY <1>5, CloseEffect
    <2>2. PICK o \in Outcomes, reason \in Reasons : Published(r, RecordOf(r, o, reason))
        BY <2>1
    <2>3. RecordOf(r, o, reason).counted \cap RecordOf(r, o, reason).known = {}
        BY <1>1, ConvictedZeroed DEF RecordOf, Counted
    <2> QED BY <1>3, <2>2, <2>3, RecordTyped
<1>6. CASE ~\/ \E r \in Rounds : CloseRound(r) \/ DemandClose(r) \/ KilledInClose(r)
            \/ \E r \in Rounds : \E q \in Asked[r] :
                   Propose(r, q.voters, q.recused) \/ KilledInPropose(r, q.voters, q.recused)
    BY <1>2, <1>6, NextCases DEF CountVote, KeepVote, KilledInVote, Convict, KilledInConvict,
       AnnounceProof, Decline, Expel, Admit, Enroll, Unenroll, Kill, Tick
<1> QED BY <1>4, <1>5, <1>6

\* A step that leaves a round's row, its ballots, unless it is open, and its records
\* alone, keeps them matched.
LEMMA MatchesStays ==
    ASSUME TypeOK, RowsInOrder, Next, NEW r \in Rounds, RecordMatches(r),
           status'[r] = status[r], decisions'[r] = decisions[r], voters'[r] = voters[r],
           status[r] = "closed" => Held(r)' = Held(r) /\ declined'[r] = declined[r]
    PROVE  RecordMatches(r)'
<1>1. CASE status[r] # "closed"
    BY <1>1 DEF RecordMatches
<1>2. CASE status[r] = "closed"
    <2>1. \A a \in voters[r] : Zeroed(r, a) => Zeroed(r, a)'
        BY <1>2, ZeroedStays DEF TypeOK
    <2> QED BY <1>2, <2>1 DEF RecordMatches
<1> QED BY <1>1, <1>2

\* The first record of a round, when the round is closed with it.
LEMMA FirstRecordMatches ==
    ASSUME TypeOK, NEW r \in Rounds, RecordMatches(r), NEW o \in Outcomes, NEW reason \in Reasons,
           Published(r, RecordOf(r, o, reason)), status' = [status EXCEPT ![r] = "closed"],
           UNCHANGED <<created, voters, ballots, verdicts, seats>>
    PROVE  RecordMatches(r)'
<1> DEFINE d == RecordOf(r, o, reason)
<1>1. decisions[r] \in Seq(Decision) /\ d \in Decision
    BY RecordTyped DEF TypeOK
<1>2. decisions'[r] = Append(decisions[r], d) /\ status'[r] = "closed"
    BY DEF Published, TypeOK
<1>3. CASE Len(decisions'[r]) # 1
    BY <1>2, <1>3 DEF RecordMatches
<1>4. CASE Len(decisions'[r]) = 1
    <2>1. decisions'[r][1] = d
        BY <1>1, <1>2, <1>4
    <2>2. d.silent = (voters[r] \ Counted(r)) \ declined[r]
        BY DEF RecordOf
    <2>3. Held(r)' = Held(r) /\ voters' = voters /\ declined' = declined
        BY DEF Held, ballots
    <2>4. \A a \in voters[r] : Zeroed(r, a)' <=> Zeroed(r, a)
        BY DEF Zeroed, Restorations, verdicts, seats
    <2>5. \A a \in voters[r] : a \in Counted(r) <=> a \in Held(r) /\ ~Zeroed(r, a)
        BY DEF Counted
    <2> QED BY <1>2, <2>1, <2>2, <2>3, <2>4, <2>5 DEF RecordMatches
<1> QED BY <1>3, <1>4

\* While the process is not killed, a round gets its first record as it closes, and no
\* ballot or decline reaches it afterwards; a conviction may, and zeroes for good.
LEMMA RecordsMatchStep ==
    ASSUME TypeOK, RowsInOrder, RecordsMatch, Next, kills' = 0, NEW r \in Rounds
    PROVE  RecordMatches(r)'
<1>1. RecordMatches(r) /\ ~Killed
    BY KillsStep DEF RecordsMatch
<1>2. CASE \E p \in Rounds : \E q \in Asked[p] :
               Propose(p, q.voters, q.recused) \/ KilledInPropose(p, q.voters, q.recused)
    <2>1. PICK p \in Rounds : \E q \in Asked[p] : Propose(p, q.voters, q.recused)
        BY <1>1, <1>2 DEF KilledInPropose
    <2>2. PICK q \in Asked[p] : Propose(p, q.voters, q.recused)
        BY <2>1
    <2>3. Held(r)' = Held(r) /\ declined' = declined
        BY <2>2 DEF Propose, Held, ballots
    <2>4. CASE p # r
        <3>1. status'[r] = status[r] /\ voters'[r] = voters[r]
            BY <2>2, <2>4 DEF Propose, OpenRow, TypeOK
        <3>2. decisions'[r] = decisions[r]
            <4>1. CASE Exhausted(p, q.voters, q.recused)
                BY <2>2, <2>4, <4>1 DEF Propose, TypeOK
            <4>2. CASE ~Exhausted(p, q.voters, q.recused)
                BY <2>2, <4>2 DEF Propose
            <4> QED BY <4>1, <4>2
        <3> QED BY <1>1, <2>3, <3>1, <3>2, MatchesStays
    <2>5. CASE p = r
        <3>1. status[r] = "none" /\ voters'[r] = q.voters
            BY <2>2, <2>5 DEF Propose, MayPropose, OpenRow, TypeOK
        <3>2. decisions[r] = <<>> /\ Held(r)' = {} /\ declined'[r] = {}
            BY <1>1, <2>3, <3>1, NothingHeld DEF RecordMatches
        <3>3. CASE Exhausted(r, q.voters, q.recused)
            <4>1. decisions'[r] = <<ExhaustedRecord(q.voters)>>
                BY <2>2, <2>5, <3>2, <3>3 DEF Propose, TypeOK
            <4>2. decisions'[r][1].silent = q.voters
                BY <4>1 DEF ExhaustedRecord
            <4>3. status'[r] = "closed"
                BY <2>2, <2>5, <3>3 DEF Propose, TypeOK
            <4> QED BY <3>1, <3>2, <4>2, <4>3 DEF RecordMatches
        <3>4. CASE ~Exhausted(r, q.voters, q.recused)
            <4>1. decisions'[r] = <<>>
                BY <2>2, <2>5, <3>2, <3>4 DEF Propose
            <4>2. status'[r] = "open"
                BY <2>2, <2>5, <3>4 DEF Propose, TypeOK
            <4> QED BY <4>1, <4>2 DEF RecordMatches
        <3> QED BY <3>3, <3>4
    <2> QED BY <2>4, <2>5
<1>3. CASE \E p \in Rounds : CloseRound(p) \/ DemandClose(p) \/ KilledInClose(p)
    <2>1. PICK p \in Rounds : CloseRound(p) \/ DemandClose(p) \/ KilledInClose(p)
        BY <1>3
    <2>2. /\ \E o \in Outcomes : \E reason \in Reasons : Published(p, RecordOf(p, o, reason))
          /\ UNCHANGED <<created, voters, weights, level, ballots, verdicts, seats, clock>>
          /\ status' = [status EXCEPT ![p] = "closed"]
        BY <1>1, <2>1, CloseEffect
    <2>3. CASE p = r
        BY <1>1, <2>2, <2>3, FirstRecordMatches
    <2>4. CASE p # r
        <3>1. status'[r] = status[r] /\ decisions'[r] = decisions[r]
            BY <2>2, <2>4 DEF Published, TypeOK
        <3>2. Held(r)' = Held(r) /\ declined' = declined /\ voters' = voters
            BY <2>2 DEF Held, ballots
        <3> QED BY <1>1, <3>1, <3>2, MatchesStays
    <2> QED BY <2>3, <2>4
<1>4. CASE \E p \in Rounds : \E a \in Agents :
               \/ \E b \in Signed[p][a] : CountVote(p, a, b) \/ KeepVote(p, a, b)
               \/ Decline(p, a)
    <2>1. PICK p \in Rounds, a \in Agents :
              \/ \E b \in Signed[p][a] : CountVote(p, a, b) \/ KeepVote(p, a, b)
              \/ Decline(p, a)
        BY <1>4
    <2>2. UNCHANGED <<rows, decisions>> /\ status[p] = "open"
        BY <2>1 DEF CountVote, KeepVote, Decline, Admissible
    <2>3. p # r => receipts'[r] = receipts[r] /\ declined'[r] = declined[r]
        BY <2>1 DEF CountVote, KeepVote, Decline, TypeOK
    <2>4. p # r => Held(r)' = Held(r)
        BY <2>3 DEF Held
    <2> QED BY <1>1, <2>2, <2>3, <2>4, MatchesStays DEF rows
<1>5. CASE \/ \E p \in Rounds : \E a \in Agents :
                 \/ \E b \in Signed[p][a] : Convict(p, a, b) \/ KilledInConvict(p, a, b)
                 \/ AnnounceProof(p, a)
           \/ \E p \in Rounds : \E n \in DOMAIN decisions[p] : Expel(p, n) \/ Admit(p, n)
           \/ \E a \in Agents : Enroll(a) \/ Unenroll(a)
           \/ Kill \/ Tick
    <2>1. UNCHANGED <<rows, ballots, decisions>>
        BY <1>5 DEF Convict, KilledInConvict, AnnounceProof, Expel, Admit, Enroll, Unenroll,
           Kill, Tick
    <2>2. Held(r)' = Held(r)
        BY <2>1 DEF Held, ballots
    <2> QED BY <1>1, <2>1, <2>2, MatchesStays DEF rows, ballots
<1>6. CASE \E p \in Rounds : \E a \in Agents : \E b \in Signed[p][a] : KilledInVote(p, a, b)
    BY <1>1, <1>6 DEF KilledInVote
<1> QED BY <1>2, <1>3, <1>4, <1>5, <1>6, NextCases

------------------------------------------------------------------------------
(* Weights: a common multiple exists, weights are numbers, sums add up *)

\* Powers of two, counted by subsets.
LEMMA PowerTyped ==
    ASSUME NEW n \in Nat
    PROVE  2 ^ n \in Nat /\ 2 ^ n >= 1
<1>1. IsFiniteSet(1..n) /\ Cardinality(1..n) = n
    BY FS_Interval
<1>2. IsFiniteSet(SUBSET (1..n)) /\ Cardinality(SUBSET (1..n)) = 2 ^ n
    BY <1>1, FS_SUBSET
<1>3. Cardinality(SUBSET (1..n)) \in Nat
    BY <1>2, FS_CardinalityType
<1>4. Cardinality(SUBSET (1..n)) # 0
    BY <1>2, FS_EmptySet
<1> QED BY <1>2, <1>3, <1>4

\* A function is injective on pairs if it tells apart the pairs it is given.
TellsApart(f, A, B) ==
    \A x \in A : \A i \in B : \A y \in A : \A j \in B :
        f[<<x, i>>] = f[<<y, j>>] => x = y /\ i = j
LEMMA ApartOnPairs ==
    ASSUME NEW A, NEW B, NEW f, TellsApart(f, A, B)
    PROVE  \A d, e \in A \X B : f[d] = f[e] => d = e
<1> SUFFICES ASSUME NEW d \in A \X B, NEW e \in A \X B, f[d] = f[e] PROVE d = e
    OBVIOUS
<1>1. PICK x, i : x \in A /\ i \in B /\ d = <<x, i>>
    <2>1. d[1] \in A /\ d[2] \in B /\ d = <<d[1], d[2]>>
        OBVIOUS
    <2> QED BY <2>1, Zenon
<1>2. PICK y, j : y \in A /\ j \in B /\ e = <<y, j>>
    <2>1. e[1] \in A /\ e[2] \in B /\ e = <<e[1], e[2]>>
        OBVIOUS
    <2> QED BY <2>1, Zenon
<1>3. f[<<x, i>>] = f[<<y, j>>]
    BY <1>1, <1>2, Zenon
<1>4. x \in A /\ i \in B /\ y \in A /\ j \in B
    BY <1>1, <1>2
<1>5. x = y /\ i = j
    BY <1>3, <1>4, SMT DEF TellsApart
<1> QED BY <1>1, <1>2, <1>5, Zenon

LEMMA PowerGrows ==
    ASSUME NEW a \in Nat, NEW b \in Nat
    PROVE  2 ^ a * b <= 2 ^ (a + b)
<1> PICK A, B, R : A = SUBSET (1..a) /\ B = 1..b /\ R = SUBSET (1..(a + b))
    OBVIOUS
<1>1. PICK f : f = [d \in A \X B |-> d[1] \cup {a + d[2]}]
    OBVIOUS
<1>2. ASSUME NEW x \in A, NEW i \in B
      PROVE  f[<<x, i>>] = x \cup {a + i} /\ f[<<x, i>>] \in R
    <2>1. x \subseteq 1..(a + b) /\ a + i \in 1..(a + b)
        OBVIOUS
    <2>2. f[<<x, i>>] = x \cup {a + i}
        BY <1>1
    <2> QED BY <2>1, <2>2
<1>a. \A d \in A \X B : d[1] \in A /\ d[2] \in B /\ d = <<d[1], d[2]>>
    OBVIOUS
<1>3. f \in [A \X B -> R]
    <2>1. ASSUME NEW d \in A \X B PROVE f[d] \in R
        <3>1. f[<<d[1], d[2]>>] \in R
            BY <1>a, <1>2
        <3> QED BY <1>a, <3>1
    <2>2. PICK P : P = A \X B
        OBVIOUS
    <2>3. f = [d \in P |-> d[1] \cup {a + d[2]}] /\ \A d \in P : f[d] \in R
        BY <1>1, <2>1, <2>2
    <2>4. f \in [P -> R]
        BY <2>3, Zenon
    <2> QED BY <2>2, <2>4
<1>b. ASSUME NEW x \in A, NEW i \in B, NEW y \in A, NEW j \in B, f[<<x, i>>] = f[<<y, j>>]
      PROVE  x = y /\ i = j
    <2>a. f[<<x, i>>] = x \cup {a + i} /\ f[<<y, j>>] = y \cup {a + j}
        BY <1>2
    <2>1. x \cup {a + i} = y \cup {a + j}
        BY <1>b, <2>a, Zenon
    <2>2. \A k \in 1..a : k # a + i /\ k # a + j
        OBVIOUS
    <2>3. a + i \notin x /\ a + i \notin y /\ a + j \notin x /\ a + j \notin y
        BY <2>2
    <2>4. a + i = a + j
        BY <2>1, <2>3
    <2>5. x = (x \cup {a + i}) \ {a + i} /\ y = (y \cup {a + j}) \ {a + j}
        BY <2>3
    <2>6. x = y
        BY <2>1, <2>4, <2>5, Zenon
    <2> QED BY <2>4, <2>6
<1>c. TellsApart(f, A, B)
    BY <1>b, Zenon DEF TellsApart
<1>4. \A d, e \in A \X B : f[d] = f[e] => d = e
    BY <1>c, ApartOnPairs
<1>5. f \in Injection(A \X B, R)
    BY <1>3, <1>4, Fun_IsInj
<1>6. IsFiniteSet(R) /\ Cardinality(R) = 2 ^ (a + b)
    <2>1. IsFiniteSet(1..(a + b)) /\ Cardinality(1..(a + b)) = a + b
        BY FS_Interval
    <2> QED BY <2>1, FS_SUBSET
<1>7. IsFiniteSet(A) /\ Cardinality(A) = 2 ^ a
    <2>1. IsFiniteSet(1..a) /\ Cardinality(1..a) = a
        BY FS_Interval
    <2> QED BY <2>1, FS_SUBSET
<1>8. IsFiniteSet(B) /\ Cardinality(B) = b
    BY FS_Interval
<1>9. Cardinality(A \X B) = 2 ^ a * b
    <2>1. Cardinality(A \X B) = Cardinality(A) * Cardinality(B)
        BY <1>7, <1>8, FS_Product
    <2> QED BY <2>1, <1>7, <1>8
<1>10. Cardinality(A \X B) <= Cardinality(R)
    BY <1>5, <1>6, FS_Injection
<1> QED BY <1>6, <1>9, <1>10

LEMMA MultipleDivides ==
    ASSUME NEW n \in Nat, NEW v \in Nat \ {0}
    PROVE  (n * v) % v = 0
OBVIOUS

LEMMA DivTimes ==
    ASSUME NEW n \in Nat \ {0}, NEW v \in Nat \ {0}, n % v = 0
    PROVE  n \div v \in Nat \ {0} /\ v * (n \div v) = n
OBVIOUS

LEMMA TimesDivides ==
    ASSUME NEW n \in Nat \ {0}, NEW v \in Nat \ {0}, NEW w \in Nat \ {0}, n % w = 0
    PROVE  (n * v) % w = 0
<1>1. PICK q \in Nat : n = w * q
    BY DivTimes
<1>2. q * v \in Nat /\ n * v = (q * v) * w
    BY <1>1
<1> QED BY <1>2, MultipleDivides

\* A common multiple of what voters of T share their operator with, small enough for
\* CommonMultiple to look at.
Fits(S, T) == \E n \in Nat \ {0} : n <= 2 ^ (Cardinality(S) * Cardinality(T)) /\
                  \A a \in T : n % Voting(S, a) = 0

LEMMA VotingTyped ==
    ASSUME NEW S, IsFiniteSet(S), NEW a \in S
    PROVE  Voting(S, a) \in Nat \ {0} /\ Voting(S, a) <= Cardinality(S)
<1> PICK V : V = {b \in S : Operator[b] = Operator[a]}
    OBVIOUS
<1>1. IsFiniteSet(V) /\ Cardinality(V) <= Cardinality(S) /\ V # {}
    BY FS_Subset
<1>2. Cardinality(V) \in Nat /\ Cardinality(V) # 0
    BY <1>1, FS_CardinalityType, FS_EmptySet
<1> QED BY <1>1, <1>2 DEF Voting

LEMMA FitsMore ==
    ASSUME NEW S, IsFiniteSet(S), NEW T \in SUBSET S, NEW x \in S \ T, Fits(S, T)
    PROVE  Fits(S, T \cup {x})
<1>1. PICK n \in Nat \ {0} : n <= 2 ^ (Cardinality(S) * Cardinality(T)) /\
                  \A a \in T : n % Voting(S, a) = 0
    BY DEF Fits
<1>2. PICK s, t \in Nat : s = Cardinality(S) /\ t = Cardinality(T) /\ IsFiniteSet(T)
    BY FS_CardinalityType, FS_Subset
<1>3. Cardinality(T \cup {x}) = t + 1
    BY <1>2, FS_AddElement
<1>4. PICK v \in Nat \ {0} : v = Voting(S, x) /\ v <= s
    BY <1>2, VotingTyped
<1>5. PICK p, q \in Nat : p = 2 ^ (s * t) /\ q = 2 ^ (s * t + s) /\ p * s <= q
    <2>1. s * t \in Nat /\ s * t + s \in Nat
        OBVIOUS
    <2> QED BY <2>1, PowerTyped, PowerGrows
<1>6. n * v <= p * s
    BY <1>1, <1>2, <1>4, <1>5
<1>7. n * v \in Nat \ {0} /\ n * v <= q
    BY <1>5, <1>6
<1>8. s * (t + 1) = s * t + s
    OBVIOUS
<1>9. ASSUME NEW a \in T \cup {x} PROVE (n * v) % Voting(S, a) = 0
    <2>1. PICK w \in Nat \ {0} : w = Voting(S, a)
        BY VotingTyped
    <2>2. CASE a \in T
        BY <1>1, <2>1, <2>2, TimesDivides
    <2>3. CASE a = x
        BY <1>4, <2>3, MultipleDivides
    <2> QED BY <2>2, <2>3
<1> QED BY <1>2, <1>3, <1>5, <1>7, <1>8, <1>9 DEF Fits

LEMMA FitsAll ==
    ASSUME NEW S, IsFiniteSet(S)
    PROVE  Fits(S, S)
<1> SUFFICES ASSUME ~Fits(S, S) PROVE FALSE
    OBVIOUS
<1>1. PICK Lacking : Lacking = {T \in SUBSET S : ~Fits(S, T)}
    OBVIOUS
<1>2. IsWellFoundedOn(StrictSubsetOrdering(S), SUBSET S)
    BY FS_StrictSubsetOrderingWellFounded, FS_FiniteSubsetsOfFinite
<1>3. Lacking \subseteq SUBSET S /\ Lacking # {}
    BY <1>1
<1>4. PICK T \in Lacking : \A U \in Lacking : ~(<<U, T>> \in StrictSubsetOrdering(S))
    BY <1>2, <1>3, WFMin
<1>5. T \in SUBSET S /\ ~Fits(S, T)
    BY <1>1, <1>4
<1>6. CASE T = {}
    <2>1. Cardinality(S) \in Nat /\ Cardinality(T) = 0
        BY <1>6, FS_CardinalityType, FS_EmptySet
    <2>2. Cardinality(S) * Cardinality(T) = 0
        BY <2>1
    <2>3. 2 ^ (Cardinality(S) * Cardinality(T)) >= 1
        BY <2>2, PowerTyped
    <2> QED BY <1>5, <1>6, <2>3 DEF Fits
<1>7. ASSUME NEW x \in T PROVE FALSE
    <2>1. T \ {x} \in SUBSET S /\ x \in S \ (T \ {x}) /\ (T \ {x}) \cup {x} = T
        BY <1>5, <1>7
    <2>2. <<T \ {x}, T>> \in StrictSubsetOrdering(S)
        BY <1>5, <1>7 DEF StrictSubsetOrdering
    <2>3. Fits(S, T \ {x})
        BY <1>1, <1>4, <2>1, <2>2
    <2>4. Fits(S, (T \ {x}) \cup {x})
        BY <2>1, <2>3, FitsMore
    <2> QED BY <1>5, <2>1, <2>4
<1> QED BY <1>6, <1>7

\* A set of natural numbers has a least member.
LessThan == {ss \in Nat \X Nat : ss[1] < ss[2]}
LEMMA LeastNatural ==
    ASSUME NEW S \in SUBSET Nat, S # {}
    PROVE  \E i \in S : \A j \in S : i <= j
<1>1. IsWellFoundedOn(LessThan, Nat)
    BY NatLessThanWellFounded DEF OpToRel, LessThan
<1>2. PICK i \in S : \A j \in S : <<j, i>> \notin LessThan
    BY <1>1, WFMin
<1>3. ASSUME NEW j \in S PROVE i <= j
    <2>1. i \in Nat /\ j \in Nat /\ <<j, i>> \notin LessThan
        BY <1>2
    <2> QED BY <2>1 DEF LessThan
<1> QED BY <1>3

\* The least common multiple is there, and divides.
LEMMA MultipleStands ==
    ASSUME NEW S, IsFiniteSet(S)
    PROVE  CommonMultiple(S) \in Nat \ {0} /\ Divisible(S, CommonMultiple(S))
<1>1. PICK most : most = 2 ^ (Cardinality(S) * Cardinality(S)) /\ most \in Nat
    <2>1. Cardinality(S) * Cardinality(S) \in Nat
        BY FS_CardinalityType
    <2> QED BY <2>1, PowerTyped
<1>2. PICK Common : Common = {n \in 1..most : Divisible(S, n)}
    OBVIOUS
<1>3. Common \in SUBSET Nat
    BY <1>1, <1>2
<1>4. Common # {}
    BY <1>1, <1>2, FitsAll DEF Fits, Divisible
<1>5. PICK n \in Common : \A k \in Common : n <= k
    BY <1>3, <1>4, LeastNatural
<1>6. n \in 1..most /\ Divisible(S, n) /\ \A k \in 1..(n - 1) : ~Divisible(S, k)
    BY <1>1, <1>2, <1>5
<1>7. CommonMultiple(S) \in 1..most /\ Divisible(S, CommonMultiple(S))
    <2>1. CommonMultiple(S) =
              CHOOSE m \in 1..most : Divisible(S, m) /\ \A k \in 1..(m - 1) : ~Divisible(S, k)
        BY <1>1, Zenon DEF CommonMultiple
    <2> QED BY <2>1, <1>6
<1> QED BY <1>1, <1>7

\* One operator, one weight: a voter's weight times its operator's voters.
LEMMA WeightsTyped ==
    ASSUME NEW S, IsFiniteSet(S)
    PROVE  /\ Weights(S) \in [S -> Nat \ {0}]
           /\ \A a \in S : Voting(S, a) * Weights(S)[a] = CommonMultiple(S)
<1>1. ASSUME NEW a \in S
      PROVE  /\ CommonMultiple(S) \div Voting(S, a) \in Nat \ {0}
             /\ Voting(S, a) * (CommonMultiple(S) \div Voting(S, a)) = CommonMultiple(S)
    BY MultipleStands, VotingTyped, DivTimes DEF Divisible
<1> QED BY <1>1 DEF Weights
\* The unit votes that Sum counts.
Shares(weigh, T) == UNION {{a} \X (1..weigh[a]) : a \in T}

LEMMA ShareIn ==
    ASSUME NEW weigh, NEW T, NEW x
    PROVE  x \in Shares(weigh, T) <=> \E a \in T : \E i \in 1..weigh[a] : x = <<a, i>>
<1>1. \A a, y : y \in {a} \X (1..weigh[a]) <=> \E i \in 1..weigh[a] : y = <<a, i>>
    OBVIOUS
<1> QED BY <1>1 DEF Shares

LEMMA SumTyped ==
    ASSUME NEW S, IsFiniteSet(S), NEW M \in Nat, NEW weigh \in [S -> 0..M],
           NEW T \in SUBSET S
    PROVE  /\ IsFiniteSet(Shares(weigh, T))
           /\ Sum(weigh, T) = Cardinality(Shares(weigh, T)) /\ Sum(weigh, T) \in Nat
<1>1. Shares(weigh, T) \subseteq S \X (1..M)
    <2> SUFFICES ASSUME NEW x \in Shares(weigh, T) PROVE x \in S \X (1..M)
        OBVIOUS
    <2>1. PICK a \in T : \E i \in 1..weigh[a] : x = <<a, i>>
        BY ShareIn
    <2>2. a \in S /\ weigh[a] \in 0..M
        OBVIOUS
    <2> QED BY <2>1, <2>2
<1>2. IsFiniteSet(S \X (1..M))
    <2>1. IsFiniteSet(1..M)
        BY FS_Interval
    <2> QED BY <2>1, FS_Product
<1>3. IsFiniteSet(Shares(weigh, T))
    BY <1>1, <1>2, FS_Subset
<1>4. Sum(weigh, T) = Cardinality(Shares(weigh, T))
    BY Zenon DEF Sum, Shares
<1> QED BY <1>3, <1>4, FS_CardinalityType

LEMMA SumGrows ==
    ASSUME NEW S, IsFiniteSet(S), NEW M \in Nat, NEW weigh \in [S -> 0..M],
           NEW U \in SUBSET S, NEW T \in SUBSET U
    PROVE  Sum(weigh, T) <= Sum(weigh, U)
<1>1. ASSUME NEW x \in Shares(weigh, T) PROVE x \in Shares(weigh, U)
    <2>1. PICK a \in T : \E i \in 1..weigh[a] : x = <<a, i>>
        BY <1>1, ShareIn
    <2>2. a \in U
        OBVIOUS
    <2> QED BY <2>1, <2>2, ShareIn
<1>2. Shares(weigh, T) \in SUBSET Shares(weigh, U)
    BY <1>1
<1>3. Cardinality(Shares(weigh, T)) <= Cardinality(Shares(weigh, U))
    BY <1>2, SumTyped, FS_Subset
<1>4. T \in SUBSET S
    OBVIOUS
<1> QED BY <1>3, <1>4, SumTyped

\* Two sets that have no voter in common weigh together what they weigh apart.
Splits(weigh, T, U) ==
    T \cap U = {} => Sum(weigh, T \cup U) = Sum(weigh, T) + Sum(weigh, U)

LEMMA SumAdds ==
    ASSUME NEW S, IsFiniteSet(S), NEW M \in Nat, NEW weigh \in [S -> 0..M],
           NEW T \in SUBSET S, NEW U \in SUBSET S
    PROVE  /\ Sum(weigh, T \cup U) <= Sum(weigh, T) + Sum(weigh, U)
           /\ Splits(weigh, T, U)
<1>1. PICK P, Q : P = Shares(weigh, T) /\ Q = Shares(weigh, U)
    OBVIOUS
<1>2. Shares(weigh, T \cup U) = P \cup Q
    <2>1. \A x : x \in P <=> \E a \in T : \E i \in 1..weigh[a] : x = <<a, i>>
        BY <1>1, ShareIn
    <2>2. \A x : x \in Q <=> \E a \in U : \E i \in 1..weigh[a] : x = <<a, i>>
        BY <1>1, ShareIn
    <2>3. ASSUME NEW x PROVE x \in Shares(weigh, T \cup U) <=> x \in P \/ x \in Q
        <3>1. x \in Shares(weigh, T \cup U) <=>
                  \E a \in T \cup U : \E i \in 1..weigh[a] : x = <<a, i>>
            BY ShareIn
        <3> QED BY <2>1, <2>2, <3>1
    <2> QED BY <2>3
<1>3. IsFiniteSet(P) /\ IsFiniteSet(Q)
    BY <1>1, SumTyped
<1>4. Cardinality(P \cup Q) = Cardinality(P) + Cardinality(Q) - Cardinality(P \cap Q)
    BY <1>3, FS_Union
<1>5. Cardinality(P \cap Q) \in Nat /\ Cardinality(P) \in Nat /\ Cardinality(Q) \in Nat
    BY <1>3, FS_Intersection, FS_CardinalityType
<1>6. T \cap U = {} => Cardinality(P \cap Q) = 0
    <2> SUFFICES ASSUME T \cap U = {} PROVE Cardinality(P \cap Q) = 0
        OBVIOUS
    <2>1. ASSUME NEW x \in P, x \in Q PROVE FALSE
        <3>1. PICK a \in T : \E i \in 1..weigh[a] : x = <<a, i>>
            BY <1>1, <2>1, ShareIn
        <3>2. PICK b \in U : \E j \in 1..weigh[b] : x = <<b, j>>
            BY <1>1, <2>1, ShareIn
        <3> QED BY <3>1, <3>2
    <2>2. P \cap Q = {}
        BY <2>1
    <2> QED BY <2>2, FS_EmptySet
<1>7. T \cup U \in SUBSET S
    OBVIOUS
<1>8. Sum(weigh, T \cup U) = Cardinality(P \cup Q)
    <2>1. Sum(weigh, T \cup U) = Cardinality(Shares(weigh, T \cup U))
        BY <1>7, SumTyped
    <2> QED BY <1>2, <2>1, Zenon
<1>9. Sum(weigh, T) = Cardinality(P)
    BY <1>1, SumTyped
<1>10. Sum(weigh, U) = Cardinality(Q)
    BY <1>1, SumTyped
<1> QED BY <1>4, <1>5, <1>6, <1>8, <1>9, <1>10 DEF Splits

\* Weights are numbers, so that they can be summed.
LEMMA WeightsBounded ==
    ASSUME NEW S, IsFiniteSet(S)
    PROVE  /\ CommonMultiple(S) \in Nat \ {0}
           /\ Weights(S) \in [S -> 0..CommonMultiple(S)]
<1>1. CommonMultiple(S) \in Nat \ {0}
    BY MultipleStands
<1>2. ASSUME NEW a \in S PROVE Weights(S)[a] \in 0..CommonMultiple(S)
    <2>1. PICK v \in Nat \ {0} : v = Voting(S, a)
        BY VotingTyped
    <2>2. PICK w \in Nat \ {0} : w = Weights(S)[a] /\ v * w = CommonMultiple(S)
        BY <2>1, WeightsTyped
    <2>3. w <= v * w
        OBVIOUS
    <2> QED BY <1>1, <2>2, <2>3
<1>3. Weights(S) = [a \in S |-> Weights(S)[a]]
    BY DEF Weights
<1> QED BY <1>1, <1>2, <1>3

\* All the voters of one operator weigh the common multiple together.
LEMMA OperatorWeighs ==
    ASSUME NEW S, IsFiniteSet(S), NEW a \in S, NEW T, T = {b \in S : Operator[b] = Operator[a]}
    PROVE  Sum(Weights(S), T) = CommonMultiple(S)
<1>1. PICK w \in Nat \ {0} : w = Weights(S)[a] /\ Voting(S, a) * w = CommonMultiple(S)
    BY WeightsTyped
<1>2. ASSUME NEW b \in T PROVE Weights(S)[b] = w
    <2>1. Voting(S, b) = Voting(S, a)
        BY <1>2 DEF Voting
    <2> QED BY <1>1, <1>2, <2>1 DEF Weights
<1>3. Shares(Weights(S), T) = T \X (1..w)
    <2>1. ASSUME NEW x PROVE x \in Shares(Weights(S), T) <=> x \in T \X (1..w)
        <3>1. x \in Shares(Weights(S), T) <=> \E b \in T : \E i \in 1..w : x = <<b, i>>
            BY <1>2, ShareIn
        <3>2. x \in T \X (1..w) <=> \E b \in T : \E i \in 1..w : x = <<b, i>>
            OBVIOUS
        <3> QED BY <3>1, <3>2
    <2> QED BY <2>1
<1>4. IsFiniteSet(T) /\ Cardinality(T) = Voting(S, a)
    <2>1. T \in SUBSET S
        OBVIOUS
    <2> QED BY <2>1, FS_Subset, Zenon DEF Voting
<1>5. IsFiniteSet(1..w) /\ Cardinality(1..w) = w
    BY FS_Interval
<1>6. Cardinality(T \X (1..w)) = Cardinality(T) * Cardinality(1..w)
    BY <1>4, <1>5, FS_Product
<1>7. Cardinality(T \X (1..w)) = Voting(S, a) * w
    BY <1>4, <1>5, <1>6
<1>8. Sum(Weights(S), T) = Cardinality(T \X (1..w))
    BY <1>3, Zenon DEF Sum, Shares
<1> QED BY <1>1, <1>7, <1>8

\* Voters of one operator weigh no more than the common multiple; those of two weigh
\* twice as much.
LEMMA OneOperatorWeighs ==
    ASSUME NEW S, IsFiniteSet(S), NEW T \in SUBSET S,
           \A b, c \in T : Operator[b] = Operator[c]
    PROVE  Sum(Weights(S), T) <= CommonMultiple(S)
<1>1. CASE T = {}
    <2>1. Shares(Weights(S), T) = {}
        BY <1>1 DEF Shares
    <2>2. Sum(Weights(S), T) = 0
        BY <2>1, FS_EmptySet, Zenon DEF Sum, Shares
    <2> QED BY <2>2, WeightsBounded
<1>2. CASE T # {}
    <2>1. PICK a \in T : TRUE
        BY <1>2
    <2>2. PICK U : U = {b \in S : Operator[b] = Operator[a]}
        OBVIOUS
    <2>3. U \in SUBSET S /\ T \in SUBSET U /\ a \in S
        BY <2>1, <2>2
    <2> QED BY <2>2, <2>3, OperatorWeighs, SumGrows, WeightsBounded
<1> QED BY <1>1, <1>2

LEMMA TwoOperatorsWeigh ==
    ASSUME NEW S, IsFiniteSet(S), NEW a \in S, NEW c \in S, Operator[a] # Operator[c]
    PROVE  Sum(Weights(S), S) >= 2 * CommonMultiple(S)
<1>1. PICK T, U : /\ T = {b \in S : Operator[b] = Operator[a]}
                  /\ U = {b \in S : Operator[b] = Operator[c]}
    OBVIOUS
<1>2. T \in SUBSET S /\ U \in SUBSET S /\ T \cap U = {} /\ T \cup U \in SUBSET S
    BY <1>1
<1>3. Sum(Weights(S), T) = CommonMultiple(S) /\ Sum(Weights(S), U) = CommonMultiple(S)
    BY <1>1, OperatorWeighs
<1>4. Sum(Weights(S), T \cup U) = Sum(Weights(S), T) + Sum(Weights(S), U)
    <2>1. Splits(Weights(S), T, U)
        BY <1>2, SumAdds, WeightsBounded
    <2> QED BY <1>2, <2>1 DEF Splits
<1>5. Sum(Weights(S), T \cup U) <= Sum(Weights(S), S)
    BY <1>2, SumGrows, WeightsBounded
<1>6. Sum(Weights(S), S) \in Nat /\ CommonMultiple(S) \in Nat
    BY SumTyped, WeightsBounded
<1> QED BY <1>3, <1>4, <1>5, <1>6

\* A set of operators is more than one exactly if two of them differ.
LEMMA MoreThanOne ==
    ASSUME NEW T, IsFiniteSet(T)
    PROVE  Cardinality({Operator[a] : a \in T}) > 1 <=>
               \E b, c \in T : Operator[b] # Operator[c]
<1>1. PICK Q : Q = {Operator[a] : a \in T}
    OBVIOUS
<1>2. IsFiniteSet(Q) /\ Cardinality(Q) \in Nat
    <2>1. PICK f : f = [a \in T |-> Operator[a]]
        OBVIOUS
    <2>2. f \in Surjection(T, Q)
        BY <1>1, <2>1 DEF Surjection
    <2> QED BY <2>2, FS_Surjection, FS_CardinalityType
<1>3. ASSUME NEW b \in T, NEW c \in T, Operator[b] # Operator[c]
      PROVE  Cardinality(Q) > 1
    <2>1. {Operator[b], Operator[c]} \in SUBSET Q
        BY <1>1
    <2>2. Cardinality({Operator[b]}) = 1 /\ IsFiniteSet({Operator[b]})
        BY FS_Singleton
    <2>3. Cardinality({Operator[b]} \cup {Operator[c]}) = 2
        <3>1. Operator[c] \notin {Operator[b]}
            BY <1>3
        <3>2. Cardinality({Operator[b]} \cup {Operator[c]}) = Cardinality({Operator[b]}) + 1
            BY <2>2, <3>1, FS_AddElement
        <3> QED BY <2>2, <3>2
    <2>4. {Operator[b]} \cup {Operator[c]} \in SUBSET Q
        BY <2>1
    <2>5. Cardinality({Operator[b]} \cup {Operator[c]}) <= Cardinality(Q)
        BY <1>2, <2>4, FS_Subset
    <2> QED BY <1>2, <2>3, <2>5
<1>4. ASSUME \A b, c \in T : Operator[b] = Operator[c]
      PROVE  ~(Cardinality(Q) > 1)
    <2>1. CASE Q = {}
        <3>1. Cardinality(Q) = 0
            BY <2>1, FS_EmptySet
        <3> QED BY <3>1
    <2>2. CASE Q # {}
        <3>1. PICK x : Q = {x}
            BY <1>1, <1>4, <2>2
        <3>2. Cardinality(Q) = 1
            BY <3>1, FS_Singleton
        <3> QED BY <3>2
    <2> QED BY <2>1, <2>2
<1>5. Cardinality(Q) > 1 <=> \E b, c \in T : Operator[b] # Operator[c]
    BY <1>3, <1>4
<1> QED BY <1>1, <1>5

\* Two sets of voters that weigh more than half each have a voter in common.
Majority(weigh, T, S) == 2 * Sum(weigh, T) > Sum(weigh, S)
LEMMA HalvesMeet ==
    ASSUME NEW S, IsFiniteSet(S), NEW M \in Nat, NEW weigh \in [S -> 0..M],
           NEW T \in SUBSET S, NEW U \in SUBSET S,
           Majority(weigh, T, S), Majority(weigh, U, S)
    PROVE  T \cap U # {}
<1>1. Splits(weigh, T, U)
    BY SumAdds
<1>2. T \cup U \in SUBSET S /\ S \in SUBSET S
    OBVIOUS
<1>3. Sum(weigh, T \cup U) <= Sum(weigh, S)
    BY <1>2, SumGrows
<1>4. Sum(weigh, S) \in Nat /\ Sum(weigh, T) \in Nat /\ Sum(weigh, U) \in Nat
    BY <1>2, SumTyped
<1> QED BY <1>1, <1>3, <1>4 DEF Majority, Splits
------------------------------------------------------------------------------
(* Records reach the bar *)

\* What changes neither the rows nor the records keeps them there.
LEMMA SameBars ==
    ASSUME BarsMet, UNCHANGED <<rows, decisions>>
    PROVE  BarsMet'
BY DEF BarsMet, Reached, rows

\* A closing record that decides by a rule reached the bar (closeRound).
LEMMA CloseReaches ==
    ASSUME NEW r \in Rounds, CloseRound(r) \/ DemandClose(r) \/ KilledInClose(r)
    PROVE  \E d : Published(r, d) /\ Reached(r, d)
<1>1. ASSUME NEW o PROVE Reached(r, ClosingRecord(r, o))
    BY DEF Reached, ClosingRecord, RecordOf, Clears, Tally, Backers
<1>2. Reached(r, DoomRecord(r))
    BY DEF Reached, DoomRecord, RecordOf
<1> QED BY <1>1, <1>2 DEF CloseRound, DemandClose, KilledInClose, Finish

LEMMA BarsMetStep == ASSUME TypeOK, BarsMet, Next PROVE BarsMet'
<1>1. CASE UNCHANGED <<rows, decisions>>
    BY <1>1, SameBars
<1>2. ASSUME NEW r \in Rounds, NEW S, NEW recused,
             Propose(r, S, recused) \/ KilledInPropose(r, S, recused)
      PROVE  BarsMet'
    <2>1. /\ OpenRow(r, S) /\ decisions[r] = <<>> /\ status'[r] # "none"
          /\ \E x : status' = [status EXCEPT ![r] = x]
          /\ \/ decisions' = decisions
             \/ decisions' = [decisions EXCEPT ![r] = Append(@, ExhaustedRecord(S))]
        BY <1>2 DEF Propose, KilledInPropose, MayPropose, BarsMet, TypeOK
    <2>2. ASSUME NEW q \in Rounds, q # r
          PROVE  /\ status'[q] = status[q] /\ weights'[q] = weights[q]
                 /\ voters'[q] = voters[q] /\ decisions'[q] = decisions[q]
        BY <2>1, <2>2 DEF OpenRow, TypeOK
    <2>3. weights'[r] = Weights(S) /\ voters'[r] = S
        BY <2>1 DEF OpenRow, TypeOK
    <2>4. \/ decisions'[r] = <<>>
          \/ decisions'[r] = <<ExhaustedRecord(S)>>
        BY <2>1 DEF TypeOK
    <2>5. ASSUME NEW n \in DOMAIN decisions'[r] PROVE decisions'[r][n].outcome = "no-decision"
        BY <2>4 DEF ExhaustedRecord
    <2>6. weights'[r] = Weights(voters'[r])
        BY <2>3
    <2> QED BY <2>1, <2>2, <2>5, <2>6 DEF BarsMet, Reached
<1>3. ASSUME NEW r \in Rounds, CloseRound(r) \/ DemandClose(r) \/ KilledInClose(r)
      PROVE  BarsMet'
    <2>1. PICK d : Published(r, d) /\ Reached(r, d)
        BY <1>3, CloseReaches
    <2>2. /\ UNCHANGED <<voters, weights>> /\ status[r] # "none"
          /\ status' = status \/ status' = [status EXCEPT ![r] = "closed"]
        BY <1>3, CloseEffect DEF CloseRound, DemandClose, KilledInClose, MayClose
    <2>3. /\ \A q \in Rounds : q # r => decisions'[q] = decisions[q]
          /\ decisions'[r] = Append(decisions[r], d) /\ \E R : decisions[r] \in Seq(R)
        BY <2>1 DEF Published, TypeOK
    <2>4. ASSUME NEW n \in DOMAIN decisions'[r]
          PROVE  decisions'[r][n] = d \/ (n \in DOMAIN decisions[r] /\ decisions'[r][n] = decisions[r][n])
        BY <2>3
    <2>5. \A q \in Rounds : status'[q] = "none" <=> status[q] = "none"
        BY <2>2 DEF TypeOK
    <2>6. ASSUME NEW q \in Rounds, NEW n \in DOMAIN decisions'[q]
          PROVE  Reached(q, decisions'[q][n])
        <3>1. CASE q # r
            BY <2>3, <3>1 DEF BarsMet
        <3>2. CASE q = r
            <4>1. decisions'[r][n] = d \/ (n \in DOMAIN decisions[r] /\ decisions'[r][n] = decisions[r][n])
                BY <2>4, <3>2
            <4> QED BY <2>1, <3>2, <4>1 DEF BarsMet
        <3> QED BY <3>1, <3>2
    <2>7. ASSUME NEW q \in Rounds, status'[q] = "none"
          PROVE  decisions'[q] = <<>>
        BY <2>2, <2>3, <2>5, <2>7 DEF BarsMet
    <2>8. ASSUME NEW q \in Rounds, status'[q] # "none"
          PROVE  weights'[q] = Weights(voters'[q])
        BY <2>2, <2>5, <2>8 DEF BarsMet
    <2>9. \A q \in Rounds : \A n \in DOMAIN decisions'[q] : Reached(q, decisions[q][n])'
        BY <2>2, <2>6 DEF Reached
    <2> QED BY <2>7, <2>8, <2>9 DEF BarsMet
<1>4. CASE \E r \in Rounds : \E a \in Agents :
               \/ \E b \in Signed[r][a] : \/ CountVote(r, a, b) \/ KeepVote(r, a, b)
                                          \/ KilledInVote(r, a, b)
                                          \/ Convict(r, a, b) \/ KilledInConvict(r, a, b)
               \/ AnnounceProof(r, a) \/ Decline(r, a)
    BY <1>1, <1>4 DEF CountVote, KeepVote, KilledInVote, Convict, KilledInConvict,
       AnnounceProof, Decline, Dispatched, Killed, Running
<1>5. CASE \/ \E r \in Rounds : \E n \in DOMAIN decisions[r] : Expel(r, n) \/ Admit(r, n)
           \/ \E a \in Agents : Enroll(a) \/ Unenroll(a)
           \/ Kill \/ Tick
    BY <1>1, <1>5 DEF Expel, Admit, Enroll, Unenroll, Kill, Tick, Killed, Running
<1> QED BY <1>2, <1>3, <1>4, <1>5, NextCases

------------------------------------------------------------------------------
(* The theorems *)

\* The invariant holds of the empty tables.
LEMMA InitRoundInv == Init => RoundInv
<1> SUFFICES ASSUME Init PROVE RoundInv
    OBVIOUS
<1>1. TypeOK
    BY InitTyped
<1>2. RowsInOrder
    BY DEF Init, RowsInOrder
<1>3. KeptSigned
    BY DEF Init, KeptSigned
<1>4. ConvictionsBacked /\ VerdictsMatch /\ CountsNoConvicted /\ RecordsMatch
    BY DEF Init, ConvictionsBacked, VerdictsMatch, CountsNoConvicted, RecordsMatch, RecordMatches
<1> QED BY <1>1, <1>2, <1>3, <1>4 DEF RoundInv

\* Every step keeps the invariant.
LEMMA StepRoundInv == RoundInv /\ [Next]_vars => RoundInv'
<1> SUFFICES ASSUME RoundInv, [Next]_vars PROVE RoundInv'
    OBVIOUS
<1>1. CASE Next
    <2>1. TypeOK'
        BY <1>1, StepTyped DEF RoundInv
    <2>2. RowsInOrder' /\ KeptSigned' /\ ConvictionsBacked'
        BY <1>1, RowsInOrderStep, KeptSignedStep, BackedStep DEF RoundInv
    <2>3. VerdictsMatch' /\ CountsNoConvicted'
        BY <1>1, VerdictsMatchStep, CountsStep DEF RoundInv
    <2>4. RecordsMatch'
        BY <1>1, RecordsMatchStep DEF RoundInv, RecordsMatch
    <2> QED BY <2>1, <2>2, <2>3, <2>4 DEF RoundInv
<1>2. CASE UNCHANGED vars
    <2>1. TypeOK'
        BY <1>2, StepTyped DEF RoundInv
    <2>2. /\ RowsInOrder' /\ KeptSigned' /\ ConvictionsBacked'
          /\ VerdictsMatch' /\ CountsNoConvicted'
        BY <1>2 DEF vars, rows, ballots, verdicts, RoundInv, RowsInOrder, KeptSigned,
           ConvictionsBacked, VerdictsMatch, CountsNoConvicted
    <2>3. RecordsMatch'
        BY <1>2 DEF vars, rows, ballots, verdicts, seats, RoundInv, RecordsMatch, RecordMatches,
           Held, Zeroed, Restorations
    <2> QED BY <2>1, <2>2, <2>3 DEF RoundInv
<1> QED BY <1>1, <1>2

\* The invariant that carries the theorems below.
THEOREM RoundInvariant == Spec => []RoundInv
BY InitRoundInv, StepRoundInv, PTL DEF Spec

\* A voter loses its weight only in a round where it signed two conflicting ballots
\* (onVote, onEquivocationProofAnnounce).
THEOREM ConvictionsNeedBallots == Spec => []ConvictionsBacked
BY RoundInvariant, PTL DEF RoundInv

\* No DecisionRecord counts a voter whose proof was on record when it was signed
\* (finishClose), in a process that was not killed.
THEOREM RecordsCountNoConvicted == Spec => []CountsNoConvicted
BY RoundInvariant, PTL DEF RoundInv

\* No step gives a zeroed voter its weight back in a round that is already there
\* (isZeroedFor, recordRestoration).
THEOREM RestorationLooksForward == Spec => RestorationsLookForward
<1>1. RoundInv /\ [Next]_vars =>
          [\A r \in Rounds : status[r] # "none" =>
              \A a \in Agents : Zeroed(r, a) => Zeroed(r, a)']_vars
    <2> SUFFICES ASSUME RoundInv, Next, NEW r \in Rounds, status[r] # "none",
                        NEW a \in Agents, Zeroed(r, a)
                 PROVE  Zeroed(r, a)'
        BY DEF vars
    <2> QED BY ZeroedStays DEF RoundInv
<1> QED BY <1>1, RoundInvariant, PTL DEF Spec, RestorationsLookForward

\* Once a round is closed the hub's own tables and the signed record name the same
\* successor (successor, finishClose), for any order of the members.
THEOREM SuccessorIsReadable == Spec => []SuccessorAgrees
<1>1. RoundInv => SuccessorAgrees
    <2> SUFFICES ASSUME RoundInv, NEW r \in Rounds,
                        status[r] = "closed", Len(decisions[r]) = 1, kills = 0,
                        \A a \in voters[r] : Zeroed(r, a) => a \in convicted[r]
                 PROVE  Successor(r) = FirstOf((voters[r] \ convicted[r]) \ decisions[r][1].silent)
        BY DEF SuccessorAgrees
    <2>1. {a \in voters[r] \ convicted[r] : a \in Held(r) \cup declined[r]}
              = (voters[r] \ convicted[r]) \ decisions[r][1].silent
        BY DEF RoundInv, RecordsMatch, RecordMatches
    <2> QED BY <2>1 DEF Successor
<1> QED BY <1>1, RoundInvariant, PTL

------------------------------------------------------------------------------
(* Quorums *)

\* Rows keep the weights of their voters and records reach their bar (proposeRound,
\* closeRound).
THEOREM BarsStand == Spec => []BarsMet
<1>1. Init => BarsMet
    BY DEF Init, BarsMet
<1>2. TypeOK /\ BarsMet /\ [Next]_vars => BarsMet'
    BY BarsMetStep, SameBars DEF vars, rows
<1> QED BY <1>1, <1>2, TypeCorrect, PTL DEF Spec

\* The pinned weights are numbers, and the backers of a decision reach a bar that is
\* more than half of them.
LEMMA BarOfDecision ==
    ASSUME TypeOK, BarsMet, NEW r \in Rounds, NEW n \in DOMAIN decisions[r],
           Rule[r] \in {"majority-of-total", "two-thirds-of-total"},
           decisions[r][n].outcome # "no-decision"
    PROVE  /\ IsFiniteSet(voters[r]) /\ weights[r] = Weights(voters[r])
           /\ decisions[r][n].backers \in SUBSET voters[r]
           /\ 2 * Sum(weights[r], decisions[r][n].backers) > Sum(weights[r], voters[r])
<1>1. voters[r] \in SUBSET Agents
    BY DEF TypeOK
<1>2. IsFiniteSet(voters[r])
    BY <1>1, RoundAssumption, FS_Subset
<1>3. weights[r] = Weights(voters[r]) /\ DOMAIN weights[r] = voters[r]
    BY DEF BarsMet, TypeOK
<1>4. /\ decisions[r][n].backers \in SUBSET voters[r]
      /\ Sum(weights[r], decisions[r][n].backers) >= BarOver(r, weights[r])
    BY DEF BarsMet, Reached
<1>5. /\ Sum(weights[r], voters[r]) \in Nat
      /\ Sum(weights[r], decisions[r][n].backers) \in Nat
    <2>1. CommonMultiple(voters[r]) \in Nat /\ weights[r] \in [voters[r] -> 0..CommonMultiple(voters[r])]
        BY <1>2, <1>3, WeightsBounded
    <2> QED BY <1>2, <1>4, <2>1, SumTyped
<1>6. \/ BarOver(r, weights[r]) = Sum(weights[r], voters[r]) \div 2 + 1
      \/ BarOver(r, weights[r]) = (2 * Sum(weights[r], voters[r])) \div 3 + 1
    BY <1>3 DEF BarOver
<1>7. \A t \in Nat : 2 * (t \div 2 + 1) > t /\ 2 * ((2 * t) \div 3 + 1) > t
    OBVIOUS
<1> QED BY <1>2, <1>3, <1>4, <1>5, <1>6, <1>7

\* Two DecisionRecords of one round that decide differently share a backer
\* (closeRound, thresholdOf): the bar leaves no room for two disjoint quorums.
THEOREM QuorumsMeet == Spec => []QuorumsIntersect
<1>1. TypeOK /\ BarsMet => QuorumsIntersect
    <2> SUFFICES ASSUME TypeOK, BarsMet, NEW r \in Rounds,
                        NEW n \in DOMAIN decisions[r], NEW k \in DOMAIN decisions[r],
                        Rule[r] \in {"majority-of-total", "two-thirds-of-total"},
                        {decisions[r][n].outcome, decisions[r][k].outcome} \subseteq OptionSet,
                        decisions[r][n].backers \cap decisions[r][k].backers = {}
                 PROVE  FALSE
        BY DEF QuorumsIntersect
    <2>1. PICK S, T, U, W : /\ S = voters[r] /\ W = weights[r]
                            /\ T = decisions[r][n].backers /\ U = decisions[r][k].backers
        OBVIOUS
    <2>2. "no-decision" \notin OptionSet
        BY RoundAssumption DEF OptionSet
    <2>3. /\ IsFiniteSet(S) /\ W = Weights(S) /\ T \in SUBSET S /\ U \in SUBSET S
          /\ 2 * Sum(W, T) > Sum(W, S) /\ 2 * Sum(W, U) > Sum(W, S)
        BY <2>1, <2>2, BarOfDecision
    <2>4. PICK M \in Nat : W \in [S -> 0..M]
        BY <2>3, WeightsBounded
    <2>5. T \cap U # {}
        BY <2>3, <2>4, HalvesMeet DEF Majority
    <2> QED BY <2>1, <2>5
<1> QED BY <1>1, TypeCorrect, BarsStand, PTL

\* With a majority rule no operator decides alone over voters of another one
\* (voterWeights, closeRound), however many agents it enrolled.
THEOREM OperatorsDecideTogether == Spec => []NoOperatorDecidesAlone
<1>1. TypeOK /\ BarsMet => NoOperatorDecidesAlone
    <2> SUFFICES ASSUME TypeOK, BarsMet, NEW r \in Rounds, NEW n \in DOMAIN decisions[r],
                        Rule[r] = "majority-of-total",
                        decisions[r][n].outcome # "no-decision",
                        Cardinality({Operator[a] : a \in voters[r]}) > 1,
                        ~(Cardinality({Operator[a] : a \in decisions[r][n].backers}) > 1)
                 PROVE  FALSE
        BY DEF NoOperatorDecidesAlone
    <2>1. PICK S, T : S = voters[r] /\ T = decisions[r][n].backers
        OBVIOUS
    <2>2. /\ IsFiniteSet(S) /\ weights[r] = Weights(S) /\ T \in SUBSET S
          /\ 2 * Sum(weights[r], T) > Sum(weights[r], S)
        BY <2>1, BarOfDecision
    <2>3. IsFiniteSet(T)
        BY <2>2, FS_Subset
    <2>4. \E b, c \in S : Operator[b] # Operator[c]
        BY <2>1, <2>2, MoreThanOne
    <2>5. \A b, c \in T : Operator[b] = Operator[c]
        BY <2>1, <2>3, MoreThanOne
    <2>6. Sum(Weights(S), T) <= CommonMultiple(S)
        BY <2>2, <2>5, OneOperatorWeighs
    <2>7. Sum(Weights(S), S) >= 2 * CommonMultiple(S)
        BY <2>2, <2>4, TwoOperatorsWeigh
    <2>8. /\ Sum(Weights(S), S) \in Nat /\ Sum(Weights(S), T) \in Nat
          /\ CommonMultiple(S) \in Nat
        <3>1. CommonMultiple(S) \in Nat /\ Weights(S) \in [S -> 0..CommonMultiple(S)] /\ S \in SUBSET S
            BY <2>2, WeightsBounded
        <3> QED BY <2>2, <3>1, SumTyped
    <2> QED BY <2>2, <2>6, <2>7, <2>8
<1> QED BY <1>1, TypeCorrect, BarsStand, PTL

\* What a step leaves of a doomed round's chances, unless a voter counted already
\* changes its ballot: nobody votes for an option or may still be heard who did not, or
\* might not, before.
LEMMA ChancesShrink ==
    ASSUME RoundInv, Next, NEW r \in Rounds, status[r] # "none",
           \A a \in voters[r] : a \in Counted(r) => receipts'[r][a] = receipts[r][a],
           NEW o \in OptionSet
    PROVE  /\ Backers(r, o)' \cup Unheard(r)' \subseteq Backers(r, o) \cup Unheard(r)
           /\ Backers(r, o)' \cap Unheard(r)' = {}
<1>1. o # "abstain" /\ o # "none"
    BY RoundAssumption DEF OptionSet
<1>2. voters'[r] = voters[r] /\ voters[r] \in SUBSET Agents
    BY RowsStep DEF RoundInv, TypeOK
<1>3. \A a \in voters[r] : Zeroed(r, a) => Zeroed(r, a)'
    BY <1>2, ZeroedStays DEF RoundInv
<1>4. ASSUME NEW a \in Backers(r, o)' PROVE a \in Backers(r, o) \cup Unheard(r)
    <2>1. a \in voters[r] /\ receipts'[r][a].value = o /\ ~Zeroed(r, a)'
        BY <1>1, <1>2, <1>4 DEF Backers, Choice
    <2>2. ~Zeroed(r, a)
        BY <1>3, <2>1
    <2>3. CASE receipts[r][a] = NoBallot
        BY <2>1, <2>2, <2>3 DEF Unheard
    <2>4. CASE receipts[r][a] # NoBallot
        <3>1. a \in Counted(r)
            BY <1>2, <2>1, <2>2, <2>4 DEF Counted, Held
        <3> QED BY <2>1, <2>2, <3>1 DEF Backers, Choice
    <2> QED BY <2>3, <2>4
<1>5. ASSUME NEW a \in Unheard(r)' PROVE a \in Unheard(r) /\ a \notin Backers(r, o)'
    <2>1. a \in voters[r] /\ receipts'[r][a] = NoBallot /\ ~Zeroed(r, a)'
        BY <1>2, <1>5 DEF Unheard
    <2>2. ~Zeroed(r, a)
        BY <1>3, <2>1
    <2>3. receipts[r][a] = NoBallot
        BY <1>2, <2>1, <2>2 DEF Counted, Held
    <2> QED BY <1>1, <2>1, <2>2, <2>3 DEF Unheard, Backers, Choice, NoBallot
<1> QED BY <1>4, <1>5

LEMMA FewerStayShort ==
    ASSUME NEW S, IsFiniteSet(S), NEW M \in Nat, NEW weigh \in [S -> 0..M], NEW bar \in Int,
           NEW B \in SUBSET S, NEW U \in SUBSET S, NEW C \in SUBSET S, NEW V \in SUBSET S
    PROVE  /\ C \cup V \in SUBSET (B \cup U)
           /\ C \cap V = {}
           /\ Sum(weigh, B) < bar - Sum(weigh, U)
           => Sum(weigh, C) < bar - Sum(weigh, V)
<1>1. Splits(weigh, C, V)
    BY SumAdds
<1>2. Sum(weigh, B \cup U) <= Sum(weigh, B) + Sum(weigh, U)
    BY SumAdds
<1>3. C \cup V \in SUBSET (B \cup U) => Sum(weigh, C \cup V) <= Sum(weigh, B \cup U)
    <2>1. B \cup U \in SUBSET S
        OBVIOUS
    <2> QED BY <2>1, SumGrows
<1>4. /\ Sum(weigh, B) \in Nat /\ Sum(weigh, C) \in Nat
      /\ Sum(weigh, U) \in Nat /\ Sum(weigh, V) \in Nat
    BY SumTyped
<1>5. Sum(weigh, C \cup V) \in Nat /\ Sum(weigh, B \cup U) \in Nat
    <2>1. C \cup V \in SUBSET S /\ B \cup U \in SUBSET S
        OBVIOUS
    <2> QED BY <2>1, SumTyped
<1> QED
    <2> SUFFICES ASSUME C \cup V \in SUBSET (B \cup U), C \cap V = {},
                        Sum(weigh, B) < bar - Sum(weigh, U)
                 PROVE  Sum(weigh, C) < bar - Sum(weigh, V)
        OBVIOUS
    <2>1. Sum(weigh, C \cup V) = Sum(weigh, C) + Sum(weigh, V)
        BY <1>1 DEF Splits
    <2>2. Sum(weigh, C \cup V) <= Sum(weigh, B \cup U)
        BY <1>3
    <2> QED BY <2>1, <2>2, <1>2, <1>4, <1>5

\* A round that no option can win any more is not brought back by a late vote, a
\* conviction or a restoration, but only by a voter who changes its ballot (doomed).
THEOREM DoomStands == Spec => DoomLiftedOnlyByRevote
<1>1. RoundInv /\ BarsMet /\ [Next]_vars =>
          [\A r \in Rounds :
              status[r] = "open" /\ Doomed(r) /\ ~Doomed(r)' =>
                  \E a \in voters[r] : a \in Counted(r) /\ receipts'[r][a] # receipts[r][a]]_vars
    <2> SUFFICES ASSUME RoundInv, BarsMet, Next, NEW r \in Rounds, status[r] = "open", Doomed(r),
                        \A a \in voters[r] : a \in Counted(r) => receipts'[r][a] = receipts[r][a]
                 PROVE  Doomed(r)'
        BY DEF vars
    <2>1. status[r] # "none"
        OBVIOUS
    <2>2. /\ voters'[r] = voters[r] /\ weights'[r] = weights[r]
          /\ weights[r] = Weights(voters[r]) /\ voters[r] \in SUBSET Agents
        <3>1. voters'[r] = voters[r] /\ status'[r] # "none"
            BY <2>1, RowsStep DEF RoundInv
        <3>2. weights[r] = Weights(voters[r])
            BY <2>1 DEF BarsMet
        <3>3. BarsMet'
            BY BarsMetStep DEF RoundInv
        <3>4. weights'[r] = Weights(voters'[r])
            BY <3>1, <3>3 DEF BarsMet
        <3> QED BY <3>1, <3>2, <3>4 DEF RoundInv, TypeOK
    <2>3. PICK S, W : S = voters[r] /\ W = weights[r]
        OBVIOUS
    <2>a. IsFiniteSet(S) /\ W = Weights(S)
        BY <2>2, <2>3, RoundAssumption, FS_Subset
    <2>b. PICK M \in Nat : W \in [S -> 0..M]
        BY <2>a, WeightsBounded
    <2>4. IsFiniteSet(S) /\ M \in Nat /\ W \in [S -> 0..M]
        BY <2>a, <2>b
    <2>5. ASSUME NEW o \in OptionSet
          PROVE  Tally(r, o)' < BarOver(r, W) - Sum(W, Unheard(r)')
        <3>1. PICK B, C, U, V : /\ B = Backers(r, o) /\ C = Backers(r, o)'
                                /\ U = Unheard(r) /\ V = Unheard(r)'
            OBVIOUS
        <3>2. B \in SUBSET S /\ U \in SUBSET S /\ C \in SUBSET S /\ V \in SUBSET S
            BY <2>2, <2>3, <3>1 DEF Backers, Unheard
        <3>3. C \cup V \in SUBSET (B \cup U) /\ C \cap V = {} /\ B \cup U \in SUBSET S
            <4>1. /\ Backers(r, o)' \cup Unheard(r)' \subseteq Backers(r, o) \cup Unheard(r)
                  /\ Backers(r, o)' \cap Unheard(r)' = {}
                BY <2>1, ChancesShrink
            <4> QED BY <3>1, <3>2, <4>1
        <3>4. Sum(W, B) < BarOver(r, W) - Sum(W, U)
            BY <2>3, <3>1 DEF Doomed, Tally
        <3>5. BarOver(r, W) \in Int
            <4>1. Sum(W, DOMAIN W) \in Nat
                <5>1. DOMAIN W = S /\ S \in SUBSET S
                    BY <2>4
                <5> QED BY <2>4, <5>1, SumTyped
            <4>2. \A t \in Nat : t \div 2 + 1 \in Int /\ (2 * t) \div 3 + 1 \in Int
                OBVIOUS
            <4> QED BY <4>1, <4>2, RoundAssumption DEF BarOver, Forms
        <3>6. Sum(W, C) < BarOver(r, W) - Sum(W, V)
            BY <2>4, <3>2, <3>3, <3>4, <3>5, FewerStayShort
        <3>7. Tally(r, o)' = Sum(W, C)
            BY <2>2, <2>3, <3>1 DEF Tally
        <3> QED BY <3>1, <3>6, <3>7
    <2>6. BarOver(r, weights[r])' = BarOver(r, W)
        BY <2>2, <2>3
    <2>7. Sum(weights[r], Unheard(r))' = Sum(W, Unheard(r)')
        BY <2>2, <2>3
    <2>8. Rule[r] # "none" /\ Options # <<>>
        BY DEF Doomed
    <2> QED BY <2>5, <2>6, <2>7, <2>8 DEF Doomed
<1> QED BY <1>1, RoundInvariant, BarsStand, PTL DEF Spec, DoomLiftedOnlyByRevote
=============================================================================
