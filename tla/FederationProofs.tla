--------------------------- MODULE FederationProofs ---------------------------
(***************************************************************************)
(* TLAPS proofs about what crosses the federation: Federation, for every   *)
(* set of operators, agreements, works and hubs, every plan and any number *)
(* of kills; HopDoor, for any number of deliveries, any budget of faults,  *)
(* any capacity, any replay window and any clocks; Bundles, for any number *)
(* of instances, agents and duties.                                        *)
(***************************************************************************)
EXTENDS Federation, HopDoor, Bundles, FiniteSetTheorems, TLAPS

------------------------------------------------------------------------------
(* Agreements and delegated work *)

------------------------------------------------------------------------------
(* The strengthening *)

\* What a party publishes, none of it dated ahead of its clock: a Create over an
\* agreement, to a party of it, an Accept or an outcome of work it does, to
\* whoever asked, one Accept of each.
OutboxFit ==
    \A p \in Parties : \A a \in outbox[p] :
        /\ a.by = p /\ a.at <= Clock(p)
        /\ a.kind = "create" => a.of \in Agreements /\ a.to \in Between[a.of] /\ a.to # p
        /\ a.kind \in {"accept"} \cup Outcomes =>
              a.of \in Works /\ Worker[a.of] = p /\ Requester[a.of] = a.to
        /\ a.kind = "accept" =>
              a.at # 0 /\ \A b \in outbox[p] : b.kind = "accept" /\ b.of = a.of => b = a

\* A Create that is held has been published, the other's by someone else.
HeldIsSigned ==
    \A p \in Parties :
        /\ \A g \in own[p] : Said(p, "create", g)
        /\ \A g \in theirs[p] : Countersigned(p, g)

\* An activity came in through the gate, from a party not shut out.
Granted(p, a) ==
    \E x \in crossed[p] :
        x.act = a /\ ~x.denied /\ (a.by # p => x.how = "grant")

\* The instant on record is that of an Accept which came in through the gate.
AcceptsFit ==
    \A p \in Parties, w \in Works : accepts[p][w] # 0 =>
        \E a \in Arrivals(p) :
            a.kind = "accept" /\ a.of = w /\ a.at = accepts[p][w] /\ Granted(p, a)

\* An Accept's instant is on record.
Pinned(p, a) == a.kind = "accept" => accepts[p][a.of] = a.at

\* What a process has left to write, and what that goes back to.
StretchAt(p) ==
    /\ busy[p] = [act |-> busy[p].act, todo |-> busy[p].todo]
    /\ \/ busy[p].todo = <<>>
       \/ /\ busy[p].todo = <<"own">>
          /\ busy[p].act \in outbox[p] /\ busy[p].act.kind = "create"
          /\ p \in Between[busy[p].act.of]
       \/ busy[p].todo = <<"deny">> /\ busy[p].act \in outbox[p]
       \/ /\ busy[p].todo = <<"theirs", "record", "receive">>
          /\ busy[p].act \in Arrivals(p) /\ busy[p].act.kind = "create"
       \/ /\ busy[p].todo = <<"accept", "record", "receive">>
          /\ busy[p].act \in Arrivals(p) /\ busy[p].act.kind = "accept"
          /\ Granted(p, busy[p].act)
       \/ /\ busy[p].todo = <<"record", "receive">>
          /\ busy[p].act \in Arrivals(p) /\ Pinned(p, busy[p].act)
       \/ /\ busy[p].todo = <<"receive">>
          /\ busy[p].act \in received[p] /\ Pinned(p, busy[p].act)
StretchFit == \A p \in Parties : StretchAt(p)

HandedFit == \A p \in Parties : \A a \in dispatched[p] : a \in received[p] /\ Pinned(p, a)

\* What a read that is being resolved goes by: all the references there were at
\* the instant it came, and proofs that ran then.
AskingFit ==
    \A p \in Parties : \A r \in asking[p] :
        /\ r.came <= Clock(p) /\ r.refs \subseteq outbox[p]
        /\ \A h \in r.hubs : r.came < Proof[r.by][h]
        /\ r.doc # None => \A a \in Referencing(p, r.doc) : a.at < r.came => a \in r.refs

BoundaryInv ==
    /\ OutboxFit /\ HeldIsSigned /\ AcceptsFit /\ StretchFit /\ HandedFit /\ AskingFit
    /\ WorkCrossesUnderAgreement /\ LateIsInFlight /\ CrossingsReplay /\ InFlightLands
    /\ DeniedStayOut /\ ReadsAreCovered

------------------------------------------------------------------------------
(* Helpers *)

LEMMA ArrivalsAre ==
    ASSUME NEW p \in Parties, NEW a
    PROVE  a \in Arrivals(p) <=> a.to = p /\ \E q \in Parties : a \in outbox[q]
BY DEF Arrivals

\* The other party of an agreement.
LEMMA OtherParty ==
    ASSUME NEW g \in Agreements, NEW p \in Between[g]
    PROVE  \E q \in Parties : q # p /\ Between[g] = {p, q}
<1>1. Between[g] \subseteq Parties /\ Cardinality(Between[g]) = 2 /\ IsFiniteSet(Between[g])
  BY FederationAssumption, FS_Subset DEF FederationAssumption
<1>2. IsFiniteSet(Between[g] \ {p}) /\ Cardinality(Between[g] \ {p}) = 1
  BY <1>1, FS_RemoveElement
<1>3. PICK q : Between[g] \ {p} = {q}
  BY <1>2, FS_Singleton
<1>4. QED
  BY <1>1, <1>3

\* What the rest of a stretch is, one statement on.
LEMMA Tails ==
    /\ Head(<<"own">>) = "own" /\ Len(<<"own">>) = 1
    /\ Head(<<"deny">>) = "deny" /\ Len(<<"deny">>) = 1
    /\ Head(<<"receive">>) = "receive" /\ Len(<<"receive">>) = 1
    /\ Head(<<"record", "receive">>) = "record" /\ Len(<<"record", "receive">>) = 2
    /\ Tail(<<"record", "receive">>) = <<"receive">>
    /\ Head(<<"theirs", "record", "receive">>) = "theirs"
    /\ Len(<<"theirs", "record", "receive">>) = 3
    /\ Tail(<<"theirs", "record", "receive">>) = <<"record", "receive">>
    /\ Head(<<"accept", "record", "receive">>) = "accept"
    /\ Len(<<"accept", "record", "receive">>) = 3
    /\ Tail(<<"accept", "record", "receive">>) = <<"record", "receive">>
OBVIOUS

LEMMA Todos ==
    ASSUME NEW a
    PROVE  /\ a.kind = "create" => Todo(a) = <<"theirs", "record", "receive">>
           /\ a.kind = "accept" => Todo(a) = <<"accept", "record", "receive">>
           /\ a.kind \notin {"create", "accept"} => Todo(a) = <<"record", "receive">>
BY DEF Todo

LEMMA ClockIsNatural ==
    ASSUME TypeOK, NEW p \in Parties
    PROVE  now \in Nat /\ plan.ahead[p] \in Nat /\ Clock(p) \in Nat /\ Clock(p) # 0
<1>1. now \in 1..MaxNow /\ MaxNow \in Nat /\ plan \in Plan
  BY FederationAssumption DEF TypeOK, FederationAssumption
<1>2. plan.ahead[p] \in Nat
  BY <1>1 DEF Plan
<1>3. QED
  BY <1>1, <1>2 DEF Clock

\* What grows keeps what was said of it.
Grows ==
    /\ plan' = plan
    /\ \A p \in Parties :
        /\ outbox[p] \subseteq outbox'[p] /\ crossed[p] \subseteq crossed'[p]
        /\ received[p] \subseteq received'[p]

LEMMA GrownSaid ==
    ASSUME Grows
    PROVE  /\ \A p \in Parties : \A kind, of : Said(p, kind, of) => Said(p, kind, of)'
           /\ \A p \in Parties : \A a : a \in Arrivals(p) => a \in Arrivals(p)'
           /\ \A p \in Parties : \A a : Granted(p, a) => Granted(p, a)'
           /\ \A p \in Parties : \A g : Countersigned(p, g) => Countersigned(p, g)'
           /\ \A p \in Parties : \A g : Agreed(p, g) => Agreed(p, g)'
           /\ \A p, q : Vouched(p, q) => Vouched(p, q)'
<1>1. \A p \in Parties : \A kind, of : Said(p, kind, of) => Said(p, kind, of)'
  BY DEF Grows, Said
<1>2. \A p \in Parties : \A a : a \in Arrivals(p) => a \in Arrivals(p)'
  BY DEF Grows, Arrivals
<1>3. \A p \in Parties : \A a : Granted(p, a) => Granted(p, a)'
  BY DEF Grows, Granted
<1>4. \A p \in Parties : \A g : Countersigned(p, g) => Countersigned(p, g)'
  BY DEF Grows, Countersigned
<1>5. \A p \in Parties : \A g : Agreed(p, g) => Agreed(p, g)'
  BY <1>1, <1>4 DEF Agreed
<1>6. \A p, q : Vouched(p, q) => Vouched(p, q)'
  BY DEF Grows, Vouched
<1>7. QED
  BY <1>1, <1>2, <1>3, <1>4, <1>5, <1>6

\* What replays goes on replaying.
LEMMA GrownReplays ==
    ASSUME Grows, NEW a, a.by \in Parties
    PROVE  /\ AdmittedOnReplay(a) => AdmittedOnReplay(a)'
           /\ RidesAccept(a) => RidesAccept(a)'
<1>1. Candidates(a) \subseteq Candidates(a)'
  BY GrownSaid DEF Candidates
<1>2. outbox[a.by] \subseteq outbox'[a.by]
  BY DEF Grows
<1>3. QED
  BY <1>1, <1>2 DEF AdmittedOnReplay, RidesAccept, AdmittingGrant

\* What entitled goes on entitling.
LEMMA GrownEntitles ==
    ASSUME Grows, NEW p \in Parties, NEW v, NEW a
    PROVE  Entitles(p, v, a) => Entitles(p, v, a)'
<1>1. \A g \in Agreements : Agreed(p, g) => Agreed(p, g)'
  BY GrownSaid
<1>2. QED
  BY <1>1 DEF Entitles, HubOf, Class

\* Each part of the invariant stands where what it reads has only grown.
LEMMA Frames ==
    ASSUME TypeOK, BoundaryInv, Grows
    PROVE  /\ UNCHANGED <<own, theirs>> => HeldIsSigned'
           /\ UNCHANGED accepts => AcceptsFit'
           /\ UNCHANGED <<accepts, dispatched>> => HandedFit'
           /\ UNCHANGED crossed => WorkCrossesUnderAgreement' /\ LateIsInFlight' /\ CrossingsReplay'
           /\ UNCHANGED <<crossed, served>> => DeniedStayOut'
           /\ UNCHANGED served => ReadsAreCovered'
           /\ UNCHANGED log => InFlightLands'
           /\ UNCHANGED outbox /\ now' \in {now, now + 1} => OutboxFit'
           /\ UNCHANGED <<outbox, asking>> /\ now' \in {now, now + 1} => AskingFit'
           /\ \A p \in Parties : UNCHANGED accepts /\ busy'[p] = busy[p] => StretchAt(p)'
<1> USE DEF BoundaryInv
<1>1. UNCHANGED <<own, theirs>> => HeldIsSigned'
  BY GrownSaid DEF HeldIsSigned
<1>2. UNCHANGED accepts => AcceptsFit'
  BY GrownSaid DEF AcceptsFit
<1>3. UNCHANGED <<accepts, dispatched>> => HandedFit'
  BY DEF HandedFit, Pinned, Grows
<1>4. UNCHANGED crossed => WorkCrossesUnderAgreement'
  BY GrownSaid DEF WorkCrossesUnderAgreement
<1>5. UNCHANGED crossed => LateIsInFlight'
  BY GrownSaid DEF LateIsInFlight
<1>6. UNCHANGED <<crossed, served>> => DeniedStayOut'
  BY DEF DeniedStayOut
<1>7. UNCHANGED served => ReadsAreCovered'
  BY GrownEntitles DEF ReadsAreCovered
<1>8. UNCHANGED log => InFlightLands'
  BY DEF InFlightLands
<1>0. now' \in {now, now + 1} => \A p \in Parties : \A n \in Nat : n <= Clock(p) => n <= Clock(p)'
  BY ClockIsNatural DEF Clock, Grows
<1>9. UNCHANGED outbox /\ now' \in {now, now + 1} => OutboxFit'
  BY <1>0 DEF OutboxFit, TypeOK, Activity
<1>12. UNCHANGED <<outbox, asking>> /\ now' \in {now, now + 1} => AskingFit'
  BY <1>0 DEF AskingFit, Referencing, TypeOK, Reading
<1>13. UNCHANGED crossed => CrossingsReplay'
  <2>1. \A p \in Parties : \A x \in crossed[p] : x.act.by \in Parties
    BY DEF TypeOK, Crossing, Activity
  <2>2. QED
    BY <2>1, GrownSaid, GrownReplays DEF CrossingsReplay, Grows
<1>10. ASSUME NEW p \in Parties, UNCHANGED accepts, busy'[p] = busy[p]
       PROVE  StretchAt(p)'
  <2>1. StretchAt(p)
    BY DEF StretchFit
  <2>2. outbox[p] \subseteq outbox'[p] /\ received[p] \subseteq received'[p]
    BY DEF Grows
  <2>3. \A a : Pinned(p, a) => Pinned(p, a)'
    BY <1>10 DEF Pinned
  <2>4. QED
    BY <1>10, <2>1, <2>2, <2>3, GrownSaid DEF StretchAt
<1>11. QED
  BY <1>1, <1>2, <1>3, <1>4, <1>5, <1>6, <1>7, <1>8, <1>9, <1>10, <1>12, <1>13

------------------------------------------------------------------------------
(* The gate *)

\* How an activity is let in.
Entitled(p, a, how) ==
    \/ how = "handshake" /\ a.kind = "create" /\ a.by \notin deny[p]
    \/ /\ how = IF a.by = p THEN "self" ELSE "grant"
       /\ a.kind # "create" /\ GateStep(p, a) = "admitted"
    \/ how = "late" /\ LateOutcome(p, a) /\ a.by # p

LEMMA AdmittedBy ==
    ASSUME NEW p, NEW a, GateStep(p, a) = "admitted"
    PROVE  /\ a.by \notin deny[p]
           /\ a.by = p \/ \E g \in ActiveAgreementsWith(p, a.by) : AdmittingGrant(g, a)
BY DEF GateStep

\* An agreement a process holds both Creates of was published by it, and by
\* another to it.
LEMMA HeldAgreement ==
    ASSUME TypeOK, BoundaryInv, NEW p \in Parties, NEW q,
           NEW g \in AgreementsWith(p, q)
    PROVE  g \in Agreements /\ p # q /\ Between[g] = {p, q} /\ Agreed(p, g)
<1>1. g \in own[p] /\ g \in theirs[p] /\ p # q /\ Between[g] = {p, q}
  BY DEF AgreementsWith
<1>2. g \in Agreements
  BY <1>1 DEF TypeOK
<1>3. Said(p, "create", g) /\ Countersigned(p, g)
  BY <1>1 DEF BoundaryInv, HeldIsSigned
<1>4. QED
  BY <1>1, <1>2, <1>3 DEF Agreed

\* On the record of the other, but for what a third party vouched for.
LEMMA HeldReplays ==
    ASSUME TypeOK, BoundaryInv, NEW p \in Parties, NEW a,
           NEW g \in AgreementsWith(p, a.by), a.to = p, ~Vouched(p, a.by)
    PROVE  g \in Candidates(a)
<1>1. g \in Agreements /\ p # a.by /\ Between[g] = {p, a.by} /\ Agreed(p, g)
  BY HeldAgreement
<1>2. PICK q \in Parties \ {p} : \E c \in outbox[q] : c.kind = "create" /\ c.of = g /\ c.to = p
  BY <1>1 DEF Agreed, Countersigned
<1>3. q = a.by
  BY <1>1, <1>2 DEF Vouched
<1>4. QED
  BY <1>1, <1>2, <1>3 DEF Candidates, Said

\* An outcome let in late goes back to an Accept that was granted.
LEMMA LateGoesBack ==
    ASSUME TypeOK, BoundaryInv, NEW p \in Parties, NEW a \in Arrivals(p),
           a.by # p, LateOutcome(p, a)
    PROVE  \E y \in crossed[p] :
              /\ y.act.kind = "accept" /\ y.act.of = a.of /\ y.how = "grant" /\ ~y.denied
              /\ \E g \in Agreements :
                   Between[g] = {p, y.act.by} /\ Agreed(p, g) /\ y.act.at < Expires[g]
<1>1. PICK q \in Parties : a \in outbox[q]
  BY ArrivalsAre
<1>2. /\ a.kind \in Outcomes /\ accepts[p][a.of] # 0
      /\ \E g \in AgreementsWith(p, a.by) : accepts[p][a.of] < Expires[g]
  BY DEF LateOutcome
<1>3. a.by = q /\ a.of \in Works /\ Worker[a.of] = q
  BY <1>1, <1>2 DEF BoundaryInv, OutboxFit
<1>4. PICK b \in Arrivals(p) :
         b.kind = "accept" /\ b.of = a.of /\ b.at = accepts[p][a.of] /\ Granted(p, b)
  BY <1>2, <1>3 DEF BoundaryInv, AcceptsFit
<1>5. PICK r \in Parties : b \in outbox[r]
  BY <1>4, ArrivalsAre
<1>6. b.by = q
  BY <1>3, <1>4, <1>5 DEF BoundaryInv, OutboxFit
<1>7. PICK y \in crossed[p] : y.act = b /\ ~y.denied /\ (b.by # p => y.how = "grant")
  BY <1>4 DEF Granted
<1>8. PICK g \in AgreementsWith(p, a.by) : accepts[p][a.of] < Expires[g]
  BY <1>2
<1>9. g \in Agreements /\ Between[g] = {p, q} /\ Agreed(p, g)
  BY <1>1, <1>3, <1>8, HeldAgreement
<1>10. QED
  BY <1>3, <1>4, <1>6, <1>7, <1>8, <1>9

\* And it rides that Accept on the record of who sent it.
LEMMA LateReplays ==
    ASSUME TypeOK, BoundaryInv, NEW p \in Parties, NEW a \in Arrivals(p),
           a.by # p, LateOutcome(p, a), ~Vouched(p, a.by)
    PROVE  RidesAccept(a)
<1>1. PICK q \in Parties : a \in outbox[q]
  BY ArrivalsAre
<1>2. a.kind \in Outcomes /\ accepts[p][a.of] # 0
  BY DEF LateOutcome
<1>3. a.by = q /\ a.to = p /\ a.of \in Works /\ Worker[a.of] = q
  BY <1>1, <1>2, ArrivalsAre DEF BoundaryInv, OutboxFit
<1>4. PICK b \in Arrivals(p) : b.kind = "accept" /\ b.of = a.of /\ b.at = accepts[p][a.of]
  BY <1>2, <1>3 DEF BoundaryInv, AcceptsFit
<1>5. b \in outbox[q]
  BY <1>3, <1>4, ArrivalsAre DEF BoundaryInv, OutboxFit
<1>6. PICK g \in AgreementsWith(p, a.by) : accepts[p][a.of] < Expires[g]
  BY DEF LateOutcome
<1>7. g \in Candidates(a) /\ g \in Agreements
  BY <1>3, <1>6, HeldReplays DEF Candidates
<1>8. b.at \in Nat /\ Expires[g] \in Nat
  BY <1>5, <1>7, FederationAssumption DEF TypeOK, Activity, FederationAssumption
<1>9. QED
  BY <1>3, <1>4, <1>5, <1>6, <1>7, <1>8 DEF RidesAccept

\* New work that is admitted is covered by an agreement in force.
LEMMA AdmittedIsCovered ==
    ASSUME TypeOK, BoundaryInv, NEW p \in Parties, NEW a \in Arrivals(p),
           a.by # p, a.kind # "create", GateStep(p, a) = "admitted"
    PROVE  \E g \in Agreements :
              /\ Between[g] = {p, a.by} /\ Agreed(p, g) /\ Clock(p) < Expires[g]
              /\ \E grant \in Grants[g] :
                   IF a.kind = "post" THEN grant.hub = a.of
                   ELSE /\ grant.hub = None
                        /\ a.kind = "task" => Capability[a.of] \in grant.caps
<1>1. a.by \in Parties
  BY ArrivalsAre DEF BoundaryInv, OutboxFit
<1>2. PICK g \in ActiveAgreementsWith(p, a.by) : AdmittingGrant(g, a)
  BY AdmittedBy
<1>3. g \in AgreementsWith(p, a.by) /\ Clock(p) < Expires[g]
  BY <1>2 DEF ActiveAgreementsWith
<1>4. g \in Agreements /\ Between[g] = {p, a.by} /\ Agreed(p, g)
  BY <1>1, <1>3, HeldAgreement
<1>5. PICK grant \in Grants[g] :
         Admits(grant, a.kind, HubOf(a), IF a.kind = "task" THEN Capability[a.of] ELSE None)
  BY <1>2 DEF AdmittingGrant
<1>6. IF a.kind = "post" THEN grant.hub = a.of
      ELSE grant.hub = None /\ (a.kind = "task" => Capability[a.of] \in grant.caps)
  <2>1. CASE a.kind = "post"
    BY <1>5, <2>1 DEF Admits, HubOf, Delegation, Outcomes
  <2>2. CASE a.kind # "post"
    BY <1>5, <2>2 DEF Admits, HubOf
  <2>3. QED
    BY <2>1, <2>2
<1>7. QED
  BY <1>3, <1>4, <1>5, <1>6

\* What is admitted replays, unless the sender's clock runs ahead.
LEMMA AdmittedReplays ==
    ASSUME TypeOK, BoundaryInv, NEW p \in Parties, NEW a \in Arrivals(p),
           a.by # p, GateStep(p, a) = "admitted", ~Vouched(p, a.by),
           plan.ahead[a.by] <= plan.ahead[p]
    PROVE  AdmittedOnReplay(a)
<1>1. PICK q \in Parties : a \in outbox[q] /\ a.to = p
  BY ArrivalsAre
<1>2. a.by = q /\ a.at <= Clock(q) /\ a.at \in Nat
  BY <1>1 DEF BoundaryInv, OutboxFit, TypeOK, Activity
<1>3. PICK g \in ActiveAgreementsWith(p, a.by) : AdmittingGrant(g, a)
  BY AdmittedBy
<1>4. g \in AgreementsWith(p, a.by) /\ Clock(p) < Expires[g]
  BY <1>3 DEF ActiveAgreementsWith
<1>5. g \in Candidates(a) /\ g \in Agreements
  BY <1>1, <1>4, HeldReplays DEF Candidates
<1>6. Clock(q) <= Clock(p) /\ Clock(q) \in Nat /\ Clock(p) \in Nat
  BY <1>2, ClockIsNatural DEF Clock
<1>7. Expires[g] \in Nat
  BY <1>5, FederationAssumption DEF FederationAssumption
<1>8. a.at <= Expires[g]
  BY <1>2, <1>4, <1>6, <1>7
<1>9. QED
  BY <1>3, <1>5, <1>8 DEF AdmittedOnReplay

LEMMA LetInFits ==
    ASSUME TypeOK, BoundaryInv, NEW p \in Parties, NEW a \in Arrivals(p), NEW how,
           Free(p), Entitled(p, a, how), LetIn(p, a, how),
           UNCHANGED <<plan, now, outbox, gateVars, doneVars, asking, served>>, InFlightLands'
    PROVE  BoundaryInv'
<1> USE DEF gateVars, doneVars
<1> DEFINE x == [act |-> a, at |-> IF how = "grant" THEN Clock(p) ELSE 0, how |-> how,
                 denied |-> a.by \in deny[p]]
<1>1. /\ crossed'[p] = crossed[p] \cup {x}
      /\ \A q \in Parties \ {p} : crossed'[q] = crossed[q] /\ busy'[q] = busy[q]
      /\ busy'[p] = [act |-> a, todo |-> Todo(a)]
  BY DEF LetIn, TypeOK
<1>2. Grows
  BY <1>1 DEF Grows
<1>3. /\ HeldIsSigned' /\ AcceptsFit' /\ HandedFit' /\ ReadsAreCovered'
      /\ OutboxFit' /\ AskingFit' /\ \A q \in Parties \ {p} : StretchAt(q)'
  BY <1>1, <1>2, Frames
<1>4. how = "grant" => a.by # p /\ a.kind # "create" /\ GateStep(p, a) = "admitted"
  BY DEF Entitled
<1>5. how = "late" => LateOutcome(p, a) /\ a.by # p
  BY DEF Entitled
<1>6. WorkCrossesUnderAgreement'
  <2> DEFINE Covered(y) ==
                \E g \in Agreements :
                  /\ Between[g] = {p, y.act.by} /\ Agreed(p, g) /\ y.at < Expires[g]
                  /\ \E grant \in Grants[g] :
                       IF y.act.kind = "post" THEN grant.hub = y.act.of
                       ELSE /\ grant.hub = None
                            /\ y.act.kind = "task" => Capability[y.act.of] \in grant.caps
  <2>1. x.act = a /\ x.how = how
    OBVIOUS
  <2>2. ASSUME x.how = "grant" PROVE Covered(x)
    <3>1. x.at = Clock(p)
      BY <2>1, <2>2
    <3>2. QED
      BY <1>4, <2>1, <2>2, <3>1, AdmittedIsCovered
  <2>3. \A q \in Parties : \A g : Agreed(q, g) => Agreed(q, g)'
    BY <1>2, GrownSaid
  <2>4. \A y \in crossed[p] \cup {x} : y.how = "grant" => Covered(y)
    BY <2>2 DEF WorkCrossesUnderAgreement, BoundaryInv
  <2>5. \A q \in Parties \ {p} : \A y \in crossed'[q] : y \in crossed[q]
    BY <1>1
  <2>6. QED
    BY <1>1, <2>3, <2>4, <2>5 DEF WorkCrossesUnderAgreement, BoundaryInv
<1>7. LateIsInFlight'
  <2> DEFINE InTime(q, y) == \E g \in Agreements :
                Between[g] = {q, y.act.by} /\ Agreed(q, g) /\ y.act.at < Expires[g]
             Back(q, z) ==
                /\ z.act.kind \in Outcomes
                /\ \E y \in crossed[q] :
                    /\ y.act.kind = "accept" /\ y.act.of = z.act.of /\ y.how = "grant" /\ ~y.denied
                    /\ InTime(q, y)
  <2>1. x.act = a /\ x.how = how
    OBVIOUS
  <2>2. x.how = "late" => Back(p, x)
    BY <1>5, <2>1, LateGoesBack DEF LateOutcome
  <2>3. \A q \in Parties : \A y : InTime(q, y) => InTime(q, y)'
    BY <1>2, GrownSaid
  <2>0. \A q \in Parties : \A z \in crossed[q] : z.how = "late" => Back(q, z)
    BY DEF LateIsInFlight, BoundaryInv
  <2> HIDE DEF InTime, Back
  <2>4. \A q \in Parties : \A z \in crossed'[q] : z.how = "late" => Back(q, z)
    BY <1>1, <2>0, <2>2
  <2> USE DEF Back
  <2>5. \A q \in Parties : \A z : Back(q, z) => Back(q, z)'
    BY <1>2, <2>3 DEF Grows
  <2> HIDE DEF Back
  <2>6. \A q \in Parties : \A z \in crossed'[q] : z.how = "late" => Back(q, z)'
    BY <2>4, <2>5
  <2>7. QED
    BY <2>6 DEF LateIsInFlight, Back, InTime
<1>8. DeniedStayOut'
  <2>1. x.denied => x.how = "late"
    BY AdmittedBy DEF Entitled
  <2>2. QED
    BY <1>1, <2>1 DEF DeniedStayOut, BoundaryInv
<1>9. StretchAt(p)'
  <2>1. busy'[p].act = a /\ busy'[p].todo = Todo(a) /\ a \in Arrivals(p)'
    BY <1>1, <1>2, GrownSaid
  <2>2. a.kind = "accept" => Granted(p, a)'
    <3>1. SUFFICES ASSUME a.kind = "accept" PROVE Granted(p, a)'
      OBVIOUS
    <3>2. how = (IF a.by = p THEN "self" ELSE "grant") /\ GateStep(p, a) = "admitted"
      BY <3>1 DEF Entitled, LateOutcome, Outcomes
    <3>3. x \in crossed'[p] /\ x.act = a /\ ~x.denied /\ (a.by # p => x.how = "grant")
      BY <1>1, <3>2, AdmittedBy
    <3>4. QED
      BY <3>3 DEF Granted
  <2>3. a.kind # "accept" => Pinned(p, a)'
    BY DEF Pinned
  <2>4. QED
    BY <1>1, <2>1, <2>2, <2>3, Todos DEF StretchAt
<1>10. CrossingsReplay'
  <2> DEFINE OnRecord(q, y) ==
        \/ Vouched(q, y.act.by)
        \/ /\ y.how = "grant" /\ plan.ahead[y.act.by] <= plan.ahead[q] => AdmittedOnReplay(y.act)
           /\ y.how = "late" => RidesAccept(y.act)
  <2>1. x.act = a /\ x.how = how
    OBVIOUS
  <2>2. OnRecord(p, x)
    BY <1>4, <1>5, <2>1, AdmittedReplays, LateReplays
  <2>3. \A q \in Parties : \A y \in crossed[q] : y.act.by \in Parties
    BY DEF TypeOK, Crossing, Activity
  <2>4. x.act.by \in Parties
    BY <2>1, ArrivalsAre DEF TypeOK, Activity
  <2>5. \A q \in Parties : \A y : y.act.by \in Parties /\ OnRecord(q, y) => OnRecord(q, y)'
    BY <1>2, GrownSaid, GrownReplays DEF Grows
  <2>6. \A q \in Parties : \A y \in crossed[q] : OnRecord(q, y)
    BY DEF BoundaryInv, CrossingsReplay
  <2> HIDE DEF OnRecord, x
  <2>7. \A q \in Parties : \A y \in crossed'[q] : OnRecord(q, y)'
    BY <1>1, <2>2, <2>3, <2>4, <2>5, <2>6
  <2>8. QED
    BY <2>7 DEF CrossingsReplay, OnRecord
<1>11. QED
  BY <1>3, <1>6, <1>7, <1>8, <1>9, <1>10 DEF BoundaryInv, StretchFit

\* What is logged of a refusal.
LEMMA LoggedFits ==
    ASSUME TypeOK, BoundaryInv, NEW p \in Parties, NEW a \in Arrivals(p), Logged(p, a)
    PROVE  InFlightLands'
<1> DEFINE knew == \E x \in dispatched[p], g \in AgreementsWith(p, a.by) :
                      x.kind = "accept" /\ x.of = a.of /\ x.at < Expires[g]
           e == [act |-> a, step |-> GateStep(p, a), came |-> LateOutcome(p, a), knew |-> knew]
<1>1. log'[p] = log[p] \cup {e} /\ \A q \in Parties \ {p} : log'[q] = log[q]
  BY DEF Logged, TypeOK
<1>2. a.kind \in Outcomes /\ knew => LateOutcome(p, a)
  <2>1. SUFFICES ASSUME a.kind \in Outcomes, NEW x \in dispatched[p],
                        NEW g \in AgreementsWith(p, a.by),
                        x.kind = "accept", x.of = a.of, x.at < Expires[g]
                 PROVE  LateOutcome(p, a)
    OBVIOUS
  <2>2. x \in Arrivals(p) /\ accepts[p][a.of] = x.at
    BY <2>1 DEF TypeOK, BoundaryInv, HandedFit, Pinned
  <2>3. x.at # 0
    BY <2>1, <2>2, ArrivalsAre DEF BoundaryInv, OutboxFit
  <2>4. QED
    BY <2>1, <2>2, <2>3 DEF LateOutcome
<1>3. e.act = a /\ (e.knew <=> knew) /\ (e.came <=> LateOutcome(p, a))
  OBVIOUS
<1> HIDE DEF knew, e
<1>4. QED
  BY <1>1, <1>2, <1>3 DEF InFlightLands, BoundaryInv

------------------------------------------------------------------------------
(* The statements that follow *)

\* What a statement finds, and what it leaves to be done.
LEMMA StretchSteps ==
    ASSUME TypeOK, BoundaryInv, NEW p \in Parties, NEW s, Next1(p, s)
    PROVE  /\ \A q \in Parties \ {p} : busy'[q] = busy[q]
           /\ s = "own" =>
                 /\ busy'[p] = Idle
                 /\ busy[p].act \in outbox[p] /\ busy[p].act.kind = "create"
                 /\ p \in Between[busy[p].act.of]
           /\ s = "deny" => busy'[p] = Idle /\ busy[p].act \in outbox[p]
           /\ s = "theirs" =>
                 /\ busy'[p] = [act |-> busy[p].act, todo |-> <<"record", "receive">>]
                 /\ busy[p].act \in Arrivals(p) /\ busy[p].act.kind = "create"
           /\ s = "accept" =>
                 /\ busy'[p] = [act |-> busy[p].act, todo |-> <<"record", "receive">>]
                 /\ busy[p].act \in Arrivals(p) /\ busy[p].act.kind = "accept"
                 /\ Granted(p, busy[p].act)
           /\ s = "record" =>
                 /\ busy'[p] = [act |-> busy[p].act, todo |-> <<"receive">>]
                 /\ busy[p].act \in Arrivals(p) /\ Pinned(p, busy[p].act)
           /\ s = "receive" =>
                 /\ busy'[p] = Idle
                 /\ busy[p].act \in received[p] /\ Pinned(p, busy[p].act)
<1> DEFINE act == busy[p].act
           todo == busy[p].todo
<1>1. /\ todo # <<>> /\ Head(todo) = s
      /\ busy'[p] = IF Len(todo) = 1 THEN Idle ELSE [act |-> act, todo |-> Tail(todo)]
      /\ \A q \in Parties \ {p} : busy'[q] = busy[q]
  BY DEF Next1, TypeOK
<1>2. StretchAt(p)
  BY DEF BoundaryInv, StretchFit
<1>3. \/ todo = <<"own">> /\ act \in outbox[p] /\ act.kind = "create" /\ p \in Between[act.of]
      \/ todo = <<"deny">> /\ act \in outbox[p]
      \/ todo = <<"theirs", "record", "receive">> /\ act \in Arrivals(p) /\ act.kind = "create"
      \/ /\ todo = <<"accept", "record", "receive">>
         /\ act \in Arrivals(p) /\ act.kind = "accept" /\ Granted(p, act)
      \/ todo = <<"record", "receive">> /\ act \in Arrivals(p) /\ Pinned(p, act)
      \/ todo = <<"receive">> /\ act \in received[p] /\ Pinned(p, act)
  BY <1>1, <1>2 DEF StretchAt
<1>4. CASE todo = <<"own">> /\ act \in outbox[p] /\ act.kind = "create" /\ p \in Between[act.of]
  BY <1>1, <1>4, Tails
<1>5. CASE todo = <<"deny">> /\ act \in outbox[p]
  BY <1>1, <1>5, Tails
<1>6. CASE todo = <<"theirs", "record", "receive">> /\ act \in Arrivals(p) /\ act.kind = "create"
  BY <1>1, <1>6, Tails
<1>7. CASE /\ todo = <<"accept", "record", "receive">>
           /\ act \in Arrivals(p) /\ act.kind = "accept" /\ Granted(p, act)
  BY <1>1, <1>7, Tails
<1>8. CASE todo = <<"record", "receive">> /\ act \in Arrivals(p) /\ Pinned(p, act)
  BY <1>1, <1>8, Tails
<1>9. CASE todo = <<"receive">> /\ act \in received[p] /\ Pinned(p, act)
  BY <1>1, <1>9, Tails
<1>10. QED
  BY <1>3, <1>4, <1>5, <1>6, <1>7, <1>8, <1>9

LEMMA OwnFits ==
    ASSUME TypeOK, BoundaryInv, NEW p \in Parties, RecordOwnCreate(p)
    PROVE  BoundaryInv'
<1> USE DEF doneVars, histVars
<1>1. /\ busy[p].act \in outbox[p] /\ busy[p].act.kind = "create"
      /\ busy'[p] = Idle /\ \A q \in Parties \ {p} : busy'[q] = busy[q]
  BY StretchSteps DEF RecordOwnCreate
<1>2. UNCHANGED <<plan, now, asking, outbox, theirs, accepts, deny, log, received, dispatched, crossed, served>>
  BY DEF RecordOwnCreate, Next1
<1>3. Grows
  BY <1>2 DEF Grows
<1>4. HeldIsSigned'
  <2>1. /\ own'[p] = own[p] \cup {busy[p].act.of}
        /\ \A q \in Parties \ {p} : own'[q] = own[q]
    BY DEF RecordOwnCreate, TypeOK
  <2>2. Said(p, "create", busy[p].act.of)
    BY <1>1 DEF Said
  <2>3. QED
    BY <1>2, <1>3, <2>1, <2>2, GrownSaid DEF HeldIsSigned, BoundaryInv
<1>5. StretchAt(p)'
  BY <1>1 DEF StretchAt, Idle
<1>6. QED
  BY <1>1, <1>2, <1>3, <1>4, <1>5, Frames DEF BoundaryInv, StretchFit

LEMMA TheirsFits ==
    ASSUME TypeOK, BoundaryInv, NEW p \in Parties, RecordTheirCreate(p)
    PROVE  BoundaryInv'
<1> USE DEF doneVars, histVars
<1> DEFINE act == busy[p].act
<1>1. /\ act \in Arrivals(p) /\ act.kind = "create"
      /\ busy'[p] = [act |-> act, todo |-> <<"record", "receive">>]
      /\ \A q \in Parties \ {p} : busy'[q] = busy[q]
  BY StretchSteps DEF RecordTheirCreate
<1>2. UNCHANGED <<plan, now, asking, outbox, own, accepts, deny, log, received, dispatched, crossed, served>>
  BY DEF RecordTheirCreate, Next1
<1>3. Grows
  BY <1>2 DEF Grows
<1>4. HeldIsSigned'
  <2>1. /\ theirs'[p] = theirs[p] \cup {act.of}
        /\ \A q \in Parties \ {p} : theirs'[q] = theirs[q]
    BY DEF RecordTheirCreate, TypeOK
  <2>2. PICK q \in Parties : act \in outbox[q] /\ act.to = p
    BY <1>1, ArrivalsAre
  <2>3. Countersigned(p, act.of)
    BY <1>1, <2>2 DEF BoundaryInv, OutboxFit, Countersigned
  <2>4. QED
    BY <1>2, <1>3, <2>1, <2>3, GrownSaid DEF HeldIsSigned, BoundaryInv
<1>5. StretchAt(p)'
  BY <1>1, <1>3, GrownSaid DEF StretchAt, Pinned
<1>6. QED
  BY <1>1, <1>2, <1>3, <1>4, <1>5, Frames DEF BoundaryInv, StretchFit

\* The Accept whose instant is written is the one its correlation has.
LEMMA AcceptFits ==
    ASSUME TypeOK, BoundaryInv, NEW p \in Parties, RecordAccept(p)
    PROVE  BoundaryInv'
<1> USE DEF doneVars, histVars
<1> DEFINE act == busy[p].act
<1>1. /\ act \in Arrivals(p) /\ act.kind = "accept" /\ Granted(p, act)
      /\ busy'[p] = [act |-> act, todo |-> <<"record", "receive">>]
      /\ \A q \in Parties \ {p} : busy'[q] = busy[q]
  BY StretchSteps DEF RecordAccept
<1>2. UNCHANGED <<plan, now, asking, outbox, own, theirs, deny, log, received, dispatched, crossed, served>>
  BY DEF RecordAccept, Next1
<1>3. Grows
  BY <1>2 DEF Grows
<1>4. PICK q \in Parties : act \in outbox[q] /\ act.to = p
  BY <1>1, ArrivalsAre
<1>5. act.by = q /\ act.of \in Works /\ Worker[act.of] = q /\ act.at # 0
  BY <1>1, <1>4 DEF BoundaryInv, OutboxFit
<1>6. accepts[p][act.of] \in {0, act.at}
  <2>1. SUFFICES ASSUME accepts[p][act.of] # 0 PROVE accepts[p][act.of] = act.at
    OBVIOUS
  <2>2. PICK b \in Arrivals(p) : b.kind = "accept" /\ b.of = act.of /\ b.at = accepts[p][act.of]
    BY <1>5, <2>1 DEF BoundaryInv, AcceptsFit
  <2>3. PICK r \in Parties : b \in outbox[r]
    BY <2>2, ArrivalsAre
  <2>4. r = q
    BY <1>5, <2>2, <2>3 DEF BoundaryInv, OutboxFit
  <2>5. b = act
    BY <1>1, <1>4, <2>2, <2>3, <2>4 DEF BoundaryInv, OutboxFit
  <2>6. QED
    BY <2>2, <2>5
<1>7. /\ accepts'[p][act.of] = act.at
      /\ \A w \in Works \ {act.of} : accepts'[p][w] = accepts[p][w]
      /\ \A r \in Parties \ {p} : accepts'[r] = accepts[r]
  <2>1. accepts' = [accepts EXCEPT ![p] = [accepts[p] EXCEPT ![act.of] =
                      IF accepts[p][act.of] = 0 THEN act.at ELSE accepts[p][act.of]]]
    BY DEF RecordAccept
  <2>2. accepts[p] \in [Works -> Nat] /\ DOMAIN accepts = Parties
    BY DEF TypeOK
  <2>3. QED
    BY <1>5, <1>6, <2>1, <2>2
<1>8. AcceptsFit'
  <2>1. SUFFICES ASSUME NEW r \in Parties, NEW w \in Works, accepts'[r][w] # 0
                 PROVE  \E a \in Arrivals(r)' :
                          a.kind = "accept" /\ a.of = w /\ a.at = accepts'[r][w] /\ Granted(r, a)'
    BY DEF AcceptsFit
  <2>2. CASE r = p /\ w = act.of
    BY <1>1, <1>3, <1>7, <2>2, GrownSaid
  <2>3. CASE ~(r = p /\ w = act.of)
    <3>1. accepts'[r][w] = accepts[r][w]
      BY <1>7, <2>3
    <3>2. PICK a \in Arrivals(r) :
             a.kind = "accept" /\ a.of = w /\ a.at = accepts[r][w] /\ Granted(r, a)
      BY <2>1, <3>1 DEF BoundaryInv, AcceptsFit
    <3>3. QED
      BY <1>3, <3>1, <3>2, GrownSaid
  <2>4. QED
    BY <2>2, <2>3
<1>9. \A r \in Parties : \A a \in Arrivals(r) : Pinned(r, a) => Pinned(r, a)'
  <2>1. SUFFICES ASSUME NEW r \in Parties, NEW a \in Arrivals(r), a.kind = "accept",
                        accepts[r][a.of] = a.at
                 PROVE  accepts'[r][a.of] = a.at
    BY DEF Pinned
  <2>2. a.of \in Works /\ a.at # 0
    BY <2>1, ArrivalsAre DEF BoundaryInv, OutboxFit
  <2>3. QED
    BY <1>6, <1>7, <2>1, <2>2
<1>10. HandedFit'
  BY <1>2, <1>9 DEF HandedFit, BoundaryInv, TypeOK
<1>11. StretchAt(p)'
  BY <1>1, <1>3, <1>7, GrownSaid DEF StretchAt, Pinned
<1>12. ASSUME NEW r \in Parties \ {p}
       PROVE  StretchAt(r)'
  <2>1. StretchAt(r) /\ busy'[r] = busy[r] /\ received'[r] = received[r] /\ outbox'[r] = outbox[r]
    BY <1>1, <1>2 DEF BoundaryInv, StretchFit
  <2>2. received[r] \subseteq Arrivals(r)
    BY DEF TypeOK
  <2>3. QED
    BY <1>3, <1>9, <2>1, <2>2, GrownSaid DEF StretchAt
<1>13. QED
  BY <1>2, <1>3, <1>8, <1>10, <1>11, <1>12, Frames DEF BoundaryInv, StretchFit

LEMMA RecordFits ==
    ASSUME TypeOK, BoundaryInv, NEW p \in Parties, RecordReceived(p)
    PROVE  BoundaryInv'
<1> USE DEF gateVars, histVars
<1>1. /\ Pinned(p, busy[p].act)
      /\ busy'[p] = [act |-> busy[p].act, todo |-> <<"receive">>]
      /\ \A q \in Parties \ {p} : busy'[q] = busy[q]
  BY StretchSteps DEF RecordReceived
<1>2. UNCHANGED <<plan, now, asking, outbox, own, theirs, accepts, deny, log, dispatched, crossed, served>>
  BY DEF RecordReceived, Next1
<1>3. /\ received'[p] = received[p] \cup {busy[p].act}
      /\ \A q \in Parties \ {p} : received'[q] = received[q]
  BY DEF RecordReceived, TypeOK
<1>4. Grows
  BY <1>2, <1>3 DEF Grows
<1>5. StretchAt(p)'
  BY <1>1, <1>2, <1>3 DEF StretchAt, Pinned
<1>6. QED
  BY <1>1, <1>2, <1>4, <1>5, Frames DEF BoundaryInv, StretchFit

LEMMA ReceiveFits ==
    ASSUME TypeOK, BoundaryInv, NEW p \in Parties, Receive(p)
    PROVE  BoundaryInv'
<1> USE DEF gateVars, histVars
<1>1. /\ busy[p].act \in received[p] /\ Pinned(p, busy[p].act)
      /\ busy'[p] = Idle /\ \A q \in Parties \ {p} : busy'[q] = busy[q]
  BY StretchSteps DEF Receive
<1>2. UNCHANGED <<plan, now, asking, outbox, own, theirs, accepts, deny, log, received, crossed, served>>
  BY DEF Receive, Next1
<1>3. /\ dispatched'[p] = dispatched[p] \cup {busy[p].act}
      /\ \A q \in Parties \ {p} : dispatched'[q] = dispatched[q]
  BY DEF Receive, TypeOK
<1>4. Grows
  BY <1>2 DEF Grows
<1>5. HandedFit'
  BY <1>1, <1>2, <1>3 DEF HandedFit, Pinned, BoundaryInv
<1>6. StretchAt(p)'
  BY <1>1 DEF StretchAt, Idle
<1>7. QED
  BY <1>1, <1>2, <1>4, <1>5, <1>6, Frames DEF BoundaryInv, StretchFit

LEMMA DenyFits ==
    ASSUME TypeOK, BoundaryInv, NEW p \in Parties, Denylist(p)
    PROVE  BoundaryInv'
<1> USE DEF doneVars, histVars
<1>1. busy'[p] = Idle /\ \A q \in Parties \ {p} : busy'[q] = busy[q]
  BY StretchSteps DEF Denylist
<1>2. UNCHANGED <<plan, now, asking, outbox, own, theirs, accepts, log, received, dispatched, crossed, served>>
  BY DEF Denylist, Next1
<1>3. Grows
  BY <1>2 DEF Grows
<1>4. StretchAt(p)'
  BY <1>1 DEF StretchAt, Idle
<1>5. QED
  BY <1>1, <1>2, <1>3, <1>4, Frames DEF BoundaryInv, StretchFit

------------------------------------------------------------------------------
(* What the parties publish, and what they show *)

\* What a party may publish, and what it writes next.
Publishable(p, kind, to, of, todo) ==
    /\ kind \in Kinds /\ to \in Parties /\ of \in Agreements \cup Works \cup Hubs \cup {None}
    /\ kind = "create" => of \in Agreements /\ to \in Between[of] /\ to # p
    /\ kind \in {"accept"} \cup Outcomes => of \in Works /\ Worker[of] = p /\ Requester[of] = to
    /\ \/ todo = <<>>
       \/ todo = <<"own">> /\ kind = "create" /\ p \in Between[of]
       \/ todo = <<"deny">>

LEMMA PublishFits ==
    ASSUME TypeOK, BoundaryInv, NEW p \in Parties, NEW kind, NEW to, NEW of, NEW todo,
           Publishable(p, kind, to, of, todo), Publish(p, kind, to, of, todo)
    PROVE  BoundaryInv'
<1> USE DEF gateVars, doneVars, histVars
<1> DEFINE a == [kind |-> kind, by |-> p, to |-> to, of |-> of, at |-> Clock(p)]
<1>1. /\ outbox'[p] = outbox[p] \cup {a} /\ \A q \in Parties \ {p} : outbox'[q] = outbox[q]
      /\ ~Said(p, kind, of)
      /\ \A q \in Parties \ {p} : busy'[q] = busy[q]
      /\ busy'[p] = IF todo = <<>> THEN busy[p] ELSE [act |-> a, todo |-> todo]
  BY DEF Publish, TypeOK
<1>2. UNCHANGED <<plan, now, asking, own, theirs, accepts, deny, log, received, dispatched,
                  crossed, served>>
  BY DEF Publish
<1>3. Grows
  BY <1>1, <1>2 DEF Grows
<1>0. a.by = p /\ a.kind = kind /\ a.to = to /\ a.of = of /\ a.at = Clock(p)
  OBVIOUS
<1>7. \A q \in Parties : Clock(q)' = Clock(q)
  BY <1>2 DEF Clock
<1>4. OutboxFit'
  <2>2. /\ a.kind = "create" => a.of \in Agreements /\ a.to \in Between[a.of] /\ a.to # p
        /\ a.kind \in {"accept"} \cup Outcomes =>
              a.of \in Works /\ Worker[a.of] = p /\ Requester[a.of] = a.to
        /\ a.at # 0 /\ a.at <= Clock(p)
    BY <1>0, ClockIsNatural DEF Publishable
  <2>3. \A b \in outbox[p] : ~(b.kind = a.kind /\ b.of = a.of)
    BY <1>0, <1>1 DEF Said
  <2> HIDE DEF a
  <2>4. QED
    BY <1>0, <1>1, <1>7, <2>2, <2>3 DEF OutboxFit, BoundaryInv
<1>8. AskingFit'
  <2>1. ASSUME NEW q \in Parties, NEW r \in asking[q]
        PROVE  /\ r.came <= Clock(q)' /\ r.refs \subseteq outbox'[q]
               /\ \A h \in r.hubs : r.came < Proof[r.by][h]
               /\ r.doc # None =>
                     \A b \in Referencing(q, r.doc)' : b.at < r.came => b \in r.refs
    <3>1. /\ r.came <= Clock(q) /\ r.refs \subseteq outbox[q]
          /\ \A h \in r.hubs : r.came < Proof[r.by][h]
          /\ r.doc # None => \A b \in Referencing(q, r.doc) : b.at < r.came => b \in r.refs
      BY DEF BoundaryInv, AskingFit
    <3>2. outbox[q] \subseteq outbox'[q]
      BY <1>3 DEF Grows
    <3>3. r.came \in Nat /\ Clock(q) \in Nat
      BY ClockIsNatural DEF TypeOK, Reading
    <3>4. \A b \in outbox'[q] : b.at < r.came => b \in outbox[q]
      <4> HIDE DEF a
      <4>1. CASE q = p
        BY <1>0, <1>1, <3>1, <3>3, <4>1
      <4>2. CASE q # p
        BY <1>1, <4>2
      <4>3. QED
        BY <4>1, <4>2
    <3>5. \A b \in Referencing(q, r.doc)' : b.at < r.came => b \in Referencing(q, r.doc)
      BY <3>4 DEF Referencing
    <3>6. QED
      BY <1>7, <3>1, <3>2, <3>5
  <2>2. QED
    BY <1>2, <2>1 DEF AskingFit
<1>5. StretchAt(p)'
  <2>1. CASE todo = <<>>
    BY <1>1, <1>2, <1>3, <2>1, Frames
  <2>2. CASE todo # <<>>
    <3>1. busy'[p].act = a /\ busy'[p].todo = todo /\ a \in outbox'[p] /\ a.kind = kind
      BY <1>1, <2>2
    <3>2. QED
      BY <1>0, <1>1, <2>2, <3>1 DEF StretchAt, Publishable
  <2>3. QED
    BY <2>1, <2>2
<1>6. QED
  BY <1>1, <1>2, <1>3, <1>4, <1>5, <1>8, Frames DEF BoundaryInv, StretchFit

LEMMA WhatIsPublished ==
    ASSUME TypeOK, BoundaryInv, NEW p \in Parties,
           Sign(p) \/ Offer(p) \/ Accept(p) \/ Conclude(p) \/ Post(p) \/ Defederate(p)
    PROVE  \E kind, to, of, todo :
              Publishable(p, kind, to, of, todo) /\ Publish(p, kind, to, of, todo)
<1>1. plan.works \subseteq Works
  BY FederationAssumption DEF TypeOK, Plan, FederationAssumption
<1>2. /\ Requester \in [Works -> Parties] /\ Worker \in [Works -> Parties]
      /\ Host \in [Hubs -> Parties]
  BY FederationAssumption DEF FederationAssumption
<1>3. CASE Sign(p)
  <2>1. PICK g \in Agreements : \E q \in Between[g] \ {p} :
           Publish(p, "create", q, g, IF p \in Between[g] THEN <<"own">> ELSE <<>>)
    BY <1>3 DEF Sign
  <2>2. PICK q \in Between[g] \ {p} :
           Publish(p, "create", q, g, IF p \in Between[g] THEN <<"own">> ELSE <<>>)
    BY <2>1
  <2>3. q \in Parties
    BY FederationAssumption DEF FederationAssumption
  <2>4. Publishable(p, "create", q, g, IF p \in Between[g] THEN <<"own">> ELSE <<>>)
    BY <2>3 DEF Publishable, Kinds, Handshakes, Outcomes
  <2>5. QED
    BY <2>2, <2>4
<1>4. CASE Offer(p)
  BY <1>1, <1>2, <1>4 DEF Offer, Publishable, Kinds, Delegation, Outcomes
<1>5. CASE Accept(p)
  BY <1>1, <1>2, <1>5 DEF Accept, Publishable, Kinds, Delegation, Outcomes
<1>6. CASE Conclude(p)
  BY <1>1, <1>2, <1>6 DEF Conclude, Publishable, Kinds, Delegation, Outcomes
<1>7. CASE Post(p)
  BY <1>2, <1>7 DEF Post, Publishable, Kinds, Outcomes
<1>8. CASE Defederate(p)
  BY <1>8 DEF Defederate, Publishable, Kinds, Outcomes
<1>9. QED
  BY <1>3, <1>4, <1>5, <1>6, <1>7, <1>8

\* Nobody shut out may read.
LEMMA ReadersAreNotDenied ==
    ASSUME NEW p, NEW r, NEW a, MayRead(p, r, a)
    PROVE  r.by \notin deny[p]
BY DEF MayRead, AdmitsHub, AdmitsParties, FindAdmittingGrant

\* Whoever may read is entitled to.
LEMMA ReadersEntitled ==
    ASSUME TypeOK, BoundaryInv, NEW p \in Parties, NEW r \in asking[p], NEW a, MayRead(p, r, a),
           NEW v, v.to = r.by, v.at = Clock(p), v.came = r.came
    PROVE  Entitles(p, v, a)
<1>1. \A h \in r.hubs : r.came < Proof[r.by][h]
  BY DEF BoundaryInv, AskingFit
<1>2. \A g \in ActiveAgreementsWith(p, r.by) :
         /\ g \in Agreements /\ Between[g] = {p, v.to} /\ Agreed(p, g) /\ v.at < Expires[g]
  BY HeldAgreement DEF ActiveAgreementsWith
<1>3. CASE AdmitsHub(p, r, a)
  <2>1. PICK g \in ActiveAgreementsWith(p, r.by) :
           \E grant \in Grants[g] : Admits(grant, "", HubOf(a), None)
    BY <1>3 DEF AdmitsHub
  <2>5. PICK grant \in Grants[g] : Admits(grant, "", HubOf(a), None)
    BY <2>1
  <2>2. HubOf(a) # None /\ grant.hub = HubOf(a)
    BY <1>3, <2>5 DEF AdmitsHub, Admits
  <2>3. \/ Host[HubOf(a)] = p /\ v.to \in Seated[HubOf(a)]
        \/ v.came < Proof[v.to][HubOf(a)]
    BY <1>1, <1>3 DEF AdmitsHub
  <2>4. QED
    BY <1>2, <2>2, <2>3, <2>5 DEF Entitles
<1>4. CASE AdmitsParties(p, r, a)
  BY <1>2, <1>4 DEF AdmitsParties, Entitles
<1>5. CASE FindAdmittingGrant(p, r, a)
  BY <1>5 DEF FindAdmittingGrant, GrantAdmits, Entitles
<1>6. QED
  BY <1>3, <1>4, <1>5 DEF MayRead

\* What an answer shows, and to whom.
LEMMA ServedIs ==
    ASSUME TypeOK, BoundaryInv, NEW p \in Parties, Serve(p)
    PROVE  /\ \A q \in Parties \ {p} : served'[q] = served[q]
           /\ \A v \in served'[p] :
                /\ v \in Answer /\ ~v.denied
                /\ \A a \in v.shown : a.at < v.came => Entitles(p, v, a)
           /\ asking' \in [Parties -> SUBSET Reading]
           /\ \A q \in Parties : asking'[q] \subseteq asking[q]
<1>1. PICK r \in asking[p] :
         /\ asking' = [asking EXCEPT ![p] = @ \ {r}]
         /\ \E shown \in {IF r.doc = None THEN {a \in r.refs : MayRead(p, r, a)}
                        ELSE IF Shown(p, r) THEN Referencing(p, r.doc) ELSE {}} :
              served' = [served EXCEPT ![p] =
                 IF shown = {} THEN {}
                 ELSE {[to |-> r.by, denied |-> r.by \in deny[p], at |-> Clock(p),
                        came |-> r.came, shown |-> shown]}]
  BY DEF Serve
<1> DEFINE shown == IF r.doc = None THEN {a \in r.refs : MayRead(p, r, a)}
                    ELSE IF Shown(p, r) THEN Referencing(p, r.doc) ELSE {}
           denied == r.by \in deny[p]
           v == [to |-> r.by, denied |-> denied, at |-> Clock(p), came |-> r.came, shown |-> shown]
<1>2. served' = [served EXCEPT ![p] = IF shown = {} THEN {} ELSE {v}]
  BY <1>1
<1>3. r.by \in Parties /\ r.came \in Nat /\ r.refs \in SUBSET Activity
  BY DEF TypeOK, Reading
<1>4. shown \in SUBSET Activity
  BY <1>3 DEF Referencing, TypeOK
<1>5. \A a \in shown : a.at < r.came => MayRead(p, r, a)
  BY DEF Shown, BoundaryInv, AskingFit
<1>6. shown # {} => ~denied
  BY ReadersAreNotDenied DEF Shown
<1>7. denied \in BOOLEAN /\ Clock(p) \in Nat
  BY ClockIsNatural
<1> HIDE DEF shown, denied
<1>8. v \in Answer /\ v.to = r.by /\ (v.denied <=> denied) /\ v.at = Clock(p) /\ v.came = r.came
      /\ v.shown = shown
  BY <1>3, <1>4, <1>7 DEF Answer
<1> HIDE DEF v
<1>9. \A w \in served'[p] : w = v /\ shown # {}
  BY <1>2 DEF TypeOK
<1>10. \A a \in v.shown : a.at < v.came => Entitles(p, v, a)
  BY <1>5, <1>8, ReadersEntitled
<1>11. \A q \in Parties \ {p} : served'[q] = served[q]
  BY <1>2 DEF TypeOK
<1>12. asking' \in [Parties -> SUBSET Reading] /\ \A q \in Parties : asking'[q] \subseteq asking[q]
  BY <1>1 DEF TypeOK
<1>13. QED
  BY <1>6, <1>8, <1>9, <1>10, <1>11, <1>12

LEMMA ServeFits ==
    ASSUME TypeOK, BoundaryInv, NEW p \in Parties, Serve(p)
    PROVE  BoundaryInv'
<1> USE DEF gateVars, doneVars
<1>1. UNCHANGED <<plan, now, outbox, own, theirs, accepts, deny, log, received, dispatched, busy,
                  crossed>>
  BY DEF Serve
<1>2. Grows
  BY <1>1 DEF Grows
<1>3. ReadsAreCovered'
  BY <1>2, ServedIs, GrownEntitles DEF ReadsAreCovered, BoundaryInv
<1>4. DeniedStayOut'
  BY <1>1, ServedIs DEF DeniedStayOut, BoundaryInv
<1>5. AskingFit'
  BY <1>1, ServedIs DEF AskingFit, BoundaryInv, Clock, Referencing
<1>6. QED
  BY <1>1, <1>2, <1>3, <1>4, <1>5, Frames DEF BoundaryInv, StretchFit

\* What is taken down of a request.
LEMMA AskedIs ==
    ASSUME TypeOK, BoundaryInv, NEW p \in Parties, Ask(p)
    PROVE  AskingFit' /\ asking' \in [Parties -> SUBSET Reading]
<1>1. PICK q \in Parties, doc \in Documents :
         asking' = [asking EXCEPT ![p] = @ \cup
             {[by |-> q, doc |-> doc, refs |-> IF doc = None THEN outbox[p] ELSE Referencing(p, doc),
               came |-> Clock(p), hubs |-> {h \in Hubs : Clock(p) < Proof[q][h]}]}]
  BY DEF Ask
<1> DEFINE refs == IF doc = None THEN outbox[p] ELSE Referencing(p, doc)
           hubs == {h \in Hubs : Clock(p) < Proof[q][h]}
           r == [by |-> q, doc |-> doc, refs |-> refs, came |-> Clock(p), hubs |-> hubs]
<1>2. asking' = [asking EXCEPT ![p] = @ \cup {r}]
  BY <1>1
<1>3. /\ refs \subseteq outbox[p] /\ (doc # None => refs = Referencing(p, doc))
      /\ \A h \in hubs : Clock(p) < Proof[q][h]
      /\ hubs \subseteq Hubs /\ outbox[p] \subseteq Activity
  BY DEF Referencing, TypeOK
<1> HIDE DEF refs, hubs
<1>4. r \in Reading
  BY <1>3, ClockIsNatural DEF Reading
<1>5. r.by = q /\ r.doc = doc /\ r.refs = refs /\ r.came = Clock(p) /\ r.hubs = hubs
  OBVIOUS
<1> HIDE DEF r
<1>6. /\ r.came <= Clock(p) /\ r.refs \subseteq outbox[p]
      /\ \A h \in r.hubs : r.came < Proof[r.by][h]
      /\ r.doc # None => \A a \in Referencing(p, r.doc) : a.at < r.came => a \in r.refs
  BY <1>3, <1>5, ClockIsNatural
<1>7. asking' \in [Parties -> SUBSET Reading]
  BY <1>2, <1>4 DEF TypeOK
<1>8. UNCHANGED <<plan, now, outbox>>
  BY DEF Ask
<1>9. \A s \in Parties : \A x \in asking'[s] : x \in asking[s] \/ (s = p /\ x = r)
  BY <1>2 DEF TypeOK
<1>10. AskingFit'
  BY <1>6, <1>8, <1>9 DEF AskingFit, BoundaryInv, Clock, Referencing
<1>11. QED
  BY <1>7, <1>10

------------------------------------------------------------------------------
(* Every step *)

LEMMA QuietFits ==
    ASSUME TypeOK, BoundaryInv,
           UNCHANGED <<plan, outbox, gateVars, log, doneVars, histVars>>,
           now' \in {now, now + 1}, AskingFit',
           busy' = busy \/ \E p \in Parties : busy' = [busy EXCEPT ![p] = Idle]
    PROVE  BoundaryInv'
<1> USE DEF gateVars, doneVars, histVars
<1>1. Grows
  BY DEF Grows
<1>2. ASSUME NEW q \in Parties PROVE StretchAt(q)'
  <2>1. busy'[q] = busy[q] \/ busy'[q] = Idle
    BY DEF TypeOK
  <2>2. CASE busy'[q] = busy[q]
    BY <1>1, <2>2, Frames
  <2>3. CASE busy'[q] = Idle
    BY <2>3 DEF StretchAt, Idle
  <2>4. QED
    BY <2>1, <2>2, <2>3
<1>3. QED
  BY <1>1, <1>2, Frames DEF BoundaryInv, StretchFit

LEMMA NextFits ==
    ASSUME TypeOK, BoundaryInv, [Next]_vars
    PROVE  BoundaryInv'
<1>1. ASSUME NEW p \in Parties, Handshake(p)
      PROVE  BoundaryInv'
  <2>1. PICK a \in Arrivals(p) :
           a.kind \in Handshakes /\ a.by \notin deny[p] /\ LetIn(p, a, "handshake")
    BY <1>1 DEF Handshake
  <2>2. Entitled(p, a, "handshake")
    BY <2>1 DEF Entitled, Handshakes
  <2>3. InFlightLands'
    BY <1>1 DEF Handshake, InFlightLands, BoundaryInv
  <2>4. QED
    BY <1>1, <2>1, <2>2, <2>3, LetInFits DEF Handshake
<1>2. ASSUME NEW p \in Parties, Admit(p)
      PROVE  BoundaryInv'
  <2> DEFINE how(a) == IF a.by = p THEN "self" ELSE "grant"
  <2>1. PICK a \in Arrivals(p) :
           a.kind \notin Handshakes /\ GateStep(p, a) = "admitted" /\ LetIn(p, a, how(a))
    BY <1>2 DEF Admit
  <2>2. Entitled(p, a, how(a))
    BY <2>1 DEF Entitled, Handshakes
  <2>3. InFlightLands'
    BY <1>2 DEF Admit, InFlightLands, BoundaryInv
  <2>4. QED
    BY <1>2, <2>1, <2>2, <2>3, LetInFits DEF Admit
<1>3. ASSUME NEW p \in Parties, Refuse(p)
      PROVE  BoundaryInv'
  <2>1. InFlightLands'
    BY <1>3, LoggedFits DEF Refuse
  <2>2. UNCHANGED <<plan, now, outbox, gateVars, doneVars, busy, asking, histVars>>
    BY <1>3 DEF Refuse
  <2>3. Grows
    BY <2>2 DEF Grows, doneVars, histVars
  <2>4. QED
    BY <2>1, <2>2, <2>3, Frames DEF BoundaryInv, StretchFit, gateVars, doneVars, histVars
<1>4. ASSUME NEW p \in Parties, ComeLate(p)
      PROVE  BoundaryInv'
  <2>1. PICK a \in Arrivals(p) :
           a.by # p /\ LateOutcome(p, a) /\ Logged(p, a) /\ LetIn(p, a, "late")
    BY <1>4 DEF ComeLate
  <2>2. Entitled(p, a, "late")
    BY <2>1 DEF Entitled
  <2>3. InFlightLands'
    BY <2>1, LoggedFits
  <2>4. QED
    BY <1>4, <2>1, <2>2, <2>3, LetInFits DEF ComeLate
<1>5. ASSUME NEW p \in Parties,
             Sign(p) \/ Offer(p) \/ Accept(p) \/ Conclude(p) \/ Post(p) \/ Defederate(p)
      PROVE  BoundaryInv'
  BY <1>5, WhatIsPublished, PublishFits
<1>6. ASSUME Tick \/ (\E p \in Parties : Kill(p) \/ Ask(p)) \/ UNCHANGED vars
      PROVE  BoundaryInv'
  <2>1. UNCHANGED <<plan, outbox, gateVars, log, doneVars, histVars>> /\ now' \in {now, now + 1}
    BY <1>6 DEF Tick, Kill, Ask, vars
  <2>2. busy' = busy \/ \E p \in Parties : busy' = [busy EXCEPT ![p] = Idle]
    BY <1>6 DEF Tick, Kill, Ask, vars
  <2>3. AskingFit'
    <3>1. Grows
      BY <2>1 DEF Grows, doneVars, histVars
    <3>2. CASE Tick \/ UNCHANGED vars
      BY <2>1, <3>1, <3>2, Frames DEF Tick, vars
    <3>3. ASSUME NEW p \in Parties, Kill(p)
          PROVE  AskingFit'
      <4>1. \A q \in Parties : asking'[q] \subseteq asking[q]
        BY <3>3 DEF Kill, TypeOK
      <4>2. UNCHANGED <<plan, now, outbox>>
        BY <3>3 DEF Kill
      <4>3. QED
        BY <4>1, <4>2 DEF AskingFit, BoundaryInv, Clock, Referencing
    <3>4. QED
      BY <1>6, <3>2, <3>3, AskedIs
  <2>4. QED
    BY <2>1, <2>2, <2>3, QuietFits
<1>7. QED
  BY <1>1, <1>2, <1>3, <1>4, <1>5, <1>6, OwnFits, TheirsFits, AcceptFits, RecordFits,
     ReceiveFits, DenyFits, ServeFits
  DEF Next

LEMMA InitFits == Init => TypeOK /\ BoundaryInv
<1> SUFFICES ASSUME Init PROVE TypeOK /\ BoundaryInv
  OBVIOUS
<1> DEFINE made(p, q, g) == [kind |-> "create", by |-> p, to |-> q, of |-> g, at |-> 1]
<1>1. plan \in Plan /\ plan.held \subseteq Agreements
  BY FederationAssumption DEF Init, FederationAssumption, Plan
<1>2. \A p \in Parties : \A a \in outbox[p] :
         \E q \in Parties, g \in plan.held :
            q # p /\ Between[g] = {p, q} /\ a = made(p, q, g)
  BY DEF Init
<1>3. \A p \in Parties, q \in Parties, g \in plan.held :
         q # p /\ Between[g] = {p, q} => made(p, q, g) \in outbox[p]
  <2>1. SUFFICES ASSUME NEW p \in Parties, NEW q \in Parties, NEW g \in plan.held,
                        q # p, Between[g] = {p, q}
                 PROVE  made(p, q, g) \in outbox[p]
    OBVIOUS
  <2>2. <<g, q>> \in {y \in plan.held \X Parties : y[2] # p /\ Between[y[1]] = {p, y[2]}}
    BY <2>1
  <2>3. QED
    BY <2>1, <2>2 DEF Init
<1>4. \A p \in Parties, q \in Parties, g \in Agreements :
         made(p, q, g) \in Activity /\ made(p, q, g).by = p /\ made(p, q, g).to = q
         /\ made(p, q, g).of = g /\ made(p, q, g).kind = "create" /\ made(p, q, g).at = 1
  BY DEF Activity, Kinds, Handshakes
<1> HIDE DEF made
<1>5. \A p \in Parties : \A a \in outbox[p] :
         /\ a \in Activity /\ a.by = p /\ a.kind = "create" /\ a.of \in Agreements /\ a.at = 1
         /\ a.to \in Between[a.of] /\ a.to # p
  <2>1. SUFFICES ASSUME NEW p \in Parties, NEW q \in Parties, NEW g \in plan.held,
                        q # p, Between[g] = {p, q}, NEW a, a = made(p, q, g)
                 PROVE  /\ a \in Activity /\ a.by = p /\ a.kind = "create" /\ a.of \in Agreements
                        /\ a.at = 1 /\ a.to \in Between[a.of] /\ a.to # p
    BY <1>2
  <2>2. /\ a \in Activity /\ a.by = p /\ a.to = q /\ a.of = g /\ a.kind = "create" /\ a.at = 1
    BY <1>1, <1>4, <2>1
  <2>3. QED
    BY <1>1, <2>1, <2>2
<1>6. \A p \in Parties : \A g \in own[p] :
         /\ g \in plan.held /\ g \in Agreements /\ p \in Between[g]
         /\ \E q \in Parties : q # p /\ Between[g] = {p, q}
  BY <1>1, OtherParty DEF Init
<1>7. OutboxFit
  <2>1. \A p \in Parties : 1 <= Clock(p)
    BY <1>1 DEF Init, Clock, Plan
  <2>2. QED
    BY <1>5, <2>1 DEF OutboxFit, Outcomes
<1>8. HeldIsSigned
  <2>1. ASSUME NEW p \in Parties, NEW g \in own[p]
        PROVE  /\ Said(p, "create", g)
               /\ Countersigned(p, g)
    <3>1. PICK q \in Parties : q # p /\ Between[g] = {p, q}
      BY <1>6
    <3>2. made(p, q, g) \in outbox[p] /\ made(q, p, g) \in outbox[q]
      BY <1>3, <1>6, <3>1
    <3>3. QED
      BY <1>4, <1>6, <3>1, <3>2 DEF Said, Countersigned
  <2>2. theirs = own
    BY DEF Init
  <2>3. QED
    BY <2>1, <2>2 DEF HeldIsSigned
<1>9. \A p \in Parties : busy[p] = Idle /\ crossed[p] = {} /\ served[p] = {} /\ log[p] = {}
  BY DEF Init
<1>10. StretchFit
  BY <1>9 DEF StretchFit, StretchAt, Idle
<1>11. AcceptsFit
  BY DEF AcceptsFit, Init
<1>12. /\ received = [p \in Parties |-> Arrivals(p)] /\ dispatched = received
  BY DEF Init
<1>13. \A p \in Parties : \A a \in Arrivals(p) : a.kind = "create" /\ a \in Activity
  BY <1>5, ArrivalsAre
<1>14. HandedFit
  BY <1>12, <1>13 DEF HandedFit, Pinned
<1>15. TypeOK
  <2>1. plan \in Plans /\ now \in 1..MaxNow /\ kills \in 0..MaxKills
    BY FederationAssumption DEF Init, FederationAssumption
  <2>2. outbox \in [Parties -> SUBSET Activity]
    BY <1>5 DEF Init
  <2>3. own \in [Parties -> SUBSET Agreements] /\ theirs \in [Parties -> SUBSET Agreements]
    BY <1>6 DEF Init
  <2>4. /\ accepts \in [Parties -> [Works -> Nat]]
        /\ deny \in [Parties -> SUBSET Parties] /\ log \in [Parties -> SUBSET Entry]
        /\ asking \in [Parties -> SUBSET Reading]
        /\ crossed \in [Parties -> SUBSET Crossing] /\ served \in [Parties -> SUBSET Answer]
        /\ DOMAIN busy = Parties
    BY FederationAssumption DEF Init, FederationAssumption
  <2>5. /\ received \in [Parties -> SUBSET Activity] /\ dispatched \in [Parties -> SUBSET Activity]
        /\ \A p \in Parties : received[p] \subseteq Arrivals(p) /\ dispatched[p] \subseteq Arrivals(p)
    BY <1>12, <1>13
  <2>6. \A p \in Parties : /\ \A g \in own[p] \cup theirs[p] : p \in Between[g]
                          /\ \A w \in Works : accepts[p][w] # 0 => Requester[w] = p
    BY <1>6 DEF Init
  <2>7. QED
    BY <2>1, <2>2, <2>3, <2>4, <2>5, <2>6 DEF TypeOK
<1>16. /\ WorkCrossesUnderAgreement /\ LateIsInFlight /\ CrossingsReplay /\ InFlightLands
       /\ DeniedStayOut /\ ReadsAreCovered
  BY <1>9 DEF WorkCrossesUnderAgreement, LateIsInFlight, CrossingsReplay, InFlightLands,
              DeniedStayOut, ReadsAreCovered
<1>18. AskingFit
  BY DEF Init, AskingFit
<1>17. QED
  BY <1>7, <1>8, <1>10, <1>11, <1>14, <1>15, <1>16, <1>18 DEF BoundaryInv

------------------------------------------------------------------------------
(* The types *)

\* What stays typed when arrivals only grow.
LEMMA ArrivalsStay ==
    ASSUME TypeOK, Grows
    PROVE  \A p \in Parties :
              received[p] \subseteq Arrivals(p)' /\ dispatched[p] \subseteq Arrivals(p)'
BY GrownSaid DEF TypeOK

LEMMA LetInTyped ==
    ASSUME TypeOK, BoundaryInv, NEW p \in Parties, NEW a \in Arrivals(p),
           NEW how \in {"handshake", "self", "grant", "late"}, LetIn(p, a, how),
           UNCHANGED <<plan, now, outbox, gateVars, doneVars, asking, served, kills>>,
           log' \in [Parties -> SUBSET Entry]
    PROVE  TypeOK'
<1> USE DEF gateVars, doneVars
<1> DEFINE x == [act |-> a, at |-> IF how = "grant" THEN Clock(p) ELSE 0, how |-> how,
                 denied |-> a.by \in deny[p]]
<1>1. a \in Activity
  BY ArrivalsAre DEF TypeOK
<1>2. x \in Crossing
  BY <1>1, ClockIsNatural DEF Crossing
<1>3. crossed' \in [Parties -> SUBSET Crossing] /\ DOMAIN busy' = Parties
  BY <1>2 DEF LetIn, TypeOK
<1>4. \A q \in Parties : Arrivals(q)' = Arrivals(q)
  BY DEF Arrivals
<1>5. QED
  BY <1>3, <1>4 DEF TypeOK

LEMMA LoggedTyped ==
    ASSUME TypeOK, BoundaryInv, NEW p \in Parties, NEW a \in Arrivals(p),
           GateStep(p, a) # "admitted", Logged(p, a)
    PROVE  log' \in [Parties -> SUBSET Entry]
<1> DEFINE knew == \E x \in dispatched[p], g \in AgreementsWith(p, a.by) :
                      x.kind = "accept" /\ x.of = a.of /\ x.at < Expires[g]
           came == LateOutcome(p, a)
           e == [act |-> a, step |-> GateStep(p, a), came |-> came, knew |-> knew]
<1>1. a \in Activity
  BY ArrivalsAre DEF TypeOK
<1>2. GateStep(p, a) \in {"denylist", "agreement"}
  BY DEF GateStep
<1>3. came \in BOOLEAN /\ knew \in BOOLEAN
  BY DEF LateOutcome
<1>4. log' = [log EXCEPT ![p] = @ \cup {e}]
  BY DEF Logged
<1> HIDE DEF came, knew
<1>5. e \in Entry
  BY <1>1, <1>2, <1>3 DEF Entry
<1> HIDE DEF e
<1>6. QED
  BY <1>4, <1>5 DEF TypeOK

LEMMA PublishTyped ==
    ASSUME TypeOK, BoundaryInv, NEW p \in Parties, NEW kind, NEW to, NEW of, NEW todo,
           Publishable(p, kind, to, of, todo), Publish(p, kind, to, of, todo)
    PROVE  TypeOK'
<1> USE DEF gateVars, doneVars, histVars
<1> DEFINE a == [kind |-> kind, by |-> p, to |-> to, of |-> of, at |-> Clock(p)]
<1>1. a \in Activity
  BY ClockIsNatural DEF Publishable, Activity
<1>2. outbox' = [outbox EXCEPT ![p] = @ \cup {a}]
  BY DEF Publish
<1>3. UNCHANGED <<plan, now, own, theirs, accepts, deny, log, received, dispatched, asking,
                  crossed, served, kills>>
  BY DEF Publish
<1>4. DOMAIN busy' = Parties
  BY DEF Publish, TypeOK
<1> HIDE DEF a
<1>5. outbox' \in [Parties -> SUBSET Activity] /\ Grows
  BY <1>1, <1>2, <1>3 DEF TypeOK, Grows
<1>6. QED
  BY <1>3, <1>4, <1>5, ArrivalsStay DEF TypeOK

LEMMA StatementTyped ==
    ASSUME TypeOK, BoundaryInv, NEW p \in Parties,
           \/ RecordOwnCreate(p) \/ RecordTheirCreate(p) \/ RecordAccept(p)
           \/ RecordReceived(p) \/ Receive(p) \/ Denylist(p)
    PROVE  TypeOK'
<1> USE DEF gateVars, doneVars, histVars
<1> DEFINE act == busy[p].act
<1>1. /\ UNCHANGED <<plan, now, outbox, log, asking, crossed, served, kills>>
      /\ DOMAIN busy' = Parties
  BY DEF RecordOwnCreate, RecordTheirCreate, RecordAccept, RecordReceived, Receive, Denylist,
         Next1, TypeOK
<1>2. \A q \in Parties : Arrivals(q)' = Arrivals(q)
  BY <1>1 DEF Arrivals
<1>3. CASE RecordOwnCreate(p)
  <2>1. act \in outbox[p] /\ act.kind = "create" /\ p \in Between[act.of]
    BY <1>3, StretchSteps DEF RecordOwnCreate
  <2>2. act.of \in Agreements /\ p \in Between[act.of]
    BY <2>1 DEF BoundaryInv, OutboxFit
  <2>3. UNCHANGED <<theirs, accepts, deny, received, dispatched>>
        /\ own' = [own EXCEPT ![p] = @ \cup {act.of}]
    BY <1>3 DEF RecordOwnCreate
  <2>4. QED
    BY <1>1, <1>2, <2>2, <2>3 DEF TypeOK
<1>4. CASE RecordTheirCreate(p)
  <2>1. act \in Arrivals(p) /\ act.kind = "create"
    BY <1>4, StretchSteps DEF RecordTheirCreate
  <2>2. act.of \in Agreements /\ p \in Between[act.of]
    <3>1. PICK q \in Parties : act \in outbox[q] /\ act.to = p
      BY <2>1, ArrivalsAre
    <3>2. QED
      BY <2>1, <3>1 DEF BoundaryInv, OutboxFit
  <2>3. UNCHANGED <<own, accepts, deny, received, dispatched>>
        /\ theirs' = [theirs EXCEPT ![p] = @ \cup {act.of}]
    BY <1>4 DEF RecordTheirCreate
  <2>4. QED
    BY <1>1, <1>2, <2>2, <2>3 DEF TypeOK
<1>5. CASE RecordAccept(p)
  <2>1. act \in Arrivals(p) /\ act.kind = "accept"
    BY <1>5, StretchSteps DEF RecordAccept
  <2>2. PICK q \in Parties : act \in outbox[q] /\ act.to = p
    BY <2>1, ArrivalsAre
  <2>3. act.of \in Works /\ Requester[act.of] = p
    BY <2>1, <2>2 DEF BoundaryInv, OutboxFit
  <2>4. act.at \in Nat
    BY <2>2 DEF TypeOK, Activity
  <2>5. UNCHANGED <<own, theirs, deny, received, dispatched>>
    BY <1>5 DEF RecordAccept
  <2>6. accepts' = [accepts EXCEPT ![p] = [accepts[p] EXCEPT ![act.of] =
                      IF accepts[p][act.of] = 0 THEN act.at ELSE accepts[p][act.of]]]
    BY <1>5 DEF RecordAccept
  <2>7. accepts' \in [Parties -> [Works -> Nat]]
    <3>1. accepts[p] \in [Works -> Nat] /\ accepts[p][act.of] \in Nat
      BY <2>3 DEF TypeOK
    <3>2. [accepts[p] EXCEPT ![act.of] =
             IF accepts[p][act.of] = 0 THEN act.at ELSE accepts[p][act.of]] \in [Works -> Nat]
      BY <2>4, <3>1
    <3>3. QED
      BY <2>6, <3>2 DEF TypeOK
  <2>8. \A r \in Parties, w \in Works : accepts'[r][w] # 0 => Requester[w] = r
    <3>1. \A r \in Parties, w \in Works : accepts'[r][w] = accepts[r][w] \/ (r = p /\ w = act.of)
      BY <2>3, <2>6 DEF TypeOK
    <3>2. QED
      BY <2>3, <3>1 DEF TypeOK
  <2>9. QED
    BY <1>1, <1>2, <2>5, <2>7, <2>8 DEF TypeOK
<1>6. CASE RecordReceived(p)
  <2>1. act \in Arrivals(p)
    BY <1>6, StretchSteps DEF RecordReceived
  <2>2. act \in Activity
    BY <2>1, ArrivalsAre DEF TypeOK
  <2>3. UNCHANGED <<own, theirs, accepts, deny, dispatched>>
        /\ received' = [received EXCEPT ![p] = @ \cup {act}]
    BY <1>6 DEF RecordReceived
  <2>4. QED
    BY <1>1, <1>2, <2>1, <2>2, <2>3 DEF TypeOK
<1>7. CASE Receive(p)
  <2>1. act \in received[p]
    BY <1>7, StretchSteps DEF Receive
  <2>2. act \in Activity /\ act \in Arrivals(p)
    BY <2>1 DEF TypeOK
  <2>3. UNCHANGED <<own, theirs, accepts, deny, received>>
        /\ dispatched' = [dispatched EXCEPT ![p] = @ \cup {act}]
    BY <1>7 DEF Receive
  <2>4. QED
    BY <1>1, <1>2, <2>2, <2>3 DEF TypeOK
<1>8. CASE Denylist(p)
  <2>1. act \in outbox[p]
    BY <1>8, StretchSteps DEF Denylist
  <2>2. act.to \in Parties
    BY <2>1 DEF TypeOK, Activity
  <2>3. UNCHANGED <<own, theirs, accepts, received, dispatched>>
        /\ deny' = [deny EXCEPT ![p] = @ \cup {act.to}]
    BY <1>8 DEF Denylist
  <2>4. QED
    BY <1>1, <1>2, <2>2, <2>3 DEF TypeOK
<1>9. QED
  BY <1>3, <1>4, <1>5, <1>6, <1>7, <1>8

LEMMA ReadsTyped ==
    ASSUME TypeOK, BoundaryInv, NEW p \in Parties, Ask(p) \/ Serve(p)
    PROVE  TypeOK'
<1> USE DEF gateVars, doneVars, histVars
<1>1. UNCHANGED <<plan, now, outbox, own, theirs, accepts, deny, log, received, dispatched,
                  busy, crossed, kills>>
  BY DEF Ask, Serve
<1>2. \A q \in Parties : Arrivals(q)' = Arrivals(q)
  BY <1>1 DEF Arrivals
<1>3. CASE Ask(p)
  <2>1. asking' \in [Parties -> SUBSET Reading] /\ served' = served
    BY <1>3, AskedIs DEF Ask
  <2>2. QED
    BY <1>1, <1>2, <2>1 DEF TypeOK
<1>4. CASE Serve(p)
  <2>1. asking' \in [Parties -> SUBSET Reading] /\ \A v \in served'[p] : v \in Answer
    BY <1>4, ServedIs
  <2>2. \A q \in Parties \ {p} : served'[q] = served[q]
    BY <1>4, ServedIs
  <2>3. \E f : served' = [served EXCEPT ![p] = f]
    BY <1>4 DEF Serve
  <2>4. served' \in [Parties -> SUBSET Answer]
    BY <2>1, <2>2, <2>3 DEF TypeOK
  <2>5. QED
    BY <1>1, <1>2, <2>1, <2>4 DEF TypeOK
<1>5. QED
  BY <1>3, <1>4

LEMMA NextTyped ==
    ASSUME TypeOK, BoundaryInv, [Next]_vars
    PROVE  TypeOK'
<1> USE DEF gateVars, doneVars, histVars
<1>1. ASSUME NEW p \in Parties, Handshake(p)
      PROVE  TypeOK'
  <2>1. PICK a \in Arrivals(p) : LetIn(p, a, "handshake")
    BY <1>1 DEF Handshake
  <2>2. log' \in [Parties -> SUBSET Entry]
    BY <1>1 DEF Handshake, TypeOK
  <2>3. QED
    BY <1>1, <2>1, <2>2, LetInTyped DEF Handshake
<1>2. ASSUME NEW p \in Parties, Admit(p)
      PROVE  TypeOK'
  <2>1. PICK a \in Arrivals(p) : LetIn(p, a, IF a.by = p THEN "self" ELSE "grant")
    BY <1>2 DEF Admit
  <2>2. log' \in [Parties -> SUBSET Entry]
    BY <1>2 DEF Admit, TypeOK
  <2>3. QED
    BY <1>2, <2>1, <2>2, LetInTyped DEF Admit
<1>3. ASSUME NEW p \in Parties, Refuse(p)
      PROVE  TypeOK'
  <2>1. log' \in [Parties -> SUBSET Entry]
    BY <1>3, LoggedTyped DEF Refuse
  <2>2. UNCHANGED <<plan, now, outbox, gateVars, doneVars, busy, asking, histVars, kills>>
    BY <1>3 DEF Refuse
  <2>3. \A q \in Parties : Arrivals(q)' = Arrivals(q)
    BY <2>2 DEF Arrivals
  <2>4. QED
    BY <2>1, <2>2, <2>3 DEF TypeOK
<1>4. ASSUME NEW p \in Parties, ComeLate(p)
      PROVE  TypeOK'
  <2>1. PICK a \in Arrivals(p) :
           GateStep(p, a) # "admitted" /\ Logged(p, a) /\ LetIn(p, a, "late")
    BY <1>4 DEF ComeLate
  <2>2. log' \in [Parties -> SUBSET Entry]
    BY <2>1, LoggedTyped
  <2>3. QED
    BY <1>4, <2>1, <2>2, LetInTyped DEF ComeLate
<1>5. ASSUME NEW p \in Parties,
             Sign(p) \/ Offer(p) \/ Accept(p) \/ Conclude(p) \/ Post(p) \/ Defederate(p)
      PROVE  TypeOK'
  BY <1>5, WhatIsPublished, PublishTyped
<1>6. CASE Tick
  <2>1. now' \in 1..MaxNow
    <3>1. plan \in Plan /\ now \in 1..MaxNow /\ MaxNow \in Nat
      BY FederationAssumption DEF TypeOK, FederationAssumption
    <3>2. plan.until \in 1..MaxNow
      BY <3>1 DEF Plan
    <3>3. now < plan.until /\ now' = now + 1
      BY <1>6 DEF Tick
    <3>4. QED
      BY <3>1, <3>2, <3>3
  <2>2. UNCHANGED <<plan, outbox, gateVars, log, doneVars, busy, asking, histVars, kills>>
    BY <1>6 DEF Tick
  <2>3. \A q \in Parties : Arrivals(q)' = Arrivals(q)
    BY <2>2 DEF Arrivals
  <2>4. QED
    BY <2>1, <2>2, <2>3 DEF TypeOK
<1>7. ASSUME NEW p \in Parties, Kill(p)
      PROVE  TypeOK'
  <2>1. kills' \in 0..MaxKills /\ DOMAIN busy' = Parties /\ asking' \in [Parties -> SUBSET Reading]
    BY <1>7, FederationAssumption DEF Kill, TypeOK, FederationAssumption
  <2>2. UNCHANGED <<plan, now, outbox, gateVars, log, doneVars, histVars>>
    BY <1>7 DEF Kill
  <2>3. \A q \in Parties : Arrivals(q)' = Arrivals(q)
    BY <2>2 DEF Arrivals
  <2>4. QED
    BY <2>1, <2>2, <2>3 DEF TypeOK
<1>8. CASE UNCHANGED vars
  <2>1. \A q \in Parties : Arrivals(q)' = Arrivals(q)
    BY <1>8 DEF Arrivals, vars
  <2>2. QED
    BY <1>8, <2>1 DEF TypeOK, vars
<1>9. QED
  BY <1>1, <1>2, <1>3, <1>4, <1>5, <1>6, <1>7, <1>8, StatementTyped, ReadsTyped DEF Next

------------------------------------------------------------------------------
(* The theorems *)

\* What holds at the boundary of every operator, whatever the plans.
LEMMA BoundaryStands == Spec => [](TypeOK /\ BoundaryInv)
<1>1. Init => TypeOK /\ BoundaryInv
  BY InitFits
<1>2. TypeOK /\ BoundaryInv /\ [Next]_vars => (TypeOK /\ BoundaryInv)'
  BY NextTyped, NextFits
<1>3. QED
  BY <1>1, <1>2, PTL DEF Spec

\* The state is well typed in every reachable state.
THEOREM TypeCorrect == Spec => []TypeOK
BY BoundaryStands, PTL

\* No new work crosses a boundary but under an agreement of the two operators that
\* the receiver has published and another has published to it, which covers the
\* work and runs on the receiver's clock (federation.ts, grants.ts): a single
\* Create, an agreement with another operator, one that has run out, or a kill
\* between any two statements never lets anything in.
THEOREM WorkNeedsAgreement == Spec => []WorkCrossesUnderAgreement
<1>1. BoundaryInv => WorkCrossesUnderAgreement
  BY DEF BoundaryInv
<1>2. QED
  BY <1>1, BoundaryStands, PTL

\* What comes in past the gate's refusal is the outcome of work whose Accept came
\* in through the gate, dated before an agreement of the two ran out.
THEOREM LateGoesBackToAccept == Spec => []LateIsInFlight
<1>1. BoundaryInv => LateIsInFlight
  BY DEF BoundaryInv
<1>2. QED
  BY <1>1, BoundaryStands, PTL

\* What crosses is covered where it came in, and on the record it came from: a
\* verifier admits each piece of new work of an operator whose clock is not ahead
\* of the receiver's, and finds the Accept in time that a late outcome rides,
\* unless the receiver was sent the agreement by a third.
THEOREM CrossingsStand == Spec => []CrossingsHold
<1>1. BoundaryInv => CrossingsHold
  BY DEF BoundaryInv, CrossingsHold
<1>2. QED
  BY <1>1, BoundaryStands, PTL

\* Work in flight lands: an outcome is not turned away once the Accept of its work,
\* dated in time, has been handed on.
THEOREM OutcomesLand == Spec => []InFlightLands
<1>1. BoundaryInv => InFlightLands
  BY DEF BoundaryInv
<1>2. QED
  BY <1>1, BoundaryStands, PTL

\* Whom an operator shut out it neither hears nor shows anything, but for the
\* outcome of work accepted before.
THEOREM DenialStands == Spec => []DeniedStayOut
<1>1. BoundaryInv => DeniedStayOut
  BY DEF BoundaryInv
<1>2. QED
  BY <1>1, BoundaryStands, PTL

\* What was handed on to the handlers is on the record of what was received,
\* wherever the process was killed.
THEOREM RecordCoversHandedOn == Spec => []HandedOnIsRecorded
<1>1. BoundaryInv => HandedOnIsRecorded
  BY DEF BoundaryInv, HandedFit, HandedOnIsRecorded
<1>2. QED
  BY <1>1, BoundaryStands, PTL

\* Nobody is shown, in an outbox or by way of an artifact, anything older than the
\* request that an address, a seat, a proof or a grant does not entitle them to when
\* the answer is given, whatever changed since the lookup (readGate.ts, server.ts).
THEOREM ReadersAreEntitled == Spec => []ReadsAreCovered
<1>1. BoundaryInv => ReadsAreCovered
  BY DEF BoundaryInv
<1>2. QED
  BY <1>1, BoundaryStands, PTL

------------------------------------------------------------------------------
(* The door of a hop *)

------------------------------------------------------------------------------
(* What the two ends hold *)

\* By a clock that is some seconds off the receiver's.
Dated(r) == r.date \in Int
Stages == [at : {"waiting", "first", "second", "done"}, scheme : Schemes \cup {Unset}]
Faults == [tries : [Deliveries -> Nat], again : Nat, down : Nat, fails : Nat, ahead : Int]

\* The clock, the faults left, and requests: all were sent, and dated when sent.
HopTyped ==
    /\ tick \in Nat
    /\ left \in Faults
    /\ hop \in [Deliveries -> Stages]
    /\ preferred \in Schemes \cup {Unset}
    /\ \A r \in posted : Dated(r)
    /\ \A j \in jobs : /\ j.req \in posted /\ j.of \in Deliveries \cup {NoneOf}
                       /\ j = [req |-> j.req, of |-> j.of, at |-> j.at]

LEMMA HopTypedInit == HopInit => HopTyped
BY HopAssumption DEF HopInit, HopTyped, HopAssumption, Schemes, Unset, Stages, Faults

\* A budget spent is a budget.
LEMMA BudgetSpent ==
    ASSUME HopTyped, NEW n \in Nat
    PROVE  /\ [left EXCEPT !.fails = n] \in Faults
           /\ [left EXCEPT !.down = n] \in Faults
           /\ [left EXCEPT !.again = n] \in Faults
BY DEF HopTyped, Faults

\* A stage changed is a stage.
LEMMA StageMoves ==
    ASSUME HopTyped, NEW d \in Deliveries, NEW at \in {"waiting", "first", "second", "done"},
           NEW scheme \in Schemes \cup {Unset}
    PROVE  /\ [hop EXCEPT ![d].at = at] \in [Deliveries -> Stages]
           /\ [hop EXCEPT ![d].at = at, ![d].scheme = scheme] \in [Deliveries -> Stages]
           /\ [hop EXCEPT ![d] = [at |-> at, scheme |-> scheme]] \in [Deliveries -> Stages]
           /\ [hop[d] EXCEPT !.at = at] \in Stages
           /\ hop[d].scheme \in Schemes \cup {Unset}
<1>1. hop \in [Deliveries -> Stages] /\ hop[d] \in Stages
    BY DEF HopTyped
<1>2. [hop[d] EXCEPT !.at = at] \in Stages /\ [at |-> at, scheme |-> scheme] \in Stages
    BY <1>1 DEF Stages
<1>3. [[hop[d] EXCEPT !.at = at] EXCEPT !.scheme = scheme] \in Stages
    BY <1>1 DEF Stages
<1>4. hop[d].scheme \in Schemes \cup {Unset}
    BY <1>1 DEF Stages
<1> HIDE DEF Stages
<1> QED BY <1>1, <1>2, <1>3, <1>4

LEMMA OtherIsScheme == ASSUME NEW s PROVE OtherScheme(s) \in Schemes
BY DEF OtherScheme, Schemes

\* What a request is.
LEMMA RequestDated ==
    ASSUME HopTyped, NEW d, NEW scheme
    PROVE  /\ Request(d, scheme).date = tick + left.ahead
           /\ Request(d, scheme).scheme = scheme
           /\ Dated(Request(d, scheme))
BY DEF Request, Dated, HopTyped, Faults

\* What the queue's end of a hop may do when an answer comes, or does not.
LEMMA ReplyEffect ==
    ASSUME HopTyped, NEW j \in jobs, NEW status, Reply(j, status)
    PROVE  /\ hop' \in [Deliveries -> Stages]
           /\ preferred' \in Schemes \cup {Unset}
           /\ posted \subseteq posted'
           /\ \A r \in posted' : Dated(r)
           /\ \A k \in jobs' : \/ k \in jobs
                               \/ /\ k.req \in posted' /\ k.of \in Deliveries \cup {NoneOf}
                                  /\ k = [req |-> k.req, of |-> k.of, at |-> k.at]
<1> DEFINE d == j.of
<1> DEFINE scheme == OtherScheme(hop[d].scheme)
<1>1. CASE d = NoneOf
    BY <1>1 DEF Reply, Answered, Gone, HopTyped
<1>2. CASE d # NoneOf
    <2>1. d \in Deliveries /\ hop[d].scheme \in Schemes \cup {Unset}
        BY <1>2, StageMoves DEF HopTyped
    <2>2. CASE Gone(d) /\ UNCHANGED <<preferred, posted>> /\ jobs' = jobs \ {j}
        BY <2>1, <2>2, StageMoves DEF Gone, HopTyped
    <2>3. CASE /\ Done(d) /\ preferred' = hop[d].scheme
               /\ UNCHANGED posted /\ jobs' = jobs \ {j}
        BY <2>1, <2>3, StageMoves DEF Done, HopTyped
    <2>4. CASE /\ hop' = [hop EXCEPT ![d].at = "second", ![d].scheme = scheme]
               /\ posted' = posted \cup {Request(d, scheme)}
               /\ jobs' = (jobs \ {j}) \cup {Job(Request(d, scheme), d)}
               /\ UNCHANGED preferred
        <3>1. scheme \in Schemes
            BY OtherIsScheme
        <3>2. Dated(Request(d, scheme))
            BY RequestDated
        <3> DEFINE r == Request(d, scheme)
        <3> HIDE DEF r, scheme, d
        <3>3. hop' \in [Deliveries -> Stages]
            BY <2>1, <2>4, <3>1, StageMoves
        <3>4. \A k \in jobs' : \/ k \in jobs
                               \/ /\ k.req \in posted' /\ k.of \in Deliveries \cup {NoneOf}
                                  /\ k = [req |-> k.req, of |-> k.of, at |-> k.at]
            BY <2>1, <2>4 DEF Job, r
        <3> QED BY <2>4, <3>2, <3>3, <3>4 DEF HopTyped, r
    <2> QED BY <1>2, <2>2, <2>3, <2>4 DEF Reply, Answered
<1> QED BY <1>1, <1>2

LEMMA ReplyTyped ==
    ASSUME HopTyped, NEW j \in jobs, NEW status, Reply(j, status), UNCHANGED tick,
           left' \in Faults
    PROVE  HopTyped'
<1>1. \A r \in posted' : Dated(r)'
    BY ReplyEffect DEF Dated
<1> QED BY <1>1, ReplyEffect DEF HopTyped

LEMMA HopTypedStep ==
    ASSUME HopTyped, [HopNext]_hopVars
    PROVE  HopTyped'
<1>1. ASSUME NEW d \in Deliveries, Knock(d) PROVE HopTyped'
    <2>1. PICK scheme \in {IF preferred = Unset THEN "rfc9421" ELSE preferred} :
              /\ left' = [left EXCEPT !.tries[d] = @ - 1] /\ left.tries[d] > 0
              /\ Send(d, scheme)
              /\ hop' = [hop EXCEPT ![d] = [at |-> "first", scheme |-> scheme]]
              /\ UNCHANGED <<tick, preferred>>
        BY <1>1 DEF Knock
    <2>2. scheme \in Schemes
        BY DEF HopTyped, Schemes
    <2> DEFINE r == Request(d, scheme)
    <2>3. Dated(r)
        BY RequestDated
    <2>4. /\ posted' = posted \cup {r} /\ jobs' = jobs \cup {Job(r, d)}
        BY <2>1 DEF Send
    <2> HIDE DEF r
    <2>5. \A k \in jobs' : /\ k.req \in posted' /\ k.of \in Deliveries \cup {NoneOf}
                           /\ k = [req |-> k.req, of |-> k.of, at |-> k.at]
        BY <2>4 DEF Job, HopTyped
    <2>6. left' \in Faults
        <3>1. left.tries \in [Deliveries -> Nat]
            BY DEF HopTyped, Faults
        <3>2. [left.tries EXCEPT ![d] = @ - 1] \in [Deliveries -> Nat]
            BY <2>1, <3>1
        <3> QED BY <2>1, <3>2 DEF HopTyped, Faults
    <2>7. hop' \in [Deliveries -> Stages]
        BY <2>1, <2>2, StageMoves
    <2> QED BY <2>1, <2>3, <2>4, <2>5, <2>6, <2>7 DEF HopTyped, Dated
<1>2. ASSUME NEW j \in jobs, RefusedForNoKey(j) PROVE HopTyped'
    <2>1. left' \in Faults
        <3>1. left.fails > 0 /\ left' = [left EXCEPT !.fails = left.fails - 1]
            BY <1>2 DEF RefusedForNoKey
        <3>2. left.fails - 1 \in Nat
            <4>1. left.fails \in Nat
                BY DEF HopTyped, Faults
            <4> QED BY <3>1, <4>1
        <3> QED BY <3>1, <3>2, BudgetSpent
    <2>2. Reply(j, 401) /\ UNCHANGED tick
        BY <1>2 DEF RefusedForNoKey
    <2> QED BY <2>1, <2>2, ReplyTyped
<1>12. ASSUME NEW j \in jobs, RefusedUnproven(j) PROVE HopTyped'
    <2>1. left.fails > 0 /\ left' = [left EXCEPT !.fails = left.fails - 1]
        BY <1>12 DEF RefusedUnproven
    <2>2. left.fails \in Nat
        BY DEF HopTyped, Faults
    <2>3. left.fails - 1 \in Nat
        BY <2>1, <2>2
    <2>4. Reply(j, 401) /\ UNCHANGED tick
        BY <1>12 DEF RefusedUnproven
    <2> QED BY <2>1, <2>3, <2>4, BudgetSpent, ReplyTyped
<1>3. ASSUME NEW j \in jobs, RefusedAsUnsigned(j) PROVE HopTyped'
    BY <1>3, ReplyTyped DEF RefusedAsUnsigned, HopTyped
<1>4. ASSUME NEW j \in jobs, RefusedAsReplay(j) PROVE HopTyped'
    BY <1>4, ReplyTyped DEF RefusedAsReplay, HopTyped
<1>5. ASSUME NEW j \in jobs, RefusedForNow(j) PROVE HopTyped'
    BY <1>5, ReplyTyped DEF RefusedForNow, HopTyped
<1>6. ASSUME NEW j \in jobs, Opens(j) PROVE HopTyped'
    <2>1. jobs' = (jobs \ {j}) \cup {[j EXCEPT !.at = "inside"]}
        BY <1>6 DEF Opens
    <2>2. \A k \in jobs' : /\ k.req \in posted /\ k.of \in Deliveries \cup {NoneOf}
                           /\ k = [req |-> k.req, of |-> k.of, at |-> k.at]
        BY <2>1 DEF HopTyped
    <2> QED BY <1>6, <2>2 DEF Opens, HopTyped, Dated
<1>7. ASSUME NEW j \in jobs, Finish(j) PROVE HopTyped'
    BY <1>7, ReplyTyped DEF Finish, HopTyped
<1>8. CASE ReceiverKilled
    <2>1. left' \in Faults
        <3>1. left.down > 0 /\ left' = [left EXCEPT !.down = left.down - 1]
            BY <1>8 DEF ReceiverKilled
        <3>2. left.down - 1 \in Nat
            <4>1. left.down \in Nat
                BY DEF HopTyped, Faults
            <4> QED BY <3>1, <4>1
        <3> QED BY <3>1, <3>2, BudgetSpent
    <2>2. hop' \in [Deliveries -> Stages]
        BY <1>8, StageMoves DEF ReceiverKilled, HopTyped
    <2> QED BY <1>8, <2>1, <2>2 DEF ReceiverKilled, HopTyped, Dated
<1>9. ASSUME NEW r \in posted, ArrivesAgain(r) PROVE HopTyped'
    <2>1. left' \in Faults
        <3>1. left.again > 0 /\ left' = [left EXCEPT !.again = left.again - 1]
            BY <1>9 DEF ArrivesAgain
        <3>2. left.again - 1 \in Nat
            <4>1. left.again \in Nat
                BY DEF HopTyped, Faults
            <4> QED BY <3>1, <4>1
        <3> QED BY <3>1, <3>2, BudgetSpent
    <2> QED BY <1>9, <2>1 DEF ArrivesAgain, HopTyped, Dated, Job
<1>10. CASE SecondPasses
    BY <1>10 DEF SecondPasses, HopTyped, Dated
<1>11. CASE UNCHANGED hopVars
    BY <1>11 DEF hopVars, HopTyped, Dated
<1> QED BY <1>1, <1>2, <1>3, <1>4, <1>5, <1>6, <1>7, <1>8, <1>9, <1>10, <1>11, <1>12
       DEF HopNext

LEMMA HopTypeCorrect == HopSpec => []HopTyped
BY HopTypedInit, HopTypedStep, PTL DEF HopSpec

------------------------------------------------------------------------------
(* A signature opens the door once *)

\* Whatever was let in was within the skew then, and has its row, for as long as
\* a row is kept, through restarts.
RowsOutlive ==
    /\ \A r \in DOMAIN spent : spent[r] \in Nat /\ spent[r] <= tick + KeepsFor
    /\ \E S : opened \in Seq(S)
    /\ \A i \in DOMAIN opened :
          /\ opened[i].at \in Nat /\ opened[i].at <= tick
          /\ opened[i].req.date \in Int /\ opened[i].req.date - opened[i].at <= Skew
          /\ opened[i].req \in DOMAIN spent
          /\ spent[opened[i].req] >= opened[i].at + KeepsFor

OnceInv == RowsOutlive /\ OpensOnce

\* One entry more in a history.
LEMMA OneMore ==
    ASSUME NEW S, NEW s \in Seq(S), NEW e
    PROVE  /\ Append(s, e) \in Seq(S \cup {e})
           /\ DOMAIN s = 1..Len(s) /\ Len(s) \in Nat
           /\ DOMAIN Append(s, e) = 1..Len(s) + 1
           /\ \A i \in DOMAIN s : Append(s, e)[i] = s[i]
           /\ Append(s, e)[Len(s) + 1] = e
<1>1. s \in Seq(S \cup {e}) /\ e \in S \cup {e}
    OBVIOUS
<1> QED BY <1>1

LEMMA DoorNumbers == KeepsFor \in Nat /\ Skew \in Nat
BY HopAssumption DEF HopAssumption

\* A request that is not seen was let in no later than its row was due to go, and
\* one that verifies no sooner than twice the skew ago.
LEMMA UnseenIsOld ==
    ASSUME HopTyped, RowsOutlive, NEW j \in jobs, Verified(j), ~Seen(j.req),
           NEW i \in DOMAIN opened, opened[i].req = j.req
    PROVE  tick - opened[i].at \in KeepsFor..2 * Skew
<1>1. /\ opened[i].at \in Nat /\ j.req.date \in Int /\ j.req.date - opened[i].at <= Skew
      /\ j.req \in DOMAIN spent /\ spent[j.req] >= opened[i].at + KeepsFor
      /\ spent[j.req] \in Nat
    BY DEF RowsOutlive
<1>2. tick \in Nat /\ spent[j.req] <= tick
    BY <1>1 DEF Seen, HopTyped
<1>3. tick - j.req.date <= Skew
    BY DEF Verified, InSkew
<1> QED BY <1>1, <1>2, <1>3, DoorNumbers

LEMMA MarkKeeps ==
    ASSUME HopTyped, RowsOutlive, NEW r, Mark(r), UNCHANGED tick
    PROVE  /\ DOMAIN spent' = DOMAIN spent \cup {r}
           /\ spent'[r] = tick + KeepsFor
           /\ \A x \in DOMAIN spent' : spent'[x] \in Nat /\ spent'[x] <= tick' + KeepsFor
           /\ \A i \in DOMAIN opened :
                 /\ opened[i].req \in DOMAIN spent'
                 /\ spent'[opened[i].req] >= opened[i].at + KeepsFor
<1>1. DOMAIN spent' = DOMAIN spent \cup {r}
    BY DEF Mark
<1>2. spent'[r] = tick + KeepsFor
    BY DEF Mark
<1>3. \A x \in DOMAIN spent : x # r => spent'[x] = spent[x]
    BY DEF Mark
<1>4. tick \in Nat
    BY DEF HopTyped
<1>5. \A x \in DOMAIN spent' : spent'[x] \in Nat /\ spent'[x] <= tick' + KeepsFor
    BY <1>1, <1>2, <1>3, <1>4, DoorNumbers DEF RowsOutlive
<1>6. ASSUME NEW i \in DOMAIN opened
      PROVE  /\ opened[i].req \in DOMAIN spent'
             /\ spent'[opened[i].req] >= opened[i].at + KeepsFor
    <2>1. /\ opened[i].at \in Nat /\ opened[i].at <= tick /\ opened[i].req \in DOMAIN spent
          /\ spent[opened[i].req] >= opened[i].at + KeepsFor
        BY DEF RowsOutlive
    <2>2. CASE opened[i].req = r
        BY <1>1, <1>2, <1>4, <2>1, <2>2, DoorNumbers
    <2>3. CASE opened[i].req # r
        BY <1>1, <1>3, <2>1, <2>3
    <2> QED BY <2>2, <2>3
<1> QED BY <1>1, <1>2, <1>5, <1>6

LEMMA OpensKeepsOnce ==
    ASSUME HopTyped, OnceInv, NEW j \in jobs, Opens(j)
    PROVE  OnceInv'
<1> DEFINE e == [req |-> j.req, at |-> tick, life |-> left.down]
<1>1. Verified(j) /\ ~Seen(j.req) /\ Mark(j.req) /\ opened' = Append(opened, e) /\ UNCHANGED tick
    BY DEF Opens
<1>2. RowsOutlive
    BY DEF OnceInv
<1>3. /\ DOMAIN spent' = DOMAIN spent \cup {j.req}
      /\ spent'[j.req] = tick + KeepsFor
      /\ \A x \in DOMAIN spent' : spent'[x] \in Nat /\ spent'[x] <= tick' + KeepsFor
      /\ \A i \in DOMAIN opened :
            opened[i].req \in DOMAIN spent' /\ spent'[opened[i].req] >= opened[i].at + KeepsFor
    BY <1>1, <1>2, MarkKeeps
<1>4. tick \in Nat /\ j.req.date \in Int /\ j.req.date - tick <= Skew
    BY <1>1 DEF HopTyped, Dated, Verified, InSkew
<1>5. PICK S : opened \in Seq(S)
    BY <1>2 DEF RowsOutlive
<1>6. e.req = j.req /\ e.at = tick
    OBVIOUS
<1> HIDE DEF e
<1>7. /\ opened' \in Seq(S \cup {e})
      /\ DOMAIN opened = 1..Len(opened) /\ Len(opened) \in Nat
      /\ DOMAIN opened' = 1..Len(opened) + 1
      /\ \A i \in DOMAIN opened : opened'[i] = opened[i]
      /\ opened'[Len(opened) + 1] = e
    BY <1>1, <1>5, OneMore
<1>8. \A i \in DOMAIN opened' : \/ i \in DOMAIN opened /\ opened'[i] = opened[i]
                                \/ i = Len(opened) + 1 /\ opened'[i] = e
    BY <1>7
<1>9. RowsOutlive'
    <2>1. ASSUME NEW i \in DOMAIN opened'
          PROVE  /\ opened'[i].at \in Nat /\ opened'[i].at <= tick'
                 /\ opened'[i].req.date \in Int /\ opened'[i].req.date - opened'[i].at <= Skew
                 /\ opened'[i].req \in DOMAIN spent'
                 /\ spent'[opened'[i].req] >= opened'[i].at + KeepsFor
        <3>1. CASE i \in DOMAIN opened /\ opened'[i] = opened[i]
            BY <1>1, <1>2, <1>3, <3>1 DEF RowsOutlive
        <3>2. CASE opened'[i] = e
            BY <1>1, <1>3, <1>4, <1>6, <3>2, DoorNumbers
        <3> QED BY <1>8, <3>1, <3>2
    <2> QED BY <1>3, <1>7, <2>1 DEF RowsOutlive
<1>10. OpensOnce'
    <2> SUFFICES ASSUME NEW i \in DOMAIN opened', NEW k \in DOMAIN opened', i < k,
                        opened'[i].req = opened'[k].req
                 PROVE  opened'[k].at - opened'[i].at \in KeepsFor..2 * Skew
        BY DEF OpensOnce
    <2>1. i \in DOMAIN opened /\ opened'[i] = opened[i]
        BY <1>7
    <2>2. CASE k \in DOMAIN opened /\ opened'[k] = opened[k]
        BY <2>1, <2>2 DEF OnceInv, OpensOnce
    <2>3. CASE opened'[k] = e
        BY <1>1, <1>2, <1>6, <2>1, <2>3, UnseenIsOld
    <2> QED BY <1>8, <2>2, <2>3
<1> QED BY <1>9, <1>10 DEF OnceInv

LEMMA OnceStep ==
    ASSUME HopTyped, OnceInv, [HopNext]_hopVars
    PROVE  OnceInv'
<1>1. ASSUME UNCHANGED <<spent, opened>>, tick' \in {tick, tick + 1} PROVE OnceInv'
    <2>1. tick \in Nat /\ tick <= tick' /\ tick' \in Nat
        BY <1>1 DEF HopTyped
    <2> QED BY <1>1, <2>1, DoorNumbers DEF OnceInv, RowsOutlive, OpensOnce
<1>2. ASSUME NEW j \in jobs, RefusedForNow(j) PROVE OnceInv'
    <2>1. Mark(j.req) /\ opened' = opened /\ tick' = tick /\ RowsOutlive
        BY <1>2 DEF RefusedForNow, OnceInv
    <2>2. /\ \A x \in DOMAIN spent' : spent'[x] \in Nat /\ spent'[x] <= tick' + KeepsFor
          /\ \A i \in DOMAIN opened :
                opened[i].req \in DOMAIN spent' /\ spent'[opened[i].req] >= opened[i].at + KeepsFor
        BY <2>1, MarkKeeps
    <2> QED BY <2>1, <2>2 DEF OnceInv, RowsOutlive, OpensOnce
<1>3. ASSUME NEW j \in jobs, Opens(j) PROVE OnceInv'
    BY <1>3, OpensKeepsOnce
<1>4. ASSUME NEW j \in jobs,
             RefusedForNoKey(j) \/ RefusedAsUnsigned(j) \/ RefusedAsReplay(j)
                \/ RefusedUnproven(j) \/ Finish(j)
      PROVE  OnceInv'
    <2>1. UNCHANGED <<tick, spent, opened>>
        BY <1>4 DEF RefusedForNoKey, RefusedAsUnsigned, RefusedAsReplay, RefusedUnproven, Finish
    <2> QED BY <1>1, <2>1
<1>5. CASE \E d \in Deliveries : Knock(d)
    BY <1>1, <1>5 DEF Knock
<1>6. CASE ReceiverKilled \/ SecondPasses \/ \E r \in posted : ArrivesAgain(r)
    BY <1>1, <1>6 DEF ReceiverKilled, SecondPasses, ArrivesAgain
<1>7. CASE UNCHANGED hopVars
    BY <1>1, <1>7 DEF hopVars
<1> QED BY <1>2, <1>3, <1>4, <1>5, <1>6, <1>7 DEF HopNext

\* The strengthening behind it: what was let in has its row.
LEMMA OnceStands == HopSpec => [](RowsOutlive /\ OpensOnce)
<1>1. HopInit => OnceInv
    <2>1. << >> \in Seq({}) /\ DOMAIN << >> = {}
        OBVIOUS
    <2> QED BY <2>1 DEF HopInit, OnceInv, RowsOutlive, OpensOnce
<1>2. HopTyped /\ OnceInv /\ [HopNext]_hopVars => OnceInv'
    BY OnceStep
<1>3. OnceInv => RowsOutlive /\ OpensOnce
    BY DEF OnceInv
<1> QED BY <1>1, <1>2, <1>3, HopTypeCorrect, PTL DEF HopSpec

\* A signature opens the door again, if at all, no sooner than its row lasts and no
\* later than twice the skew, whatever the network hands over again and however
\* often the receiver restarts.
THEOREM DoorOpensOnce == HopSpec => []OpensOnce
BY OnceStands, PTL

\* It opens it once where a row outlasts twice the skew.
THEOREM OnceIfKeptLongEnough ==
    ASSUME KeepsFor > 2 * Skew
    PROVE  HopSpec => [](\A i, k \in DOMAIN opened : opened[i].req = opened[k].req => i = k)
<1> DEFINE Once == \A i, k \in DOMAIN opened : opened[i].req = opened[k].req => i = k
<1>1. RowsOutlive /\ OpensOnce => Once
    <2> SUFFICES ASSUME RowsOutlive, OpensOnce, NEW i \in DOMAIN opened, NEW k \in DOMAIN opened,
                        opened[i].req = opened[k].req
                 PROVE  i = k
        OBVIOUS
    <2>1. PICK S : opened \in Seq(S)
        BY DEF RowsOutlive
    <2>2. i \in Int /\ k \in Int
        BY <2>1
    <2>3. \A n \in Int : n \notin KeepsFor..2 * Skew
        BY DoorNumbers
    <2>4. ~(i < k) /\ ~(k < i)
        BY <2>3 DEF OpensOnce, RowsOutlive
    <2> QED BY <2>2, <2>4
<1> QED BY <1>1, OnceStands, PTL

------------------------------------------------------------------------------
(* The bucket holds *)

Buckets == [tokens : 0..Capacity, start : Nat]

\* What was let in is dated, and not of a life to come.
OpenedDated ==
    \A i \in DOMAIN opened :
        /\ opened[i].at \in Nat /\ opened[i].at <= tick
        /\ opened[i].life \in Nat /\ left.down <= opened[i].life

\* Of the requests let in since the receiver came up, those that took no token
\* of the window in force came by its start; those before a whole bucket more
\* came a window's length before it.
Accounted(b) ==
    \A i \in DOMAIN opened : opened[i].life = left.down =>
        /\ i + (Capacity - b.tokens) <= Len(opened) => opened[i].at <= b.start
        /\ i + (Capacity - b.tokens) + Capacity <= Len(opened)
               => opened[i].at + Window <= b.start

BucketInv ==
    /\ OpenedDated
    /\ BucketHolds
    /\ \/ bucket = << >> /\ \A i \in DOMAIN opened : opened[i].life # left.down
       \/ \E b \in Buckets : bucket = <<b>> /\ b.start <= tick /\ Accounted(b)

LEMMA HopNumbers ==
    /\ Capacity \in Nat \ {0} /\ Window \in Nat \ {0}
BY HopAssumption DEF HopAssumption

\* What the history of requests let in looks like.
LEMMA OpenedIsSeq ==
    ASSUME RowsOutlive
    PROVE  DOMAIN opened = 1..Len(opened) /\ Len(opened) \in Nat
<1>1. PICK S : opened \in Seq(S)
    BY DEF RowsOutlive
<1> QED BY <1>1

\* The window that allow() finds or opens accounts for what was let in.
LEMMA WindowInForce ==
    ASSUME HopTyped, RowsOutlive, BucketInv
    PROVE  \E b \in Buckets : Opened(Swept(bucket)) = b /\ b.start <= tick /\ Accounted(b)
<1> DEFINE fresh == [tokens |-> Capacity, start |-> tick]
<1>1. fresh \in Buckets /\ fresh.start <= tick
    BY HopNumbers DEF Buckets, HopTyped
<1>2. CASE bucket = << >>
    <2>1. Opened(Swept(bucket)) = fresh
        BY <1>2 DEF Opened, Swept
    <2>2. Accounted(fresh)
        BY <1>2 DEF BucketInv, Accounted
    <2> QED BY <1>1, <2>1, <2>2
<1>3. CASE \E b \in Buckets : bucket = <<b>> /\ b.start <= tick /\ Accounted(b)
    <2>1. PICK b \in Buckets : bucket = <<b>> /\ b.start <= tick /\ Accounted(b)
        BY <1>3
    <2>2. bucket[1] = b /\ bucket # << >> /\ b.start \in Nat /\ b.tokens \in 0..Capacity
        BY <2>1 DEF Buckets
    <2>3. CASE tick - b.start >= Window
        <3>1. Opened(Swept(bucket)) = fresh
            BY <2>2, <2>3 DEF Opened, Swept
        <3>2. Accounted(fresh)
            <4> SUFFICES ASSUME NEW i \in DOMAIN opened, opened[i].life = left.down
                         PROVE  /\ opened[i].at <= tick
                                /\ i + Capacity <= Len(opened) => opened[i].at + Window <= tick
                BY HopNumbers, OpenedIsSeq DEF Accounted
            <4>1. opened[i].at \in Nat /\ opened[i].at <= tick
                BY DEF BucketInv, OpenedDated
            <4>2. ASSUME i + Capacity <= Len(opened) PROVE opened[i].at + Window <= tick
                <5>1. i + (Capacity - b.tokens) <= Len(opened)
                    BY <2>2, <4>2, HopNumbers, OpenedIsSeq
                <5>2. opened[i].at <= b.start
                    BY <2>1, <5>1 DEF Accounted
                <5> QED BY <2>2, <2>3, <4>1, <5>2, HopNumbers DEF HopTyped
            <4> QED BY <4>1, <4>2
        <3> QED BY <1>1, <3>1, <3>2
    <2>4. CASE ~(tick - b.start >= Window)
        <3>1. Swept(bucket) = bucket
            BY <2>2, <2>4, HopNumbers DEF Swept, HopTyped
        <3>2. Opened(bucket) = b
            BY <2>2, <2>4 DEF Opened
        <3> QED BY <2>1, <3>1, <3>2
    <2> QED BY <2>3, <2>4
<1> QED BY <1>2, <1>3 DEF BucketInv

\* One request more takes a token: the one two buckets before it is a window old.
LEMMA OpensWithinBudget ==
    ASSUME HopTyped, RowsOutlive, BucketInv, NEW j, Opens(j)
    PROVE  BucketInv'
<1> DEFINE e == [req |-> j.req, at |-> tick, life |-> left.down]
<1> DEFINE n == Len(opened)
<1>1. Allow(TRUE) /\ opened' = Append(opened, e) /\ UNCHANGED <<tick, left>>
    BY DEF Opens
<1>2. PICK b \in Buckets : /\ Opened(Swept(bucket)) = b /\ b.start <= tick /\ Accounted(b)
    BY WindowInForce
<1>3. b.tokens > 0 /\ bucket' = <<[b EXCEPT !.tokens = b.tokens - 1]>>
    BY <1>1, <1>2 DEF Allow
<1>4. PICK less \in Buckets : /\ bucket' = <<less>>
                               /\ less.tokens = b.tokens - 1 /\ less.start = b.start
                               /\ b.tokens \in 1..Capacity /\ b.start \in Nat
    <2>1. [b EXCEPT !.tokens = b.tokens - 1] \in Buckets /\ b.tokens \in 1..Capacity
        BY <1>2, <1>3, HopNumbers DEF Buckets
    <2> QED BY <1>2, <1>3, <2>1 DEF Buckets
<1>5. e.at = tick /\ e.life = left.down
    OBVIOUS
<1> HIDE DEF e
<1>6. /\ DOMAIN opened = 1..n /\ n \in Nat /\ Len(opened') = n + 1
      /\ DOMAIN opened' = 1..(n + 1)
      /\ \A i \in DOMAIN opened : opened'[i] = opened[i]
      /\ opened'[n + 1] = e
    <2>1. PICK S : opened \in Seq(S)
        BY DEF RowsOutlive
    <2>2. Len(opened') = n + 1
        BY <1>1, <2>1
    <2>3. /\ DOMAIN opened = 1..n /\ n \in Nat
          /\ DOMAIN Append(opened, e) = 1..(n + 1)
          /\ \A i \in DOMAIN opened : Append(opened, e)[i] = opened[i]
          /\ Append(opened, e)[n + 1] = e
        BY <2>1, OneMore
    <2> QED BY <1>1, <2>2, <2>3
<1> HIDE DEF n
<1>7. \A i \in DOMAIN opened' : \/ i \in DOMAIN opened /\ i <= n /\ opened'[i] = opened[i]
                                \/ i = n + 1 /\ opened'[i] = e
    BY <1>6
<1>8. OpenedDated'
    BY <1>1, <1>5, <1>7 DEF OpenedDated, BucketInv, HopTyped, Faults
<1>9. \A i \in DOMAIN opened : opened[i].life = left.down =>
          /\ i + (Capacity - b.tokens) <= n => opened[i].at <= b.start
          /\ i + (Capacity - b.tokens) + Capacity <= n => opened[i].at + Window <= b.start
    BY <1>2 DEF Accounted, n
<1>10. Accounted(less)'
    <2> SUFFICES ASSUME NEW i \in DOMAIN opened', opened'[i].life = left.down
                 PROVE  /\ i + (Capacity - less.tokens) <= n + 1 => opened'[i].at <= less.start
                        /\ i + (Capacity - less.tokens) + Capacity <= n + 1
                               => opened'[i].at + Window <= less.start
        BY <1>1, <1>6 DEF Accounted
    <2>1. CASE i = n + 1
        BY <1>4, <1>6, <2>1, HopNumbers
    <2>2. CASE i \in DOMAIN opened /\ opened'[i] = opened[i]
        <3>1. i \in 1..n /\ opened[i].life = left.down
            BY <1>6, <2>2
        <3>2. /\ i + (Capacity - less.tokens) <= n + 1 => i + (Capacity - b.tokens) <= n
              /\ i + (Capacity - less.tokens) + Capacity <= n + 1
                     => i + (Capacity - b.tokens) + Capacity <= n
            BY <1>4, <1>6, <3>1, HopNumbers
        <3> QED BY <1>4, <1>9, <2>2, <3>1, <3>2
    <2>3. \/ i = n + 1
          \/ i \in DOMAIN opened /\ opened'[i] = opened[i]
        BY <1>7
    <2> QED BY <2>1, <2>2, <2>3
<1>11. BucketHolds'
    <2> SUFFICES ASSUME NEW i \in DOMAIN opened', i + 2 * Capacity \in DOMAIN opened',
                        opened'[i + 2 * Capacity].life = opened'[i].life
                 PROVE  opened'[i + 2 * Capacity].at - opened'[i].at >= Window
        BY DEF BucketHolds
    <2>1. i \in DOMAIN opened /\ opened'[i] = opened[i]
        BY <1>6, <1>7, HopNumbers
    <2>2. CASE i + 2 * Capacity \in DOMAIN opened
        BY <1>6, <2>1, <2>2 DEF BucketInv, BucketHolds
    <2>3. CASE i + 2 * Capacity = n + 1
        <3>1. opened[i].life = left.down
            BY <1>5, <1>6, <2>1, <2>3
        <3>2. i + (Capacity - b.tokens) + Capacity <= n
            BY <1>4, <1>6, <2>1, <2>3, HopNumbers
        <3>3. opened[i].at + Window <= b.start
            BY <1>9, <2>1, <3>1, <3>2
        <3>4. opened[i].at \in Nat
            BY <2>1 DEF BucketInv, OpenedDated
        <3> QED BY <1>2, <1>4, <1>5, <1>6, <2>1, <2>3, <3>3, <3>4, HopNumbers DEF HopTyped
    <2> QED BY <1>7, <2>2, <2>3
<1>12. bucket' = <<less>> /\ less.start <= tick'
    BY <1>1, <1>2, <1>4
<1> QED BY <1>4, <1>8, <1>10, <1>11, <1>12 DEF BucketInv, Buckets

LEMMA BucketStep ==
    ASSUME HopTyped, RowsOutlive, BucketInv, [HopNext]_hopVars
    PROVE  BucketInv'
<1>1. ASSUME UNCHANGED <<opened, bucket>>, left'.down = left.down, tick' \in Nat, tick <= tick'
      PROVE  BucketInv'
    <2>1. OpenedDated' /\ BucketHolds'
        BY <1>1 DEF BucketInv, OpenedDated, BucketHolds, HopTyped
    <2>2. \A b : Accounted(b) => Accounted(b)'
        BY <1>1 DEF Accounted
    <2>3. \A b \in Buckets : b.start <= tick => b.start <= tick'
        BY <1>1 DEF Buckets, HopTyped
    <2> QED BY <1>1, <2>1, <2>2, <2>3 DEF BucketInv, Buckets
<1>2. ASSUME NEW j \in jobs, RefusedForNow(j) PROVE BucketInv'
    <2>1. Allow(FALSE) /\ UNCHANGED <<tick, left, opened>>
        BY <1>2 DEF RefusedForNow
    <2>2. PICK b \in Buckets : Opened(Swept(bucket)) = b /\ b.start <= tick /\ Accounted(b)
        BY WindowInForce
    <2>3. bucket' = <<b>>
        BY <2>1, <2>2 DEF Allow, Buckets
    <2>4. OpenedDated' /\ BucketHolds' /\ Accounted(b)'
        BY <2>1, <2>2 DEF BucketInv, OpenedDated, BucketHolds, Accounted
    <2> QED BY <2>1, <2>2, <2>3, <2>4 DEF BucketInv, Buckets
<1>3. ASSUME NEW j \in jobs, Opens(j) PROVE BucketInv'
    BY <1>3, OpensWithinBudget
<1>4. ASSUME NEW j \in jobs,
             RefusedForNoKey(j) \/ RefusedAsUnsigned(j) \/ RefusedAsReplay(j)
                \/ RefusedUnproven(j) \/ Finish(j)
      PROVE  BucketInv'
    <2>1. /\ UNCHANGED <<opened, bucket, tick>>
          /\ UNCHANGED left \/ left' = [left EXCEPT !.fails = left.fails - 1]
        BY <1>4 DEF RefusedForNoKey, RefusedAsUnsigned, RefusedAsReplay, RefusedUnproven, Finish
    <2>2. left'.down = left.down
        BY <2>1 DEF HopTyped, Faults
    <2> QED BY <1>1, <2>1, <2>2 DEF HopTyped
<1>5. ASSUME NEW d \in Deliveries, Knock(d) PROVE BucketInv'
    BY <1>1, <1>5 DEF Knock, HopTyped, Faults
<1>6. CASE ReceiverKilled
    <2>1. bucket' = << >> /\ UNCHANGED <<tick, opened>>
        BY <1>6 DEF ReceiverKilled
    <2>2. left.down \in Nat /\ left'.down = left.down - 1 /\ left.down > 0
        BY <1>6 DEF ReceiverKilled, HopTyped, Faults
    <2>3. OpenedDated' /\ \A i \in DOMAIN opened' : opened'[i].life # left'.down
        BY <2>1, <2>2 DEF BucketInv, OpenedDated
    <2> QED BY <2>1, <2>3 DEF BucketInv, BucketHolds
<1>7. CASE SecondPasses
    BY <1>1, <1>7 DEF SecondPasses, HopTyped
<1>8. ASSUME NEW r \in posted, ArrivesAgain(r) PROVE BucketInv'
    BY <1>1, <1>8 DEF ArrivesAgain, HopTyped, Faults
<1>9. CASE UNCHANGED hopVars
    BY <1>1, <1>9 DEF hopVars, HopTyped
<1> QED BY <1>2, <1>3, <1>4, <1>5, <1>6, <1>7, <1>8, <1>9 DEF HopNext

\* Between restarts no stretch of a window's length lets in more than two buckets,
\* however the windows and the sweeps fall.
THEOREM BucketStands == HopSpec => []BucketHolds
<1>1. HopInit => BucketInv
    <2>1. DOMAIN << >> = {}
        OBVIOUS
    <2> QED BY <2>1 DEF HopInit, BucketInv, OpenedDated, BucketHolds
<1>2. HopTyped /\ RowsOutlive /\ BucketInv /\ [HopNext]_hopVars => BucketInv'
    BY BucketStep
<1>3. BucketInv => BucketHolds
    BY DEF BucketInv
<1> QED BY <1>1, <1>2, <1>3, HopTypeCorrect, OnceStands, PTL DEF HopSpec

\* What the door promises: each request once while its row lasts, and no more than two
\* buckets a window.
THEOREM DoorStands == HopSpec => []DoorHolds
<1>1. OpensOnce /\ BucketHolds => DoorHolds
    BY DEF DoorHolds
<1> QED BY <1>1, DoorOpensOnce, BucketStands, PTL

------------------------------------------------------------------------------
(* A legacy peer is remembered for cause *)

\* A delivery has at most one request at the door, of the scheme it is trying.
JobsMatch ==
    /\ \A j \in jobs : j.of # NoneOf =>
          /\ hop[j.of].at \in {"first", "second"}
          /\ j.req.scheme = hop[j.of].scheme
          /\ j.req.scheme \in Schemes
    /\ \A j, k \in jobs : j.of # NoneOf /\ j.of = k.of => j = k

\* Until something is refused for cause, a native peer is spoken to natively.
Native == \A d \in Deliveries : hop[d].scheme # "cavage"
LegacyInv ==
    JobsMatch /\ ("rfc9421" \in knows => causes # {} \/ (preferred # "cavage" /\ Native))

\* What an answer leaves at the door.
LEMMA ReplyMatch ==
    ASSUME HopTyped, JobsMatch, NEW j \in jobs, NEW status, Reply(j, status)
    PROVE  JobsMatch'
<1> DEFINE d == j.of
<1> DEFINE scheme == OtherScheme(hop[d].scheme)
<1>1. CASE d = NoneOf
    BY <1>1 DEF Reply, JobsMatch
<1>2. ASSUME d # NoneOf,
             hop' \in [Deliveries -> Stages],
             \A e \in Deliveries : e # d => hop'[e] = hop[e],
             jobs' = jobs \ {j}
      PROVE  JobsMatch'
    <2>1. \A k \in jobs' : k \in jobs /\ k.of # d
        BY <1>2 DEF JobsMatch
    <2>2. \A k \in jobs' : k.of # NoneOf => hop'[k.of] = hop[k.of]
        BY <1>2, <2>1 DEF HopTyped
    <2> QED BY <2>1, <2>2 DEF JobsMatch
<1>3. CASE d # NoneOf
    <2>0. d \in Deliveries /\ hop \in [Deliveries -> Stages]
        BY <1>3 DEF HopTyped
    <2>1. hop' \in [Deliveries -> Stages]
        BY ReplyEffect
    <2>2. CASE (Gone(d) \/ Done(d)) /\ jobs' = jobs \ {j}
        <3>1. \A e \in Deliveries : e # d => hop'[e] = hop[e]
            BY <2>0, <2>2 DEF Gone, Done
        <3> QED BY <1>2, <1>3, <2>1, <2>2, <3>1
    <2>3. CASE /\ hop' = [hop EXCEPT ![d].at = "second", ![d].scheme = scheme]
               /\ jobs' = (jobs \ {j}) \cup {Job(Request(d, scheme), d)}
        <3> DEFINE r == Request(d, scheme)
        <3>1. r.scheme = scheme /\ scheme \in Schemes
            BY RequestDated, OtherIsScheme
        <3>2. /\ hop'[d].at = "second" /\ hop'[d].scheme = scheme
              /\ \A e \in Deliveries : e # d => hop'[e] = hop[e]
            <4>1. hop[d] \in Stages
                BY <2>0
            <4> HIDE DEF d, scheme
            <4>2. hop'[d] = [[hop[d] EXCEPT !.at = "second"] EXCEPT !.scheme = scheme]
                BY <2>0, <2>3
            <4>3. \A e \in Deliveries : e # d => hop'[e] = hop[e]
                BY <2>0, <2>3
            <4> QED BY <4>1, <4>2, <4>3 DEF Stages
        <3>3. Job(r, d).of = d /\ Job(r, d).req = r
            BY DEF Job
        <3> HIDE DEF r, scheme
        <3>4. \A k \in jobs' : k = Job(r, d) \/ (k \in jobs /\ k.of # d) \/ k.of = NoneOf
            BY <1>3, <2>3 DEF JobsMatch, r
        <3>5. \A k \in jobs : k.of \in Deliveries \cup {NoneOf}
            BY DEF HopTyped
        <3>6. \A k \in jobs' : k.of # NoneOf =>
                  /\ hop'[k.of].at \in {"first", "second"}
                  /\ k.req.scheme = hop'[k.of].scheme
                  /\ k.req.scheme \in Schemes
            <4> SUFFICES ASSUME NEW k \in jobs', k.of # NoneOf
                         PROVE  /\ hop'[k.of].at \in {"first", "second"}
                                /\ k.req.scheme = hop'[k.of].scheme
                                /\ k.req.scheme \in Schemes
                OBVIOUS
            <4>1. CASE k = Job(r, d)
                BY <3>1, <3>2, <3>3, <4>1
            <4>2. CASE k \in jobs /\ k.of # d
                <5>1. hop'[k.of] = hop[k.of]
                    BY <3>2, <3>5, <4>2
                <5> QED BY <4>2, <5>1 DEF JobsMatch
            <4> QED BY <3>4, <4>1, <4>2
        <3>7. \A k, l \in jobs' : k.of # NoneOf /\ k.of = l.of => k = l
            BY <3>3, <3>4 DEF JobsMatch
        <3> QED BY <3>6, <3>7 DEF JobsMatch
    <2> QED BY <1>3, <2>2, <2>3 DEF Reply, Answered
<1> QED BY <1>1, <1>3

\* An answer that is no refusal to a native request leaves native speech alone.
LEMMA ReplyNative ==
    ASSUME HopTyped, NEW j \in jobs, NEW status, Reply(j, status),
           preferred # "cavage", Native, j.of = NoneOf \/ status # 401
    PROVE  preferred' # "cavage" /\ Native'
<1> DEFINE d == j.of
<1>1. CASE d = NoneOf
    BY <1>1 DEF Reply, Native
<1>2. CASE d # NoneOf
    <2>1. d \in Deliveries /\ hop \in [Deliveries -> Stages]
        BY <1>2 DEF HopTyped
    <2>2. hop[d] \in Stages /\ hop[d].scheme # "cavage"
        BY <2>1 DEF Native
    <2>3. (Gone(d) \/ Done(d)) /\ (preferred' = preferred \/ preferred' = hop[d].scheme)
        BY <1>2 DEF Reply, Answered
    <2>4. \A e \in Deliveries : hop'[e].scheme = hop[e].scheme
        <3> SUFFICES ASSUME NEW e \in Deliveries PROVE hop'[e].scheme = hop[e].scheme
            OBVIOUS
        <3> HIDE DEF d
        <3>1. CASE e = d
            <4>1. PICK at \in {"waiting", "done"} : hop'[d] = [hop[d] EXCEPT !.at = at]
                BY <2>1, <2>3 DEF Gone, Done
            <4> QED BY <2>2, <3>1, <4>1 DEF Stages
        <3>2. CASE e # d
            BY <2>1, <2>3, <3>2 DEF Gone, Done
        <3> QED BY <3>1, <3>2
    <2> QED BY <2>2, <2>3, <2>4 DEF Native
<1> QED BY <1>1, <1>2

LEMMA LegacyStep ==
    ASSUME HopTyped, LegacyInv, [HopNext]_hopVars
    PROVE  LegacyInv'
<1>0. JobsMatch
    BY DEF LegacyInv
<1>1. ASSUME JobsMatch', causes' # {} PROVE LegacyInv'
    BY <1>1 DEF LegacyInv
<1>2. ASSUME JobsMatch', UNCHANGED <<knows, causes>>,
             preferred # "cavage" /\ Native => preferred' # "cavage" /\ Native'
      PROVE  LegacyInv'
    BY <1>2 DEF LegacyInv
<1>3. ASSUME NEW d \in Deliveries, Knock(d) PROVE LegacyInv'
    <2>1. PICK scheme \in {IF preferred = Unset THEN "rfc9421" ELSE preferred} :
              /\ hop[d].at = "waiting"
              /\ Send(d, scheme)
              /\ hop' = [hop EXCEPT ![d] = [at |-> "first", scheme |-> scheme]]
              /\ UNCHANGED <<knows, preferred, causes>>
        BY <1>3 DEF Knock
    <2>2. scheme \in Schemes /\ hop \in [Deliveries -> Stages]
        BY DEF HopTyped, Schemes
    <2>3. preferred # "cavage" => scheme # "cavage"
        BY DEF Unset
    <2>4. /\ hop'[d].at = "first" /\ hop'[d].scheme = scheme
          /\ \A e \in Deliveries : e # d => hop'[e] = hop[e]
        BY <2>1, <2>2
    <2> DEFINE r == Request(d, scheme)
    <2>5. r.scheme = scheme
        BY RequestDated
    <2>6. jobs' = jobs \cup {Job(r, d)} /\ Job(r, d).of = d /\ Job(r, d).req = r
        BY <2>1 DEF Send, Job
    <2> HIDE DEF r
    <2>7. \A k \in jobs : k.of \in Deliveries \cup {NoneOf} /\ (k.of = d => d = NoneOf)
        BY <1>0, <2>1 DEF JobsMatch, HopTyped
    <2>8. JobsMatch'
        <3>1. ASSUME NEW k \in jobs', k.of # NoneOf
              PROVE  /\ hop'[k.of].at \in {"first", "second"}
                     /\ k.req.scheme = hop'[k.of].scheme
                     /\ k.req.scheme \in Schemes
            <4>1. CASE k = Job(r, d)
                BY <2>2, <2>4, <2>5, <2>6, <4>1
            <4>2. CASE k \in jobs
                <5>1. hop'[k.of] = hop[k.of]
                    BY <2>4, <2>7, <3>1, <4>2
                <5> QED BY <1>0, <3>1, <4>2, <5>1 DEF JobsMatch
            <4> QED BY <2>6, <3>1, <4>1, <4>2
        <3>2. \A k, l \in jobs' : k.of # NoneOf /\ k.of = l.of => k = l
            BY <1>0, <2>6, <2>7 DEF JobsMatch
        <3> QED BY <3>1, <3>2 DEF JobsMatch
    <2>9. preferred # "cavage" /\ Native => preferred' # "cavage" /\ Native'
        BY <2>1, <2>3, <2>4 DEF Native
    <2> QED BY <1>2, <2>1, <2>8, <2>9
<1>4. ASSUME NEW j \in jobs, RefusedForNoKey(j) \/ RefusedAsReplay(j) \/ RefusedUnproven(j)
      PROVE  LegacyInv'
    <2>1. Reply(j, 401) /\ causes' # {}
        BY <1>4 DEF RefusedForNoKey, RefusedAsReplay, RefusedUnproven
    <2> QED BY <1>0, <1>1, <2>1, ReplyMatch
<1>5. ASSUME NEW j \in jobs, RefusedAsUnsigned(j) PROVE LegacyInv'
    <2>1. Reply(j, 401) /\ UNCHANGED knows /\ JobsMatch'
        BY <1>0, <1>5, ReplyMatch DEF RefusedAsUnsigned
    <2>2. CASE ~InSkew(j.req)
        BY <1>1, <1>5, <2>1, <2>2 DEF RefusedAsUnsigned
    <2>3. CASE InSkew(j.req) /\ j.of = NoneOf
        <3>1. causes' = causes
            BY <1>5, <2>3 DEF RefusedAsUnsigned
        <3>2. preferred # "cavage" /\ Native => preferred' # "cavage" /\ Native'
            BY <2>1, <2>3, ReplyNative
        <3> QED BY <1>2, <2>1, <3>1, <3>2
    <2>4. CASE InSkew(j.req) /\ j.of # NoneOf
        <3>1. causes' = causes /\ j.req.scheme \notin knows
            BY <1>5, <2>4 DEF RefusedAsUnsigned
        <3>2. j.of \in Deliveries /\ j.req.scheme = hop[j.of].scheme /\ j.req.scheme \in Schemes
            BY <1>0, <2>4 DEF JobsMatch, HopTyped
        <3>3. "rfc9421" \in knows => ~Native
            BY <3>1, <3>2 DEF Native, Schemes
        <3> QED BY <2>1, <3>1, <3>3 DEF LegacyInv
    <2> QED BY <2>2, <2>3, <2>4
<1>6. ASSUME NEW j \in jobs, NEW status, status # 401, Reply(j, status),
             UNCHANGED <<knows, causes>>
      PROVE  LegacyInv'
    <2>1. JobsMatch'
        BY <1>0, <1>6, ReplyMatch
    <2>2. preferred # "cavage" /\ Native => preferred' # "cavage" /\ Native'
        BY <1>6, ReplyNative
    <2> QED BY <1>2, <1>6, <2>1, <2>2
<1>7. ASSUME NEW j \in jobs, RefusedForNow(j) PROVE LegacyInv'
    BY <1>6, <1>7 DEF RefusedForNow
<1>8. ASSUME NEW j \in jobs, Finish(j) PROVE LegacyInv'
    BY <1>6, <1>8 DEF Finish
<1>9. ASSUME NEW j \in jobs, Opens(j) PROVE LegacyInv'
    <2> DEFINE i == [j EXCEPT !.at = "inside"]
    <2>1. jobs' = (jobs \ {j}) \cup {i} /\ UNCHANGED <<hop, preferred, knows, causes>>
        BY <1>9 DEF Opens
    <2>2. i.of = j.of /\ i.req = j.req
        BY DEF HopTyped
    <2> HIDE DEF i
    <2>3. JobsMatch'
        BY <1>0, <2>1, <2>2 DEF JobsMatch
    <2>4. Native => Native'
        BY <2>1 DEF Native
    <2> QED BY <1>2, <2>1, <2>3, <2>4
<1>10. CASE ReceiverKilled
    <2>1. jobs' = {} /\ UNCHANGED <<preferred, knows, causes>>
        BY <1>10 DEF ReceiverKilled
    <2>2. \A d \in Deliveries : hop'[d].scheme = hop[d].scheme
        BY <1>10 DEF ReceiverKilled, HopTyped, Stages
    <2>3. JobsMatch'
        BY <2>1 DEF JobsMatch
    <2>4. Native => Native'
        BY <2>2 DEF Native
    <2> QED BY <1>2, <2>1, <2>3, <2>4
<1>11. ASSUME NEW r \in posted, ArrivesAgain(r) PROVE LegacyInv'
    <2>1. /\ jobs' = jobs \cup {Job(r, NoneOf)} /\ Job(r, NoneOf).of = NoneOf
          /\ UNCHANGED <<hop, preferred, knows, causes>>
        BY <1>11 DEF ArrivesAgain, Job
    <2>2. JobsMatch' /\ (Native => Native')
        BY <1>0, <2>1 DEF JobsMatch, Native
    <2> QED BY <1>2, <2>1, <2>2
<1>12. ASSUME UNCHANGED <<hop, preferred, knows, causes, jobs>> PROVE LegacyInv'
    BY <1>12 DEF LegacyInv, JobsMatch, Native
<1>13. CASE SecondPasses \/ UNCHANGED hopVars
    BY <1>12, <1>13 DEF SecondPasses, hopVars
<1> QED BY <1>3, <1>4, <1>5, <1>7, <1>8, <1>9, <1>10, <1>11, <1>13 DEF HopNext

\* A peer that understands the native scheme is remembered as a legacy one only because
\* it refused a request as one it had seen, as one dated too far off, or for want of the
\* sender's key or the author's, for any number of deliveries that overlap.
THEOREM LegacyHasCause == HopSpec => []LegacyForCause
<1>1. HopInit => LegacyInv
    BY DEF HopInit, LegacyInv, JobsMatch, Native, Unset
<1>2. HopTyped /\ LegacyInv /\ [HopNext]_hopVars => LegacyInv'
    BY LegacyStep
<1>3. LegacyInv => LegacyForCause
    BY DEF LegacyInv, LegacyForCause
<1> QED BY <1>1, <1>2, <1>3, HopTypeCorrect, PTL DEF HopSpec

------------------------------------------------------------------------------
(* Bundles *)

Bodies == {d.body : d \in Duties}
\* What no hub posts.
Unhosted == {"answer", "create"}
Acts == [n : Nat \ {0}, at : Exporters, body : Bodies, prev : Nat]

\* A chain links back, and its numbers grow.
ChainFit(c) ==
    /\ c \in Seq(Acts)
    /\ \A k \in DOMAIN c :
         /\ c[k].prev = IF k = 1 THEN 0 ELSE c[k - 1].n
         /\ \A h \in 1..(k - 1) : c[h].n < c[k].n

\* The chains of instance i, when the first p activities were posted.
ChainsFit(out, i, p) ==
    /\ DOMAIN out = Authors /\ \A a \in Authors : ChainFit(out[a])
    /\ \A x \in InChains(out, Authors) : x.at = i /\ x.n <= p
    /\ \A x \in InChains(out, {Hub}) : x.body.kind \notin Unhosted

\* What it had received by then, and that no answer of its own lacks its task.
RecordFit(out, got, i, p) ==
    /\ ChainsFit(out, i, p)
    /\ got \subseteq Acts /\ \A x \in got : x.at # i /\ x.n <= p
    /\ \A x \in InChains(out, Authors) : x.body.kind = "answer" =>
         \E y \in InChains(out, Authors) \cup got :
             y.body.kind = "task" /\ y.body.thread = x.body.thread

\* What was received was sent: it is in the chains cs of who it is from.
WereSent(got, cs) == \A x \in got : x \in InChains(cs[x.at], Authors)

\* The bundle b of instance i was written from a record it had when p were posted:
\* from chains that miss nothing of those p, and go on from there.
WrittenFrom(b, out, got, r, i, p) ==
    /\ RecordFit(out, got, i, p) /\ ~PinsSplit(out, got, r)
    /\ b.files = Files(out, got, r)
    /\ b.manifest.members = DOMAIN b.files
    /\ b.manifest.request = r /\ b.manifest.exportedAt = p
StillHolds(out, got, i, p, cs) ==
    /\ WereSent(got, cs)
    /\ \A a \in Authors : ToSet(out[a]) \subseteq ToSet(cs[i][a])
    /\ \A a \in Authors : \A x \in ToSet(cs[i][a]) : x.n <= p => x \in ToSet(out[a])
BundleFit(b, i, cs, made) ==
    b.manifest # NoManifest =>
        \E out, got : \E r \in Requests, p \in 0..made :
            WrittenFrom(b, out, got, r, i, p) /\ StillHolds(out, got, i, p, cs)

Everything(cs) == UNION {InChains(cs[i], Authors) : i \in Exporters}
Counted(cs, made) ==
    /\ IsFiniteSet(Everything(cs)) /\ made = Cardinality(Everything(cs)) /\ made \in Nat
BundlesInv ==
    /\ DOMAIN chains = Exporters /\ DOMAIN taken = Exporters /\ DOMAIN bundle = Exporters
    /\ Counted(chains, Posted)
    /\ \A i \in Exporters :
         /\ RecordFit(chains[i], taken[i], i, Posted) /\ WereSent(taken[i], chains)
         /\ BundleFit(bundle[i], i, chains, Posted)

------------------------------------------------------------------------------
\* The files of a bundle, one by one.
LEMMA FileContents ==
    ASSUME NEW out, NEW got, NEW r
    PROVE  LET F == Files(out, got, r) IN
           /\ DOMAIN F \ {Received} = (Staff \ r.omit) \cup (IF r.hosted THEN {Hub} ELSE {})
           /\ Received \in DOMAIN F => r.received
           /\ (r.received /\ Evidence(got, r.scope) # {}) => Received \in DOMAIN F
           /\ Received \in DOMAIN F => F[Received] = Evidence(got, r.scope)
           /\ \A a \in Staff \ r.omit : F[a] = Redacted(r.scope, out[a])
           /\ r.hosted => F[Hub] = out[Hub]
<1> DEFINE evidence == IF r.received THEN Evidence(got, r.scope) ELSE {}
           D == (Staff \ r.omit) \cup (IF r.hosted THEN {Hub} ELSE {}) \cup (IF evidence = {} THEN {} ELSE {Received})
           F == Files(out, got, r)
<1>1. F = [f \in D |-> IF f = Received THEN evidence ELSE IF f = Hub THEN out[f] ELSE Redacted(r.scope, out[f])]
    BY DEF Files
<1>2. Hub \notin Staff /\ Received \notin Staff /\ Hub # Received
    BY BundlesAssumption DEF BundlesAssumption, Hub, Received
<1> HIDE DEF F
<1>3. DOMAIN F = D
    BY <1>1
<1>4. DOMAIN F \ {Received} = (Staff \ r.omit) \cup (IF r.hosted THEN {Hub} ELSE {})
    BY <1>2, <1>3
<1>5. Received \in DOMAIN F => r.received /\ F[Received] = Evidence(got, r.scope)
    BY <1>1, <1>2, <1>3
<1>6. (r.received /\ Evidence(got, r.scope) # {}) => Received \in DOMAIN F
    BY <1>3
<1>7. \A a \in Staff \ r.omit : F[a] = Redacted(r.scope, out[a])
    BY <1>1, <1>2, <1>3
<1>8. r.hosted => F[Hub] = out[Hub]
    BY <1>1, <1>2, <1>3
<1> QED BY <1>4, <1>5, <1>6, <1>7, <1>8 DEF F

\* The outboxes of the replay are those of the record, in full or redacted.
LEMMA OutboxContents ==
    ASSUME NEW out, NEW got, NEW r \in Requests, NEW f \in DOMAIN Files(out, got, r) \ {Received}
    PROVE  /\ f \in Authors /\ f \notin r.omit /\ (f = Hub => r.hosted)
           /\ \/ f # Hub /\ Files(out, got, r)[f] = Redacted(r.scope, out[f])
              \/ f = Hub /\ Files(out, got, r)[f] = out[f]
<1>1. Hub \notin Staff /\ r.omit \subseteq Staff
    BY BundlesAssumption DEF BundlesAssumption
<1>2. f \in Staff \ r.omit \/ (r.hosted /\ f = Hub)
    BY FileContents
<1> QED BY <1>1, <1>2, FileContents DEF Authors

\* What the record says of one activity of a chain.
LEMMA OfAChain ==
    ASSUME NEW out, NEW i, NEW p, ChainsFit(out, i, p), NEW a \in Authors, NEW k \in DOMAIN out[a]
    PROVE  /\ out[a] \in Seq(Acts) /\ out[a][k] \in Acts /\ out[a][k] \in ToSet(out[a])
           /\ out[a][k] \in InChains(out, Authors)
           /\ out[a][k].n \in Nat \ {0} /\ out[a][k].prev # Withheld
           /\ out[a][k].at = i /\ out[a][k].n <= p
           /\ a = Hub => out[a][k].body.kind \notin Unhosted
<1>1. out[a] \in Seq(Acts)
    BY DEF ChainsFit, ChainFit
<1>2. out[a][k] \in Acts
    BY <1>1
<1>3. out[a][k] \in ToSet(out[a])
    BY DEF ToSet
<1>4. out[a][k] \in InChains(out, Authors) /\ (a = Hub => out[a][k] \in InChains(out, {Hub}))
    BY <1>3 DEF InChains
<1>5. out[a][k].n \in Nat \ {0} /\ out[a][k].prev \in Nat
    BY <1>2 DEF Acts
<1>6. out[a][k].prev # Withheld
    BY <1>5 DEF Withheld
<1> QED BY <1>1, <1>2, <1>3, <1>4, <1>5, <1>6 DEF ChainsFit

------------------------------------------------------------------------------
(* The replay of a bundle *)

\* The chain of an author replays, in full and with stubs.
LEMMA ChainReplays ==
    ASSUME NEW c, ChainFit(c), NEW s, NEW items, items = c \/ items = Redacted(s, c)
    PROVE  Replays(items) /\ \A k \in DOMAIN items : items[k].n > 0
<1>1. c \in Seq(Acts) /\ DOMAIN items = DOMAIN c /\ DOMAIN c = 1..Len(c) /\ Len(c) \in Nat
    BY DEF ChainFit, Redacted
<1>2. ASSUME NEW k \in DOMAIN c
      PROVE  /\ c[k].n \in Nat \ {0} /\ items[k].n = c[k].n
             /\ ~IsStub(items[k]) => items[k] = c[k]
    <2>0. c[k] \in Acts
        BY <1>1, <1>2
    <2>1. c[k].n \in Nat \ {0}
        BY <2>0 DEF Acts
    <2>2. items[k] = c[k] \/ items[k] = [n |-> c[k].n, prev |-> Withheld]
        BY <1>2 DEF Redacted
    <2>3. items[k].n = c[k].n
        BY <2>2
    <2>4. ~IsStub(items[k]) => items[k] = c[k]
        BY <2>2 DEF IsStub
    <2> QED BY <2>1, <2>3, <2>4
<1>3. ASSUME NEW k \in DOMAIN items, ~IsStub(items[k])
      PROVE  /\ items[k].prev = IF k = 1 THEN 0 ELSE items[k - 1].n
             /\ \A h \in 1..(k - 1) : ~IsStub(items[h]) => items[h].n < items[k].n
    <2>1. items[k] = c[k]
        BY <1>1, <1>2, <1>3
    <2>2. k # 1 => k - 1 \in DOMAIN c
        BY <1>1
    <2>3. k # 1 => items[k - 1].n = c[k - 1].n
        BY <1>2, <2>2
    <2>4. ASSUME NEW h \in 1..(k - 1) PROVE items[h].n < items[k].n
        <3>1. h \in DOMAIN c /\ k \in DOMAIN c
            BY <1>1
        <3>2. c[h].n < c[k].n
            BY <3>1 DEF ChainFit
        <3> QED BY <1>2, <2>1, <3>1, <3>2
    <2>5. c[k].prev = IF k = 1 THEN 0 ELSE c[k - 1].n
        BY <1>1 DEF ChainFit
    <2> QED BY <2>1, <2>3, <2>4, <2>5
<1>4. \A k \in DOMAIN items : items[k].n > 0
    BY <1>1, <1>2
<1> QED BY <1>3, <1>4 DEF Replays

\* What a file of a bundle discloses is in the record, and under the scope unless
\* a hub's.
LEMMA DisclosedFrom ==
    ASSUME NEW i, NEW out, NEW got, NEW p, NEW r \in Requests, RecordFit(out, got, i, p),
           bundle[i].files = Files(out, got, r),
           NEW f \in DOMAIN bundle[i].files, NEW x \in Activities(i, f)
    PROVE  /\ f = Received => x \in got
           /\ f # Received => f \in Authors /\ \E k \in DOMAIN out[f] : x = out[f][k]
           /\ f # Hub => InScope(r.scope, x)
<1> DEFINE F == Files(out, got, r)
<1> HIDE DEF F
<1>1. CASE f = Received
    <2>1. x \in F[Received] /\ f \in DOMAIN F
        BY <1>1 DEF Activities, Items, F
    <2>2. F[Received] = Evidence(got, r.scope)
        BY <1>1, <2>1, FileContents DEF F
    <2> QED BY <1>1, <2>1, <2>2 DEF Evidence
<1>2. CASE f # Received
    <2>1. f \in DOMAIN F \ {Received}
        BY <1>2 DEF F
    <2>2. /\ f \in Authors
          /\ \/ f # Hub /\ F[f] = Redacted(r.scope, out[f])
             \/ f = Hub /\ F[f] = out[f]
        BY <2>1, OutboxContents DEF F
    <2>3. PICK k \in DOMAIN F[f] : x = F[f][k] /\ ~IsStub(F[f][k])
        BY <1>2 DEF Activities, Items, ToSet, F
    <2>4. CASE f = Hub /\ F[f] = out[f]
        BY <1>2, <2>2, <2>3, <2>4
    <2>5. CASE f # Hub /\ F[f] = Redacted(r.scope, out[f])
        <3>1. k \in DOMAIN out[f]
            BY <2>3, <2>5 DEF Redacted
        <3>2. F[f][k] = IF InScope(r.scope, out[f][k]) THEN out[f][k] ELSE [n |-> out[f][k].n, prev |-> Withheld]
            BY <2>5, <3>1 DEF Redacted
        <3>3. InScope(r.scope, out[f][k]) /\ x = out[f][k]
            BY <2>3, <3>2 DEF IsStub
        <3> QED BY <1>2, <2>2, <2>5, <3>1, <3>3
    <2> QED BY <2>2, <2>4, <2>5
<1> QED BY <1>1, <1>2

\* What the scope lets through, and all of a hub, is disclosed.
LEMMA DisclosesWhatIsInScope ==
    ASSUME NEW i, NEW out, NEW got, NEW p, NEW r \in Requests, RecordFit(out, got, i, p),
           bundle[i].files = Files(out, got, r), r.hosted, r.received, r.omit = {},
           NEW y \in InChains(out, Authors) \cup got, InScope(r.scope, y)
    PROVE  y \in Disclosed(i, DOMAIN bundle[i].files)
<1> DEFINE F == Files(out, got, r)
<1> HIDE DEF F
<1>0. DOMAIN bundle[i].files = DOMAIN F /\ Hub # Received /\ Received \notin Staff /\ Hub \notin Staff
    BY BundlesAssumption DEF BundlesAssumption, F, Hub, Received
<1>1. CASE y \in got
    <2>1. y \in Evidence(got, r.scope)
        BY <1>1 DEF Evidence
    <2>2. Received \in DOMAIN F /\ F[Received] = Evidence(got, r.scope)
        BY <2>1, FileContents DEF F
    <2>3. y \in Activities(i, Received)
        BY <2>1, <2>2 DEF Activities, Items, F
    <2> QED BY <1>0, <2>2, <2>3 DEF Disclosed
<1>2. CASE y \in InChains(out, Authors)
    <2>1. PICK a \in Authors : y \in ToSet(out[a])
        BY <1>2 DEF InChains
    <2>2. PICK k \in DOMAIN out[a] : y = out[a][k]
        BY <2>1 DEF ToSet
    <2>3. a \in DOMAIN F /\ a # Received
        BY <1>0, FileContents DEF Authors, F
    <2>4. /\ a \in Authors
          /\ \/ a # Hub /\ F[a] = Redacted(r.scope, out[a])
             \/ a = Hub /\ F[a] = out[a]
        BY <2>3, OutboxContents DEF F
    <2>5. k \in DOMAIN F[a] /\ F[a][k] = y
        BY <2>2, <2>4 DEF Redacted
    <2>6. ~IsStub(y)
        BY <2>2, OfAChain DEF IsStub, RecordFit
    <2>7. y \in Activities(i, a)
        BY <2>3, <2>5, <2>6 DEF Activities, Items, ToSet, F
    <2> QED BY <1>0, <2>3, <2>7 DEF Disclosed
<1> QED BY <1>1, <1>2

\* A set of at most one has one at most.
LEMMA AtMostOne ==
    ASSUME NEW S, IsFiniteSet(S), Cardinality(S) <= 1, NEW x \in S, NEW y \in S
    PROVE  x = y
<1> SUFFICES ASSUME x # y PROVE FALSE
    OBVIOUS
<1>1. IsFiniteSet({x, y}) /\ Cardinality({x, y}) = 2
    <2>1. IsFiniteSet({x}) /\ Cardinality({x}) = 1
        BY FS_Singleton
    <2>2. {x, y} = {x} \cup {y} /\ y \notin {x}
        OBVIOUS
    <2> QED BY <2>1, <2>2, FS_AddElement
<1>2. {x, y} \subseteq S
    OBVIOUS
<1>3. Cardinality({x, y}) <= Cardinality(S)
    BY <1>2, FS_Subset
<1>4. Cardinality(S) \in Nat
    BY FS_CardinalityType
<1> QED BY <1>1, <1>3, <1>4

\* What a bundle discloses lies within what it declares.
LEMMA NoMore ==
    ASSUME NEW i, NEW out, NEW got, NEW p, NEW r \in Requests, WrittenFrom(bundle[i], out, got, r, i, p),
           Cardinality(DOMAIN r.scope) <= 1,
           NEW x \in Disclosed(i, DOMAIN bundle[i].files \ {Hub})
    PROVE  WithinDeclared(i, x)
<1>1. PICK f \in DOMAIN bundle[i].files \ {Hub} : x \in Activities(i, f)
    BY DEF Disclosed
<1>2. InScope(r.scope, x)
    BY <1>1, DisclosedFrom DEF WrittenFrom
<1>3. DOMAIN r.scope \subseteq {"threads", "floor", "agreement"}
    BY BundlesAssumption DEF BundlesAssumption
<1>4. IsFiniteSet(DOMAIN r.scope)
    <2>1. IsFiniteSet({"threads"} \cup {"floor"} \cup {"agreement"})
        BY FS_Singleton, FS_Union
    <2>2. DOMAIN r.scope \subseteq {"threads"} \cup {"floor"} \cup {"agreement"}
        BY <1>3
    <2> QED BY <2>1, <2>2, FS_Subset
<1>5. \A a, b \in DOMAIN r.scope : a = b
    BY <1>4, AtMostOne
<1>6. bundle[i].manifest.request.scope = r.scope
    BY DEF WrittenFrom
<1>7. "threads" # "floor" /\ "threads" # "agreement" /\ "floor" # "agreement"
    OBVIOUS
<1> QED BY <1>2, <1>5, <1>6, <1>7 DEF WithinDeclared, InScope, Sets

\* Where no pin is split, a disclosed answer has its task beside it.
LEMMA AnswersKeep ==
    ASSUME NEW i, NEW out, NEW got, NEW p, NEW r \in Requests, WrittenFrom(bundle[i], out, got, r, i, p),
           r.omit = {}, r.hosted, r.received
    PROVE  AnswersKeepPins(i)
<1> DEFINE pool == Disclosed(i, DOMAIN bundle[i].files)
<1> SUFFICES ASSUME NEW x \in pool, x.at = i, x.body.kind = "answer"
             PROVE  \E y \in pool : y.body.kind = "task" /\ y.body.thread = x.body.thread
    BY DEF AnswersKeepPins
<1>1. PICK f \in DOMAIN bundle[i].files : x \in Activities(i, f)
    BY DEF Disclosed
<1> HIDE DEF pool
<1>2. RecordFit(out, got, i, p) /\ bundle[i].files = Files(out, got, r)
    BY DEF WrittenFrom
<1>3. x \notin got
    BY <1>2 DEF RecordFit
<1>4. f # Received /\ f \in Authors /\ \E k \in DOMAIN out[f] : x = out[f][k]
    BY <1>1, <1>2, <1>3, DisclosedFrom
<1>5. PICK k \in DOMAIN out[f] : x = out[f][k]
    BY <1>4
<1>6. x \in InChains(out, Authors) /\ f # Hub
    BY <1>2, <1>4, <1>5, OfAChain DEF RecordFit, Unhosted
<1>7. InScope(r.scope, x)
    BY <1>1, <1>2, <1>6, DisclosedFrom
<1>8. PICK y \in InChains(out, Authors) \cup got :
            y.body.kind = "task" /\ y.body.thread = x.body.thread
    BY <1>2, <1>6 DEF RecordFit
<1>9. InScope(r.scope, y)
    <2> SUFFICES ASSUME ~InScope(r.scope, y) PROVE FALSE
        OBVIOUS
    <2>1. Splits(InChains(out, Authors) \cup got, r)
        BY <1>6, <1>7, <1>8 DEF Splits
    <2>2. PinsSplit(out, got, r)
        BY <2>1 DEF PinsSplit
    <2> QED BY <2>2 DEF WrittenFrom
<1>10. y \in pool
    BY <1>2, <1>9, DisclosesWhatIsInScope DEF pool
<1> QED BY <1>8, <1>10

\* What a bundle was given as received is in the chains of who sent it.
LEMMA Sent ==
    ASSUME NEW i, NEW out, NEW got, NEW p \in Nat, NEW r \in Requests, WrittenFrom(bundle[i], out, got, r, i, p),
           StillHolds(out, got, i, p, chains),
           NEW j, NEW told, NEW had, NEW q \in Nat, NEW s \in Requests,
           WrittenFrom(bundle[j], told, had, s, j, q), StillHolds(told, had, j, q, chains),
           ChainsFit(chains[j], j, Posted),
           p <= q, s.hosted, s.omit = {}
    PROVE  SentAsReceived(i, j)
<1> SUFFICES ASSUME NEW x \in Disclosed(i, {Received} \cap DOMAIN bundle[i].files), x.at = j
             PROVE  \E f \in Outboxes(j) : \E k \in DOMAIN Items(j, f) : Items(j, f)[k].n = x.n
    BY DEF SentAsReceived
<1>1. Received \in DOMAIN bundle[i].files /\ x \in Activities(i, Received)
    BY DEF Disclosed
<1>2. x \in got /\ x.n <= p
    BY <1>1, DisclosedFrom DEF WrittenFrom, RecordFit
<1>3. PICK a \in Authors : x \in ToSet(chains[j][a])
    BY <1>2 DEF StillHolds, WereSent, InChains
<1>4. x.n \in Nat
    <2>1. PICK k \in DOMAIN chains[j][a] : x = chains[j][a][k]
        BY <1>3 DEF ToSet
    <2> QED BY <2>1, OfAChain
<1>5. x \in ToSet(told[a])
    BY <1>2, <1>3, <1>4 DEF StillHolds
<1>6. PICK k \in DOMAIN told[a] : x = told[a][k]
    BY <1>5 DEF ToSet
<1> DEFINE F == Files(told, had, s)
<1> HIDE DEF F
<1>7. F = bundle[j].files /\ RecordFit(told, had, j, q)
    BY DEF WrittenFrom, F
<1>8. a \in DOMAIN F \ {Received}
    BY FileContents DEF Authors, F
<1>9. F[a] = Redacted(s.scope, told[a]) \/ F[a] = told[a]
    BY <1>8, OutboxContents DEF F
<1>10. k \in DOMAIN F[a] /\ F[a][k].n = x.n
    BY <1>6, <1>9 DEF Redacted
<1> QED BY <1>7, <1>8, <1>10 DEF Outboxes, Items

\* The Create that an instance's record shows is in its bundle, and no other is.
LEMMA HeldIsShown ==
    ASSUME NEW i, NEW out, NEW got, NEW p \in Nat, NEW r \in Requests,
           WrittenFrom(bundle[i], out, got, r, i, p), StillHolds(out, got, i, p, chains), NEW g
    PROVE  Holds(i, g) <=> ShowsItsCreate(i, g)
<1> DEFINE F == Files(out, got, r)
<1> HIDE DEF F
<1>1. /\ F = bundle[i].files /\ RecordFit(out, got, i, p) /\ ChainsFit(out, i, p)
      /\ bundle[i].manifest.request = r /\ bundle[i].manifest.exportedAt = p
    BY DEF WrittenFrom, RecordFit, F
<1>2. Hub \notin Staff /\ Received \notin Staff
    BY BundlesAssumption DEF BundlesAssumption
<1>3. ASSUME Holds(i, g) PROVE ShowsItsCreate(i, g)
    <2>1. PICK f \in Outboxes(i) : \E x \in Activities(i, f) : Creates(x, g)
        BY <1>3 DEF Holds, Disclosed
    <2>2. PICK x \in Activities(i, f) : Creates(x, g)
        BY <2>1
    <2>3. f \in DOMAIN F \ {Received}
        BY <1>1 DEF Outboxes
    <2>4. /\ f \in Authors /\ (f # Hub => InScope(r.scope, x))
          /\ \E k \in DOMAIN out[f] : x = out[f][k]
        BY <1>1, <2>3, DisclosedFrom DEF F
    <2>5. PICK k \in DOMAIN out[f] : x = out[f][k]
        BY <2>4
    <2>6. x \in ToSet(out[f]) /\ x.n <= p /\ (f = Hub => x.body.kind \notin Unhosted)
        BY <1>1, <2>4, <2>5, OfAChain
    <2>7. f # Hub
        BY <2>2, <2>6 DEF Creates, Unhosted
    <2>8. f \in Staff \ r.omit
        BY <2>3, <2>4, <2>7, OutboxContents DEF Authors, F
    <2>9. x \in ToSet(chains[i][f])
        BY <2>4, <2>6 DEF StillHolds
    <2> QED BY <1>1, <2>2, <2>4, <2>6, <2>7, <2>8, <2>9 DEF ShowsItsCreate
<1>4. ASSUME ShowsItsCreate(i, g) PROVE Holds(i, g)
    <2>1. PICK a \in Staff \ r.omit : \E x \in ToSet(chains[i][a]) :
             Creates(x, g) /\ x.n <= p /\ InScope(r.scope, x)
        BY <1>1, <1>4 DEF ShowsItsCreate
    <2>2. PICK x \in ToSet(chains[i][a]) : Creates(x, g) /\ x.n <= p /\ InScope(r.scope, x)
        BY <2>1
    <2>3. x \in ToSet(out[a]) /\ a \in Authors
        BY <2>2 DEF StillHolds, Authors
    <2>4. PICK k \in DOMAIN out[a] : x = out[a][k]
        BY <2>3 DEF ToSet
    <2>5. F[a] = Redacted(r.scope, out[a]) /\ a \in DOMAIN F \ {Received}
        BY <1>2, FileContents DEF F
    <2>6. k \in DOMAIN F[a] /\ F[a][k] = x
        BY <2>2, <2>4, <2>5 DEF Redacted
    <2>7. ~IsStub(x)
        BY <1>1, <2>3, <2>4, OfAChain DEF IsStub
    <2>8. x \in Activities(i, a) /\ a \in Outboxes(i)
        BY <1>1, <2>5, <2>6, <2>7 DEF Activities, Items, ToSet, Outboxes
    <2> QED BY <2>2, <2>8 DEF Holds, Disclosed
<1> QED BY <1>3, <1>4

\* All six, of a state where every bundle fits.
LEMMA BundlesFit == BundlesInv => BundlesReplay
<1> SUFFICES ASSUME BundlesInv PROVE BundlesReplay
    OBVIOUS
<1>1. ASSUME NEW i \in Exporters, Written(i)
      PROVE  \E out, got : \E r \in Requests, p \in 0..Posted :
                WrittenFrom(bundle[i], out, got, r, i, p) /\ StillHolds(out, got, i, p, chains)
    BY <1>1 DEF BundlesInv, BundleFit, Written
<1>2. MembersDeclared
    BY <1>1 DEF MembersDeclared, WrittenFrom
<1>3. NoMoreThanDeclared
    <2> SUFFICES ASSUME NEW i \in Exporters, Written(i), Cardinality(DOMAIN bundle[i].manifest.request.scope) <= 1,
                        NEW x \in Disclosed(i, DOMAIN bundle[i].files \ {Hub})
                 PROVE  WithinDeclared(i, x)
        BY DEF NoMoreThanDeclared
    <2>1. PICK out, got : \E r \in Requests, p \in 0..Posted :
                WrittenFrom(bundle[i], out, got, r, i, p) /\ StillHolds(out, got, i, p, chains)
        BY <1>1
    <2>2. PICK r \in Requests, p \in 0..Posted : WrittenFrom(bundle[i], out, got, r, i, p)
        BY <2>1
    <2>3. bundle[i].manifest.request = r
        BY <2>2 DEF WrittenFrom
    <2> QED BY <2>2, <2>3, NoMore
<1>4. ChainsReplay
    <2> SUFFICES ASSUME NEW i \in Exporters, Written(i), NEW a \in Outboxes(i)
                 PROVE  Replays(Items(i, a)) /\ \A k \in DOMAIN Items(i, a) : Items(i, a)[k].n > 0
        BY DEF ChainsReplay
    <2>1. PICK out, got : \E r \in Requests, p \in 0..Posted :
                WrittenFrom(bundle[i], out, got, r, i, p) /\ StillHolds(out, got, i, p, chains)
        BY <1>1
    <2>2. PICK r \in Requests, p \in 0..Posted : WrittenFrom(bundle[i], out, got, r, i, p)
        BY <2>1
    <2>3. /\ a \in Authors
          /\ Items(i, a) = Redacted(r.scope, out[a]) \/ Items(i, a) = out[a]
        BY <2>2, OutboxContents DEF WrittenFrom, Outboxes, Items
    <2>4. ChainFit(out[a])
        BY <2>2, <2>3 DEF WrittenFrom, RecordFit, ChainsFit
    <2> QED BY <2>3, <2>4, ChainReplays
<1>5. PinsTravel
    <2> SUFFICES ASSUME NEW i \in Exporters, Written(i), bundle[i].manifest.request.omit = {},
                        bundle[i].manifest.request.hosted, bundle[i].manifest.request.received
                 PROVE  AnswersKeepPins(i)
        BY DEF PinsTravel
    <2>1. PICK out, got : \E r \in Requests, p \in 0..Posted :
                WrittenFrom(bundle[i], out, got, r, i, p) /\ StillHolds(out, got, i, p, chains)
        BY <1>1
    <2>2. PICK r \in Requests, p \in 0..Posted : WrittenFrom(bundle[i], out, got, r, i, p)
        BY <2>1
    <2>3. bundle[i].manifest.request = r
        BY <2>2 DEF WrittenFrom
    <2> QED BY <2>2, <2>3, AnswersKeep
<1>6. ASSUME NEW i \in Exporters, Written(i), NEW g
      PROVE  Holds(i, g) <=> ShowsItsCreate(i, g)
    <2>1. PICK out, got : \E r \in Requests, p \in 0..Posted :
                WrittenFrom(bundle[i], out, got, r, i, p) /\ StillHolds(out, got, i, p, chains)
        BY <1>1, <1>6
    <2>2. PICK r \in Requests, p \in 0..Posted :
                WrittenFrom(bundle[i], out, got, r, i, p) /\ StillHolds(out, got, i, p, chains)
        BY <2>1
    <2> QED BY <2>2, HeldIsShown
<1>7. AgreementsTravel
    BY <1>6 DEF AgreementsTravel, ScopeTravels
<1>8. ASSUME NEW i \in Exporters, NEW j \in Exporters, Written(i), Written(j),
             \A g \in DOMAIN Pacts : j \in Pacts[g] /\ ShowsItsCreate(i, g) => ShowsItsCreate(j, g)
      PROVE  AgreementsAgree(i, j)
    BY <1>6, <1>8 DEF AgreementsAgree
<1>9. ASSUME NEW i \in Exporters, NEW j \in Exporters, Written(i), Written(j),
             bundle[j].manifest.exportedAt >= bundle[i].manifest.exportedAt,
             bundle[j].manifest.request.hosted, bundle[j].manifest.request.omit = {}
      PROVE  SentAsReceived(i, j)
    <2>1. PICK out, got : \E r \in Requests, p \in 0..Posted :
                WrittenFrom(bundle[i], out, got, r, i, p) /\ StillHolds(out, got, i, p, chains)
        BY <1>1, <1>9
    <2>2. PICK r \in Requests, p \in 0..Posted :
                WrittenFrom(bundle[i], out, got, r, i, p) /\ StillHolds(out, got, i, p, chains)
        BY <2>1
    <2>3. PICK told, had : \E s \in Requests, q \in 0..Posted :
                WrittenFrom(bundle[j], told, had, s, j, q) /\ StillHolds(told, had, j, q, chains)
        BY <1>1, <1>9
    <2>4. PICK s \in Requests, q \in 0..Posted :
                WrittenFrom(bundle[j], told, had, s, j, q) /\ StillHolds(told, had, j, q, chains)
        BY <2>3
    <2>5. p \in Nat /\ q \in Nat /\ p <= q /\ s.hosted /\ s.omit = {}
        BY <1>9, <2>2, <2>4 DEF WrittenFrom
    <2>6. ChainsFit(chains[j], j, Posted)
        BY DEF BundlesInv, RecordFit
    <2> QED BY <2>2, <2>4, <2>5, <2>6, Sent
<1>10. JointReplayHolds
    BY <1>8, <1>9 DEF JointReplayHolds
<1> QED BY <1>2, <1>3, <1>4, <1>5, <1>7, <1>10 DEF BundlesReplay

------------------------------------------------------------------------------
(* The record grows *)

\* A chain with one more still links.
LEMMA ChainGrows ==
    ASSUME NEW c, ChainFit(c), NEW x \in Acts, x.prev = IF c = <<>> THEN 0 ELSE Last(c).n,
           \A k \in DOMAIN c : c[k].n < x.n
    PROVE  ChainFit(Append(c, x)) /\ ToSet(Append(c, x)) = ToSet(c) \cup {x}
<1> DEFINE e == Append(c, x)
<1>1. /\ c \in Seq(Acts) /\ e \in Seq(Acts) /\ DOMAIN c = 1..Len(c) /\ DOMAIN e = 1..(Len(c) + 1)
      /\ Len(c) \in Nat /\ e[Len(c) + 1] = x /\ \A k \in DOMAIN c : e[k] = c[k]
    BY DEF ChainFit
<1>2. x.prev = IF Len(c) + 1 = 1 THEN 0 ELSE c[Len(c)].n
    BY <1>1 DEF Last
<1> HIDE DEF e
<1>3. ToSet(e) = ToSet(c) \cup {x}
    BY <1>1 DEF ToSet
<1>4. ASSUME NEW k \in DOMAIN e
      PROVE  /\ e[k].prev = IF k = 1 THEN 0 ELSE e[k - 1].n
             /\ \A h \in 1..(k - 1) : e[h].n < e[k].n
    <2>1. CASE k = Len(c) + 1
        <3>1. k # 1 => Len(c) \in DOMAIN c /\ k - 1 = Len(c)
            BY <1>1, <2>1
        <3>2. e[k].prev = IF k = 1 THEN 0 ELSE e[k - 1].n
            BY <1>1, <1>2, <2>1, <3>1
        <3>3. \A h \in 1..(k - 1) : h \in DOMAIN c /\ e[h] = c[h]
            BY <1>1, <2>1
        <3> QED BY <1>1, <2>1, <3>2, <3>3
    <2>2. CASE k \in DOMAIN c
        <3>1. \A h \in 1..(k - 1) : h \in DOMAIN c
            BY <1>1, <2>2
        <3>2. k # 1 => k - 1 \in DOMAIN c
            BY <1>1, <2>2
        <3>3. /\ c[k].prev = IF k = 1 THEN 0 ELSE c[k - 1].n
              /\ \A h \in 1..(k - 1) : c[h].n < c[k].n
            BY <2>2 DEF ChainFit
        <3> QED BY <1>1, <2>2, <3>1, <3>2, <3>3
    <2> QED BY <1>1, <2>1, <2>2
<1>5. ChainFit(e)
    BY <1>1, <1>4 DEF ChainFit
<1> QED BY <1>3, <1>5 DEF e

\* The chains of an instance, with x at the end of a's.
Longer(out, a, x) == [out EXCEPT ![a] = Append(out[a], x)]
NextOf(out, i, p, a, x) ==
    /\ x.n = p + 1 /\ x.at = i /\ x.prev = IF out[a] = <<>> THEN 0 ELSE Last(out[a]).n
    /\ a = Hub => x.body.kind \notin Unhosted
LEMMA ChainsGrow ==
    ASSUME NEW out, NEW i, NEW p \in Nat, ChainsFit(out, i, p), NEW a \in Authors, NEW x \in Acts,
           NextOf(out, i, p, a, x)
    PROVE  /\ ChainsFit(Longer(out, a, x), i, p + 1)
           /\ InChains(Longer(out, a, x), Authors) = InChains(out, Authors) \cup {x}
           /\ \A o \in Authors : ToSet(Longer(out, a, x)[o]) \subseteq ToSet(out[o]) \cup {x}
           /\ \A o \in Authors : ToSet(out[o]) \subseteq ToSet(Longer(out, a, x)[o])
<1> DEFINE new == Longer(out, a, x)
<1>0. /\ x.n = p + 1 /\ x.at = i /\ x.prev = IF out[a] = <<>> THEN 0 ELSE Last(out[a]).n
      /\ a = Hub => x.body.kind \notin Unhosted
    BY DEF NextOf
<1>1. DOMAIN out = Authors /\ Hub \in Authors
    BY DEF ChainsFit, Authors
<1>2. /\ DOMAIN new = Authors /\ new[a] = Append(out[a], x)
      /\ \A o \in Authors : o # a => new[o] = out[o]
    BY <1>1 DEF Longer
<1> HIDE DEF new
<1>3. \A k \in DOMAIN out[a] : out[a][k].n < x.n
    BY <1>0, OfAChain
<1>4. ChainFit(out[a])
    BY DEF ChainsFit
<1>5. ChainFit(new[a]) /\ ToSet(new[a]) = ToSet(out[a]) \cup {x}
    BY <1>0, <1>2, <1>3, <1>4, ChainGrows
<1>6. InChains(new, Authors) = InChains(out, Authors) \cup {x}
    BY <1>2, <1>5 DEF InChains
<1>7. \A o \in Authors : /\ ToSet(new[o]) \subseteq ToSet(out[o]) \cup {x}
                         /\ ToSet(out[o]) \subseteq ToSet(new[o])
    BY <1>2, <1>5
<1>8. \A y \in InChains(new, {Hub}) : y \in InChains(out, {Hub}) \/ (a = Hub /\ y = x)
    BY <1>1, <1>2, <1>5 DEF InChains
<1>9. ASSUME NEW y \in InChains(out, Authors) PROVE y.at = i /\ y.n <= p + 1
    <2>1. PICK o \in Authors : y \in ToSet(out[o])
        BY DEF InChains
    <2>2. PICK k \in DOMAIN out[o] : y = out[o][k]
        BY <2>1 DEF ToSet
    <2>3. y.n \in Nat /\ y.n <= p /\ y.at = i
        BY <2>2, OfAChain
    <2> QED BY <2>3
<1>10. \A o \in Authors : ChainFit(new[o])
    BY <1>2, <1>5 DEF ChainsFit
<1>11. \A y \in InChains(new, Authors) : y.at = i /\ y.n <= p + 1
    BY <1>0, <1>6, <1>9
<1>12. \A y \in InChains(new, {Hub}) : y.body.kind \notin Unhosted
    BY <1>0, <1>8 DEF ChainsFit
<1> QED BY <1>0, <1>2, <1>6, <1>7, <1>10, <1>11, <1>12 DEF new, ChainsFit

\* What a bundle was written from stays so, and its chains miss nothing of then.
LEMMA FitStays ==
    ASSUME NEW b, NEW i \in Exporters, NEW cs, NEW new, NEW p \in Nat, NEW q \in Nat, p <= q,
           BundleFit(b, i, cs, p),
           \A j : InChains(cs[j], Authors) \subseteq InChains(new[j], Authors),
           \A a \in Authors : ToSet(cs[i][a]) \subseteq ToSet(new[i][a]),
           \A a \in Authors : \A x \in ToSet(new[i][a]) : x.n \in Nat /\ (x.n <= p => x \in ToSet(cs[i][a]))
    PROVE  BundleFit(b, i, new, q)
<1> SUFFICES ASSUME b.manifest # NoManifest
             PROVE  \E out, got : \E r \in Requests, m \in 0..q :
                        WrittenFrom(b, out, got, r, i, m) /\ StillHolds(out, got, i, m, new)
    BY DEF BundleFit
<1>1. PICK out, got : \E r \in Requests, m \in 0..p :
                        WrittenFrom(b, out, got, r, i, m) /\ StillHolds(out, got, i, m, cs)
    BY DEF BundleFit
<1>2. PICK r \in Requests, m \in 0..p :
                        WrittenFrom(b, out, got, r, i, m) /\ StillHolds(out, got, i, m, cs)
    BY <1>1
<1>3. WereSent(got, new)
    BY <1>2 DEF StillHolds, WereSent
<1>4. \A a \in Authors : \A x \in ToSet(new[i][a]) : x.n <= m => x \in ToSet(out[a])
    <2> SUFFICES ASSUME NEW a \in Authors, NEW x \in ToSet(new[i][a]), x.n <= m PROVE x \in ToSet(out[a])
        OBVIOUS
    <2>1. x.n \in Nat /\ m \in Nat /\ m <= p
        OBVIOUS
    <2>2. x.n <= p
        BY <2>1
    <2> QED BY <1>2, <2>2 DEF StillHolds
<1>5. m \in 0..q
    OBVIOUS
<1>6. \A a \in Authors : ToSet(out[a]) \subseteq ToSet(new[i][a])
    BY <1>2 DEF StillHolds
<1> QED BY <1>2, <1>3, <1>4, <1>5, <1>6 DEF StillHolds

\* One more posted, by a of i0: what that is to all the records.
LEMMA RecordsGrow ==
    ASSUME BundlesInv, NEW i0 \in Exporters, NEW a \in Authors, NEW x \in Acts, x.n = Posted + 1, x.at = i0,
           x.prev = IF chains[i0][a] = <<>> THEN 0 ELSE Last(chains[i0][a]).n,
           a = Hub => x.body.kind \notin Unhosted,
           x.body.kind = "answer" =>
               \E y \in Own(i0) \cup taken[i0] : y.body.kind = "task" /\ y.body.thread = x.body.thread,
           NEW new, new = [chains EXCEPT ![i0] = Longer(chains[i0], a, x)]
    PROVE  /\ DOMAIN new = Exporters /\ Counted(new, Posted + 1)
           /\ \A i \in Exporters :
                /\ RecordFit(new[i], taken[i], i, Posted + 1) /\ WereSent(taken[i], new)
                /\ BundleFit(bundle[i], i, new, Posted + 1)
<1> DEFINE p == Posted
<1>1. p \in Nat /\ DOMAIN chains = Exporters
    BY DEF BundlesInv, Counted
<1>2. /\ DOMAIN new = Exporters /\ new[i0] = Longer(chains[i0], a, x)
      /\ \A i : i # i0 => new[i] = chains[i]
    BY <1>1
<1>3. /\ ChainsFit(new[i0], i0, p + 1)
      /\ InChains(new[i0], Authors) = InChains(chains[i0], Authors) \cup {x}
      /\ \A o \in Authors : /\ ToSet(new[i0][o]) \subseteq ToSet(chains[i0][o]) \cup {x}
                            /\ ToSet(chains[i0][o]) \subseteq ToSet(new[i0][o])
    <2>1. ChainsFit(chains[i0], i0, p)
        BY DEF BundlesInv, RecordFit
    <2> HIDE DEF p
    <2>2. x.n = p + 1
        BY DEF p
    <2>3. new[i0] = Longer(chains[i0], a, x)
        BY <1>2
    <2> DEFINE out == chains[i0]
    <2>4. ChainsFit(out, i0, p) /\ NextOf(out, i0, p, a, x)
        BY <2>1, <2>2 DEF NextOf
    <2> HIDE DEF out
    <2>5. /\ ChainsFit(Longer(out, a, x), i0, p + 1)
          /\ InChains(Longer(out, a, x), Authors) = InChains(out, Authors) \cup {x}
          /\ \A o \in Authors : ToSet(Longer(out, a, x)[o]) \subseteq ToSet(out[o]) \cup {x}
          /\ \A o \in Authors : ToSet(out[o]) \subseteq ToSet(Longer(out, a, x)[o])
        <3>1. p \in Nat
            BY <1>1
        <3>2. ChainsFit(Longer(out, a, x), i0, p + 1)
            BY <2>4, <3>1, ChainsGrow
        <3>3. InChains(Longer(out, a, x), Authors) = InChains(out, Authors) \cup {x}
            BY <2>4, <3>1, ChainsGrow
        <3> QED BY <2>4, <3>1, <3>2, <3>3, ChainsGrow
    <2> QED BY <2>3, <2>5 DEF out
<1>4. \A i \in Exporters : RecordFit(chains[i], taken[i], i, p) /\ WereSent(taken[i], chains)
    BY DEF BundlesInv
<1>5. Counted(chains, p) /\ (x.body.kind = "answer" =>
         \E y \in InChains(chains[i0], Authors) \cup taken[i0] : y.body.kind = "task" /\ y.body.thread = x.body.thread)
    BY DEF BundlesInv, Own
<1>6. x.n = p + 1
    OBVIOUS
<1> HIDE DEF p
<1>7. \A j : InChains(chains[j], Authors) \subseteq InChains(new[j], Authors)
    BY <1>2, <1>3
<1>8. Counted(new, p + 1)
    <2>1. Everything(new) = Everything(chains) \cup {x}
        BY <1>2, <1>3 DEF Everything
    <2>2. x \notin Everything(chains)
        <3> SUFFICES ASSUME x \in Everything(chains) PROVE FALSE
            OBVIOUS
        <3>1. PICK i \in Exporters : x \in InChains(chains[i], Authors)
            BY DEF Everything
        <3>2. x.n <= p
            BY <1>4, <3>1 DEF RecordFit, ChainsFit
        <3> QED BY <1>1, <1>6, <3>2
    <2>3. IsFiniteSet(Everything(new)) /\ Cardinality(Everything(new)) = p + 1
        <3> DEFINE all == Everything(chains)
        <3>1. IsFiniteSet(all) /\ Cardinality(all) = p
            BY <1>5 DEF Counted
        <3> HIDE DEF all
        <3>2. IsFiniteSet(all \cup {x}) /\ Cardinality(all \cup {x}) = Cardinality(all) + 1
            BY <2>2, <3>1, FS_AddElement DEF all
        <3> QED BY <2>1, <3>1, <3>2 DEF all
    <2> QED BY <1>1, <2>3 DEF Counted
<1>9. ASSUME NEW i \in Exporters, NEW y \in taken[i]
      PROVE  y \in Acts /\ y.at # i /\ y.n <= p + 1
    <2>1. y \in Acts /\ y.at # i /\ y.n <= p
        BY <1>4 DEF RecordFit
    <2>2. y.n \in Nat
        BY <2>1 DEF Acts
    <2> QED BY <1>1, <2>1, <2>2
<1>10. ASSUME NEW i \in Exporters
       PROVE  RecordFit(new[i], taken[i], i, p + 1) /\ WereSent(taken[i], new)
    <2>1. WereSent(taken[i], new)
        BY <1>4, <1>7 DEF WereSent
    <2>2. CASE i = i0
        <3>1. \A y \in InChains(new[i], Authors) : y.body.kind = "answer" =>
                \E z \in InChains(new[i], Authors) \cup taken[i] :
                    z.body.kind = "task" /\ z.body.thread = y.body.thread
            BY <1>3, <1>4, <1>5, <1>7, <2>2 DEF RecordFit
        <3> QED BY <1>3, <1>9, <2>1, <2>2, <3>1 DEF RecordFit
    <2>3. CASE i # i0
        <3>1. ASSUME NEW y \in InChains(chains[i], Authors) PROVE y.at = i /\ y.n <= p + 1
            <4>0. ChainsFit(chains[i], i, p)
                BY <1>4 DEF RecordFit
            <4>1. PICK o \in Authors : y \in ToSet(chains[i][o])
                BY DEF InChains
            <4>2. PICK k \in DOMAIN chains[i][o] : y = chains[i][o][k]
                BY <4>1 DEF ToSet
            <4>3. y.n \in Nat /\ y.n <= p /\ y.at = i
                BY <4>0, <4>2, OfAChain
            <4> QED BY <1>1, <4>3
        <3>2. ChainsFit(chains[i], i, p + 1)
            BY <1>4, <3>1 DEF RecordFit, ChainsFit
        <3> QED BY <1>2, <1>4, <1>9, <2>1, <2>3, <3>2 DEF RecordFit
    <2> QED BY <2>2, <2>3
<1>11. ASSUME NEW i \in Exporters PROVE BundleFit(bundle[i], i, new, p + 1)
    <2>1. BundleFit(bundle[i], i, chains, p)
        BY DEF BundlesInv, p
    <2>2. ASSUME NEW o \in Authors, NEW y \in ToSet(new[i][o])
          PROVE  y.n \in Nat /\ (y.n <= p => y \in ToSet(chains[i][o]))
        <3>1. PICK k \in DOMAIN new[i][o] : y = new[i][o][k]
            BY DEF ToSet
        <3>2. y.n \in Nat
            BY <1>10, <3>1, OfAChain DEF RecordFit
        <3>3. y \in ToSet(chains[i][o]) \/ y = x
            BY <1>2, <1>3
        <3> QED BY <1>1, <1>6, <3>2, <3>3
    <2>3. p + 1 \in Nat /\ p <= p + 1
        BY <1>1
    <2>4. \A o \in Authors : ToSet(chains[i][o]) \subseteq ToSet(new[i][o])
        BY <1>2, <1>3
    <2> QED BY <1>1, <1>7, <2>1, <2>2, <2>3, <2>4, FitStays
<1> QED BY <1>2, <1>8, <1>10, <1>11 DEF p

\* One lemma per action.
LEMMA WriteKeeps ==
    ASSUME BundlesInv, NEW d \in Duties, Write(d)
    PROVE  BundlesInv'
<1> DEFINE c == chains[d.at][d.by]
           x == [n |-> Posted + 1, at |-> d.at, body |-> d.body, prev |-> IF c = <<>> THEN 0 ELSE Last(c).n]
           new == [chains EXCEPT ![d.at] = Longer(chains[d.at], d.by, x)]
<1>1. d.at \in Exporters /\ d.by \in Authors /\ (d.body.kind \in Unhosted => d.by # Hub)
    BY BundlesAssumption DEF BundlesAssumption, Unhosted
<1>2. chains' = new /\ taken' = taken /\ bundle' = bundle
    BY DEF Write, Longer
<1>3. Posted \in Nat /\ Counted(chains, Posted)
    BY DEF BundlesInv, Counted
<1>4. x.prev \in Nat
    <2>1. ChainFit(c)
        BY <1>1 DEF BundlesInv, RecordFit, ChainsFit
    <2>2. c # <<>> => Last(c) \in Acts
        BY <2>1 DEF ChainFit, Last
    <2>3. c # <<>> => Last(c).n \in Nat
        BY <2>2 DEF Acts
    <2> QED BY <2>3
<1>5. x \in Acts
    BY <1>1, <1>3, <1>4 DEF Acts, Bodies
<1>6. /\ x.n = Posted + 1 /\ x.at = d.at /\ x.body = d.body
      /\ x.prev = IF chains[d.at][d.by] = <<>> THEN 0 ELSE Last(chains[d.at][d.by]).n
    OBVIOUS
<1>7. d.body.kind = "answer" =>
        \E y \in Own(d.at) \cup taken[d.at] : y.body.kind = "task" /\ y.body.thread = d.body.thread
    BY DEF Write
<1> HIDE DEF x
<1>8. /\ DOMAIN new = Exporters /\ Counted(new, Posted + 1)
      /\ \A i \in Exporters :
            /\ RecordFit(new[i], taken[i], i, Posted + 1) /\ WereSent(taken[i], new)
            /\ BundleFit(bundle[i], i, new, Posted + 1)
    BY <1>1, <1>5, <1>6, <1>7, RecordsGrow
<1> HIDE DEF new
<1>9. Posted' = Posted + 1
    BY <1>2, <1>8 DEF Posted, Counted, Everything, Own
<1> QED BY <1>2, <1>8, <1>9 DEF BundlesInv

LEMMA ArrivesKeeps ==
    ASSUME BundlesInv, NEW i0 \in Exporters, NEW j \in Exporters, NEW x \in Own(j), Arrives(i0, x)
    PROVE  BundlesInv'
<1>1. /\ chains' = chains /\ bundle' = bundle /\ Posted' = Posted
      /\ taken' = [taken EXCEPT ![i0] = taken[i0] \cup {x}] /\ x.at # i0
    BY DEF Arrives, Posted, Own
<1>2. x \in InChains(chains[j], Authors)
    BY DEF Own
<1>3. x \in Acts /\ x.at = j /\ x.n <= Posted
    <2>0. ChainsFit(chains[j], j, Posted)
        BY DEF BundlesInv, RecordFit
    <2>1. PICK o \in Authors : x \in ToSet(chains[j][o])
        BY <1>2 DEF InChains
    <2>2. PICK k \in DOMAIN chains[j][o] : x = chains[j][o][k]
        BY <2>1 DEF ToSet
    <2> QED BY <2>0, <2>2, OfAChain
<1>4. ASSUME NEW i \in Exporters
      PROVE  RecordFit(chains[i], taken'[i], i, Posted) /\ WereSent(taken'[i], chains)
    <2>1. RecordFit(chains[i], taken[i], i, Posted) /\ WereSent(taken[i], chains) /\ DOMAIN taken = Exporters
        BY DEF BundlesInv
    <2>2. taken'[i] = taken[i] \cup IF i = i0 THEN {x} ELSE {}
        BY <1>1, <2>1
    <2>3. WereSent(taken'[i], chains)
        BY <1>2, <1>3, <2>1, <2>2 DEF WereSent
    <2>4. RecordFit(chains[i], taken'[i], i, Posted)
        BY <1>1, <1>3, <2>1, <2>2 DEF RecordFit
    <2> QED BY <2>3, <2>4
<1> QED BY <1>1, <1>4 DEF BundlesInv

LEMMA ExportKeeps ==
    ASSUME BundlesInv, NEW i0 \in Exporters, NEW r \in Requests, Export(i0, r)
    PROVE  BundlesInv'
<1> DEFINE F == Files(chains[i0], taken[i0], r)
           b == [files |-> F, manifest |-> [members |-> DOMAIN F, request |-> r, exportedAt |-> Posted]]
<1>1. /\ chains' = chains /\ taken' = taken /\ Posted' = Posted
      /\ bundle' = [bundle EXCEPT ![i0] = b] /\ ~PinsSplit(chains[i0], taken[i0], r)
    BY DEF Export, IntoNewDirectory, Posted, Own
<1>2. BundleFit(b, i0, chains, Posted)
    <2>1. /\ RecordFit(chains[i0], taken[i0], i0, Posted) /\ WereSent(taken[i0], chains)
          /\ Posted \in 0..Posted
        BY DEF BundlesInv, Counted
    <2>2. b.files = F /\ b.manifest.members = DOMAIN F /\ b.manifest.request = r /\ b.manifest.exportedAt = Posted
        OBVIOUS
    <2> HIDE DEF b
    <2>3. WrittenFrom(b, chains[i0], taken[i0], r, i0, Posted)
        BY <1>1, <2>1, <2>2 DEF WrittenFrom
    <2>4. StillHolds(chains[i0], taken[i0], i0, Posted, chains)
        BY <2>1 DEF StillHolds
    <2> QED BY <2>1, <2>3, <2>4 DEF BundleFit
<1> HIDE DEF b
<1>3. \A i \in Exporters : BundleFit(bundle'[i], i, chains, Posted)
    BY <1>1, <1>2 DEF BundlesInv
<1> QED BY <1>1, <1>3 DEF BundlesInv

LEMMA ExportFailsKeeps ==
    ASSUME BundlesInv, NEW i0 \in Exporters, NEW r \in Requests, ExportFails(i0, r)
    PROVE  BundlesInv'
<1>1. PICK files :
        /\ bundle' = [bundle EXCEPT ![i0] = [files |-> files, manifest |-> NoManifest]]
        /\ chains' = chains /\ taken' = taken /\ Posted' = Posted
    BY DEF ExportFails, IntoNewDirectory, Posted, Own
<1>2. \A i \in Exporters : BundleFit(bundle'[i], i, chains, Posted)
    BY <1>1 DEF BundlesInv, BundleFit
<1> QED BY <1>1, <1>2 DEF BundlesInv

LEMMA BundlesStart == BundlesInit => BundlesInv
<1> SUFFICES ASSUME BundlesInit PROVE BundlesInv
    OBVIOUS
<1>1. \A i \in Exporters : InChains(chains[i], Authors) = {} /\ InChains(chains[i], {Hub}) = {}
    BY DEF BundlesInit, InChains, ToSet, Authors
<1>2. Everything(chains) = {}
    BY <1>1 DEF Everything
<1>3. Counted(chains, Posted) /\ Posted = 0
    BY <1>2, FS_EmptySet DEF Counted, Posted, Everything, Own
<1>4. \A i \in Exporters : RecordFit(chains[i], taken[i], i, Posted) /\ WereSent(taken[i], chains)
    <2>1. ChainFit(<<>>)
        BY DEF ChainFit
    <2>2. \A i \in Exporters : ChainsFit(chains[i], i, Posted)
        BY <1>1, <2>1 DEF ChainsFit, BundlesInit
    <2> QED BY <1>1, <2>2 DEF RecordFit, WereSent, BundlesInit
<1>5. \A i \in Exporters : BundleFit(bundle[i], i, chains, Posted)
    BY DEF BundlesInit, BundleFit, EmptyDirectory
<1> QED BY <1>3, <1>4, <1>5 DEF BundlesInv, BundlesInit

LEMMA BundlesStutter == BundlesInv /\ UNCHANGED bundleVars => BundlesInv'
    BY DEF BundlesInv, bundleVars, Posted, Own

\* Whatever an instance exported before, under what scope, and where an export
\* failed: a bundle is what its manifest declares, its chains replay, an answer
\* keeps its task, and it agrees with its counterparty's, of what was sent and, where
\* both show their Create, of the agreement (export.ts, src/verifier); for any
\* instances, agents, agreements, duties and requests.
THEOREM BundlesStand == BundlesSpec => []BundlesReplay
<1>1. BundlesInv /\ [BundlesNext]_bundleVars => BundlesInv'
    <2> SUFFICES ASSUME BundlesInv, BundlesNext PROVE BundlesInv'
        BY BundlesStutter
    <2>1. CASE \E d \in Duties : Write(d)
        BY <2>1, WriteKeeps
    <2>2. CASE \E i, j \in Exporters : \E x \in Own(j) : Arrives(i, x)
        BY <2>2, ArrivesKeeps
    <2>3. CASE \E i \in Exporters, r \in Requests : Export(i, r)
        BY <2>3, ExportKeeps
    <2>4. CASE \E i \in Exporters, r \in Requests : ExportFails(i, r)
        BY <2>4, ExportFailsKeeps
    <2> QED BY <2>1, <2>2, <2>3, <2>4 DEF BundlesNext
<1> QED BY BundlesStart, <1>1, BundlesFit, PTL DEF BundlesSpec
==============================================================================
