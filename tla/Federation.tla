----------------------------- MODULE Federation -----------------------------
(***************************************************************************)
(* The boundary between operators: federation/federation.ts (agreements,   *)
(* deny-list, log), federation/grants.ts, federation/inbox.ts (the door    *)
(* for what is posted) and federation/readGate.ts (the door for what is    *)
(* read).                                                                  *)
(*                                                                         *)
(* What a party has published may arrive at its addressee at any time, any *)
(* number of times, in any order, or never: between them lie the sender's  *)
(* queue and the network.  The requests the doors refuse before they look  *)
(* at the activity (a bad signature, one seen before, an empty bucket, a   *)
(* document that cannot be fetched) change nothing here and have no action.*)
(* No state is read before the awaits of inbox.ts; from the gate on it is  *)
(* synchronous, statement by statement, and the process may be killed      *)
(* between two of them.  An agent stands for its operator.                 *)
(***************************************************************************)
EXTENDS Integers, Sequences, FiniteSets

CONSTANTS
    Parties, Agreements, Works, Hubs,
    Between,        \* per agreement: its two parties
    Expires,        \* per agreement: afp:expires
    Grants,         \* per agreement: its grants, [hub, caps]
    Requester, Worker, Capability,   \* of each piece of work
    Host, Seated,   \* of each hub: its instance, and who has a seat at it
    Proof,          \* per party and hub: when its membership proof expires, 0 for none
    Audits,         \* per party: the audit grants it issued, [auditor, classes, expires]
    Attached,       \* the artifact shown by what is said of a work or to a hub
    Plans,          \* what the parties set out to do, see Plan
    MaxNow,         \* bound: instants
    MaxAsking,      \* bound: reads a process resolves at a time
    MaxKills        \* bound: processes killed

None == "none"

\* `held` are agreements in force from the start; `signs`, `denies`, `posts` and
\* `reads` are pairs; `ahead` is by how much each party's clock runs ahead, and
\* `until` the last instant.
Plan == [held : SUBSET Agreements, signs : SUBSET (Parties \X Agreements), works : SUBSET Works,
         posts : SUBSET (Parties \X Hubs), denies : SUBSET (Parties \X Parties),
         reads : SUBSET (Parties \X Parties), ahead : [Parties -> Nat],
         mortal : SUBSET Parties, until : 1..MaxNow]

ASSUME FederationAssumption ==
    /\ IsFiniteSet(Parties) /\ None \notin Parties \cup Works \cup Hubs
    /\ \A g \in Agreements : Between[g] \subseteq Parties /\ Cardinality(Between[g]) = 2
    /\ Expires \in [Agreements -> Nat]
    /\ Requester \in [Works -> Parties] /\ Worker \in [Works -> Parties]
    /\ Host \in [Hubs -> Parties] /\ Seated \in [Hubs -> SUBSET Parties]
    /\ Proof \in [Parties -> [Hubs -> Nat]]
    /\ Plans \subseteq Plan
    /\ MaxNow \in Nat \ {0} /\ MaxKills \in Nat /\ MaxAsking \in Nat

Handshakes == {"create"}
Outcomes == {"result", "error"}
Delegation == {"task", "accept"} \cup Outcomes
Kinds == Handshakes \cup Delegation \cup {"post", "defederate"}

Activity == [kind : Kinds, by : Parties, to : Parties,
             of : Agreements \cup Works \cup Hubs \cup {None}, at : Nat]

VARIABLES
    plan, now,
    outbox,     \* what each party has published
    own,        \* fed_agreements.own_create_json is held
    theirs,     \* fed_agreements.their_create_json is held
    accepts,    \* fed_accepts: the published instant, 0 for none
    deny,       \* fed_denylist
    log,        \* fed_boundary_log, as the set of its entries; `came` and `knew` are history
    received,   \* fed_received
    dispatched, \* what reached `receive`
    busy,       \* the synchronous stretch each process is in
    asking,     \* the reads each process is resolving
    crossed,    \* history: [act, at, how, denied] per party; `at` of work only
    served,     \* history: what each party showed last: [to, denied, at, came, shown]
    kills

gateVars == <<own, theirs, accepts, deny>>
doneVars == <<received, dispatched>>
histVars == <<crossed, served>>
vars == <<plan, now, outbox, gateVars, log, doneVars, busy, asking, histVars, kills>>

Idle == [act |-> None, todo |-> <<>>]

Arrivals(p) == {a \in UNION {outbox[q] : q \in Parties} : a.to = p}

Init ==
    /\ plan \in Plans /\ now = 1 /\ kills = 0
    /\ outbox = [p \in Parties |-> {[kind |-> "create", by |-> p, to |-> x[2], of |-> x[1], at |-> 1] :
            x \in {y \in plan.held \X Parties : y[2] # p /\ Between[y[1]] = {p, y[2]}}}]
    /\ own = [p \in Parties |-> {g \in plan.held : p \in Between[g]}]
    /\ theirs = own
    /\ accepts = [p \in Parties |-> [w \in Works |-> 0]]
    /\ deny = [p \in Parties |-> {}] /\ log = [p \in Parties |-> {}]
    /\ received = [p \in Parties |-> Arrivals(p)] /\ dispatched = received
    /\ busy = [p \in Parties |-> Idle] /\ asking = [p \in Parties |-> {}]
    /\ crossed = [p \in Parties |-> {}] /\ served = [p \in Parties |-> {}]

Clock(p) == now + plan.ahead[p]
\* The statements of a stretch touch the store of their process alone and
\* commute with all that others do: no other moves between two of them.
Free(p) == \A q \in Parties : busy[q].todo = <<>>

Tick ==
    /\ now < plan.until /\ \A p \in Parties : Free(p)
    /\ now' = now + 1
    /\ UNCHANGED <<plan, outbox, gateVars, log, doneVars, busy, asking, histVars, kills>>

------------------------------------------------------------------------------
(* Agreements and grants *)

\* Mutant: whoever signed, one Create is enough.
EitherCreate(p, q) == {g \in own[p] \cup theirs[p] : p # q /\ Between[g] = {p, q}}

\* agreementsWith: both Creates are held, expired or not.
AgreementsWith(p, q) == {g \in own[p] \cap theirs[p] : p # q /\ Between[g] = {p, q}}
ActiveAgreementsWith(p, q) == {g \in AgreementsWith(p, q) : Clock(p) < Expires[g]}

HubOf(a) == IF a.kind = "post" THEN a.of ELSE None

\* admittingGrant: a grant for hub traffic and one for delegated work never
\* stand in for each other; only a task must name a granted capability.
Admits(grant, kind, hub, cap) ==
    \/ grant.hub # None /\ hub = grant.hub
    \/ /\ grant.hub = None /\ hub = None /\ kind \in Delegation
       /\ kind = "task" => cap \in grant.caps
AdmittingGrant(g, a) ==
    \E grant \in Grants[g] :
        Admits(grant, a.kind, HubOf(a), IF a.kind = "task" THEN Capability[a.of] ELSE None)

------------------------------------------------------------------------------
(* The gate *)

\* The step that refuses, or "admitted".  An instance waives the agreement
\* stage for its own.
GateStep(p, a) ==
    CASE a.by \in deny[p] -> "denylist"
      [] a.by \notin deny[p] /\
            (a.by = p \/ \E g \in ActiveAgreementsWith(p, a.by) : AdmittingGrant(g, a)) -> "admitted"
      [] OTHER -> "agreement"

\* lateOutcomeAdmissible, with the conditions of inbox.ts around it.
LateOutcome(p, a) ==
    /\ a.kind \in Outcomes /\ accepts[p][a.of] # 0
    /\ \E g \in AgreementsWith(p, a.by) : accepts[p][a.of] < Expires[g]

\* Hub.writeAdmitted, at the inbox of a hub only.
AdmitWrite(a) == a.kind = "post" => a.by \in Seated[a.of]

\* Mutant: the instant of an Accept is pinned when everything else is done.
TodoPinnedLast(a) ==
    CASE a.kind = "create" -> <<"theirs", "record", "receive">>
      [] a.kind = "accept" -> <<"record", "receive", "accept">>
      [] OTHER -> <<"record", "receive">>

\* What an admitted activity has written, in order.
Todo(a) ==
    CASE a.kind = "create" -> <<"theirs", "record", "receive">>
      [] a.kind = "accept" -> <<"accept", "record", "receive">>
      [] OTHER -> <<"record", "receive">>

LetIn(p, a, how) ==
    /\ busy' = [busy EXCEPT ![p] = [act |-> a, todo |-> Todo(a)]]
    /\ crossed' = [crossed EXCEPT ![p] = @ \cup
         {[act |-> a, at |-> IF how = "grant" THEN Clock(p) ELSE 0, how |-> how,
           denied |-> a.by \in deny[p]]}]

\* A Create over an agreement comes before the gate, whoever wrote it.  One that
\* has been handed on changes nothing the second time, and has no step.
Handshake(p) ==
    /\ Free(p)
    /\ \E a \in Arrivals(p) :
        /\ a.kind \in Handshakes /\ a.by \notin deny[p] /\ a \notin dispatched[p]
        /\ LetIn(p, a, "handshake")
    /\ UNCHANGED <<plan, now, outbox, gateVars, log, doneVars, asking, served, kills>>

Admit(p) ==
    /\ Free(p)
    /\ \E a \in Arrivals(p) :
        /\ a.kind \notin Handshakes /\ GateStep(p, a) = "admitted" /\ AdmitWrite(a)
        /\ LetIn(p, a, IF a.by = p THEN "self" ELSE "grant")
    /\ UNCHANGED <<plan, now, outbox, gateVars, log, doneVars, asking, served, kills>>

\* logRejection.  What it refuses came in late, or the Accept, dated in time, had
\* been handed on.
Logged(p, a) ==
    log' = [log EXCEPT ![p] = @ \cup
        {[act |-> a, step |-> GateStep(p, a), came |-> LateOutcome(p, a),
          knew |-> \E x \in dispatched[p], g \in AgreementsWith(p, a.by) :
                      x.kind = "accept" /\ x.of = a.of /\ x.at < Expires[g]]}]

\* The gate refuses and writes so; an outcome of work accepted in time comes
\* in all the same.  What an instance refuses of its own is not logged.
Refuse(p) ==
    /\ Free(p)
    /\ \E a \in Arrivals(p) :
        /\ a.kind \notin Handshakes /\ a.by # p /\ GateStep(p, a) # "admitted"
        /\ ~LateOutcome(p, a)
        /\ Logged(p, a)
    /\ UNCHANGED <<plan, now, outbox, gateVars, doneVars, busy, asking, histVars, kills>>

ComeLate(p) ==
    /\ Free(p)
    /\ \E a \in Arrivals(p) :
        /\ a.kind \notin Handshakes /\ a.by # p /\ GateStep(p, a) # "admitted"
        /\ LateOutcome(p, a)
        /\ Logged(p, a)
        /\ LetIn(p, a, "late")
    /\ UNCHANGED <<plan, now, outbox, gateVars, doneVars, asking, served, kills>>

------------------------------------------------------------------------------
(* The statements that follow *)

Next1(p, s) ==
    /\ busy[p].todo # <<>> /\ Head(busy[p].todo) = s
    /\ busy' = [busy EXCEPT ![p] = IF Len(@.todo) = 1 THEN Idle
                                    ELSE [act |-> @.act, todo |-> Tail(@.todo)]]
    /\ UNCHANGED <<plan, now, outbox, log, asking, histVars, kills>>

RecordOwnCreate(p) ==
    /\ Next1(p, "own")
    /\ own' = [own EXCEPT ![p] = @ \cup {busy[p].act.of}]
    /\ UNCHANGED <<theirs, accepts, deny, doneVars>>

RecordTheirCreate(p) ==
    /\ Next1(p, "theirs")
    /\ theirs' = [theirs EXCEPT ![p] = @ \cup {busy[p].act.of}]
    /\ UNCHANGED <<own, accepts, deny, doneVars>>

\* The first Accept of a correlation stands.
RecordAccept(p) ==
    /\ Next1(p, "accept")
    /\ accepts' = [accepts EXCEPT ![p][busy[p].act.of] = IF @ = 0 THEN busy[p].act.at ELSE @]
    /\ UNCHANGED <<own, theirs, deny, doneVars>>

RecordReceived(p) ==
    /\ Next1(p, "record")
    /\ received' = [received EXCEPT ![p] = @ \cup {busy[p].act}]
    /\ UNCHANGED <<gateVars, dispatched>>

\* receiveAdmitted; the second time the id has been seen.
Receive(p) ==
    /\ Next1(p, "receive")
    /\ dispatched' = [dispatched EXCEPT ![p] = @ \cup {busy[p].act}]
    /\ UNCHANGED <<gateVars, received>>

Denylist(p) ==
    /\ Next1(p, "deny")
    /\ deny' = [deny EXCEPT ![p] = @ \cup {busy[p].act.to}]
    /\ UNCHANGED <<own, theirs, accepts, doneVars>>

\* SIGKILL: what the process held in memory is gone.
Kill(p) ==
    /\ kills < MaxKills /\ p \in plan.mortal
    /\ busy[p].todo # <<>> \/ asking[p] # {}
    /\ kills' = kills + 1
    /\ busy' = [busy EXCEPT ![p] = Idle]
    /\ asking' = [asking EXCEPT ![p] = {}]
    /\ UNCHANGED <<plan, now, outbox, gateVars, log, doneVars, histVars>>

------------------------------------------------------------------------------
(* What the parties publish *)

Said(p, kind, of) == \E a \in outbox[p] : a.kind = kind /\ a.of = of

Publish(p, kind, to, of, todo) ==
    /\ Free(p) /\ ~Said(p, kind, of)
    /\ \E a \in {[kind |-> kind, by |-> p, to |-> to, of |-> of, at |-> Clock(p)]} :
        /\ outbox' = [outbox EXCEPT ![p] = @ \cup {a}]
        /\ busy' = IF todo = <<>> THEN busy ELSE [busy EXCEPT ![p] = [act |-> a, todo |-> todo]]
    /\ UNCHANGED <<plan, now, gateVars, log, doneVars, asking, histVars, kills>>

\* Each party signs its own Create over the same object, then records it.  One
\* may sign over an agreement of two others; it has no row of it to fill.
Sign(p) ==
    \E g \in Agreements : \E q \in Between[g] \ {p} :
        <<p, g>> \in plan.signs
        /\ Publish(p, "create", q, g, IF p \in Between[g] THEN <<"own">> ELSE <<>>)

Offer(p) == \E w \in plan.works : Requester[w] = p /\ Publish(p, "task", Worker[w], w, <<>>)

Handed(p, kind, w) == \E a \in dispatched[p] : a.kind = kind /\ a.of = w

Accept(p) ==
    \E w \in plan.works : Worker[w] = p /\ Handed(p, "task", w) /\ Publish(p, "accept", Requester[w], w, <<>>)

Conclude(p) ==
    \E w \in plan.works, kind \in Outcomes :
        Worker[w] = p /\ Said(p, "accept", w) /\ Publish(p, kind, Requester[w], w, <<>>)

Post(p) == \E h \in Hubs : <<p, h>> \in plan.posts /\ Publish(p, "post", Host[h], h, <<>>)

\* The record says why the door closed; then it closes.
Defederate(p) ==
    \E q \in Parties : <<p, q>> \in plan.denies /\ Publish(p, "defederate", q, None, <<"deny">>)

------------------------------------------------------------------------------
(* The read gate *)

Documents == {Attached[x] : x \in DOMAIN Attached} \cup {None}

\* referencingEntries: what p has published that shows the artifact.
Referencing(p, doc) == {a \in outbox[p] : a.of \in DOMAIN Attached /\ Attached[a.of] = doc}

\* A request for an outbox, or for an artifact.  The entries or references are
\* read, and a membership proof is judged, before documents are fetched.
Ask(p) ==
    /\ Free(p) /\ Cardinality(asking[p]) < MaxAsking
    /\ \E q \in Parties, doc \in Documents :
        /\ <<q, p>> \in plan.reads
        /\ asking' = [asking EXCEPT ![p] = @ \cup
             {[by |-> q, doc |-> doc, refs |-> IF doc = None THEN outbox[p] ELSE Referencing(p, doc),
               came |-> Clock(p), hubs |-> {h \in Hubs : Clock(p) < Proof[q][h]}]}]
    /\ UNCHANGED <<plan, now, outbox, gateVars, log, doneVars, busy, histVars, kills>>

\* An activity addressed to a hub is of class `hub`, any other of `parties`.
AdmitsHub(p, r, a) ==
    /\ HubOf(a) # None /\ r.by \notin deny[p]
    /\ \E g \in ActiveAgreementsWith(p, r.by) : \E grant \in Grants[g] : Admits(grant, "", HubOf(a), None)
    /\ \/ Host[HubOf(a)] = p /\ r.by \in Seated[HubOf(a)]
       \/ HubOf(a) \in r.hubs
AdmitsParties(p, r, a) ==
    /\ HubOf(a) = None /\ r.by \notin deny[p] /\ r.by \in {a.to, a.by}
    /\ r.by = p \/ ActiveAgreementsWith(p, r.by) # {}

\* grantAdmits: by its auditor, the classes it unlocks and its end.
Class(a) == IF HubOf(a) = None THEN "parties" ELSE "hub"
GrantAdmits(p, grant, r, a) ==
    grant.auditor = r.by /\ Class(a) \in grant.classes /\ Clock(p) < grant.expires

\* findAdmittingGrant: it widens what is read, never who may.
FindAdmittingGrant(p, r, a) ==
    /\ r.by \notin deny[p]
    /\ \E grant \in Audits[p] : GrantAdmits(p, grant, r, a)

MayRead(p, r, a) == AdmitsHub(p, r, a) \/ AdmitsParties(p, r, a) \/ FindAdmittingGrant(p, r, a)

\* Mutant: an artifact is shown when one of its references may be read.
ShownByAny(p, r) == \E a \in r.refs : MayRead(p, r, a)

\* An artifact is shown when all the references that were looked up may be read.
Shown(p, r) == r.refs # {} /\ \A a \in r.refs : MayRead(p, r, a)

\* The answer, judged by what is known now; an artifact goes out with all that
\* refers to it now.
Serve(p) ==
    /\ Free(p)
    /\ \E r \in asking[p] :
        /\ asking' = [asking EXCEPT ![p] = @ \ {r}]
        /\ \E shown \in {IF r.doc = None THEN {a \in r.refs : MayRead(p, r, a)}
                        ELSE IF Shown(p, r) THEN Referencing(p, r.doc) ELSE {}} :
             served' = [served EXCEPT ![p] =
                 IF shown = {} THEN {}
                 ELSE {[to |-> r.by, denied |-> r.by \in deny[p], at |-> Clock(p),
                        came |-> r.came, shown |-> shown]}]
    /\ UNCHANGED <<plan, now, outbox, gateVars, log, doneVars, busy, crossed, kills>>

------------------------------------------------------------------------------
Next ==
    \/ Tick
    \/ \E p \in Parties : Handshake(p)
    \/ \E p \in Parties : Admit(p)
    \/ \E p \in Parties : Refuse(p)
    \/ \E p \in Parties : ComeLate(p)
    \/ \E p \in Parties : RecordOwnCreate(p)
    \/ \E p \in Parties : RecordTheirCreate(p)
    \/ \E p \in Parties : RecordAccept(p)
    \/ \E p \in Parties : RecordReceived(p)
    \/ \E p \in Parties : Receive(p)
    \/ \E p \in Parties : Denylist(p)
    \/ \E p \in Parties : Kill(p)
    \/ \E p \in Parties : Sign(p)
    \/ \E p \in Parties : Offer(p)
    \/ \E p \in Parties : Accept(p)
    \/ \E p \in Parties : Conclude(p)
    \/ \E p \in Parties : Post(p)
    \/ \E p \in Parties : Defederate(p)
    \/ \E p \in Parties : Ask(p)
    \/ \E p \in Parties : Serve(p)

Spec == Init /\ [][Next]_vars

------------------------------------------------------------------------------
Crossing == [act : Activity, at : Nat, how : {"handshake", "self", "grant", "late"}, denied : BOOLEAN]
Entry == [act : Activity, step : {"denylist", "agreement"}, came : BOOLEAN, knew : BOOLEAN]
Reading == [by : Parties, doc : Documents, refs : SUBSET Activity, came : Nat, hubs : SUBSET Hubs]
Answer == [to : Parties, denied : BOOLEAN, at : Nat, came : Nat, shown : SUBSET Activity]

\* The types; an instance holds agreements of its own and acceptances of what
\* it asked for.
TypeOK ==
    /\ plan \in Plans /\ now \in 1..MaxNow /\ kills \in 0..MaxKills
    /\ outbox \in [Parties -> SUBSET Activity]
    /\ own \in [Parties -> SUBSET Agreements] /\ theirs \in [Parties -> SUBSET Agreements]
    /\ accepts \in [Parties -> [Works -> Nat]]
    /\ deny \in [Parties -> SUBSET Parties]
    /\ log \in [Parties -> SUBSET Entry]
    /\ received \in [Parties -> SUBSET Activity] /\ dispatched \in [Parties -> SUBSET Activity]
    /\ asking \in [Parties -> SUBSET Reading]
    /\ crossed \in [Parties -> SUBSET Crossing] /\ served \in [Parties -> SUBSET Answer]
    /\ DOMAIN busy = Parties
    /\ \A p \in Parties :
        /\ \A g \in own[p] \cup theirs[p] : p \in Between[g]
        /\ \A w \in Works : accepts[p][w] # 0 => Requester[w] = p
        /\ received[p] \subseteq Arrivals(p) /\ dispatched[p] \subseteq Arrivals(p)

\* A Create over the agreement by another than p, addressed to p.  Of the
\* counterparty's there is one; a third party's completes the pair all the same.
Countersigned(p, g) ==
    \E q \in Parties \ {p} : \E a \in outbox[q] : a.kind = "create" /\ a.of = g /\ a.to = p
Agreed(p, g) == Said(p, "create", g) /\ Countersigned(p, g)

\* New work crosses a boundary only while an agreement of its two operators runs
\* on the receiver's clock that covers it, that the receiver published and that
\* another published to it: one Create, an agreement with somebody else or one
\* that has run out lets nothing in, whatever was lost, repeated or interrupted.
WorkCrossesUnderAgreement ==
    \A p \in Parties : \A x \in crossed[p] :
        x.how = "grant" =>
            \E g \in Agreements :
                /\ Between[g] = {p, x.act.by} /\ Agreed(p, g) /\ x.at < Expires[g]
                /\ \E grant \in Grants[g] :
                     IF x.act.kind = "post" THEN grant.hub = x.act.of
                     ELSE /\ grant.hub = None
                          /\ x.act.kind = "task" => Capability[x.act.of] \in grant.caps

\* What comes in after the gate has refused it ends a piece of work whose
\* Accept came through the gate, dated before an agreement of the two ran out.
LateIsInFlight ==
    \A p \in Parties : \A x \in crossed[p] :
        x.how = "late" =>
            /\ x.act.kind \in Outcomes
            /\ \E y \in crossed[p] :
                /\ y.act.kind = "accept" /\ y.act.of = x.act.of /\ y.how = "grant" /\ ~y.denied
                /\ \E g \in Agreements :
                     Between[g] = {p, y.act.by} /\ Agreed(p, g) /\ y.act.at < Expires[g]

\* check_federation of the verifier, over the export of who sent a: an agreement
\* in it, with the addressee, admits a at the instant a is dated.
Candidates(a) == {g \in Agreements : Between[g] = {a.by, a.to} /\ Said(a.by, "create", g)}
AdmittedOnReplay(a) == \E g \in Candidates(a) : AdmittingGrant(g, a) /\ a.at <= Expires[g]
\* Its backstop, as ADR-0008 has it: an outcome rides an Accept in time.
RidesAccept(a) ==
    \E y \in outbox[a.by] :
        y.kind = "accept" /\ y.of = a.of /\ \E g \in Candidates(a) : y.at <= Expires[g]

\* An agreement of the two that a third party signed to p.
Vouched(p, q) ==
    \E g \in Agreements : \E r \in Parties \ {p, q} : \E a \in outbox[r] :
        Between[g] = {p, q} /\ a.kind = "create" /\ a.of = g /\ a.to = p

\* What an operator let in replays from the record of who sent it, at whatever
\* instant it came: new work unless the sender's clock runs ahead of the
\* receiver's, a late outcome by its Accept; unless a third party had signed.
CrossingsReplay ==
    \A p \in Parties : \A x \in crossed[p] :
        \/ Vouched(p, x.act.by)
        \/ /\ x.how = "grant" /\ plan.ahead[x.act.by] <= plan.ahead[p] => AdmittedOnReplay(x.act)
           /\ x.how = "late" => RidesAccept(x.act)

\* What crosses is covered where it came in, and on the record it came from.
CrossingsHold == WorkCrossesUnderAgreement /\ LateIsInFlight /\ CrossingsReplay

\* Expiry stalls new work, never work in flight: once the Accept of a piece of
\* work has been handed on, dated in time, its outcome is never turned away,
\* wherever the receiver was killed meanwhile.
InFlightLands ==
    \A p \in Parties : \A e \in log[p] : e.act.kind \in Outcomes /\ e.knew => e.came

\* Whom an operator has shut out it neither hears nor shows anything: nothing
\* of theirs comes in but the outcome of work accepted before, and no read of
\* theirs is answered, a grant or a request begun earlier notwithstanding.
DeniedStayOut ==
    \A p \in Parties :
        /\ \A x \in crossed[p] : x.denied => x.how = "late"
        /\ \A v \in served[p] : ~v.denied

\* What was handed on is on the record of what was received, so that it can be
\* exported and checked, even when the process was killed in between.
HandedOnIsRecorded == \A p \in Parties : dispatched[p] \subseteq received[p]

\* What entitles v.to, as of the answer, to an activity of p: a party's address
\* or a seat in its hub, each under an agreement in force, or an audit grant.
Entitles(p, v, a) ==
    \/ v.to = p /\ HubOf(a) = None
    \/ \E g \in Agreements :
        /\ Between[g] = {p, v.to} /\ Agreed(p, g) /\ v.at < Expires[g]
        /\ IF HubOf(a) = None THEN v.to \in {a.to, a.by}
           ELSE /\ \E grant \in Grants[g] : grant.hub = HubOf(a)
                /\ \/ Host[HubOf(a)] = p /\ v.to \in Seated[HubOf(a)]
                   \/ v.came < Proof[v.to][HubOf(a)]
    \/ \E grant \in Audits[p] :
        grant.auditor = v.to /\ Class(a) \in grant.classes /\ v.at < grant.expires

\* Nobody is shown anything older than the request, in an outbox or by way of an
\* artifact it refers to, that nothing entitles them to when the answer is given,
\* whatever was signed, ran out or was shut between the lookup and the answer.
ReadsAreCovered ==
    \A p \in Parties : \A v \in served[p] :
        ~v.denied /\ \A a \in v.shown : a.at < v.came => Entitles(p, v, a)
=============================================================================
