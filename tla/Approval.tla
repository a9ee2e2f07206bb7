------------------------------ MODULE Approval ------------------------------
(***************************************************************************)
(* A controller's commands to an agent (ports/command.ts) as far as they   *)
(* reach the record: `task`, an Offer like any other, and `approve`, which *)
(* acts on a decision under the policy pinned on its thread                *)
(* (ports/approval.ts, through instance/external.ts actuate).              *)
(*                                                                         *)
(* An approval waits once, for its actuator (the port's own answer is      *)
(* there already); meanwhile other requests are served, and the process    *)
(* may be killed.  The approver's actuator always returns a usable receipt,*)
(* so an approval ends reconciled or not at all.  A command that is refused*)
(* writes one line of the audit log and nothing else, and so does every    *)
(* `approve` a mention carries, since a mention names no decision; `status`*)
(* reads; `pause` is in TaskExchange.                                      *)
(***************************************************************************)
EXTENDS Integers, Sequences, FiniteSets, FiniteSetsExt

CONSTANTS
    Approvers,      \* controllers that have signed a request
    Actors,         \* agents of this instance, each an actuator here
    Authors,        \* who writes Offers here: agents, controllers, hubs
    Rank,           \* per author: the place of its address among them
    LastInstant,    \* bound: instants an Offer may be dated with
    Threads,
    Decisions,      \* digests of what can be acted on
    Actions,        \* what a policy may pin for `approve`
    MaxBook,        \* bound: entries on the record before an approval's own
    MaxCalls        \* bound: approvals asked

ASSUME ApprovalAssumption ==
    /\ IsFiniteSet(Approvers) /\ IsFiniteSet(Actors) /\ IsFiniteSet(Threads)
    /\ IsFiniteSet(Decisions) /\ IsFiniteSet(Actions)
    /\ {"no pin", "none"} \cap Actions = {}
    /\ Actors \subseteq Authors /\ LastInstant \in Nat
    /\ Rank \in [Authors -> Nat] /\ \A a, c \in Authors : Rank[a] = Rank[c] => a = c
    /\ MaxBook \in Nat /\ MaxCalls \in Nat

NoPin == "no pin"           \* an Offer without afp:actionPolicy
PinsNoApprove == "none"     \* a policy of other categories
Pins == Actions \cup {NoPin, PinsNoApprove}

VARIABLES
    book,       \* the instance's outbox, as appended: offers, intents, results
    asks        \* the approvals asked, and how far each is; `since` (of the
                \* properties only) is how long the record was when it was asked

approvalVars == <<book, asks>>

OfKindIn(kind, t) == {k \in DOMAIN book : book[k].kind = kind /\ book[k].thread = t}

\* byThread: ORDER BY published, actor, seq.  The clock may stand still or be set back
\* between two appends, so this need not be the order they were appended in.
Sorts(b, i, k) ==
    \/ b[i].at < b[k].at
    \/ b[i].at = b[k].at /\ Rank[b[i].actor] < Rank[b[k].actor]
    \/ b[i].at = b[k].at /\ b[i].actor = b[k].actor /\ i < k
First(b, S) == CHOOSE i \in S : \A k \in S \ {i} : Sorts(b, i, k)

\* The pins among the first n entries of a record b, and what they make of the thread.
PinsOf(b, n, t) ==
    {k \in DOMAIN b : k <= n /\ b[k].kind = "offer" /\ b[k].thread = t /\ b[k].pin # NoPin}
PolicyOf(b, n, t) == IF PinsOf(b, n, t) = {} THEN NoPin ELSE b[First(b, PinsOf(b, n, t))].pin

\* Mutant: the pin appended last counts.
LatestPin(t) ==
    LET pins == PinsOf(book, Len(book), t) IN IF pins = {} THEN NoPin ELSE book[Max(pins)].pin

\* pinnedPolicy: of the first entry of the thread that carries one.
PinnedPolicy(t) == PolicyOf(book, Len(book), t)

\* approveCorrelationId and the action make the key; an intent is its actor's.
IntentsUnder(n, t, d, action) ==
    {k \in OfKindIn("intent", t) : book[k].actor = n /\ book[k].decision = d /\ book[k].action = action}

\* findReconciliation
HasReceipt(i) == \E k \in OfKindIn("result", book[i].thread) : book[k].reconciles = i

ApprovalInit == book = <<>> /\ asks = <<>>

BlankEntry == [kind |-> "offer", thread |-> "", pin |-> NoPin, at |-> 0, actor |-> "", action |-> "",
           decision |-> "", by |-> "", reconciles |-> 0]
OfferEntry(a, t, pin, at) == [BlankEntry EXCEPT !.actor = a, !.thread = t, !.pin = pin, !.at = at]
IntentEntry(n, t, d, action) ==
    [BlankEntry EXCEPT !.kind = "intent", !.thread = t, !.actor = n, !.action = action, !.decision = d]
ResultEntry(c, i) ==
    [BlankEntry EXCEPT !.kind = "result", !.thread = book[i].thread, !.actor = book[i].actor,
                   !.decision = book[i].decision, !.by = c, !.reconciles = i]

\* executeTask, or a delegation or a round of the instance's own program: an
\* Offer on the thread, with the pins its author gave it and the clock's instant.
OfferOn(a, t, pin, at) ==
    /\ Len(book) < MaxBook
    /\ book' = Append(book, OfferEntry(a, t, pin, at))
    /\ UNCHANGED asks

Ask(n, t, d, c, i, state) ==
    asks' = Append(asks, [actor |-> n, thread |-> t, decision |-> d, by |-> c, intent |-> i,
                          since |-> Len(book), state |-> state])

\* executeCommand's approve, as far as the await: an intent of this key is found
\* or published, and if it is reconciled there is nothing left to do.
Approve(n, t, d, c) ==
    \E action \in Actions \cap {PinnedPolicy(t)} :
    \E mine \in {IntentsUnder(n, t, d, action)} :
    /\ Len(asks) < MaxCalls
    /\ IF mine # {} /\ HasReceipt(Min(mine))
       THEN Ask(n, t, d, c, Min(mine), "told") /\ UNCHANGED book
       ELSE IF mine # {} THEN Ask(n, t, d, c, Min(mine), "acting") /\ UNCHANGED book
       ELSE /\ Ask(n, t, d, c, Len(book) + 1, "acting")
            /\ book' = Append(book, IntentEntry(n, t, d, action))

\* The receipt is there: the reconciliation is published and the answer given.
Reconcile(q) ==
    /\ asks[q].state = "acting"
    /\ book' = Append(book, ResultEntry(asks[q].by, asks[q].intent))
    /\ asks' = [asks EXCEPT ![q].state = "told"]

\* The process is killed and starts again: who waited is not answered.
CallersLost ==
    /\ \E q \in DOMAIN asks : asks[q].state = "acting"
    /\ asks' = [q \in DOMAIN asks |->
                    IF asks[q].state = "acting" THEN [asks[q] EXCEPT !.state = "lost"] ELSE asks[q]]
    /\ UNCHANGED book

ApprovalNext ==
    \/ \E a \in Authors, t \in Threads, pin \in Pins, at \in 1..LastInstant : OfferOn(a, t, pin, at)
    \/ \E n \in Actors, t \in Threads, d \in Decisions, c \in Approvers : Approve(n, t, d, c)
    \/ \E q \in DOMAIN asks : Reconcile(q)
    \/ CallersLost

ApprovalSpec == ApprovalInit /\ [][ApprovalNext]_approvalVars

------------------------------------------------------------------------------
(* Properties *)

\* However often, by whomever and after whatever kill a decision is approved
\* through an agent, the external act has one key: the record never holds two
\* intents of that agent for it under one action, and two under different actions
\* only if in between an Offer was recorded whose pin sorts before every pin the
\* thread had (same instant and an earlier address, or a clock set back).
OneIntentPerDecision ==
    \A k \in DOMAIN book : \A i \in 1..(k - 1) :
        /\ book[i].kind = "intent" /\ book[k].kind = "intent" /\ book[i].actor = book[k].actor
        /\ book[i].thread = book[k].thread /\ book[i].decision = book[k].decision
        => /\ book[i].action # book[k].action
           /\ \E j \in PinsOf(book, k, book[k].thread) :
                 j > i /\ \A m \in PinsOf(book, j - 1, book[k].thread) : Sorts(book, j, m)

\* Who is told "approved" is told so of a decision the record says was approved, on
\* its thread, by that agent, under the policy in force when the approval was asked.
ToldIsOnRecord ==
    \A q \in DOMAIN asks : asks[q].state = "told" =>
        \E k \in DOMAIN book :
            /\ book[k].kind = "result" /\ book[k].decision = asks[q].decision
            /\ book[k].thread = asks[q].thread /\ book[k].actor = asks[q].actor
            /\ book[book[k].reconciles].action = PolicyOf(book, asks[q].since, asks[q].thread)

\* Both: what was decided is decided once under one policy, and told as recorded.
DecidedOnce == OneIntentPerDecision /\ ToldIsOnRecord
=============================================================================
