---------------------------- MODULE TaskExchange ----------------------------
(***************************************************************************)
(* How a task travels: AfpInstance.delegate publishes an Offer and opens a *)
(* pending-task row, Inbox.onTaskOffered accepts it, awaits the brain and  *)
(* publishes the outcome, the delegator's inbox writes each answer into    *)
(* the row, and the sweep closes rows whose deadline passed.               *)
(*                                                                         *)
(* Two dedupe layers stand in front of the brain: SeenIds (activity id, in *)
(* Inbox.receive) and Tasks.cachedResult (correlationId, in                *)
(* onTaskOffered).  A brain is awaited, so everything else may run between *)
(* the Accept and the outcome; the process may be killed at any point, in  *)
(* particular between two statements of one handler, since no transaction  *)
(* spans them.                                                             *)
(*                                                                         *)
(* The transport is what ReliableDelivery promises: a queued activity      *)
(* stays queued until a hop is answered (so it may arrive again) or it is  *)
(* given up; a row whose hop failed is retried after rows published later, *)
(* so nothing arrives in order.                                            *)
(***************************************************************************)
EXTENDS Integers, Sequences, FiniteSets

CONSTANTS
    Tasks,        \* correlationIds
    Timed,        \* tasks delegated with a deadline
    Events,       \* tasks initiate() derives from external events
    Performers,   \* agents an Offer may name
    Held,         \* performers registered with brain: "none"
    Span,         \* a deadline lies this long after the delegation
    SeenTtl,      \* config.seenIdTtlMs
    MaxTime,      \* bound: instants of the clock
    MaxOffers,    \* bound: Offers ever published
    MaxKills,     \* bound: times the process is killed
    MaxPauses,    \* bound: pause and resume commands
    Lossy         \* TRUE: answers of hops are lost, and activities given up

ASSUME ExchangeAssumption ==
    /\ IsFiniteSet(Tasks) /\ Performers # {}
    /\ Timed \subseteq Tasks /\ Events \subseteq Tasks
    /\ Timed \cap Events = {}        \* initiate passes no deadline
    /\ Held \subseteq Performers
    /\ Span \in Nat /\ SeenTtl \in Nat \ {0} /\ MaxTime \in Nat \ {0}
    /\ MaxOffers \in Nat /\ MaxKills \in Nat /\ MaxPauses \in Nat
    /\ Lossy \in BOOLEAN

TaskState == {"none", "offered", "accepted", "completed", "failed"}

\* "Failure" is the Error brain-failed, "Missed" the Error deadline-missed.
Act == [type : {"Offer", "Accept", "Reject", "Result", "Failure", "Missed"},
        task : Tasks, performer : Performers, re : Nat]

VARIABLES
    chain,      \* the outboxes: activities in order of publication; the index is the id
    queued,     \* ids with a pending row in the delivery queue
    seen,       \* seen_ids: the instant each id's window ends; 0 where there is no row
    pend,       \* pending_tasks.state; "none" where there is no row
    due,        \* pending_tasks.deadline; 0 for NULL
    cache,      \* task_results: the id of the cached outcome per task; 0 for none
    running,    \* Offers whose brain is being awaited (ids); lost with the process
    paused,     \* PausedAgents; lost with the process
    clock,
    kills, pauses

durable == <<chain, queued, seen, pend, due, cache>>
vars == <<durable, running, paused, clock, kills, pauses>>

------------------------------------------------------------------------------
(* Helpers *)

Ids == 1..Len(chain)
NewId == Len(chain) + 1
Offers == {i \in Ids : chain[i].type = "Offer"}
IsOutcome(i) == chain[i].type \in {"Result", "Failure"}
Outcomes(t, p) ==
    {i \in Ids : IsOutcome(i) /\ chain[i].task = t /\ chain[i].performer = p}
Reply(type, i) == [type |-> type, task |-> chain[i].task,
                   performer |-> chain[i].performer, re |-> i]

\* TtlSeenTable.has: a row past its expiry reads as absent.
HasSeen(i) == i \in DOMAIN seen /\ seen[i] > clock

\* The instant a window opened now ends; all that lie past MaxTime are one.
WindowEnd == IF clock + SeenTtl > MaxTime THEN MaxTime + 1 ELSE clock + SeenTtl

\* Mutant: the window is opened for answers only; an Offer is left to layer two.
MarkAnswers(i) ==
    IF chain[i].type = "Offer" THEN seen
    ELSE [j \in DOMAIN seen \cup {i} |-> IF j = i THEN WindowEnd ELSE seen[j]]

\* TtlSeenTable.markSeen, first sighting: a fresh window, whatever row there was.
MarkSeen(i) ==
    [j \in DOMAIN seen \cup {i} |-> IF j = i THEN WindowEnd ELSE seen[j]]

Answers == IF Lossy THEN BOOLEAN ELSE {TRUE}

\* The row of the hop: settled if its answer came back, else still pending.
Settled(i, answered) == IF answered THEN queued \ {i} ELSE queued

\* Mutant: only a success is replayed; a failed task is tried again.
CachedSuccess(t, p) ==
    IF cache[t] # 0 /\ chain[cache[t]].performer = p /\ chain[cache[t]].type = "Result"
    THEN cache[t] ELSE 0

\* Tasks.cachedResult filters on the performer as well as the task.
CachedResult(t, p) ==
    IF cache[t] # 0 /\ chain[cache[t]].performer = p THEN cache[t] ELSE 0

\* Tasks.cacheResult: ON CONFLICT (correlation_id) DO NOTHING.
CacheResult(t, i) == [cache EXCEPT ![t] = IF @ = 0 THEN i ELSE @]

\* Tasks.overdue.
Overdue == {t \in Tasks : pend[t] \in {"offered", "accepted"} /\ due[t] # 0 /\ due[t] < clock}

\* The query has no ORDER BY.
Orderings(S) ==
    {f \in [1..Cardinality(S) -> S] : \A t \in S : \E n \in DOMAIN f : f[n] = t}

Declines(p) == p \in paused \/ p \in Held

\* The process is killed: awaited brains and pauses go, the tables stay.
Crash ==
    /\ kills < MaxKills
    /\ kills' = kills + 1
    /\ running' = {}
    /\ paused' = {}
    /\ UNCHANGED <<clock, pauses>>

------------------------------------------------------------------------------
Init ==
    /\ chain = <<>>
    /\ queued = {}
    /\ seen = <<>>
    /\ pend = [t \in Tasks |-> "none"]
    /\ due = [t \in Tasks |-> 0]
    /\ cache = [t \in Tasks |-> 0]
    /\ running = {}
    /\ paused = {}
    /\ clock = 1
    /\ kills = 0
    /\ pauses = 0

------------------------------------------------------------------------------
(* The delegator's side *)

OfferTo(t, p) == [type |-> "Offer", task |-> t, performer |-> p, re |-> 0]

Deadline(t) == IF t \in Timed THEN clock + Span ELSE 0

\* Mutant: a task that is sent again starts afresh.
OpenRowAgain(t) ==
    /\ pend' = [pend EXCEPT ![t] = "offered"]
    /\ due' = [due EXCEPT ![t] = Deadline(t)]

\* Tasks.open: ON CONFLICT (correlation_id) DO NOTHING.
OpenRow(t) ==
    /\ pend' = [pend EXCEPT ![t] = IF @ = "none" THEN "offered" ELSE @]
    /\ due' = [due EXCEPT ![t] = IF pend[t] = "none" THEN Deadline(t) ELSE @]

MaySend(t) ==
    /\ Cardinality(Offers) < MaxOffers
    /\ Deadline(t) < MaxTime        \* so that every deadline can pass within MaxTime

\* initiate() drops a redelivered event whose task has a row.
Fresh(t) == t \in Events => pend[t] = "none"

\* delegate: a new task, or an old one sent again under its correlationId, to
\* the same performer or another.
Delegate(t, p) ==
    /\ MaySend(t) /\ Fresh(t)
    /\ chain' = Append(chain, OfferTo(t, p))
    /\ queued' = queued \cup {NewId}
    /\ OpenRow(t)
    /\ UNCHANGED <<seen, cache, running, paused, clock, kills, pauses>>

\* The process is killed inside delegate: the Offer is on the chain, perhaps
\* enqueued, and has no pending row.
KilledInDelegate(t, p, enqueued) ==
    /\ MaySend(t) /\ Fresh(t)
    /\ Crash
    /\ chain' = Append(chain, OfferTo(t, p))
    /\ queued' = IF enqueued THEN queued \cup {NewId} ELSE queued
    /\ UNCHANGED <<seen, pend, due, cache>>

\* onAccepted, onResult, onError.
StateAfter(type) == CASE type = "Accept" -> "accepted"
                      [] type = "Result" -> "completed"
                      [] OTHER -> "failed"

\* An answer reaches the delegator.  The row is written whatever it held; dispatch
\* has no branch for Reject.
TakeAnswer(i, answered) ==
    /\ i \in queued /\ chain[i].type # "Offer"
    /\ ~HasSeen(i)
    /\ seen' = MarkSeen(i)
    /\ LET t == chain[i].task IN
       pend' = IF chain[i].type = "Reject" \/ pend[t] = "none" THEN pend
               ELSE [pend EXCEPT ![t] = StateAfter(chain[i].type)]
    /\ queued' = Settled(i, answered)
    /\ UNCHANGED <<chain, due, cache, running, paused, clock, kills, pauses>>

MissedBy(t) == [type |-> "Missed", task |-> t,
                performer |-> CHOOSE p \in Performers : TRUE, re |-> 0]

\* sweepOverdue: one Error, addressed to nobody, and one state change per overdue task.
Sweep ==
    /\ Overdue # {}
    /\ \E order \in Orderings(Overdue) :
        chain' = chain \o [n \in DOMAIN order |-> MissedBy(order[n])]
    /\ pend' = [t \in Tasks |-> IF t \in Overdue THEN "failed" ELSE pend[t]]
    /\ UNCHANGED <<queued, seen, due, cache, running, paused, clock, kills, pauses>>

\* Mutant: the state is written before the Error is published.
ClosedFirst(t) ==
    /\ pend' = [pend EXCEPT ![t] = "failed"]
    /\ UNCHANGED chain

\* publish comes first in sweepOverdue's loop, then setState.
PublishedFirst(t) ==
    /\ chain' = Append(chain, MissedBy(t))
    /\ UNCHANGED pend

\* The process is killed in the sweep, between the two statements for one task.
KilledInSweep(t) ==
    /\ t \in Overdue
    /\ Crash
    /\ PublishedFirst(t)
    /\ UNCHANGED <<queued, seen, due, cache>>

------------------------------------------------------------------------------
(* The performer's side *)

\* Layer one: a second copy of an activity is dropped, and its hop succeeds.
DropDuplicate(i) ==
    /\ i \in queued /\ HasSeen(i)
    /\ queued' = Settled(i, TRUE)
    /\ UNCHANGED <<chain, seen, pend, due, cache, running, paused, clock, kills, pauses>>

TakeOffer(i) ==
    /\ i \in queued /\ chain[i].type = "Offer"
    /\ ~HasSeen(i)
    /\ seen' = MarkSeen(i)

\* A paused or held performer answers Reject.
Decline(i, answered) ==
    /\ TakeOffer(i)
    /\ Declines(chain[i].performer)
    /\ chain' = Append(chain, Reply("Reject", i))
    /\ queued' = Settled(i, answered) \cup {NewId}
    /\ UNCHANGED <<pend, due, cache, running, paused, clock, kills, pauses>>

\* Layer two: the cached outcome is enqueued again under its own id.
Replay(i, answered) ==
    LET hit == CachedResult(chain[i].task, chain[i].performer) IN
    /\ TakeOffer(i)
    /\ ~Declines(chain[i].performer)
    /\ hit # 0
    /\ queued' = Settled(i, answered) \cup {hit}
    /\ UNCHANGED <<chain, pend, due, cache, running, paused, clock, kills, pauses>>

\* Accept, then the brain is awaited with the hop still open.  Bound: a brain
\* returns before the seen-id window of its own Offer ends.
Start(i) ==
    /\ TakeOffer(i) /\ i \notin running
    /\ ~Declines(chain[i].performer)
    /\ CachedResult(chain[i].task, chain[i].performer) = 0
    /\ chain' = Append(chain, Reply("Accept", i))
    /\ queued' = queued \cup {NewId}
    /\ running' = running \cup {i}
    /\ UNCHANGED <<pend, due, cache, paused, clock, kills, pauses>>

OutcomeType(ok) == IF ok THEN "Result" ELSE "Failure"

\* Mutant: a failed brain is forgotten without an Error.
BrainReturnsSilently(i, ok, answered) ==
    /\ i \in running
    /\ running' = running \ {i}
    /\ chain' = IF ok THEN Append(chain, Reply("Result", i)) ELSE chain
    /\ queued' = Settled(i, answered) \cup (IF ok THEN {NewId} ELSE {})
    /\ cache' = IF ok THEN CacheResult(chain[i].task, NewId) ELSE cache
    /\ UNCHANGED <<seen, pend, due, paused, clock, kills, pauses>>

\* The brain returns: publish the outcome, cache it, settle the hop.
BrainReturns(i, ok, answered) ==
    /\ i \in running
    /\ running' = running \ {i}
    /\ chain' = Append(chain, Reply(OutcomeType(ok), i))
    /\ queued' = Settled(i, answered) \cup {NewId}
    /\ cache' = CacheResult(chain[i].task, NewId)
    /\ UNCHANGED <<seen, pend, due, paused, clock, kills, pauses>>

\* Killed in receive, between markSeen and whatever dispatch does first.
KilledInReceive(i) ==
    /\ i \in queued /\ ~HasSeen(i)
    /\ Crash
    /\ seen' = MarkSeen(i)
    /\ UNCHANGED <<chain, queued, pend, due, cache>>

\* Killed between appending the Accept or Reject and enqueueing it.
KilledInFirstReply(i) ==
    /\ TakeOffer(i)
    /\ LET p == chain[i].performer IN
       /\ Declines(p) \/ CachedResult(chain[i].task, p) = 0
       /\ chain' = Append(chain, Reply(IF Declines(p) THEN "Reject" ELSE "Accept", i))
    /\ Crash
    /\ UNCHANGED <<queued, pend, due, cache>>

\* Killed between the outcome's publication and cacheResult.
KilledInReply(i, ok, enqueued) ==
    /\ i \in running
    /\ Crash
    /\ chain' = Append(chain, Reply(OutcomeType(ok), i))
    /\ queued' = IF enqueued THEN queued \cup {NewId} ELSE queued
    /\ UNCHANGED <<seen, pend, due, cache>>

------------------------------------------------------------------------------
(* Everything else that happens *)

\* A row exhausts its attempts.
GiveUp(i) ==
    /\ Lossy
    /\ i \in queued
    /\ queued' = queued \ {i}
    /\ UNCHANGED <<chain, seen, pend, due, cache, running, paused, clock, kills, pauses>>

Kill == Crash /\ UNCHANGED durable

\* A controller's pause, and resumeAgent.
Pause(p) ==
    /\ pauses < MaxPauses
    /\ pauses' = pauses + 1
    /\ paused' = IF p \in paused THEN paused \ {p} ELSE paused \cup {p}
    /\ UNCHANGED <<durable, running, clock, kills>>

Tick ==
    /\ clock < MaxTime
    /\ clock' = clock + 1
    /\ UNCHANGED <<durable, running, paused, kills, pauses>>

Take(i) ==
    \/ DropDuplicate(i)
    \/ Start(i)
    \/ \E answered \in Answers :
        TakeAnswer(i, answered) \/ Decline(i, answered) \/ Replay(i, answered)

Finish(i) == \E ok \in BOOLEAN, answered \in Answers : BrainReturns(i, ok, answered)

Next ==
    \/ \E t \in Tasks, p \in Performers :
        \/ Delegate(t, p)
        \/ \E enqueued \in BOOLEAN : KilledInDelegate(t, p, enqueued)
    \/ \E i \in Ids : Take(i) \/ Finish(i)
    \/ \E i \in Ids :
        \/ KilledInReceive(i) \/ KilledInFirstReply(i) \/ GiveUp(i)
        \/ \E ok, enqueued \in BOOLEAN : KilledInReply(i, ok, enqueued)
    \/ Sweep
    \/ \E t \in Tasks : KilledInSweep(t)
    \/ Kill
    \/ \E p \in Performers : Pause(p)
    \/ Tick

\* At most: an Offer with its two answers, and one Missed per row opened or reopened.
MaxActs == 5 * MaxOffers + Cardinality(Tasks) + MaxKills

Spec == Init /\ [][Next]_vars

\* The scheduler's sweep and flush run for ever, and a brain returns.
FairSpec ==
    /\ Spec
    /\ WF_vars(Sweep) /\ WF_vars(Tick)
    /\ \A i \in 1..MaxActs :
        /\ WF_vars(i \in Ids /\ Take(i))
        /\ WF_vars(i \in Ids /\ Finish(i))

------------------------------------------------------------------------------
(* Properties *)

\* Every table holds what its columns may hold.
TypeOK ==
    /\ chain \in Seq(Act)
    /\ queued \subseteq Ids
    /\ DOMAIN seen \subseteq Ids /\ \A i \in DOMAIN seen : seen[i] \in Nat
    /\ pend \in [Tasks -> TaskState]
    /\ due \in [Tasks -> Nat]
    /\ cache \in [Tasks -> Nat] /\ \A t \in Tasks : cache[t] <= Len(chain)
    /\ running \subseteq Offers
    /\ paused \subseteq Performers
    /\ clock \in Nat /\ kills \in Nat /\ pauses \in Nat

\* A row is closed only when the record says why: a completed task has a Result on
\* the chain, a failed one an Error, of the performer or of the sweep.  Survives a
\* kill between any two statements because every handler publishes before it writes.
ClosedWithEvidence ==
    \A t \in Tasks :
        /\ pend[t] = "completed" =>
            \E i \in Ids : chain[i].type = "Result" /\ chain[i].task = t
        /\ pend[t] = "failed" =>
            \E i \in Ids : chain[i].type \in {"Failure", "Missed"} /\ chain[i].task = t

\* However often an Offer arrives, and whenever the process is killed, the performer
\* answers that Offer at most once: one Accept or Reject, and at most one outcome,
\* which only an Accept precedes.  (For a seen-id window longer than redelivery lasts.)
FirstReply(i) == chain[i].type \in {"Accept", "Reject"}
OneAnswerPerOffer ==
    \A i, j \in Ids :
        /\ (FirstReply(i) /\ FirstReply(j) /\ chain[i].re = chain[j].re) => i = j
        /\ (IsOutcome(i) /\ IsOutcome(j) /\ chain[i].re = chain[j].re) => i = j
        /\ (IsOutcome(i) /\ FirstReply(j) /\ chain[i].re = chain[j].re) =>
               chain[j].type = "Accept" /\ j < i

\* The inductive invariant behind OneAnswerPerOffer, where no window ends within
\* MaxTime: what was answered was marked seen before, and an Offer that is being
\* performed has been accepted and not yet answered.
IsReply(i) == FirstReply(i) \/ IsOutcome(i)
WindowsOpen == clock <= MaxTime /\ \A i \in DOMAIN seen : seen[i] > MaxTime
RepliesSeen == \A i \in Ids : IsReply(i) => chain[i].re \in DOMAIN seen
RunningUnanswered ==
    \A i \in running :
        /\ i \in DOMAIN seen
        /\ \A j \in Ids : IsReply(j) /\ chain[j].re = i => chain[j].type = "Accept"
AnswersInv == WindowsOpen /\ RepliesSeen /\ RunningUnanswered /\ OneAnswerPerOffer

\* What a task's first outcome was stays what a replay sends: the cached row is an
\* outcome of that task and is never replaced.
CacheIsFinal ==
    [][\A t \in Tasks : cache[t] # 0 => cache'[t] = cache[t]]_vars

\* A performer that has answered a task is not made to perform it again, while the
\* process lives, but where another agent of its instance answered that task first:
\* its brain is started over an outcome of its own only if the cached one is another's.
CachedOfAnother(t, p) == cache[t] # 0 /\ chain[cache[t]].performer # p
AnsweredIsReplayed ==
    [][kills = 0 => \A i \in running' \ running :
         LET t == chain[i].task  p == chain[i].performer IN
         Outcomes(t, p) # {} => CachedOfAnother(t, p)]_vars

\* What it rests on: while the process lives, whatever was answered is cached.
OutcomesCached ==
    kills = 0 => \A i \in Ids : IsOutcome(i) => cache[chain[i].task] # 0

\* A task is performed at most once by the performer it was offered to.
OneExecution ==
    \A t \in Tasks, p \in Performers : Cardinality(Outcomes(t, p)) <= 1

\* A task the delegator closed is opened again by one thing only, an Accept of it that
\* was still on its way: sending the task again, the sweep, a second outcome and a kill
\* leave it closed.
Closed(t) == pend[t] \in {"completed", "failed"}
AcceptUnderWay(t) ==
    \E i \in queued : chain[i].type = "Accept" /\ chain[i].task = t /\ ~HasSeen(i)
ReopenedByAcceptOnly ==
    [][\A t \in Tasks : Closed(t) /\ ~Closed(t)' => pend'[t] = "accepted" /\ AcceptUnderWay(t)]_vars

\* Delegated work ends.  A task with a deadline does not stay open: an answer or the
\* sweep closes it.  Every accepted Offer has an outcome on the chain, unless the
\* process was killed meanwhile.
TimedTasksClose ==
    \A t \in Timed : pend[t] \in {"offered", "accepted"} ~> pend[t] \in {"completed", "failed"}
AcceptedWorkEnds ==
    <>[](\/ kills > 0
         \/ \A n \in Ids : chain[n].type = "Accept" =>
                \E i \in Ids : IsOutcome(i) /\ chain[i].re = chain[n].re)
WorkEnds == TimedTasksClose /\ AcceptedWorkEnds
=============================================================================
