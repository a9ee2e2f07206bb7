---------------------------- MODULE DeliveryQueue ----------------------------
(***************************************************************************)
(* The outbound delivery queue of an instance: store/queue.ts and the four *)
(* places that flush it.  Every activity an instance, or a hub it hosts,   *)
(* publishes is a row of one SQLite table; a flush reads the rows that are *)
(* due, then awaits one hop per row and writes each outcome back.          *)
(*                                                                         *)
(* A flush is an async function: while it awaits a hop every other caller  *)
(* may run.  The callers are                                               *)
(*                                                                         *)
(*   Ticks   Scheduler.tickFlush: flush on the real clock, dead letters    *)
(*           recorded on the chain                                         *)
(*   Runs    AfpInstance.run: drain on a virtual clock, up to MaxRounds    *)
(*           times, dead letters recorded                                  *)
(*   Hubs    Hub.run, from tickConverge and from onUrgent: the same drain  *)
(*           over the same table, the report discarded                     *)
(*   Stops   installShutdown's final flush: report discarded, then exit    *)
(*                                                                         *)
(* A row's id is its AUTOINCREMENT key, so ORDER BY id is the order on     *)
(* numbers, and the rows of a flush still to be tried are a set of ids.    *)
(***************************************************************************)
EXTENDS Integers, FiniteSets

CONSTANTS
    Peers,          \* actor URLs activities are addressed to
    MaxItems,       \* bound: rows ever enqueued
    Ticks, Runs, Hubs, Stops,   \* callers, by the code that calls
    MaxAttempts,    \* config.maxDeliveryAttempts
    BackoffBase,    \* config.backoffBaseMs
    BackoffCeiling, \* config.backoffCeilingMs
    RetryAfters,    \* delays a peer's Retry-After may name
    MaxRounds,      \* the literal 8 of instance.run and hub.run
    MaxTime,        \* bound: instants of the clock
    LastSend,       \* bound: no activity is published after this instant
    MaxKills,       \* bound: the process is killed only while it ended fewer times
    MaxExits,       \* bound: times the process ends
    Brisk           \* TRUE: hops and ticks are short against a clock unit

Callers == Ticks \cup Runs \cup Hubs \cup Stops

ASSUME QueueAssumption ==
    /\ Peers # {}
    /\ IsFiniteSet(Callers)
    /\ MaxItems \in Nat /\ MaxTime \in Nat /\ LastSend \in Nat /\ MaxKills \in Nat /\ MaxExits \in Nat
    /\ MaxAttempts \in Nat \ {0}
    /\ MaxRounds \in Nat \ {0}
    /\ BackoffBase \in Nat /\ BackoffCeiling \in Nat
    /\ RetryAfters \subseteq Nat
    /\ Brisk \in BOOLEAN

Drainers == Runs \cup Hubs
Ids == 1..MaxItems
NoDelay == -1           \* retryAfterMs = null

DeliveryState == {"none", "pending", "delivered", "dead"}

Row == [state : DeliveryState, attempts : Nat, next : Nat,
        target : Peers, local : BOOLEAN]

NoRow == [state |-> "none", attempts |-> 0, next |-> 0,
          target |-> CHOOSE p \in Peers : TRUE, local |-> FALSE]

VARIABLES
    rows,       \* delivery_queue; state "none" where no row exists yet
    used,       \* rows inserted so far
    notBefore,  \* peer_backoff; 0 where the peer has no row
    clock,      \* the real clock
    phase,      \* per caller: "idle", "flush", or "again" (run's outer loop)
    batch,      \* per caller: rows of the snapshot not yet settled; the least is in flight
    snap,       \* per caller: item.attempts as ready() read it
    began,      \* per caller: the `now` of its flush (a drain's virtual clock)
    gone,       \* per caller: report.deadLettered
    pass,       \* per caller: drain's pass counter
    round,      \* per caller: run's pass counter
    moved,      \* per caller: drain's report has a delivery or a dead letter
    tries,      \* history: hops attempted per row
    landed,     \* history: hops the peer took in per row
    asked,      \* history: latest instant a refusal of the peer named
    errors,     \* afp:Error{undeliverable} activities on the chain per row
    lastStart,  \* history: real time at which the flush of the last failed hop began
    exits       \* times the process ended, killed or shut down

tableVars == <<rows, used, notBefore>>
callVars == <<phase, batch, snap, began, gone, pass, round, moved>>
historyVars == <<tries, landed, asked, errors, lastStart>>
vars == <<tableVars, callVars, historyVars, clock, exits>>

------------------------------------------------------------------------------
(* Helpers *)

Larger(a, b) == IF a >= b THEN a ELSE b
Smaller(a, b) == IF a <= b THEN a ELSE b
Least(S) == CHOOSE i \in S : \A j \in S : i <= j

\* Mutant: the state filter lets a dead letter through.
PendingOrDead == {i \in Ids : rows[i].state \in {"pending", "dead"}}

Pending == {i \in Ids : rows[i].state = "pending"}

\* Mutant: a row that failed is never read again.
ReadyOnce(now) ==
    {i \in Pending : rows[i].attempts = 0 /\ rows[i].next <= now
                     /\ notBefore[rows[i].target] <= now}

\* What ready(now) reads: rows due on their own schedule and their peer's floor.
Ready(now) ==
    {i \in Pending : rows[i].next <= now /\ notBefore[rows[i].target] <= now}

\* The instant a row becomes attemptable, as drain's query computes it.
DueAt(i) == Larger(rows[i].next, notBefore[rows[i].target])
NextDue == LET due == {DueAt(i) : i \in Pending}
           IN  CHOOSE t \in due : \A u \in due : t <= u

\* A hub builds its queue without a ceiling (it defaults to Infinity).
Backoff(c, n) ==
    LET exponential == BackoffBase * 2 ^ (n - 1)
    IN  IF c \in Hubs THEN exponential ELSE Smaller(exponential, BackoffCeiling)

InFlight(c) == phase[c] = "flush" /\ batch[c] # {}
Returned(c) == phase[c] = "flush" /\ batch[c] = {}

\* Rows of a report that recordDeadLetters turns into an Error: the sender must
\* be one of this instance's agents, since nameOf() of anyone else is null.
Recordable(S) == {i \in S : rows[i].local}

------------------------------------------------------------------------------
Init ==
    /\ rows = [i \in Ids |-> NoRow]
    /\ used = 0
    /\ notBefore = [p \in Peers |-> 0]
    /\ clock = 0
    /\ phase = [c \in Callers |-> "idle"]
    /\ batch = [c \in Callers |-> {}]
    /\ snap = [c \in Callers |-> [i \in Ids |-> 0]]
    /\ began = [c \in Callers |-> 0]
    /\ gone = [c \in Callers |-> {}]
    /\ pass = [c \in Callers |-> 0]
    /\ round = [c \in Callers |-> 0]
    /\ moved = [c \in Callers |-> FALSE]
    /\ tries = [i \in Ids |-> 0]
    /\ landed = [i \in Ids |-> 0]
    /\ asked = [p \in Peers |-> 0]
    /\ errors = [i \in Ids |-> 0]
    /\ lastStart = [i \in Ids |-> 0]
    /\ exits = 0

\* emit() enqueues one row per target; `local` says whether the activity's
\* actor is an agent of this instance or the instance, or hub, actor itself.
Enqueue(target, local) ==
    /\ used < MaxItems /\ clock <= LastSend
    /\ used' = used + 1
    /\ rows' = [rows EXCEPT ![used + 1] =
                  [state |-> "pending", attempts |-> 0, next |-> clock,
                   target |-> target, local |-> local]]
    /\ UNCHANGED <<notBefore, callVars, historyVars, clock, exits>>

\* flush(now) up to its first await: the snapshot is read once.
Snapshot(c, now) ==
    /\ phase' = [phase EXCEPT ![c] = "flush"]
    /\ batch' = [batch EXCEPT ![c] = Ready(now)]
    /\ snap' = [snap EXCEPT ![c] =
                  [i \in Ids |-> IF i \in Ready(now) THEN rows[i].attempts ELSE 0]]
    /\ began' = [began EXCEPT ![c] = now]

BeginFlush(c) ==
    /\ c \in Ticks \cup Stops
    /\ phase[c] = "idle"
    /\ Snapshot(c, clock)
    /\ UNCHANGED <<tableVars, gone, pass, round, moved, historyVars, clock, exits>>

\* drain: the first pass of one call of drain, from run's loop.
BeginDrain(c) ==
    /\ c \in Drainers
    /\ phase[c] \in {"idle", "again"}
    /\ Pending # {}
    /\ Snapshot(c, Larger(clock, NextDue))
    /\ pass' = [pass EXCEPT ![c] = 1]
    /\ round' = [round EXCEPT ![c] = @ + 1]
    /\ moved' = [moved EXCEPT ![c] = FALSE]
    /\ UNCHANGED <<tableVars, gone, historyVars, clock, exits>>

\* drain: the virtual clock jumps to the next due row instead of waiting.
NextPass(c) ==
    /\ c \in Drainers
    /\ Returned(c)
    /\ Pending # {} /\ pass[c] < MaxAttempts + 2
    /\ Snapshot(c, Larger(began[c], NextDue))
    /\ pass' = [pass EXCEPT ![c] = @ + 1]
    /\ UNCHANGED <<tableVars, gone, round, moved, historyVars, clock, exits>>

------------------------------------------------------------------------------
(* One hop of a flush settles.  The next one is sent in the same step.     *)

Current(c) == Least(batch[c])

AttemptsNow(c) == snap[c][Current(c)] + 1
Progress(c, flag) == moved' = [moved EXCEPT ![c] = @ \/ (flag /\ c \in Drainers)]

SettleDelivered(c) ==
    LET i == Current(c) IN
    /\ InFlight(c)
    /\ rows' = [rows EXCEPT ![i].state = "delivered",
                            ![i].attempts = AttemptsNow(c)]
    /\ batch' = [batch EXCEPT ![c] = @ \ {i}]
    /\ Progress(c, TRUE)
    /\ tries' = [tries EXCEPT ![i] = @ + 1]
    /\ landed' = [landed EXCEPT ![i] = @ + 1]
    /\ UNCHANGED <<used, notBefore, phase, snap, began, gone, pass, round,
                   asked, errors, lastStart, clock, exits>>

\* Mutant: the upsert overwrites not_before instead of keeping the MAX.
PeerFloorOverwritten(c, delay) ==
    LET p == rows[Current(c)].target IN
    IF delay = NoDelay THEN notBefore
    ELSE [notBefore EXCEPT ![p] = began[c] + delay]

\* setPeerBackoff: MAX(not_before, now + retryAfter), now being the flush's own.
PeerFloor(c, delay) ==
    LET p == rows[Current(c)].target IN
    IF delay = NoDelay THEN notBefore
    ELSE [notBefore EXCEPT ![p] = Larger(@, began[c] + delay)]

RetryAt(c, delay) ==
    Larger(began[c] + Backoff(c, AttemptsNow(c)),
           IF delay = NoDelay THEN 0 ELSE began[c] + delay)

\* Mutant: dead-lettered one attempt early.
FailedRowEarly(c, delay) ==
    LET r == rows[Current(c)] IN
    IF AttemptsNow(c) + 1 >= MaxAttempts
    THEN [r EXCEPT !.state = "dead", !.attempts = AttemptsNow(c)]
    ELSE [r EXCEPT !.attempts = AttemptsNow(c), !.next = RetryAt(c, delay)]

\* The row a failed hop writes.  The retry branch leaves `state` alone.
FailedRow(c, delay) ==
    LET r == rows[Current(c)] IN
    IF AttemptsNow(c) >= MaxAttempts
    THEN [r EXCEPT !.state = "dead", !.attempts = AttemptsNow(c)]
    ELSE [r EXCEPT !.attempts = AttemptsNow(c), !.next = RetryAt(c, delay)]

\* The hop throws: refused by the peer (with or without Retry-After), or its
\* answer lost after the peer took the activity in.
SettleFailed(c, delay, arrived) ==
    LET i == Current(c)
        exhausted == AttemptsNow(c) >= MaxAttempts
    IN
    /\ InFlight(c)
    /\ arrived => delay = NoDelay
    /\ rows' = [rows EXCEPT ![i] = FailedRow(c, delay)]
    /\ notBefore' = PeerFloor(c, delay)
    /\ batch' = [batch EXCEPT ![c] = @ \ {i}]
    /\ gone' = [gone EXCEPT ![c] = IF exhausted THEN @ \cup {i} ELSE @]
    /\ Progress(c, exhausted)
    /\ tries' = [tries EXCEPT ![i] = @ + 1]
    /\ landed' = [landed EXCEPT ![i] = IF arrived THEN @ + 1 ELSE @]
    /\ asked' = [asked EXCEPT ![rows[i].target] =
                    IF delay = NoDelay THEN @ ELSE Larger(@, began[c] + delay)]
    /\ lastStart' = [lastStart EXCEPT ![i] = Smaller(began[c], clock)]
    /\ UNCHANGED <<used, phase, snap, began, pass, round, errors, clock, exits>>

------------------------------------------------------------------------------
(* The flush has returned; its caller looks at the report.                 *)

\* Mutant: every row of the report is recorded by a sender that does not exist.
RecordNothing(S) == errors' = [i \in Ids |-> errors[i]]

\* The local variables of a call that has returned are gone.
NoSnap == [i \in Ids |-> 0]
Forget(c) ==
    /\ snap' = [snap EXCEPT ![c] = NoSnap]
    /\ began' = [began EXCEPT ![c] = 0]
    /\ gone' = [gone EXCEPT ![c] = {}]
    /\ pass' = [pass EXCEPT ![c] = 0]
    /\ moved' = [moved EXCEPT ![c] = FALSE]
    /\ UNCHANGED batch

\* recordDeadLetters: one Error per recordable dead letter, none enqueued.
RecordDeadLetters(S) ==
    errors' = [i \in Ids |-> IF i \in Recordable(S) THEN errors[i] + 1 ELSE errors[i]]

TickReturns(c) ==
    /\ c \in Ticks
    /\ Returned(c)
    /\ RecordDeadLetters(gone[c])
    /\ Forget(c)
    /\ phase' = [phase EXCEPT ![c] = "idle"]
    /\ UNCHANGED <<tableVars, round, tries, landed, asked, lastStart, clock, exits>>

\* drain returns; run records (hub.run does not) and loops while it got anywhere.
DrainReturns(c) ==
    /\ c \in Drainers
    /\ Returned(c)
    /\ Pending = {} \/ pass[c] = MaxAttempts + 2
    /\ IF c \in Runs THEN RecordDeadLetters(gone[c]) ELSE UNCHANGED errors
    /\ Forget(c)
    /\ LET onward == moved[c] /\ round[c] < MaxRounds IN
       /\ phase' = [phase EXCEPT ![c] = IF onward THEN "again" ELSE "idle"]
       /\ round' = [round EXCEPT ![c] = IF onward THEN @ ELSE 0]
    /\ UNCHANGED <<tableVars, tries, landed, asked, lastStart, clock, exits>>

\* run's next drain finds nothing pending, so its report is empty and it stops.
RunStops(c) ==
    /\ c \in Drainers
    /\ phase[c] = "again" /\ Pending = {}
    /\ phase' = [phase EXCEPT ![c] = "idle"]
    /\ round' = [round EXCEPT ![c] = 0]
    /\ UNCHANGED <<tableVars, batch, snap, began, gone, pass, moved,
                   historyVars, clock, exits>>

\* The process ends: every call context is lost, the table survives.  A hop in
\* flight may have reached the peer.
Exit ==
    LET Hops(S, i) == Cardinality({c \in S : Current(c) = i})
        flying == {c \in Callers : InFlight(c)}
    IN
    /\ exits' = exits + 1
    /\ \E S \in SUBSET flying :
        /\ tries' = [i \in Ids |-> tries[i] + Hops(flying, i)]
        /\ landed' = [i \in Ids |-> landed[i] + Hops(S, i)]
        /\ phase' = [c \in Callers |-> "idle"]
        /\ batch' = [c \in Callers |-> {}]
        /\ snap' = [c \in Callers |-> NoSnap]
        /\ began' = [c \in Callers |-> 0]
        /\ gone' = [c \in Callers |-> {}]
        /\ pass' = [c \in Callers |-> 0]
        /\ round' = [c \in Callers |-> 0]
        /\ moved' = [c \in Callers |-> FALSE]
        /\ UNCHANGED <<tableVars, asked, errors, lastStart, clock>>

\* The final flush of a shutdown returns: scheduler.stop, close, exit(0).
StopReturns(c) ==
    /\ c \in Stops
    /\ Returned(c)
    /\ exits < MaxExits
    /\ Exit

Kill ==
    /\ exits < MaxKills
    /\ Exit

Advance ==
    /\ clock < MaxTime
    /\ Brisk => Ready(clock) = {} /\ \A c \in Callers : ~InFlight(c)
    /\ clock' = clock + 1
    /\ UNCHANGED <<tableVars, callVars, historyVars, exits>>

------------------------------------------------------------------------------
Settle(c) ==
    \/ SettleDelivered(c)
    \/ \E delay \in RetryAfters \cup {NoDelay}, arrived \in BOOLEAN :
          SettleFailed(c, delay, arrived)

Next ==
    \/ \E p \in Peers, local \in BOOLEAN : Enqueue(p, local)
    \/ \E c \in Callers :
          \/ BeginFlush(c) \/ BeginDrain(c) \/ NextPass(c)
          \/ Settle(c)
          \/ TickReturns(c) \/ DrainReturns(c) \/ RunStops(c) \/ StopReturns(c)
    \/ Kill
    \/ Advance

Spec == Init /\ [][Next]_vars

\* setInterval keeps firing, every awaited hop ends in an answer or a timeout,
\* and the clock runs.
CallerMoves(c) ==
    \/ BeginFlush(c) /\ Ready(clock) # {}
    \/ Settle(c)
    \/ TickReturns(c)
    \/ BeginDrain(c)
    \/ NextPass(c)
    \/ DrainReturns(c)
    \/ RunStops(c)

FairSpec ==
    /\ Spec
    /\ WF_vars(Advance)
    /\ \A c \in Callers : WF_vars(CallerMoves(c))

------------------------------------------------------------------------------
(* Properties *)

\* The shape of the table, of the call contexts and of the histories.
TypeOK ==
    /\ rows \in [Ids -> Row]
    /\ used \in 0..MaxItems
    /\ notBefore \in [Peers -> Nat]
    /\ clock \in Nat
    /\ phase \in [Callers -> {"idle", "flush", "again"}]
    /\ batch \in [Callers -> SUBSET Ids]
    /\ snap \in [Callers -> [Ids -> Nat]]
    /\ began \in [Callers -> Nat]
    /\ gone \in [Callers -> SUBSET Ids]
    /\ pass \in [Callers -> Nat]
    /\ round \in [Callers -> Nat]
    /\ moved \in [Callers -> BOOLEAN]
    /\ tries \in [Ids -> Nat]
    /\ landed \in [Ids -> Nat]
    /\ asked \in [Peers -> Nat]
    /\ errors \in [Ids -> Nat]
    /\ lastStart \in [Ids -> Nat]
    /\ exits \in Nat

\* A row is given up only after MaxAttempts hops were really tried, whoever
\* flushes and however the flushes interleave: the attempts column, written
\* from a stale snapshot, may fall behind the hops made and never runs ahead.
GivenUpOnlyAfterBudget ==
    \A i \in Ids : rows[i].state = "dead" => tries[i] >= MaxAttempts

\* With one caller a row is tried at most MaxAttempts times, plus once for each
\* exit that caught a hop in flight before its outcome was written.
AttemptBudget == \A i \in Ids : tries[i] <= MaxAttempts + exits

\* With one caller, a row that was delivered or dead-lettered stays so.
OutcomeIsFinal ==
    [][\A i \in Ids : rows[i].state \in {"delivered", "dead"} => rows'[i] = rows[i]]_vars

\* recordDeadLetters: an agent's dead letter is an Error on the chain exactly
\* once, as soon as no report still holds it, and no row that may yet arrive has
\* one.  04 § Reliability and the comments promise the Error of every dead letter;
\* the code skips those whose sender is no agent (a hub, the instance itself), so
\* of these it is only said that nothing false is recorded.
Surfaced ==
    \A i \in Ids :
        /\ rows[i].state = "dead" /\ rows[i].local /\ (\A c \in Callers : i \notin gone[c])
              => errors[i] = 1
        /\ errors[i] > 0 => rows[i].state = "dead" /\ errors[i] = 1

\* A flush tries again a row that had failed only when real time since the flush
\* of the failure covers the exponential schedule (ADR-0025 Decision 6), whoever
\* flushed it then, and takes up no row to a peer inside a window the peer asked
\* for, whatever shorter window it asked for since.  A drain keeps such windows too,
\* but on its own virtual clock, which does not wait for the schedule.
NewBatch(c) == ~(batch'[c] \subseteq batch[c])
Spread(n) == Smaller(BackoffBase * 2 ^ (n - 1), BackoffCeiling)
RetriesAreSpread(c) ==
    \A i \in batch'[c] : rows[i].attempts > 0 => clock >= lastStart[i] + Spread(rows[i].attempts)
RetryAfterIsHonoured(c) == \A i \in batch'[c] : asked[rows[i].target] <= began'[c]
ScheduleIsKept ==
    [][\A c \in Callers : NewBatch(c) =>
          (c \notin Drainers => RetriesAreSpread(c)) /\ RetryAfterIsHonoured(c)]_vars

\* Every row is delivered or dead-lettered in the end.
EverySettles ==
    \A i \in Ids : rows[i].state = "pending" ~> rows[i].state \in {"delivered", "dead"}

\* With one caller the queue implements ReliableDelivery.
Delivery == INSTANCE ReliableDelivery WITH
    Items <- Ids,
    status <- [i \in Ids |-> rows[i].state],
    copies <- landed,
    reports <- errors
DeliveryContract == Delivery!Contract

\* The inductive invariant behind AttemptBudget and OutcomeIsFinal: the snapshot
\* of the one flush there is still agrees with the table.
SnapshotFresh ==
    \A c \in Callers : \A i \in batch[c] :
        rows[i].state = "pending" /\ snap[c][i] = rows[i].attempts
HopsCounted ==
    \A i \in Ids :
        /\ tries[i] <= rows[i].attempts + exits
        /\ rows[i].attempts <= MaxAttempts
        /\ rows[i].state = "pending" => rows[i].attempts < MaxAttempts
        /\ i > used => rows[i].state = "none" /\ tries[i] = 0 /\ rows[i].attempts = 0
OneFlushInv == SnapshotFresh /\ HopsCounted

\* The inductive invariant behind GivenUpOnlyAfterBudget, for any callers.
AttemptsAreHops ==
    \A i \in Ids :
        /\ rows[i].attempts <= tries[i]
        /\ \A c \in Callers : i \in batch[c] => snap[c][i] <= tries[i]
BudgetInv == AttemptsAreHops /\ GivenUpOnlyAfterBudget

\* The inductive invariant behind ScheduleIsKept, for any callers: a pending row that
\* failed is not due before its schedule, and peer_backoff is what peers asked for.
OnTime(row, start) ==
    row.state = "pending" /\ row.attempts > 0 => row.next >= start + Spread(row.attempts)
ScheduleInv == notBefore = asked /\ \A i \in Ids : OnTime(rows[i], lastStart[i])

=============================================================================
