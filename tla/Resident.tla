------------------------------ MODULE Resident ------------------------------
(***************************************************************************)
(* The resident process: the scheduler's loops (runtime/scheduler.ts), in  *)
(* the two ways they are driven, by timers in `serve` and by one alarm in  *)
(* a hosted profile (runtime/schedule.ts), and the drain that ends it all  *)
(* (runtime/shutdown.ts).                                                  *)
(*                                                                         *)
(* What a flush does to the queue is in DeliveryQueue, what a sweep does   *)
(* in TaskExchange, and what the peers of a hub say to each other in       *)
(* HubReplicas; here a tick is one that ends, well or with an error, and   *)
(* converge is the choice of whom to offer to.  The life of one process is *)
(* modelled: nothing in this state outlives it.                            *)
(***************************************************************************)
EXTENDS Integers, Sequences, FiniteSets, FiniteSetsExt, SequencesExt

CONSTANTS
    LoopOrder,      \* the loops that are on, in the order of specs()
    Interval,       \* per loop: its interval
    Jitters,        \* what the one draw of a loop may add
    Drivers,        \* a subset of {"timers", "alarm"}
    Hosted,         \* the hubs of hubReplicas, in order
    PeersOf,        \* per hub: its peers, in order
    Posts,          \* requests on their way
    Patience,       \* timeoutMs of the drain
    Late,           \* bound: how late a timer or an alarm may be
    Longest,        \* bound: how long a tick may take
    MaxThrows,      \* bound: offers that throw
    Horizon         \* bound: instants

LoopsOn == ToSet(LoopOrder)
HubsRun == ToSet(Hosted)
ASSUME ResidentAssumption ==
    /\ Drivers \subseteq {"timers", "alarm"} /\ Hosted \in Seq(HubsRun)
    /\ LoopOrder \in Seq(LoopsOn) /\ \A i, j \in DOMAIN LoopOrder : LoopOrder[i] = LoopOrder[j] => i = j
    /\ Interval \in [LoopsOn -> Nat \ {0}] /\ Jitters \subseteq Nat /\ Jitters # {}
    /\ \A h \in HubsRun : Len(PeersOf[h]) \in Nat \ {0} /\ DOMAIN PeersOf[h] = 1..Len(PeersOf[h])
    /\ {Patience, Late, Longest, MaxThrows, Horizon} \subseteq Nat

VARIABLES
    driver,
    wall,       \* instance.clock, and the clock of the timers
    period,     \* per loop: its interval and its draw
    nextAt,     \* per loop: when it is due
    woken,      \* alarm: the loops runDue has still to run
    ticking,    \* ticks in flight: [loop, since, left], left the hubs still to run
    cursor,     \* RoundRobin: per hub
    stage,      \* "up", "closing", "flushing", "exited"
    giveUp,     \* when the drain stops waiting for requests
    exitCode,       \* what the process exited with
    inHand,     \* requests being handled
    answered,       \* requests answered
    lastBegan,      \* history: per loop, when it last lastBegan (or was first armed)
    hurried,    \* history: per loop, by how much it has begun within its period
    offers,     \* history: per hub and peer, digests offered
    thrown      \* history: per hub, offers that threw

timeVars == <<driver, wall, period, nextAt, woken, ticking, lastBegan, hurried>>
offerVars == <<cursor, offers, thrown>>
drainVars == <<stage, giveUp, exitCode, inHand, answered>>
residentVars == <<timeVars, offerVars, drainVars>>

Never == -1
Running == stage # "exited"

------------------------------------------------------------------------------
(* The loops *)

\* Schedule.due, for the loops that are ready.
DueLoops == {l \in LoopsOn : nextAt[l] <= wall}
WakeAt == Min({nextAt[l] : l \in LoopsOn})

\* Mutant: a loop is re-armed from the instant it was due.
RearmedFromDue(ls) == [l \in LoopsOn |-> IF l \in ls THEN nextAt[l] + period[l] ELSE nextAt[l]]
\* A loop is re-armed from now, whatever it missed; so does setInterval.
Rearmed(ls) == [l \in LoopsOn |-> IF l \in ls THEN wall + period[l] ELSE nextAt[l]]

\* runDue: every loop that is due, one after the other as they are declared.
Batch(ls) == ls
FirstOf(ls, i) == LoopOrder[i] \in ls /\ \A j \in 1..(i - 1) : LoopOrder[j] \notin ls

\* RoundRobin.next, the peer.
PeerOf(h) == (cursor[h] % Len(PeersOf[h])) + 1

\* The hubs of the first n have had their turn, and of m of them the offer is out.
FirstHubs(n) == {Hosted[i] : i \in 1..n}
Turns(n, m) ==
    /\ cursor' = [h \in HubsRun |->
            IF h \in FirstHubs(n) THEN (cursor[h] + 1) % Len(PeersOf[h]) ELSE cursor[h]]
    /\ offers' = [h \in HubsRun |-> [p \in DOMAIN PeersOf[h] |->
            IF h \in FirstHubs(m) /\ p = PeerOf(h) THEN offers[h][p] + 1 ELSE offers[h][p]]]

Throws == FoldFunction(LAMBDA x, y : x + y, 0, thrown)
Tick(l, hubs) == ticking' = ticking \cup {[loop |-> l, since |-> wall, left |-> hubs]}

\* tick, as far as its first await.  tickConverge offers for each hub in its
\* order; an offer that throws ends the tick, for the hubs after it too.
BeginTick(l) ==
    /\ lastBegan' = [lastBegan EXCEPT ![l] = wall]
    /\ hurried' = [hurried EXCEPT ![l] = Max({@, period[l] - (wall - lastBegan[l])})]
    /\ \/ l # "converge" /\ Tick(l, <<>>) /\ UNCHANGED offerVars
       \/ l = "converge" /\ Tick(l, Hosted)
          /\ Turns(Len(Hosted), Len(Hosted)) /\ UNCHANGED thrown
       \/ \E n \in DOMAIN Hosted :
            /\ l = "converge" /\ Throws < MaxThrows
            /\ Turns(n, n - 1)
            /\ thrown' = [thrown EXCEPT ![Hosted[n]] = @ + 1]
            /\ UNCHANGED ticking

TimerFires(l) ==
    /\ driver = "timers" /\ Running /\ nextAt[l] <= wall
    /\ nextAt' = Rearmed({l})
    /\ BeginTick(l)
    /\ UNCHANGED <<driver, wall, period, woken, drainVars>>

\* The platform wakes the actor; runDue is awaited before the next alarm is set.
AlarmRings ==
    /\ driver = "alarm" /\ woken = {} /\ ticking = {} /\ DueLoops # {}
    /\ woken' = Batch(DueLoops)
    /\ nextAt' = Rearmed(DueLoops)
    /\ UNCHANGED <<driver, wall, period, ticking, lastBegan, hurried, offerVars, drainVars>>
RunNext ==
    /\ ticking = {}
    /\ \E i \in DOMAIN LoopOrder :
         /\ FirstOf(woken, i)
         /\ BeginTick(LoopOrder[i])
         /\ woken' = woken \ {LoopOrder[i]}
    /\ UNCHANGED <<driver, wall, period, nextAt, drainVars>>

\* An await of a tick returns: the queue of a hub has been run, or could not be;
\* at the end the tick is over, and a throw is logged and forgotten.
HubRuns(t) ==
    /\ t \in ticking /\ t.left # <<>>
    /\ ticking' = (ticking \ {t}) \cup {[t EXCEPT !.left = Tail(@)]}
    /\ UNCHANGED <<driver, wall, period, nextAt, woken, lastBegan, hurried, offerVars, drainVars>>
TickEnds(t) ==
    /\ t \in ticking /\ t.left = <<>>
    /\ ticking' = ticking \ {t}
    /\ UNCHANGED <<driver, wall, period, nextAt, woken, lastBegan, hurried, offerVars, drainVars>>

------------------------------------------------------------------------------
(* Requests and the drain, of the driver with a process to drain *)

PostArrives(x) ==
    /\ driver = "timers" /\ stage = "up" /\ x \notin inHand \cup answered
    /\ inHand' = inHand \cup {x}
    /\ UNCHANGED <<timeVars, offerVars, stage, giveUp, exitCode, answered>>
PostHandled(x) ==
    /\ Running /\ x \in inHand
    /\ inHand' = inHand \ {x} /\ answered' = answered \cup {x}
    /\ UNCHANGED <<timeVars, offerVars, stage, giveUp, exitCode>>

\* drain: the server takes no more, and the requests in hand have so long.
Signal ==
    /\ driver = "timers" /\ stage = "up" /\ wall + Patience <= Horizon
    /\ stage' = "closing" /\ giveUp' = wall + Patience
    /\ UNCHANGED <<timeVars, offerVars, exitCode, inHand, answered>>

LeaveWith(c) == stage' = "exited" /\ exitCode' = c /\ UNCHANGED <<timeVars, offerVars, giveUp, inHand, answered>>

\* A second signal does not wait.
SignalAgain == stage \in {"closing", "flushing"} /\ LeaveWith(1)

\* Mutant: only the server's closing is awaited.
FlushWhenClosed ==
    /\ stage = "closing" /\ inHand = {}
    /\ stage' = "flushing"
    /\ UNCHANGED <<timeVars, offerVars, giveUp, exitCode, inHand, answered>>
FlushBegins ==
    /\ stage = "closing" /\ (inHand = {} \/ wall >= giveUp)
    /\ stage' = "flushing"
    /\ UNCHANGED <<timeVars, offerVars, giveUp, exitCode, inHand, answered>>

\* The flush has returned or thrown: timers off, store closed, exit, in one stretch.
FlushEnds == stage = "flushing" /\ LeaveWith(0)

------------------------------------------------------------------------------
\* Nothing that is due waits longer than Late, no tick takes longer than Longest.
Punctual ==
    /\ driver = "timers" => \A l \in LoopsOn : wall < nextAt[l] + Late
    /\ driver = "alarm" /\ ticking = {} => woken = {} /\ wall < WakeAt + Late
    /\ \A t \in ticking : wall < t.since + Longest
    /\ stage = "closing" => wall < giveUp + Late
WallAdvances ==
    /\ Running /\ wall < Horizon /\ Punctual
    /\ wall' = wall + 1
    /\ UNCHANGED <<driver, period, nextAt, woken, ticking, lastBegan, hurried, offerVars, drainVars>>

ResidentInit ==
    /\ driver \in Drivers /\ wall = 0
    /\ \E draw \in [LoopsOn -> Jitters] : period = [l \in LoopsOn |-> Interval[l] + draw[l]]
    /\ nextAt = period /\ woken = {} /\ ticking = {}
    /\ lastBegan = [l \in LoopsOn |-> 0] /\ hurried = [l \in LoopsOn |-> 0]
    /\ cursor = [h \in HubsRun |-> 0]
    /\ offers = [h \in HubsRun |-> [p \in DOMAIN PeersOf[h] |-> 0]]
    /\ thrown = [h \in HubsRun |-> 0]
    /\ stage = "up" /\ giveUp = Never /\ exitCode = Never /\ inHand = {} /\ answered = {}

ResidentNext ==
    \/ \E l \in LoopsOn : TimerFires(l)
    \/ AlarmRings
    \/ RunNext
    \/ \E t \in ticking : Running /\ HubRuns(t)
    \/ \E t \in ticking : Running /\ TickEnds(t)
    \/ \E x \in Posts : PostArrives(x)
    \/ \E x \in Posts : PostHandled(x)
    \/ Signal
    \/ SignalAgain
    \/ FlushBegins
    \/ FlushEnds
    \/ WallAdvances

ResidentSpec == ResidentInit /\ [][ResidentNext]_residentVars

\* An await of a tick returns.
TickMoves == \E t \in ticking : Running /\ (HubRuns(t) \/ TickEnds(t))

------------------------------------------------------------------------------
(* Properties *)

\* However late the wakes and however long the ticks, no loop runs to catch up
\* with what it missed (schedule.ts): the timers never begin one twice within
\* its period, and an alarm only where the first of the two had to wait for the
\* ticks of the loops before it.
NoCatchingUp ==
    \A l \in LoopsOn :
        hurried[l] <= IF driver = "alarm" THEN (Len(LoopOrder) - 1) * Longest ELSE 0

\* None is starved: what keeps a loop from running, beyond its period, is the
\* lateness of one wake and, of an alarm, ticks it has to wait for: those of a wake
\* that came before it was due, and then those of the loops declared before it.
TicksToWaitFor == Max({Len(LoopOrder), 2 * (Len(LoopOrder) - 1)})
NoLoopStarves ==
    Running => \A l \in LoopsOn :
        wall - lastBegan[l] <= period[l] + Late
            + IF driver = "alarm" THEN TicksToWaitFor * Longest ELSE 0

\* The peers of a hub are offered its digest in turns, however many hubs there
\* are, and whether or not ticks overlap; only an offer that throws costs a turn.
PeersTakeTurns ==
    \A h \in HubsRun : \A p, q \in DOMAIN PeersOf[h] :
        offers[h][p] <= offers[h][q] + 1 + thrown[h]

\* The schedule is fair: nothing runs too often, and nothing and nobody waits for
\* longer than what was late.
ScheduleIsFair == NoCatchingUp /\ NoLoopStarves /\ PeersTakeTurns

\* A drain ends, even if a request is never answered; and one that ends well has
\* waited for the requests it had taken, or out its patience with them.
ExitIsClean == exitCode = 0 => inHand = {} \/ wall >= giveUp
DrainEnds == []ExitIsClean /\ (stage = "closing" ~> stage = "exited")
=============================================================================
