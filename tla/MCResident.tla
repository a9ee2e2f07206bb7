------------------------------ MODULE MCResident ------------------------------
(* Instances for TLC of the queue of an instance and of the process that runs *)
(* it; a behaviour is about one of the two, and fair to that one.             *)
EXTENDS MCDeliveryQueue, Resident

VARIABLE about

Loops == <<"flush", "converge">>
Intervals == [l \in LoopsOn |-> IF l = "flush" THEN 2 ELSE 1]
TwoHubs == <<"h1", "h2">>
TwoPeers == [h \in HubsRun |-> <<"p", "q">>]

InQueue == about = "queue"
InProcess == about = "process"

\* Of the queue: setInterval keeps firing, every awaited hop ends in an answer
\* or a timeout, and the clock runs.  Of the process: the timers fire, the
\* awaits of a tick and of the drain return, and the clock runs.
RuntimeSpec ==
    /\ about \in {"queue", "process"} /\ Init /\ ResidentInit
    /\ InQueue => driver = "timers" /\ period = Interval
    /\ [][/\ UNCHANGED about
          /\ \/ about = "queue" /\ Next /\ UNCHANGED residentVars
             \/ about = "process" /\ ResidentNext /\ UNCHANGED vars]_<<vars, residentVars, about>>
    /\ WF_vars(InQueue /\ Advance)
    /\ \A c \in Callers : WF_vars(InQueue /\ CallerMoves(c))
    /\ WF_residentVars(InProcess /\ WallAdvances)
    /\ WF_residentVars(InProcess /\ FlushBegins)
    /\ WF_residentVars(InProcess /\ FlushEnds)
    /\ WF_residentVars(InProcess /\ TickMoves)
    /\ \A l \in LoopsOn : WF_residentVars(InProcess /\ TimerFires(l))

=============================================================================
