------------------------------ MODULE Seating ------------------------------
(***************************************************************************)
(* An instance's seat at a hub, seen from both ends.  The instance keeps   *)
(* no table of seats: it reads its own chain (instance/following.ts).  The *)
(* hub keeps tags (hub/seats.ts, hub/hub.ts), moved by the activities the  *)
(* delivery queue carries there.  An operator's typed commands             *)
(* (ports/hubCommand.ts) write the chain.                                  *)
(*                                                                         *)
(* Each row of the queue is retried on its own, so activities arrive in    *)
(* any order; an acknowledgement may be lost, and the activity delivered   *)
(* again.  The hub knows in memory what it has dispatched, and may be      *)
(* restarted.  A kill inside a handler is in HubReplicas.                  *)
(***************************************************************************)
EXTENDS Integers, Sequences, FiniteSets, FiniteSetsExt

CONSTANTS
    Hubs,
    Crew,           \* the agents this instance holds
    MaxTrail,       \* bound: activities published
    MaxHubRestarts  \* bound: restarts of a hub

ASSUME SeatingAssumption ==
    /\ IsFiniteSet(Hubs) /\ IsFiniteSet(Crew)
    /\ MaxTrail \in Nat /\ MaxHubRestarts \in Nat

NoAgent == "nobody"

\* parseHubCommand: the typed commands that are well formed.
Commands == [verb : {"follow", "unfollow"}, hub : Hubs, agent : {NoAgent}]
            \cup [verb : {"enroll", "unenroll"}, hub : Hubs, agent : Crew]

VARIABLES
    trail,      \* the instance actor's chain; an activity's id is its place
    owed,       \* places of the rows the queue still holds
    seats,      \* per hub: [added, gone], the tags of this instance's seat
    crew,       \* per hub: [added, gone], the tags of its agents' membership
    heard,      \* per hub, in memory: the ids dispatched
    reboots,    \* per hub: restarts
    handled,    \* history: per hub, the ids ever dispatched
    overtaken   \* history: hubs that met an activity after a later one

seatVars == <<trail, owed, seats, crew, heard, reboots, handled, overtaken>>

------------------------------------------------------------------------------
(* The instance's own reading of its chain *)

Said(k, verb, h) == trail[k].verb = verb /\ trail[k].hub = h

\* followingIds, of the chain's first n entries.
FollowingAt(n) ==
    {h \in Hubs : \E k \in 1..n : Said(k, "follow", h) /\ \A j \in k..n : ~Said(j, "unfollow", h)}
Following == FollowingAt(Len(trail))

\* latestFollow: 0 for none.
LatestFollow(h) ==
    LET live == {k \in DOMAIN trail : Said(k, "follow", h) /\
                    \A j \in k..Len(trail) : ~Said(j, "unfollow", h)}
    IN  IF live = {} THEN 0 ELSE Max(live)

------------------------------------------------------------------------------
(* The hub *)

Tags(s) == s.added \ s.gone
Seated(h) == Tags(seats[h]) # {}
CrewTags(h, a) == {k \in Tags(crew[h]) : trail[k].agent = a}
MembersAt(h) == {a \in Crew : CrewTags(h, a) # {}}

AddTag(s, k) == [s EXCEPT !.added = @ \cup {k}]
Tombstone(s, tags) == [s EXCEPT !.gone = @ \cup tags]

\* onFollow; the Accept it answers with moves nothing at the instance.
OnFollow(h, k) ==
    /\ seats' = [seats EXCEPT ![h] = AddTag(@, k)]
    /\ UNCHANGED crew

\* onUndoFollow: the Follow named is a live tag, and then every tag goes, and
\* with them every agent of the instance.
OnUndoFollow(h, k) ==
    IF trail[k].names \in Tags(seats[h])
    THEN /\ seats' = [seats EXCEPT ![h] = Tombstone(@, Tags(@))]
         /\ crew' = [crew EXCEPT ![h] = Tombstone(@, Tags(@))]
    ELSE UNCHANGED <<seats, crew>>

\* onEnroll, follow-required: an instance with no seat is refused, on the log.
OnEnroll(h, k) ==
    /\ crew' = IF Seated(h) THEN [crew EXCEPT ![h] = AddTag(@, k)] ELSE crew
    /\ UNCHANGED seats

\* Mutant: only the newest enrolment of the agent goes.
UnenrollOfNewest(h, k) ==
    /\ crew' = [crew EXCEPT ![h] = Tombstone(@, {j \in CrewTags(h, trail[k].agent) :
                                \A i \in CrewTags(h, trail[k].agent) : i <= j})]
    /\ UNCHANGED seats

\* onUnenroll, removeAgent
OnUnenroll(h, k) ==
    /\ crew' = [crew EXCEPT ![h] = Tombstone(@, CrewTags(h, trail[k].agent))]
    /\ UNCHANGED seats

------------------------------------------------------------------------------
SeatInit ==
    /\ trail = <<>> /\ owed = {}
    /\ seats = [h \in Hubs |-> [added |-> {}, gone |-> {}]]
    /\ crew = [h \in Hubs |-> [added |-> {}, gone |-> {}]]
    /\ heard = [h \in Hubs |-> {}] /\ reboots = [h \in Hubs |-> 0]
    /\ handled = [h \in Hubs |-> {}] /\ overtaken = {}

\* publishAsInstance: one entry, and its row.
PublishAsInstance(verb, h, a, names) ==
    /\ Len(trail) < MaxTrail
    /\ trail' = Append(trail, [verb |-> verb, hub |-> h, agent |-> a, names |-> names])
    /\ owed' = owed \cup {Len(trail) + 1}
    /\ UNCHANGED <<seats, crew, heard, reboots, handled, overtaken>>

\* executeHubCommand.  An unfollow with nothing to undo is refused (and so is an
\* agent the instance does not hold).  No verb asks whether there is a seat.
ExecuteHubCommand(c) ==
    IF c.verb = "unfollow"
    THEN /\ LatestFollow(c.hub) # 0
         /\ PublishAsInstance(c.verb, c.hub, c.agent, LatestFollow(c.hub))
    ELSE PublishAsInstance(c.verb, c.hub, c.agent, 0)

Dispatched(h, k) ==
    \/ trail[k].verb = "follow" /\ OnFollow(h, k)
    \/ trail[k].verb = "unfollow" /\ OnUndoFollow(h, k)
    \/ trail[k].verb = "enroll" /\ OnEnroll(h, k)
    \/ trail[k].verb = "unenroll" /\ OnUnenroll(h, k)

\* A row is tried and the hub dispatches it; perhaps the answer is lost.
Arrive(k) ==
    \E h \in {trail[k].hub} :
    /\ k \in owed /\ k \notin heard[h]
    /\ Dispatched(h, k)
    /\ heard' = [heard EXCEPT ![h] = @ \cup {k}]
    /\ handled' = [handled EXCEPT ![h] = @ \cup {k}]
    /\ overtaken' = IF k \notin handled[h] /\ \E j \in handled[h] : j > k
                    THEN overtaken \cup {h} ELSE overtaken
    /\ owed' \in {owed, owed \ {k}}
    /\ UNCHANGED <<trail, reboots>>

\* A row is tried again, and the hub has heard it.
ArriveAgain(k) ==
    /\ k \in owed /\ k \in heard[trail[k].hub]
    /\ owed' = owed \ {k}
    /\ UNCHANGED <<trail, seats, crew, heard, reboots, handled, overtaken>>

RestartHub(h) ==
    /\ reboots[h] < MaxHubRestarts /\ heard[h] # {}
    /\ reboots' = [reboots EXCEPT ![h] = @ + 1]
    /\ heard' = [heard EXCEPT ![h] = {}]
    /\ UNCHANGED <<trail, owed, seats, crew, handled, overtaken>>

SeatNext ==
    \/ \E c \in Commands : ExecuteHubCommand(c)
    \/ \E k \in DOMAIN trail : Arrive(k)
    \/ \E k \in DOMAIN trail : ArriveAgain(k)
    \/ \E h \in Hubs : RestartHub(h)

SeatSpec == SeatInit /\ [][SeatNext]_seatVars

------------------------------------------------------------------------------
(* Properties *)

\* What the hub has met of the chain, it met in the order of the chain.
MetAll(h) == {k \in DOMAIN trail : trail[k].hub = h} \subseteq handled[h] /\ h \notin overtaken

\* The two readings of a seat agree: once a hub has met the whole chain in its
\* order, it seats the instance exactly if the instance's own fold says it
\* follows, whatever was delivered twice and however often the hub restarted.
SeatFollowsTheTrail == \A h \in Hubs : MetAll(h) => (Seated(h) <=> h \in Following)

\* The agents a chain enrols at a hub: by an Enroll while it follows, and no
\* Unenroll of the agent and no Undo since.
Enrolled(h) ==
    {a \in Crew : \E k \in DOMAIN trail :
        /\ Said(k, "enroll", h) /\ trail[k].agent = a /\ h \in FollowingAt(k)
        /\ \A j \in k..Len(trail) : ~Said(j, "unfollow", h)
                                    /\ ~(Said(j, "unenroll", h) /\ trail[j].agent = a)}

\* And the members: so long as the hub did not restart and dispatch again what
\* it had dispatched, its members are those the chain enrols.
CrewFollowsTheTrail == \A h \in Hubs : MetAll(h) /\ reboots[h] = 0 => MembersAt(h) = Enrolled(h)

\* In whatever order, and however often, things arrive: no agent of an instance
\* is a member where the instance has no seat.
NoSeatNoCrew == \A h \in Hubs : MembersAt(h) # {} => Seated(h)

\* All three: the hub's tags say of the seat and of the crew what the chain says.
SeatEndsAgree == SeatFollowsTheTrail /\ CrewFollowsTheTrail /\ NoSeatNoCrew
=============================================================================
