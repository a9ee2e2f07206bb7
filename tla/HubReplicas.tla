---------------------------- MODULE HubReplicas ----------------------------
(***************************************************************************)
(* The replicated state of one hub: hub/hub.ts and hub/seats.ts over       *)
(* crdt/store.ts.  Signed activities reach a replica from their signers or *)
(* inside an answer to a digest; each is dispatched by the same handlers,  *)
(* which move OR-Sets and last-writer-wins registers and write down, per   *)
(* move, a provenance row.  A digest is the count of those rows, per store *)
(* and origin; an answer carries the activities past the counts.           *)
(*                                                                         *)
(* A handler is synchronous.  No transaction spans the statements of one,  *)
(* and the ids a replica has dispatched live in memory: the process may be *)
(* killed between any two statements, and everything may be delivered      *)
(* again afterwards.  Messages between replicas are lost, duplicated and   *)
(* reordered; what a signer sends reaches a replica at any time or never.  *)
(*                                                                         *)
(* Left out: liveness registers (never exchanged), the elements of the     *)
(* capability map (tagged and never removed with membership; its rows are  *)
(* kept), and the hub's own chain, onto which each message is appended.    *)
(***************************************************************************)
EXTENDS Integers, Sequences, FiniteSets, SequencesExt

CONSTANTS
    Replicas, Instances, Agents,
    Acts,           \* the signed activities there are
    Act,            \* per activity: its fields, see Activity
    Digest,         \* the order of the activities' digests
    OperatedBy,     \* per agent: afp:operatedBy of its document
    Directs,        \* what signers send, and operators ask of, each replica
    Ratified,       \* per replica: expulsions whose decision is in its record
    SeatRequired,   \* seatPolicy is follow-required
    Urgent,         \* replicas with the scheduler's onUrgent hook
    MaxOffers,      \* bound: digests offered
    Mortal,         \* bound: replicas whose process is killed
    MaxRestarts     \* bound: times it is

None == "none"
Commands == {"freeze", "archive"}
Kinds == {"Follow", "Undo", "Enroll", "Unenroll", "Expel", "Transfer", "Asset", "Delta"}

\* `on` is the agent, asset version or element spoken of; `names` the activities
\* named (the Follow undone, the tags a delta removes); `says` the role, the
\* asset's digest or the new operator; `at` the published instant.
Activity == [kind : Kinds, by : Instances \cup Agents, on : Agents \cup {None} \cup STRING,
             names : SUBSET Acts, says : STRING, at : Nat]
Base(kind, by, at) ==
    [kind |-> kind, by |-> by, on |-> None, names |-> {}, says |-> "", at |-> at]
Follow(i, at) == Base("Follow", i, at)
UndoFollow(i, follow, at) == [Base("Undo", i, at) EXCEPT !.names = {follow}]
Enroll(i, g, role, at) == [Base("Enroll", i, at) EXCEPT !.on = g, !.says = role]
Unenroll(i, g, at) == [Base("Unenroll", i, at) EXCEPT !.on = g]
MemberExpel(g, h, at) == [Base("Expel", g, at) EXCEPT !.on = h]
ControlTransfer(i, operator, at) == [Base("Transfer", i, at) EXCEPT !.says = operator]
UpdateAsset(g, version, digest, at) ==
    [Base("Asset", g, at) EXCEPT !.on = version, !.says = digest]
CrdtDelta(g, element, removes, at) ==
    [Base("Delta", g, at) EXCEPT !.on = element, !.names = removes]

OfKind(kind) == {a \in Acts : Act[a].kind = kind}
Enrolls(g) == {a \in OfKind("Enroll") : Act[a].on = g}

\* A digest is of one activity; a delta of an application store has tags of its own.
ASSUME ReplicaAssumption ==
    /\ IsFiniteSet(Acts) /\ IsFiniteSet(Agents)
    /\ None \notin Acts \cup Instances \cup Agents
    /\ \A a \in Acts : DOMAIN Act[a] = {"kind", "by", "on", "names", "says", "at"}
    /\ \A a \in Acts : /\ Act[a].kind \in Kinds /\ Act[a].at \in Nat
                       /\ Act[a].by \in Instances \cup Agents
    /\ \A a \in Acts : Act[a].kind \in {"Enroll", "Unenroll", "Expel"} => Act[a].on \in Agents
    /\ \A a \in OfKind("Delta") : Act[a].names \subseteq OfKind("Delta")
    /\ OperatedBy \in [Agents -> Instances]
    /\ Digest \in [Acts -> Nat] /\ \A a, b \in Acts : Digest[a] = Digest[b] => a = b
    /\ Directs \subseteq [Replicas -> SUBSET (Acts \cup Commands)]
    /\ Ratified \in [Replicas -> SUBSET Acts]
    /\ SeatRequired \in BOOLEAN
    /\ MaxOffers \in Nat /\ MaxRestarts \in Nat

\* The registers, and the stores whose moves are counted.
Registers == ({"role", "instance"} \X Agents) \cup ({"transfer"} \X (Instances \cup Agents))
                \cup ({"asset"} \X {Act[a].on : a \in OfKind("Asset")})
Stores == ({"seats", "membership", "capabilities", "assets", "app"} \X {None})
                \cup ({"role", "instance"} \X Agents) \cup ({"transfer"} \X (Instances \cup Agents))
Row == [store : Stores, origin : Instances \cup Agents, act : Acts]

VARIABLES
    sent,       \* input: the member of Directs that is sent
    tags,       \* crdt_state: the add-tags of every OR-Set
    dead,       \* crdt_state: their tombstones
    reg,        \* crdt_state: per register, the activity that holds it
    rows,       \* crdt_provenance, in id order
    closed,     \* the hub's own outbox: the lifecycle commands it has published
    status,     \* memory: the lifecycle
    roles,      \* memory: the role register of each agent
    seen,       \* memory: the ids dispatched
    work,       \* memory: the batches being applied
    net,        \* messages between replicas
    offers, restarts,
    torn        \* history: activities whose handler was killed, per replica

store == <<tags, dead, reg, rows, closed>>
memory == <<status, roles, seen, work>>
vars == <<sent, store, memory, net, offers, restarts, torn>>

------------------------------------------------------------------------------
(* The replicated types, as the views of the hub read them *)

Live(r) == tags[r] \ dead[r]

\* The live tags of a seat, of a membership.
SeatTags(r, i) == {a \in Live(r) : Act[a].kind = "Follow" /\ Act[a].by = i}
EnrollTags(r, g) == {a \in Live(r) : Act[a].kind = "Enroll" /\ Act[a].on = g}
HasSeat(r, i) == SeatTags(r, i) # {}
Members(r) == {g \in Agents : EnrollTags(r, g) # {}}
InstanceOf(r, g) == IF reg[r][<<"instance", g>>] = None THEN None
                    ELSE Act[reg[r][<<"instance", g>>]].by

\* roleOf: null for who is not enrolled, "member" for a register never written.
RoleOf(r, g) ==
    CASE g \notin Members(r) -> None
      [] g \in Members(r) /\ roles[r][g] = None -> "member"
      [] OTHER -> Act[roles[r][g]].says

\* wins: the later instant, then the greater node; a transfer's node is its
\* instance, any other's its digest.
Node(a) == IF Act[a].kind = "Transfer" THEN 0 ELSE Digest[a]
Wins(a, held) ==
    \/ Act[a].at > Act[held].at
    \/ Act[a].at = Act[held].at /\ Node(a) > Node(held)

Merged(held, a) == IF held = None \/ Wins(a, held) THEN a ELSE held

------------------------------------------------------------------------------
(* What a handler writes: CRDTStore.apply calls, in order *)

Move(name, subject, adds, tombs, regs) ==
    [store |-> <<name, subject>>, adds |-> adds, tombs |-> tombs, regs |-> regs]
Register(name, subject) == Move(name, subject, {}, {}, {<<name, subject>>})

\* Mutant: only one of the live tags is tombstoned.
RemovalOfOne(r, g) ==
    Move("membership", None, {},
         {t \in EnrollTags(r, g) : \A u \in EnrollTags(r, g) : Digest[t] <= Digest[u]}, {})

\* removeAgent: a row is written even when no tag is live.
Removal(r, g) == Move("membership", None, {}, EnrollTags(r, g), {})

FollowMoves(r, a) ==
    IF Act[a].by \in Instances THEN <<Move("seats", None, {a}, {}, {})>> ELSE <<>>

\* Mutant: the seat goes, the agents it let in stay.
UndoSeatOnly(r, a) ==
    IF SeatTags(r, Act[a].by) # {} /\ Act[a].names \subseteq SeatTags(r, Act[a].by)
    THEN <<Move("seats", None, {}, SeatTags(r, Act[a].by), {})>> ELSE <<>>

\* The agents a revoked seat takes along, in the order of members().
Dependants(r, i) == {g \in Members(r) : InstanceOf(r, g) = i}
UndoMoves(r, a) ==
    LET i == Act[a].by
        gone == SetToSeq(Dependants(r, i))
    IN  IF SeatTags(r, i) # {} /\ Act[a].names \subseteq SeatTags(r, i)
        THEN <<Move("seats", None, {}, SeatTags(r, i), {})>>
                \o [k \in DOMAIN gone |-> Removal(r, gone[k])]
        ELSE <<>>

OwnAgent(a) == OperatedBy[Act[a].on] = Act[a].by
EnrollMoves(r, a) ==
    IF status[r] = "active" /\ OwnAgent(a) /\ (SeatRequired => HasSeat(r, Act[a].by))
    THEN <<Move("membership", None, {a}, {}, {}), Move("capabilities", None, {}, {}, {}),
           Register("role", Act[a].on), Register("instance", Act[a].on)>>
    ELSE <<>>

UnenrollMoves(r, a) ==
    IF status[r] = "active" /\ OwnAgent(a) THEN <<Removal(r, Act[a].on)>> ELSE <<>>

\* onMembershipActuation: the decision must be one this replica's chain carries.
ExpelMoves(r, a) ==
    IF RoleOf(r, Act[a].by) # None /\ a \in Ratified[r]
    THEN <<Removal(r, Act[a].on)>> ELSE <<>>

TransferMoves(r, a) == <<Register("transfer", Act[a].by)>>

AssetMoves(r, a) ==
    LET held == reg[r][<<"asset", Act[a].on>>]
    IN  IF /\ status[r] = "active"
           /\ RoleOf(r, Act[a].by) = "member"
           /\ held = None \/ Act[held].says = Act[a].says
        THEN <<Move("assets", None, {}, {}, {<<"asset", Act[a].on>>})>> ELSE <<>>

\* A delta of an application store carries its own tags and tombstones.
DeltaMoves(r, a) ==
    IF status[r] = "active" /\ RoleOf(r, Act[a].by) \notin {None, "observer"}
    THEN <<Move("app", None, {a}, Act[a].names, {})>> ELSE <<>>

Moves(r, a) ==
    CASE Act[a].kind = "Follow" -> FollowMoves(r, a)
      [] Act[a].kind = "Undo" -> UndoMoves(r, a)
      [] Act[a].kind = "Enroll" -> EnrollMoves(r, a)
      [] Act[a].kind = "Unenroll" -> UnenrollMoves(r, a)
      [] Act[a].kind = "Expel" -> ExpelMoves(r, a)
      [] Act[a].kind = "Transfer" -> TransferMoves(r, a)
      [] Act[a].kind = "Asset" -> AssetMoves(r, a)
      [] Act[a].kind = "Delta" -> DeltaMoves(r, a)

------------------------------------------------------------------------------
(* Digests and their answers *)

Acted(s) == {s[k].act : k \in DOMAIN s}
Place(s, k) == Cardinality({j \in 1..k : s[j].store = s[k].store /\ s[j].origin = s[k].origin})

\* syncVector
Vector(s) == [x \in Stores \X (Instances \cup Agents) |->
                Cardinality({k \in DOMAIN s : <<s[k].store, s[k].origin>> = x})]
NoRows == [x \in Stores \X (Instances \cup Agents) |-> 0]

\* The members of a set of numbers, the least first.
Ascending(S) ==
    [n \in 1..Cardinality(S) |-> CHOOSE k \in S : Cardinality({j \in S : j <= k}) = n]

\* Mutant: the answer starts one row too late.
BehindLate(s, remote) ==
    LET late == {k \in DOMAIN s : Place(s, k) > remote[<<s[k].store, s[k].origin>>] + 1}
        once == {k \in late : \A j \in late : s[j].act = s[k].act => k <= j}
        order == Ascending(once)
    IN  [n \in DOMAIN order |-> s[order[n]].act]

\* activitiesBehind: past the remote counts, each activity at its first such row.
Late(s, remote) == {k \in DOMAIN s : Place(s, k) > remote[<<s[k].store, s[k].origin>>]}
Once(s, K) == {k \in K : \A j \in K : s[j].act = s[k].act => k <= j}
Behind(s, remote) ==
    LET order == Ascending(Once(s, Late(s, remote)))
    IN  [n \in DOMAIN order |-> s[order[n]].act]

\* onStateDeltas: what moves a seat goes first, all else in the order it came.
SeatMoving(a) == Act[a].kind \in {"Follow", "Undo"}
SeatsFirst(batch, k, j) ==
    IF SeatMoving(batch[k]) = SeatMoving(batch[j]) THEN k < j ELSE SeatMoving(batch[k])

Peers(r) == Replicas \ {r}
Deltas(r, batch) == [kind |-> "deltas", to |-> r, acts |-> batch]
Offered(r, p, vector) == [kind |-> "digest", from |-> r, to |-> p, vector |-> vector]

------------------------------------------------------------------------------
Init ==
    /\ sent \in Directs
    /\ tags = [r \in Replicas |-> {}]
    /\ dead = [r \in Replicas |-> {}]
    /\ reg = [r \in Replicas |-> [x \in Registers |-> None]]
    /\ rows = [r \in Replicas |-> <<>>]
    /\ closed = [r \in Replicas |-> {}]
    /\ status = [r \in Replicas |-> "active"]
    /\ roles = [r \in Replicas |-> [g \in Agents |-> None]]
    /\ seen = [r \in Replicas |-> {}]
    /\ work = [r \in Replicas |-> {}]
    /\ net = {}
    /\ offers = 0 /\ restarts = 0
    /\ torn = [r \in Replicas |-> {}]

\* The rows of the moves ms of activity a.
RowsOf(a, ms) == [k \in DOMAIN ms |-> [store |-> ms[k].store, origin |-> Act[a].by, act |-> a]]

Recorded(r, a, ms, n) == rows[r] \o SubSeq(RowsOf(a, ms), 1, n)

\* Mutant: an add lifts the tombstone of its tag.
DeadForgiven(r, ms) == (dead[r] \ UNION {ms[k].adds : k \in DOMAIN ms})
                            \cup UNION {ms[k].tombs : k \in DOMAIN ms}
\* mergeORSet: tags and tombstones are unions.
Tagged(r, ms) == tags[r] \cup UNION {ms[k].adds : k \in DOMAIN ms}
Dead(r, ms) == dead[r] \cup UNION {ms[k].tombs : k \in DOMAIN ms}

\* The moves ms of a reach the store; the first n of them have their row.
Persist(r, a, ms, n) ==
    /\ tags' = [tags EXCEPT ![r] = Tagged(r, ms)]
    /\ dead' = [dead EXCEPT ![r] = Dead(r, ms)]
    /\ reg' = [reg EXCEPT ![r] =
                [x \in Registers |->
                    IF x \in UNION {ms[k].regs : k \in DOMAIN ms} THEN Merged(reg[r][x], a)
                    ELSE reg[r][x]]]
    /\ rows' = [rows EXCEPT ![r] = Recorded(r, a, ms, n)]

\* The role registers in memory: deleted with the member, fresh with the next.
RolesAfter(r, a, ms) ==
    [g \in Agents |->
        CASE ms = <<>> -> roles[r][g]
          [] ms # <<>> /\ Act[a].kind = "Enroll" /\ Act[a].on = g -> Merged(roles[r][g], a)
          [] ms # <<>> /\ Act[a].kind \in {"Unenroll", "Expel"} /\ Act[a].on = g -> None
          [] ms # <<>> /\ Act[a].kind = "Undo" /\ g \in Dependants(r, Act[a].by) -> None
          [] OTHER -> roles[r][g]]

\* onUrgent: pushSync to every peer, within the receive that fires it.
IsUrgent(a) == Act[a].kind \in {"Enroll", "Unenroll"}
Pushed(r, a) ==
    IF r \in Urgent /\ IsUrgent(a)
    THEN {Deltas(p, Behind(rows'[r], NoRows)) : p \in Peers(r)} ELSE {}

\* receive, for an activity not seen since the process started.
Dispatch(r, a) ==
    \E ms \in {Moves(r, a)} :
    /\ seen' = [seen EXCEPT ![r] = @ \cup {a}]
    /\ Persist(r, a, ms, Len(ms))
    /\ roles' = [roles EXCEPT ![r] = RolesAfter(r, a, ms)]
    /\ net' = net \cup Pushed(r, a)
    /\ UNCHANGED <<sent, closed, status, offers, restarts, torn>>

\* A signer's delivery.
Receive(r, a) ==
    /\ a \in sent[r] /\ a \notin seen[r] /\ status[r] # "archived"
    /\ Dispatch(r, a)
    /\ UNCHANGED work

\* Accept{afp:StateDeltas} comes in: its activities wait their turn.
Unseen(r, batch) == {k \in DOMAIN batch : batch[k] \notin seen[r]}
TakeDeltas(r) ==
    \E m \in net :
        /\ m.kind = "deltas" /\ m.to = r /\ status[r] # "archived"
        /\ Unseen(r, m.acts) # {} /\ m.acts \notin work[r]
        /\ work' = [work EXCEPT ![r] = @ \cup {m.acts}]
        /\ UNCHANGED <<sent, store, status, roles, seen, net, offers, restarts, torn>>

\* The next activity of a batch; what was seen meanwhile is a duplicate.
TakeNext(r) ==
    \E batch \in work[r] : \E k \in Unseen(r, batch) :
        /\ status[r] # "archived"
        /\ \A j \in Unseen(r, batch) \ {k} : SeatsFirst(batch, k, j)
        /\ Dispatch(r, batch[k])
        /\ work' = [work EXCEPT ![r] = IF Unseen(r, batch)' = {} THEN @ \ {batch} ELSE @]

\* A batch of which nothing is left to take: all seen, or the hub is archived.
DropBatch(r) ==
    \E batch \in work[r] :
        /\ Unseen(r, batch) = {} \/ status[r] = "archived"
        /\ work' = [work EXCEPT ![r] = @ \ {batch}]
        /\ UNCHANGED <<sent, store, status, roles, seen, net, offers, restarts, torn>>

\* offerSync, by the converge tick.
Offer(r, p) ==
    /\ p \in Peers(r) /\ offers < MaxOffers
    /\ offers' = offers + 1
    /\ net' = net \cup {Offered(r, p, Vector(rows[r]))}
    /\ UNCHANGED <<sent, store, memory, restarts, torn>>

\* onDigestOffer
Answer(r) ==
    \E m \in net :
        /\ m.kind = "digest" /\ m.to = r /\ status[r] # "archived"
        /\ net' = (net \ {m}) \cup {Deltas(m.from, Behind(rows[r], m.vector))}
        /\ UNCHANGED <<sent, store, memory, offers, restarts, torn>>

\* freeze and archive ask nothing of the status: bound, each is asked once.
Close(r, command, state) ==
    /\ command \in sent[r] \ closed[r]
    /\ status' = [status EXCEPT ![r] = state]
    /\ closed' = [closed EXCEPT ![r] = @ \cup {command}]
    /\ UNCHANGED <<sent, tags, dead, reg, rows, roles, seen, work, net, offers, restarts, torn>>
Freeze(r) == Close(r, "freeze", "frozen")
Archive(r) == Close(r, "archive", "archived")

\* The lifecycle is recorded, not stored: hydrate reads the hub's own outbox.
Recovered(r) ==
    CASE "archive" \in closed[r] -> "archived"
      [] closed[r] = {"freeze"} -> "frozen"
      [] closed[r] = {} -> "active"

\* hydrate, from the registers as the store has them.
Hydrated(r, registers) == [g \in Agents |-> registers[<<"role", g>>]]
Restarted(r) ==
    /\ r \in Mortal /\ restarts < MaxRestarts /\ restarts' = restarts + 1
    /\ seen' = [seen EXCEPT ![r] = {}]
    /\ work' = [work EXCEPT ![r] = {}]
    /\ roles' = [roles EXCEPT ![r] = Hydrated(r, reg'[r])]
    /\ status' = [status EXCEPT ![r] = Recovered(r)]
    /\ UNCHANGED <<sent, closed, net, offers>>

Restart(r) ==
    /\ UNCHANGED <<tags, dead, reg, rows, torn>>
    /\ Restarted(r)

\* The process is killed inside a handler: a prefix of its moves is in the
\* store, the last of them perhaps without its row.
KilledInHandler(r, a) ==
    /\ a \in sent[r] \cup UNION {ToSet(m.acts) : m \in {d \in net : d.kind = "deltas" /\ d.to = r}}
    /\ a \notin seen[r] /\ status[r] # "archived"
    /\ \E ms \in {Moves(r, a)} : \E k \in DOMAIN ms, n \in 0..Len(ms) :
        /\ n \in {k - 1, k} /\ n < Len(ms)
        /\ Persist(r, a, SubSeq(ms, 1, k), n)
    /\ Restarted(r)
    /\ torn' = [torn EXCEPT ![r] = @ \cup {a}]

Next ==
    \E r \in Replicas :
        \/ \E a \in Acts : Receive(r, a) \/ KilledInHandler(r, a)
        \/ TakeDeltas(r) \/ TakeNext(r) \/ DropBatch(r)
        \/ \E p \in Replicas : Offer(r, p)
        \/ Answer(r)
        \/ Freeze(r) \/ Archive(r)
        \/ Restart(r)

Spec == Init /\ [][Next]_vars

------------------------------------------------------------------------------
(* Properties *)

\* The shape of the state; only what was added is tombstoned.
TypeOK ==
    /\ sent \in Directs
    /\ tags \in [Replicas -> SUBSET Acts]
    /\ dead \in [Replicas -> SUBSET Acts]
    /\ reg \in [Replicas -> [Registers -> Acts \cup {None}]]
    /\ rows \in [Replicas -> Seq(Row)]
    /\ closed \in [Replicas -> SUBSET Commands]
    /\ status \in [Replicas -> {"active", "frozen", "archived"}]
    /\ roles \in [Replicas -> [Agents -> Acts \cup {None}]]
    /\ seen \in [Replicas -> SUBSET Acts]
    /\ work \in [Replicas -> SUBSET Seq(Acts)]
    /\ torn \in [Replicas -> SUBSET Acts]
    /\ \A m \in net : m.kind = "deltas" => m.acts \in Seq(Acts)
    /\ offers \in Nat /\ restarts \in Nat

\* The seat is what admits a member (ADR-0017 D4): at every replica, through
\* reordered batches, replays and restarts, a member's instance holds a live
\* seat, save where a kill cut its Enroll or its instance's Undo in two.
TornFor(r, g) ==
    \E a \in torn[r] : \/ Act[a].kind = "Enroll" /\ Act[a].on = g
                       \/ Act[a].kind = "Undo" /\ Act[a].by = OperatedBy[g]
MembersAreSeated ==
    SeatRequired =>
        \A r \in Replicas : \A g \in Members(r) : HasSeat(r, OperatedBy[g]) \/ TornFor(r, g)

\* What a replica holds has a provenance row, each tag and each register's
\* activity, save where a kill came between the two statements.
HeldHasRows ==
    \A r \in Replicas :
        LET held == tags[r] \cup {reg[r][x] : x \in Registers} IN
        held \ {None} \subseteq Acted(rows[r]) \cup torn[r]

\* An answer is complete for a replica that is only behind: if for each store
\* and origin its rows begin the other's, the answer to its digest carries
\* every activity the other has rows for and it has none.
OnlyBehind(p, r) ==
    \A k \in DOMAIN rows[p] : \E j \in DOMAIN rows[r] :
        rows[r][j] = rows[p][k] /\ Place(rows[r], j) = Place(rows[p], k)
BehindIsAnswered ==
    \A r, p \in Replicas :
        LET missing == Acted(rows[r]) \ Acted(rows[p]) IN
        missing # {} /\ OnlyBehind(p, r) => missing \subseteq ToSet(Behind(rows[r], Vector(rows[p])))

\* A replica's tables: well typed, and all that they hold can be handed on to a
\* replica that is behind.
HandsOn == TypeOK /\ HeldHasRows /\ BehindIsAnswered

\* Members agree where the order that matters did: two replicas that enrolled
\* the same tags, and saw each of them on the same side of every removal of
\* its agent, have the same members.
Removes(a, e) ==
    \/ Act[a].kind \in {"Unenroll", "Expel"} /\ Act[a].on = Act[e].on
    \/ Act[a].kind = "Undo" /\ Act[a].by = Act[e].by
RemovedAfter(r, e) ==
    \E i, j \in DOMAIN rows[r] : i < j /\ rows[r][i].act = e /\ Removes(rows[r][j].act, e)
SameOrderSameMembers ==
    \A r, p \in Replicas :
        /\ Members(r) # Members(p)
        /\ torn[r] = {} /\ torn[p] = {}
        /\ tags[r] \cap OfKind("Enroll") = tags[p] \cap OfKind("Enroll")
        => \E e \in tags[r] \cap OfKind("Enroll") : RemovedAfter(r, e) # RemovedAfter(p, e)

\* Whatever is dispatched again after restarts, and in whatever state: a Follow or
\* an Enroll the replica has rows for moves neither its seats nor its members, and
\* a registered asset version keeps its digest.
AddsReplay(r) ==
    \A a \in seen'[r] \ seen[r] :
        Act[a].kind \in {"Follow", "Enroll"} /\ a \in Acted(rows[r]) => Live(r)' = Live(r)
AssetsStay(r) ==
    \A x \in Registers :
        x[1] = "asset" /\ reg[r][x] # None => Act[reg'[r][x]].says = Act[reg[r][x]].says
ReplaysChangeNothing == [][\A r \in Replicas : AddsReplay(r) /\ AssetsStay(r)]_vars

\* A register is what was written to it, in whatever order: replicas that applied
\* the same activities to it hold the same one, but for transfers of one instant.
Writers(r, x) ==
    {rows[r][k].act : k \in {j \in DOMAIN rows[r] :
        \/ rows[r][j].store = x
        \/ x[1] = "asset" /\ Act[rows[r][j].act].kind = "Asset" /\ Act[rows[r][j].act].on = x[2]}}
Tied(S) == \E a, b \in S : a # b /\ Act[a].at = Act[b].at /\ Node(a) = Node(b)
RegistersAgree ==
    \A r, p \in Replicas : \A x \in Registers :
        /\ reg[r][x] # reg[p][x]
        /\ torn[r] = {} /\ torn[p] = {}
        /\ Writers(r, x) = Writers(p, x)
        => Tied(Writers(r, x))

\* A restart gives a member another role only if, after a removal, an Enroll was
\* taken that is older than one taken before it.
OlderTakenLater(r, g) ==
    \E i, j \in DOMAIN rows[r] :
        /\ i < j /\ {rows[r][i].act, rows[r][j].act} \subseteq Enrolls(g)
        /\ Wins(rows[r][i].act, rows[r][j].act)
        /\ RemovedAfter(r, rows[r][i].act)
RolesSurvive ==
    \A r \in Replicas : \A g \in Members(r) :
        roles[r][g] # reg[r][<<"role", g>>] => OlderTakenLater(r, g)

\* Replicas agree with one another on members and registers wherever the order
\* that matters did, and each agrees with what it would be after a restart.
ReplicasAgree == SameOrderSameMembers /\ RegistersAgree /\ RolesSurvive
=============================================================================
