------------------------------ MODULE Bundles ------------------------------
(***************************************************************************)
(* The bundle an instance exports for a reader who was not there           *)
(* (export.ts exportBundle), under a scope, from a record that grows and   *)
(* into a directory that may hold an older bundle; and the replay a reader *)
(* makes of one bundle and of two (src/verifier).                          *)
(*                                                                         *)
(* The digest of an activity is its number n.  Signatures, key histories,  *)
(* the actor and policy documents and the artifacts travel with every      *)
(* bundle alike and are left out.                                          *)
(***************************************************************************)
EXTENDS Integers, Sequences, FiniteSets, SequencesExt

CONSTANTS
    Exporters,      \* instances
    Staff,          \* per instance: itself and the names of its agents
    Pacts,          \* per federation agreement: the instances it names
    Openness,       \* the disclosure classes, most open first
    Duties,         \* [at, by, body]: what an author may post;
                    \*  body: [thread, class, kind, admitted, crosses], and the pact of a create
    Requests,       \* [scope: the fields set of threads, floor, agreement; omit: agents;
                    \*  hosted, received: whether the hubs, the received are given]
    MaxActivities   \* bound: activities in all

Hub == "hub"
Received == "received.jsonld"
Authors == Staff \cup {Hub}
Sorts == {"task", "answer", "create", "talk"}

ASSUME BundlesAssumption ==
    /\ IsFiniteSet(Exporters) /\ IsFiniteSet(Staff) /\ {Hub, Received} \cap Staff = {}
    /\ \A r \in Requests : DOMAIN r.scope \subseteq {"threads", "floor", "agreement"} /\ r.omit \subseteq Staff
    /\ \A d \in Duties :
        /\ d.at \in Exporters /\ d.by \in Authors /\ d.body.kind \in Sorts /\ d.body.class \in ToSet(Openness)
        /\ d.body.kind \in {"answer", "create"} => d.by # Hub
        /\ d.body.kind = "create" => d.body.pact \in DOMAIN Pacts /\ ~d.body.admitted
    /\ MaxActivities \in Nat

VARIABLES
    chains,     \* per instance and author: its chain
    taken,      \* per instance: received_activities, verbatim, in no order
    bundle      \* per instance: the export directory, files and MANIFEST.json

bundleVars == <<chains, taken, bundle>>

Withheld == -1
NoManifest == [members |-> {}]
EmptyDirectory == [files |-> <<>>, manifest |-> NoManifest]

Written(i) == bundle[i].manifest # NoManifest
InChains(own, as) == UNION {ToSet(own[a]) : a \in as}
Own(i) == InChains(chains[i], Authors)
Posted == Cardinality(UNION {Own(i) : i \in Exporters})

------------------------------------------------------------------------------
(* The record *)

\* An outbox grows; what acts on a task (allocation/actions.ts) is an agent's,
\* and the task one that its instance holds.
Write(d) ==
    /\ Posted < MaxActivities
    /\ d.body.kind = "answer" =>
         \E x \in Own(d.at) \cup taken[d.at] : x.body.kind = "task" /\ x.body.thread = d.body.thread
    /\ \E c \in {chains[d.at][d.by]} :
         chains' = [chains EXCEPT ![d.at][d.by] = Append(c,
            [n |-> Posted + 1, at |-> d.at, body |-> d.body, prev |-> IF c = <<>> THEN 0 ELSE Last(c).n])]
    /\ UNCHANGED <<taken, bundle>>

\* What crossed the boundary is kept as it came.
Arrives(i, x) ==
    /\ x.at # i /\ x.body.crosses /\ x \notin taken[i]
    /\ taken' = [taken EXCEPT ![i] = @ \cup {x}]
    /\ UNCHANGED <<chains, bundle>>

------------------------------------------------------------------------------
(* exportBundle *)

Rank(class) == CHOOSE k \in DOMAIN Openness : Openness[k] = class

Sets(s, field) == field \in DOMAIN s
WithinFloor(s, b) == Rank(b.class) <= Rank(s.floor)

\* One field decides, the first that is set.
InScope(s, x) ==
    IF Sets(s, "threads") THEN x.body.thread \in s.threads
    ELSE IF Sets(s, "floor") THEN WithinFloor(s, x.body)
    ELSE Sets(s, "agreement") => x.body.admitted

\* writeOutbox: what is withheld leaves its digest in its place.
Redacted(s, c) ==
    [k \in DOMAIN c |-> IF InScope(s, c[k]) THEN c[k] ELSE [n |-> c[k].n, prev |-> Withheld]]

\* A task withheld of which an answer is disclosed.
Splits(all, r) ==
    \E task, answer \in all :
        /\ task.body.kind = "task" /\ ~InScope(r.scope, task)
        /\ answer.body.kind = "answer" /\ InScope(r.scope, answer)
        /\ task.body.thread = answer.body.thread
\* Mutant: what was received carries no pins.
PinsSplitInOwn(own, got, r) == Splits(InChains(own, Authors), r)
\* assertPinsTravelWithAnswers refuses.
PinsSplit(own, got, r) ==
    Splits(InChains(own, IF r.hosted THEN Authors ELSE Staff) \cup IF r.received THEN got ELSE {}, r)

\* received.jsonld, which is no chain: what is withheld is dropped.
Evidence(got, s) == {x \in got : InScope(s, x)}

\* The outboxes of instance and agents under the scope, of the hubs in full.
Files(own, got, r) ==
    LET evidence == IF r.received THEN Evidence(got, r.scope) ELSE {} IN
    [f \in (Staff \ r.omit) \cup (IF r.hosted THEN {Hub} ELSE {})
               \cup (IF evidence = {} THEN {} ELSE {Received}) |->
        IF f = Received THEN evidence ELSE IF f = Hub THEN own[f] ELSE Redacted(r.scope, own[f])]

\* The directory is removed first.
IntoNewDirectory(i, files) == files

Export(i, r) ==
    /\ ~PinsSplit(chains[i], taken[i], r)
    /\ \E files \in {Files(chains[i], taken[i], r)} :
         bundle' = [bundle EXCEPT ![i] =
            [files |-> IntoNewDirectory(i, files),
             manifest |-> [members |-> DOMAIN files, request |-> r, exportedAt |-> Posted]]]
    /\ UNCHANGED <<chains, taken>>

\* The guard refuses (the old bundle is gone by then), or a throw or a kill, early
\* or late, leaves the files there are without a manifest.
ExportFails(i, r) ==
    /\ \E files \in {Files(chains[i], taken[i], r)} :
       \E done \in {{}} \cup IF PinsSplit(chains[i], taken[i], r) THEN {} ELSE {DOMAIN files} :
         bundle' = [bundle EXCEPT ![i] =
            [files |-> IntoNewDirectory(i, [f \in done |-> files[f]]), manifest |-> NoManifest]]
    /\ UNCHANGED <<chains, taken>>

BundlesInit ==
    /\ chains = [i \in Exporters |-> [a \in Authors |-> <<>>]]
    /\ taken = [i \in Exporters |-> {}]
    /\ bundle = [i \in Exporters |-> EmptyDirectory]

BundlesNext ==
    \/ \E d \in Duties : Write(d)
    \/ \E i, j \in Exporters : \E x \in Own(j) : Arrives(i, x)
    \/ \E i \in Exporters, r \in Requests : Export(i, r)
    \/ \E i \in Exporters, r \in Requests : ExportFails(i, r)

BundlesSpec == BundlesInit /\ [][BundlesNext]_bundleVars

------------------------------------------------------------------------------
(* The replay: what a reader has is the directory *)

IsStub(item) == item.prev = Withheld
Items(i, f) == bundle[i].files[f]
Activities(i, f) == IF f = Received THEN Items(i, f) ELSE {x \in ToSet(Items(i, f)) : ~IsStub(x)}
Outboxes(i) == DOMAIN bundle[i].files \ {Received}
Disclosed(i, fs) == UNION {Activities(i, f) : f \in fs}

\* check_chain
Replays(items) ==
    \A k \in DOMAIN items : ~IsStub(items[k]) =>
        /\ items[k].prev = IF k = 1 THEN 0 ELSE items[k-1].n
        /\ \A h \in 1..(k-1) : ~IsStub(items[h]) => items[h].n < items[k].n

\* check_export_scope, of the fields the manifest declares.
WithinDeclared(i, x) ==
    LET s == bundle[i].manifest.request.scope IN
    /\ Sets(s, "threads") => x.body.thread \in s.threads
    /\ Sets(s, "floor") => WithinFloor(s, x.body)
    /\ Sets(s, "agreement") => x.body.admitted \/ x.body.kind = "create"

\* check_disclosed_answers_keep_their_pins, of the answers of the exporter.
AnswersKeepPins(i) ==
    LET pool == Disclosed(i, DOMAIN bundle[i].files) IN
    \A x \in pool : x.at = i /\ x.body.kind = "answer" =>
        \E y \in pool : y.body.kind = "task" /\ y.body.thread = x.body.thread

Creates(x, g) == x.body.kind = "create" /\ x.body.pact = g
Holds(i, g) == \E x \in Disclosed(i, Outboxes(i)) : Creates(x, g)

\* check_export_scope: the agreement a bundle is scoped to travels with it.
ScopeTravels(i) ==
    \A s \in {bundle[i].manifest.request.scope} : Sets(s, "agreement") => Holds(i, s.agreement)

\* check_joint, first: an agreement with j that is in i's bundle is in j's.
AgreementsAgree(i, j) == \A g \in DOMAIN Pacts : j \in Pacts[g] /\ Holds(i, g) => Holds(j, g)

\* check_joint, second: what i has of j is in j's bundle, in full or as a stub.
SentAsReceived(i, j) ==
    \A x \in Disclosed(i, {Received} \cap DOMAIN bundle[i].files) :
        x.at = j => \E f \in Outboxes(j) : \E k \in DOMAIN Items(j, f) : Items(j, f)[k].n = x.n

------------------------------------------------------------------------------
(* Properties *)

\* Whatever the scope withholds, the chains of a bundle replay: the links
\* resolve across the stubs and no activity is missing.
ChainsReplay ==
    \A i \in Exporters : Written(i) =>
        \A a \in Outboxes(i) : Replays(Items(i, a)) /\ \A k \in DOMAIN Items(i, a) : Items(i, a)[k].n > 0

\* What a bundle discloses of the agents and of the counterparties lies within
\* the scope it declares, if the caller set one field of it.
NoMoreThanDeclared ==
    \A i \in Exporters : Written(i) /\ Cardinality(DOMAIN bundle[i].manifest.request.scope) <= 1 =>
        \A x \in Disclosed(i, DOMAIN bundle[i].files \ {Hub}) : WithinDeclared(i, x)

\* An instance discloses what it answered with a task this was judged under,
\* whoever set it, if the export was given all the chains and omits no agent.
PinsTravel ==
    \A i \in Exporters : Written(i) =>
        \/ bundle[i].manifest.request.omit # {} \/ ~bundle[i].manifest.request.hosted \/ ~bundle[i].manifest.request.received
        \/ AnswersKeepPins(i)

\* Instance i had published its Create when it exported, by an author it did not
\* omit and in a scope that shows it.
ShowsItsCreate(i, g) ==
    \E a \in Staff \ bundle[i].manifest.request.omit : \E x \in ToSet(chains[i][a]) :
        /\ Creates(x, g) /\ x.n <= bundle[i].manifest.exportedAt
        /\ InScope(bundle[i].manifest.request.scope, x)

\* An agreement that an instance has published is found in its bundle wherever it
\* may be: a bundle is found to lack the agreement it is scoped to only for want
\* of a Create that its scope shows, which an agreement does not by itself, since
\* no grant of it admits its Create.
AgreementsTravel ==
    \A i \in Exporters : Written(i) =>
        \A s \in {bundle[i].manifest.request.scope} :
            Sets(s, "agreement") /\ ~ScopeTravels(i) => ~ShowsItsCreate(i, s.agreement)

\* Two bundles of one engagement agree.  Of what was sent, whatever each withholds,
\* if the sender exported no earlier than the receiver, with its hubs, and omits no
\* agent: a sender is not blamed for what it did say.  Of the agreements, if what
\* one discloses the other had published and discloses as well: a stub is not enough.
JointReplayHolds ==
    \A i, j \in Exporters : i # j /\ Written(i) /\ Written(j) =>
        /\ /\ bundle[j].manifest.exportedAt >= bundle[i].manifest.exportedAt
           /\ bundle[j].manifest.request.hosted /\ bundle[j].manifest.request.omit = {}
           => SentAsReceived(i, j)
        /\ (\A g \in DOMAIN Pacts : j \in Pacts[g] /\ ShowsItsCreate(i, g) => ShowsItsCreate(j, g))
           => AgreementsAgree(i, j)

\* A manifest declares the files beside it, although exports were made before
\* into the same directory, under other scopes, and some of them failed.
MembersDeclared ==
    \A i \in Exporters : Written(i) => DOMAIN bundle[i].files = bundle[i].manifest.members

\* A bundle is what it declares, replays alone, and beside its counterparty's.
BundlesReplay ==
    /\ MembersDeclared /\ NoMoreThanDeclared /\ ChainsReplay /\ PinsTravel
    /\ AgreementsTravel /\ JointReplayHolds
=============================================================================
