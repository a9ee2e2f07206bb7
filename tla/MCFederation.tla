---------------------------- MODULE MCFederation ----------------------------
(* Federation for TLC: three operators, a renewed agreement and one elsewhere; *)
(* one hop between two of them; and the bundles two export.  A behaviour is    *)
(* about one of the three.                                                    *)
EXTENDS Federation, HopDoor, Bundles

CONSTANTS a, b, c, g1, g2, g3, w1, w2, w3, h
VARIABLE about

BetweenDef == [g \in Agreements |-> IF g = g3 THEN {a, c} ELSE {a, b}]
ExpiresDef == [g \in Agreements |-> IF g = g1 THEN 2 ELSE 3]
Work(caps) == [hub |-> None, caps |-> caps]
GrantsDef == [g \in Agreements |->
    CASE g = g1 -> {Work({"x"})} [] g = g2 -> {Work({"y"}), [hub |-> h, caps |-> {}]}
      [] OTHER -> {Work({"x", "y"})}]
ByA == [w \in Works |-> a]
AtB == [w \in Works |-> IF w = w3 THEN c ELSE b]
Caps == [w \in Works |-> IF w = w1 THEN "x" ELSE "y"]
HostDef == [x \in Hubs |-> a]
SeatedDef == [x \in Hubs |-> {a, b, c}]
ProofDef == [p \in Parties |-> [x \in Hubs |-> IF p = b THEN 3 ELSE 0]]
AuditsDef == [p \in Parties |-> IF p # a THEN {} ELSE {[auditor |-> c, classes |-> {"parties"}, expires |-> 3]}]
AttachedDef == [x \in {w3, h} |-> "doc"]

Level == [p \in Parties |-> 0]
Quiet == [held |-> {}, signs |-> {}, works |-> {}, posts |-> {}, denies |-> {}, reads |-> {},
          ahead |-> Level, mortal |-> {}, until |-> 2]
Signs(g) == BetweenDef[g] \X {g}

Scenarios ==
    {\* an agreement signed by both, in spite of a kill
     [Quiet EXCEPT !.signs = Signs(g2), !.works = {w2}, !.mortal = {b}, !.until = 1],
     \* signed by one of the two, and by a third party; and one with the third
     [Quiet EXCEPT !.signs = {<<b, g1>>, <<c, g1>>}, !.held = {g3}, !.works = {w1}],
     \* work under an agreement that runs out, with a kill
     [Quiet EXCEPT !.held = {g1}, !.works = {w1}, !.mortal = {a}],
     \* work accepted too late, and the agreement renewed afterwards
     [Quiet EXCEPT !.held = {g1}, !.signs = Signs(g2), !.works = {w1}, !.ahead = [Level EXCEPT ![b] = 1]],
     \* work, and the door closed
     [Quiet EXCEPT !.held = {g1}, !.works = {w1}, !.denies = {<<a, b>>}],
     \* work with the worker's clock ahead
     [Quiet EXCEPT !.held = {g2}, !.works = {w2}, !.ahead = [Level EXCEPT ![b] = 1], !.until = 3],
     \* hub traffic, from inside and outside, with the clock of one far ahead
     [Quiet EXCEPT !.held = {g2, g3}, !.posts = {<<a, h>>, <<b, h>>, <<c, h>>},
                   !.denies = {<<a, b>>}, !.ahead = [Level EXCEPT ![b] = 2]],
     \* reads of work and of posts, with a grant, until they end
     [Quiet EXCEPT !.held = {g2}, !.posts = {<<a, h>>}, !.works = {w3},
                   !.reads = {<<b, a>>, <<c, a>>}, !.denies = {<<a, c>>}, !.until = 3]}

\* A hop: both retried; one retried, repeated by the network and killed; and so on.
CarriesDef == [d \in Deliveries |-> d]
Budget(one, two, again, down, fails, ahead) ==
    [tries |-> [d \in Deliveries |-> IF d = "d1" THEN one ELSE two],
     again |-> again, down |-> down, fails |-> fails, ahead |-> ahead]
SomeBudgets == {Budget(2, 2, 0, 0, 0, 0), Budget(2, 0, 1, 1, 0, 0), Budget(1, 1, 1, 0, 0, 1),
                Budget(1, 1, 0, 1, 0, -1), Budget(1, 1, 0, 0, 1, 0)}

\* The answers and the hub of one instance, the task the other set it, and the
\* Creates of both; what each of the scopes withholds is among them.
Body(thread, class, kind, admitted, crosses) ==
    [thread |-> thread, class |-> class, kind |-> kind, admitted |-> admitted, crosses |-> crosses]
Signing(class) == Body("t2", class, "create", FALSE, FALSE) @@ [pact |-> "pact"]
DutiesDef ==
    {[at |-> "A", by |-> "p", body |-> Body("t1", "public", "answer", TRUE, TRUE)],
     [at |-> "A", by |-> "p", body |-> Signing("parties")],
     [at |-> "A", by |-> Hub, body |-> Body("t2", "public", "talk", FALSE, TRUE)],
     [at |-> "B", by |-> "p", body |-> Body("t1", "parties", "task", FALSE, TRUE)],
     [at |-> "B", by |-> "p", body |-> Signing("public")]}
PactsDef == [g \in {"pact"} |-> {"A", "B"}]
InFull(scope) == [scope |-> scope, omit |-> {}, hosted |-> TRUE, received |-> TRUE]
RequestsDef ==
    {[InFull(<<>>) EXCEPT !.omit = {"p"}], InFull([threads |-> {"t1"}]),
     InFull([floor |-> "public"]), InFull([agreement |-> "pact"]),
     InFull([threads |-> {"t2"}, agreement |-> "pact"])}
OpennessDef == <<"public", "parties">>

BoundaryInit ==
    /\ about \in {"agreements", "hop", "bundles"}
    /\ Init /\ HopInit /\ BundlesInit
    /\ about # "agreements" => plan = [Quiet EXCEPT !.held = {g1}, !.works = {w1}, !.mortal = {a}]
    /\ about # "hop" => left = Budget(1, 1, 0, 0, 1, 0) /\ knows = Schemes
BoundaryNext ==
    \/ about = "agreements" /\ Next /\ UNCHANGED <<hopVars, bundleVars, about>>
    \/ about = "hop" /\ HopNext /\ UNCHANGED <<vars, bundleVars, about>>
    \/ about = "bundles" /\ BundlesNext /\ UNCHANGED <<vars, hopVars, about>>
BoundarySpec == BoundaryInit /\ [][BoundaryNext]_<<vars, hopVars, bundleVars, about>>
=============================================================================
