------------------------------ MODULE MCInstance ------------------------------
(* One instance for TLC: the making of its record, its seat at a hub, what its *)
(* controllers approve, and what its operator configured; a behaviour is about *)
(* one of the four.                                                            *)
EXTENDS MCInstanceRecord, Seating, Approval, Charter

VARIABLE about

MCRank == ("a" :> 1) @@ ("b" :> 2)

Entry(n, b) == [name |-> n, brain |-> b, persona |-> TRUE, sound |-> TRUE]
ListOf(es) == [json |-> TRUE, entries |-> es]
Plain == [wrong |-> {}, brain |-> "stub", model |-> "m1", allowed |-> TRUE, controllers |-> {"c"},
          named |-> TRUE, agents |-> ListOf(<<Entry("a", "llm"), Entry("b", "none")>>),
          policy |-> [brains |-> Unstated, controllers |-> {}, faults |-> {}]]
MCVersions ==
    {Plain, [Plain EXCEPT !.agents = ListOf(<<Entry("a", "stub"), Entry("b", "llm")>>)],
     [Plain EXCEPT !.agents = ListOf(<<Entry("a", "llm")>>), !.policy.controllers = {"d"}],
     [Plain EXCEPT !.agents = ListOf(<<Entry("a", "stub"), Entry("a", "llm")>>)],
     [Plain EXCEPT !.named = FALSE, !.brain = "llm", !.agents.json = FALSE],
     [Plain EXCEPT !.allowed = FALSE, !.policy.brains = {"stub"}],
     [Plain EXCEPT !.wrong = {"interval"}],
     [Plain EXCEPT !.agents.json = FALSE, !.policy.faults = {"json"}]}

InstanceInit ==
    /\ about \in {"record", "seat", "approvals", "charter"}
    /\ Init /\ SeatInit /\ ApprovalInit /\ CharterInit
    /\ about = "record" \/ plan = Acted
    /\ about = "charter" \/ settings = Plain
InstanceNext ==
    \/ about = "record" /\ Next /\ UNCHANGED <<seatVars, approvalVars, charterVars, about>>
    \/ about = "seat" /\ SeatNext /\ UNCHANGED <<vars, approvalVars, charterVars, about>>
    \/ about = "approvals" /\ ApprovalNext /\ UNCHANGED <<vars, seatVars, charterVars, about>>
    \/ about = "charter" /\ CharterNext /\ UNCHANGED <<vars, seatVars, approvalVars, about>>
InstanceSpec == InstanceInit /\ [][InstanceNext]_<<vars, seatVars, approvalVars, charterVars, about>>
=============================================================================
