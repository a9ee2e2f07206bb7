--------------------------- MODULE ReliableDelivery ---------------------------
(***************************************************************************)
(* What the delivery queue promises the code that publishes activities:    *)
(* delivery to the peer at least once, or an item given up, and an outcome *)
(* that never changes.  Retries, schedules, passes and crashes are hidden; *)
(* what shows is what the peer took in and what the chain reports.         *)
(***************************************************************************)
EXTENDS Naturals

CONSTANT Items

VARIABLES
    status,     \* per item: "none", "pending", "delivered" or "dead"
    copies,     \* per item: times the peer took it in
    reports     \* per item: Errors that tell of its dead letter

contractVars == <<status, copies, reports>>

ContractInit ==
    /\ status = [i \in Items |-> "none"]
    /\ copies = [i \in Items |-> 0]
    /\ reports = [i \in Items |-> 0]

Submit(i) ==
    /\ status[i] = "none"
    /\ status' = [status EXCEPT ![i] = "pending"]
    /\ UNCHANGED <<copies, reports>>

\* The peer takes the item in, and no answer gets back.
Arrive(i) ==
    /\ status[i] = "pending"
    /\ copies' = [copies EXCEPT ![i] = @ + 1]
    /\ UNCHANGED <<status, reports>>

\* The peer takes the item in and the queue learns of it.
Deliver(i) ==
    /\ status[i] = "pending"
    /\ status' = [status EXCEPT ![i] = "delivered"]
    /\ copies' = [copies EXCEPT ![i] = @ + 1]
    /\ UNCHANGED reports

\* The last hop failed, for all the queue knows; the peer may have the item.
GiveUp(i) ==
    /\ status[i] = "pending"
    /\ status' = [status EXCEPT ![i] = "dead"]
    /\ copies' \in {copies, [copies EXCEPT ![i] = @ + 1]}
    /\ UNCHANGED reports

\* A batch of items given up is reported, each for the first time.
Report(S) ==
    /\ \A i \in S : status[i] = "dead" /\ reports[i] = 0
    /\ reports' = [i \in Items |-> IF i \in S THEN 1 ELSE reports[i]]
    /\ UNCHANGED <<status, copies>>

ContractNext ==
    \/ \E i \in Items : Submit(i) \/ Arrive(i) \/ Deliver(i) \/ GiveUp(i)
    \/ \E S \in SUBSET Items : Report(S)

Contract == ContractInit /\ [][ContractNext]_contractVars

=============================================================================
