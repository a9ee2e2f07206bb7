------------------------------ MODULE Allocation ------------------------------
(***************************************************************************)
(* The commit-reveal auction of a hub: allocation/allocator.ts over the    *)
(* alloc_* tables.  A task is announced with a bid window, members commit  *)
(* to sealed bids inside it and reveal them after it; closeAuction runs    *)
(* the announced rule over the revealed bids and publishes an Award, whose *)
(* performers have until acceptBy to accept; the sweep re-auctions an      *)
(* award that was not accepted, over the pool without the failed winners.  *)
(*                                                                         *)
(* Handlers are synchronous, so each is one step; but no transaction spans *)
(* the statements of one, and the process may be killed between any two.   *)
(* Messages may arrive late: a commit published inside the window is       *)
(* admitted whenever it comes, while the auction is still bidding.         *)
(*                                                                         *)
(* Instants are abstracted to the two facts the code compares them for:    *)
(* whether a task's window has closed and whether acceptBy has passed.     *)
(***************************************************************************)
EXTENDS Integers, FiniteSets

CONSTANTS
    Tasks,
    Bidders,        \* enrolled agents of role member
    Estimators,     \* per task: estimators its announce excludes from bidding
    Wall,           \* per task: afp:excludePerformersOf
    Choice,         \* the selection rule: performers chosen from a pool of bidders
    MaxKills        \* bound: times the process is killed inside a handler

\* Every bidder commits to one payload, so a rule is a function of the pool; an empty
\* choice stands for no selection and for one that misses the answer sufficiency.
ASSUME AllocationAssumption ==
    /\ Estimators \in [Tasks -> SUBSET Bidders]
    /\ Wall \in [Tasks -> SUBSET Tasks]
    /\ \A t \in Tasks : t \notin Wall[t]
    /\ Choice \in [SUBSET Bidders -> SUBSET Bidders]
    /\ \A S \in SUBSET Bidders : Choice[S] \subseteq S
    /\ MaxKills \in Nat

\* An Award.  Its id is that of the task, with a suffix in a re-auction: `again`.  A
\* re-auction's names the id of the prior Award, with the suffix or not: `priorAgain`.
Award == [again : BOOLEAN, priorAgain : BOOLEAN, excluded : SUBSET Bidders,
          performers : SUBSET Bidders]
NoAward == [again |-> FALSE, priorAgain |-> FALSE, excluded |-> {}, performers |-> {}]

\* A row of alloc_pending_accepts.  A task has at most one: the first is written when
\* the auction stops bidding, every other one after its predecessor was deleted.
Row == [open : BOOLEAN, again : BOOLEAN, due : BOOLEAN, missing : SUBSET Bidders]
NoRow == [open |-> FALSE, again |-> FALSE, due |-> FALSE, missing |-> {}]

VARIABLES
    status,     \* alloc_auctions.status; "none" where there is no row
    award,      \* alloc_auctions.award_json; no performers for NULL
    bids,       \* alloc_bids: "none", "committed" or "revealed"
    pending,    \* alloc_pending_accepts
    recorded,   \* tasks with a row in alloc_settlement_records
    closed,     \* tasks whose bid window has closed
    published,  \* the chain: Awards published per task
    settlements,\* the chain: Settlements published per task
    failed,     \* the chain: bidders the Reauctions of the task named
    accepted,   \* history: performers whose Accept the current award took in
    kills

tables == <<status, award, bids, pending, recorded>>
record == <<published, settlements, failed>>
vars == <<tables, record, closed, accepted, kills>>

------------------------------------------------------------------------------
(* Helpers *)

\* revealedBids.
Pool(t) == {b \in Bidders : bids[t][b] = "revealed"}

\* What closeAuction selects, the failed winners excluded.
Selected(t, exclude) == Choice[Pool(t) \ exclude]

AwardFor(t, exclude, again) ==
    [again |-> again, priorAgain |-> again /\ pending[t].again, excluded |-> exclude,
     performers |-> Selected(t, exclude)]

NewRow(t, exclude, again) ==
    IF Selected(t, exclude) = {} THEN NoRow
    ELSE [open |-> TRUE, again |-> again, due |-> FALSE, missing |-> Selected(t, exclude)]

\* The status closeAuction leaves.
Verdict(t, exclude) == IF Selected(t, exclude) = {} THEN "failed" ELSE "awarded"

\* announce refuses a wall whose prior tasks hold no Award.
PriorsAwarded(t) == \A p \in Wall[t] : award[p].performers # {}

\* The walls of onCommit.
MayBid(t, b) ==
    /\ b \notin Estimators[t]
    /\ \A p \in Wall[t] : b \notin award[p].performers

\* Rows the sweep deletes with no more ado, and rows it re-auctions.
Answered == {t \in Tasks : pending[t].open /\ pending[t].missing = {}}
Overdue == {t \in Tasks : pending[t].open /\ pending[t].missing # {} /\ pending[t].due}

------------------------------------------------------------------------------
Init ==
    /\ status = [t \in Tasks |-> "none"]
    /\ award = [t \in Tasks |-> NoAward]
    /\ bids = [t \in Tasks |-> [b \in Bidders |-> "none"]]
    /\ pending = [t \in Tasks |-> NoRow]
    /\ recorded = {}
    /\ closed = {}
    /\ published = [t \in Tasks |-> {}]
    /\ settlements = [t \in Tasks |-> 0]
    /\ failed = [t \in Tasks |-> {}]
    /\ accepted = [t \in Tasks |-> {}]
    /\ kills = 0

Killed == kills < MaxKills /\ kills' = kills + 1

\* announce and onAnnounce.  Callers use a task id once; onAnnounce insists on it.
Announce(t) ==
    /\ status[t] = "none"
    /\ PriorsAwarded(t)
    /\ status' = [status EXCEPT ![t] = "bidding"]
    /\ UNCHANGED <<award, bids, pending, recorded, record, closed, accepted, kills>>

WindowCloses(t) ==
    /\ status[t] # "none" /\ t \notin closed
    /\ closed' = closed \cup {t}
    /\ UNCHANGED <<tables, record, accepted, kills>>

\* A commit published inside the window arrives.
Commit(t, b) ==
    /\ status[t] = "bidding"
    /\ MayBid(t, b)
    /\ bids[t][b] = "none"
    /\ bids' = [bids EXCEPT ![t][b] = "committed"]
    /\ UNCHANGED <<status, award, pending, recorded, record, closed, accepted, kills>>

\* onReveal asks for a commitment and a closed window, and not for the status.
Reveal(t, b) ==
    /\ t \in closed
    /\ bids[t][b] = "committed"
    /\ bids' = [bids EXCEPT ![t][b] = "revealed"]
    /\ UNCHANGED <<status, award, pending, recorded, record, closed, accepted, kills>>

\* The call protocol of closeAuction's callers: once, after the window.
MayClose(t) == status[t] = "bidding" /\ t \in closed

\* closeAuction and publishAward, for every task of S, as first auction or again.
Conclude(S, exclude, again) ==
    LET won == {t \in S : Selected(t, exclude[t]) # {}} IN
    /\ status' = [t \in Tasks |-> IF t \in S THEN Verdict(t, exclude[t]) ELSE status[t]]
    /\ award' = [t \in Tasks |-> IF t \in won THEN AwardFor(t, exclude[t], again) ELSE award[t]]
    /\ published' = [t \in Tasks |->
                        IF t \in won THEN published[t] \cup {AwardFor(t, exclude[t], again)}
                        ELSE published[t]]
    /\ accepted' = [t \in Tasks |-> IF t \in won THEN {} ELSE accepted[t]]

Nobody == [t \in Tasks |-> {}]

CloseAuction(t) ==
    /\ MayClose(t)
    /\ Conclude({t}, Nobody, FALSE)
    /\ pending' = [pending EXCEPT ![t] = NewRow(t, {}, FALSE)]
    /\ UNCHANGED <<bids, recorded, settlements, failed, closed, kills>>

\* An Accept of an Award, perhaps a late copy: the row is looked up by the award's id.
Accept(t, a, b) ==
    /\ a \in published[t] /\ b \in a.performers
    /\ pending[t].open /\ pending[t].again = a.again
    /\ pending' = [pending EXCEPT ![t].missing = @ \ {b}]
    /\ accepted' = [accepted EXCEPT ![t] = @ \cup ({b} \cap pending[t].missing)]
    /\ UNCHANGED <<status, award, bids, recorded, record, closed, kills>>

AcceptByPasses(t) ==
    /\ pending[t].open /\ ~pending[t].due
    /\ pending' = [pending EXCEPT ![t].due = TRUE]
    /\ UNCHANGED <<status, award, bids, recorded, record, closed, accepted, kills>>

FailedWinners == [t \in Tasks |-> pending[t].missing]

\* Mutant: the prior row is deleted when the new one is written.
RowDeletedLast(t) ==
    IF award[t].again THEN NoRow ELSE NewRow(t, pending[t].missing, TRUE)

\* The row is deleted, the rule is run again, and the new Award gets its row.
RowAfterSweep(t) == NewRow(t, pending[t].missing, TRUE)

\* sweepAwards.
Sweep ==
    /\ Answered \cup Overdue # {}
    /\ Conclude(Overdue, FailedWinners, TRUE)
    /\ pending' = [t \in Tasks |-> IF t \in Answered THEN NoRow
                                   ELSE IF t \in Overdue THEN RowAfterSweep(t) ELSE pending[t]]
    /\ failed' = [t \in Tasks |-> IF t \in Overdue THEN failed[t] \cup pending[t].missing
                                  ELSE failed[t]]
    /\ UNCHANGED <<bids, recorded, settlements, closed, kills>>

\* Mutant: a settlement is not looked up before the next one.
Awarded(t) == status[t] = "awarded"

\* The two refusals of settle and onActualsReport.
MaySettle(t) == status[t] = "awarded" /\ t \notin recorded

Settle(t) ==
    /\ MaySettle(t)
    /\ settlements' = [settlements EXCEPT ![t] = @ + 1]
    /\ recorded' = recorded \cup {t}
    /\ UNCHANGED <<status, award, bids, pending, published, failed, closed, accepted, kills>>

------------------------------------------------------------------------------
(* The process is killed inside a handler *)

\* emit comes first in publishAward, then saveAuction.
EmittedFirst(t, exclude, again) ==
    /\ published' = [published EXCEPT ![t] = @ \cup {AwardFor(t, exclude, again)}]
    /\ UNCHANGED <<award, status>>

\* publishAward, cut after the emit or after saveAuction; no row watches the Award.
CutAward(t, exclude, again) ==
    /\ Selected(t, exclude) # {}
    /\ \/ EmittedFirst(t, exclude, again) /\ UNCHANGED accepted
       \/ Conclude({t}, [Nobody EXCEPT ![t] = exclude], again)

KilledInClose(t) ==
    /\ MayClose(t)
    /\ Killed
    /\ CutAward(t, {}, FALSE)
    /\ UNCHANGED <<bids, pending, recorded, settlements, failed, closed>>

\* The row is gone, and the Reauction may be out; then publishAward may be cut too.
KilledInSweep(t) ==
    /\ t \in Overdue
    /\ Killed
    /\ pending' = [pending EXCEPT ![t] = NoRow]
    /\ \/ /\ failed' \in {failed, [failed EXCEPT ![t] = @ \cup pending[t].missing]}
          /\ UNCHANGED <<status, award, published, accepted>>
       \/ /\ failed' = [failed EXCEPT ![t] = @ \cup pending[t].missing]
          /\ CutAward(t, pending[t].missing, TRUE)
    /\ UNCHANGED <<bids, recorded, settlements, closed>>

\* The Settlement is out and has no settlement record.
KilledInSettle(t) ==
    /\ MaySettle(t)
    /\ Killed
    /\ settlements' = [settlements EXCEPT ![t] = @ + 1]
    /\ UNCHANGED <<tables, published, failed, closed, accepted>>

------------------------------------------------------------------------------
Next ==
    \/ \E t \in Tasks :
        \/ Announce(t) \/ WindowCloses(t) \/ CloseAuction(t) \/ AcceptByPasses(t) \/ Settle(t)
        \/ \E b \in Bidders :
            \/ Commit(t, b) \/ Reveal(t, b)
            \/ \E a \in published[t] : Accept(t, a, b)
        \/ KilledInClose(t) \/ KilledInSweep(t) \/ KilledInSettle(t)
    \/ Sweep

Spec == Init /\ [][Next]_vars

------------------------------------------------------------------------------
(* Properties *)

\* Every table holds what its columns may hold.
TypeOK ==
    /\ status \in [Tasks -> {"none", "bidding", "awarded", "failed"}]
    /\ award \in [Tasks -> Award]
    /\ bids \in [Tasks -> [Bidders -> {"none", "committed", "revealed"}]]
    /\ pending \in [Tasks -> Row]
    /\ recorded \subseteq Tasks /\ closed \subseteq Tasks
    /\ published \in [Tasks -> SUBSET Award]
    /\ settlements \in [Tasks -> Nat]
    /\ failed \in [Tasks -> SUBSET Bidders]
    /\ accepted \in [Tasks -> SUBSET Bidders]
    /\ kills \in Nat

\* What the auction's row says was awarded is on the chain for every member to
\* recompute, wherever the process was killed, and every performer in it revealed a bid.
RecordBacksRow ==
    \A t \in Tasks :
        /\ award[t].performers # {} => award[t] \in published[t]
        /\ status[t] = "awarded" => award[t].performers # {}
        /\ \A a \in published[t] : a.performers \subseteq Pool(t)

\* While the process lives, each performer of an awarded task has accepted or is
\* watched by the row the sweep will find, through any number of re-auctions.
Watched ==
    kills = 0 =>
        \A t \in Tasks : status[t] = "awarded" =>
            \A b \in award[t].performers :
                b \in accepted[t] \/ (pending[t].open /\ b \in pending[t].missing)

\* Nobody performs both a task and one whose performers it excludes, as long as the
\* prior task was not re-auctioned.
WallHolds ==
    \A t \in Tasks : \A p \in Wall[t] :
        failed[p] = {} => award[t].performers \cap award[p].performers = {}

\* A task is settled once, but for one more time per kill, and never unawarded.
SettledOnce ==
    \A t \in Tasks :
        /\ settlements[t] <= 1 + kills
        /\ settlements[t] > 0 => published[t] # {}

\* Of the prior tasks of a wall: they hold an Award from the announce on, and unless it
\* was re-auctioned it is the one every bid still in was checked against.
WallKept ==
    \A t \in Tasks :
        /\ status[t] \in {"none", "bidding"} => award[t].performers = {}
        /\ status[t] # "none" => \A p \in Wall[t] : award[p].performers # {}
        /\ \A b \in Bidders : bids[t][b] # "none" =>
              /\ status[t] # "none"
              /\ \A p \in Wall[t] : failed[p] = {} => b \notin award[p].performers

\* One Settlement per settlement record, and one per kill.
SettlementsCounted ==
    \A t \in Tasks :
        /\ settlements[t] <= kills + (IF t \in recorded THEN 1 ELSE 0)
        /\ settlements[t] > 0 => published[t] # {}

RowHasAuction == \A t \in Tasks : pending[t].open => status[t] # "none"

\* The inductive invariant behind RecordBacksRow, WallHolds and SettledOnce.
AuctionInv == RecordBacksRow /\ WallKept /\ SettlementsCounted /\ RowHasAuction

\* Whom a re-auction leaves out won before: all the bidders an Award excludes are
\* performers of one published Award that bears the id it names as its prior, however
\* often the task is auctioned again and wherever the process is killed.
Justifies(t, again, left) ==
    \E prior \in published[t] : prior.again = again /\ left \subseteq prior.performers
ExclusionsJustified ==
    \A t \in Tasks : \A a \in published[t] : a.again => Justifies(t, a.priorAgain, a.excluded)
=============================================================================
