--------------------------- MODULE AllocationProofs ---------------------------
(***************************************************************************)
(* Proofs about the auction and the arithmetic around it.  Allocation, for *)
(* every set of tasks and bidders, every selection rule and any number of  *)
(* kills: what closeAuction does to the tables is stated once (Advances)   *)
(* and used for the first auction, for the sweep and for the kills inside  *)
(* either.  SelectionRules, for every history of reputation and every pool *)
(* of bids, and Contribution, for every record of a period, from what is   *)
(* proved of orders, folds and sums over finite sets.                      *)
(***************************************************************************)
EXTENDS Allocation, SelectionRules, Contribution, FiniteSetTheorems, WellFoundedInduction,
        SequenceTheorems, TLAPS

USE AllocationAssumption

------------------------------------------------------------------------------
(* What a selection is *)

\* A selection comes from the revealed bids of bidders that are not excluded.
LEMMA SelectedInPool ==
    ASSUME NEW t \in Tasks, NEW exclude
    PROVE  /\ Selected(t, exclude) \subseteq Pool(t)
           /\ Selected(t, exclude) \in SUBSET Bidders
<1>1. Pool(t) \ exclude \in SUBSET Bidders
    BY DEF Pool
<1>2. Choice[Pool(t) \ exclude] \subseteq Pool(t) \ exclude
    BY <1>1 DEF AllocationAssumption
<1> QED BY <1>1, <1>2 DEF Selected

\* An Award made from a typed state is an Award.
LEMMA AwardForTyped ==
    ASSUME TypeOK, NEW t \in Tasks, NEW exclude \in SUBSET Bidders, NEW again \in BOOLEAN
    PROVE  AwardFor(t, exclude, again) \in Award
<1>1. pending[t].again \in BOOLEAN
    BY DEF TypeOK, Row
<1>2. Selected(t, exclude) \in SUBSET Bidders
    BY SelectedInPool
<1> QED BY <1>1, <1>2 DEF AwardFor, Award

\* The row that watches an Award is a row.
LEMMA NewRowTyped ==
    ASSUME NEW t \in Tasks, NEW exclude, NEW again \in BOOLEAN
    PROVE  NewRow(t, exclude, again) \in Row
BY SelectedInPool DEF NewRow, NoRow, Row

\* What each step that touches an auction does to it: the first three tables and the
\* chain move together, and neither bids nor statuses of other tasks are disturbed.
Advances(S) ==
    /\ status' \in [Tasks -> {"none", "bidding", "awarded", "failed"}]
    /\ award' \in [Tasks -> Award]
    /\ published' \in [Tasks -> SUBSET Award]
    /\ accepted' \in [Tasks -> SUBSET Bidders]
    /\ \A t \in Tasks : published[t] \subseteq published'[t]
    /\ \A t \in Tasks : \A a \in published'[t] :
          a \in published[t] \/ a.performers \subseteq Pool(t)
    /\ \A t \in Tasks :
          \/ award'[t] = award[t] /\ status'[t] = status[t]
          \/ t \in S /\ award'[t] = award[t] /\ status'[t] = "failed"
          \/ /\ t \in S /\ status'[t] = "awarded"
             /\ award'[t] \in published'[t]
             /\ award'[t].performers # {}
             /\ award'[t].performers \subseteq Pool(t)

LEMMA ConcludeAdvances ==
    ASSUME TypeOK,
           NEW S \in SUBSET Tasks, NEW exclude \in [Tasks -> SUBSET Bidders],
           NEW again \in BOOLEAN,
           Conclude(S, exclude, again)
    PROVE  Advances(S)
<1> DEFINE won == {t \in S : Selected(t, exclude[t]) # {}}
<1> DEFINE new(t) == AwardFor(t, exclude[t], again)
<1>1. \A t \in Tasks : new(t) \in Award
    BY AwardForTyped
<1>2. \A t \in Tasks : new(t).performers = Selected(t, exclude[t])
    BY DEF AwardFor
<1>3. /\ status' = [t \in Tasks |-> IF t \in S THEN Verdict(t, exclude[t]) ELSE status[t]]
      /\ award' = [t \in Tasks |-> IF t \in won THEN new(t) ELSE award[t]]
      /\ published' = [t \in Tasks |-> IF t \in won THEN published[t] \cup {new(t)}
                                       ELSE published[t]]
      /\ accepted' = [t \in Tasks |-> IF t \in won THEN {} ELSE accepted[t]]
    BY DEF Conclude
<1> HIDE DEF new
<1>4. status' \in [Tasks -> {"none", "bidding", "awarded", "failed"}]
    BY <1>3 DEF TypeOK, Verdict
<1>5. award' \in [Tasks -> Award] /\ published' \in [Tasks -> SUBSET Award]
    BY <1>1, <1>3 DEF TypeOK
<1>6. accepted' \in [Tasks -> SUBSET Bidders]
    BY <1>3 DEF TypeOK
<1>7. \A t \in Tasks \ S :
          status'[t] = status[t] /\ award'[t] = award[t] /\ published'[t] = published[t]
    BY <1>3
<1>8. ASSUME NEW t \in S, t \notin won
      PROVE  status'[t] = "failed" /\ award'[t] = award[t] /\ published'[t] = published[t]
    BY <1>3, <1>8 DEF Verdict
<1>9. ASSUME NEW t \in won
      PROVE  /\ status'[t] = "awarded"
             /\ published'[t] = published[t] \cup {award'[t]}
             /\ award'[t].performers # {} /\ award'[t].performers \subseteq Pool(t)
    <2>1. t \in Tasks /\ t \in S /\ Selected(t, exclude[t]) # {}
        OBVIOUS
    <2>2. award'[t] = new(t)
        BY <1>3, <2>1
    <2>3. Selected(t, exclude[t]) \subseteq Pool(t)
        BY <2>1, SelectedInPool
    <2> QED BY <1>2, <1>3, <2>1, <2>2, <2>3 DEF Verdict
<1> HIDE DEF won
<1>10. \A t \in Tasks : published[t] \subseteq published'[t]
    BY <1>3
<1>11. ASSUME NEW t \in Tasks, NEW a \in published'[t]
       PROVE  a \in published[t] \/ a.performers \subseteq Pool(t)
    <2>1. CASE t \notin S
        BY <1>7, <2>1
    <2>2. CASE t \in S /\ t \notin won
        BY <1>8, <2>2
    <2>3. CASE t \in won
        BY <1>9, <2>3
    <2> QED BY <2>1, <2>2, <2>3
<1>12. ASSUME NEW t \in Tasks
       PROVE  \/ award'[t] = award[t] /\ status'[t] = status[t]
              \/ t \in S /\ award'[t] = award[t] /\ status'[t] = "failed"
              \/ /\ t \in S /\ status'[t] = "awarded"
                 /\ award'[t] \in published'[t]
                 /\ award'[t].performers # {}
                 /\ award'[t].performers \subseteq Pool(t)
    <2>1. CASE t \notin S
        BY <1>7, <2>1
    <2>2. CASE t \in S /\ t \notin won
        BY <1>8, <2>2
    <2>3. CASE t \in won
        <3>1. t \in S
            BY <2>3 DEF won
        <3>2. award'[t] \in published'[t]
            BY <1>9, <2>3
        <3> QED BY <1>9, <2>3, <3>1, <3>2
    <2> QED BY <2>1, <2>2, <2>3
<1> QED BY <1>4, <1>5, <1>6, <1>10, <1>11, <1>12 DEF Advances

\* publishAward cut after the emit.
LEMMA EmitEffect ==
    ASSUME TypeOK,
           NEW t \in Tasks, NEW exclude \in SUBSET Bidders, NEW again \in BOOLEAN,
           Selected(t, exclude) # {},
           EmittedFirst(t, exclude, again), UNCHANGED accepted
    PROVE  /\ published' \in [Tasks -> SUBSET Award]
           /\ UNCHANGED <<award, status, accepted>>
           /\ \A u \in Tasks : published[u] \subseteq published'[u]
           /\ \A u \in Tasks : \A a \in published'[u] :
                 a \in published[u] \/ a.performers \subseteq Pool(u)
<1>1. AwardFor(t, exclude, again) \in Award
    BY AwardForTyped
<1>2. AwardFor(t, exclude, again).performers \subseteq Pool(t)
    BY SelectedInPool DEF AwardFor
<1>3. published' = [published EXCEPT ![t] = @ \cup {AwardFor(t, exclude, again)}]
    BY DEF EmittedFirst
<1> HIDE DEF AwardFor
<1> QED BY <1>1, <1>2, <1>3 DEF EmittedFirst, TypeOK

LEMMA CutAdvances ==
    ASSUME TypeOK,
           NEW t \in Tasks, NEW exclude \in SUBSET Bidders, NEW again \in BOOLEAN,
           CutAward(t, exclude, again)
    PROVE  Advances({t})
<1>1. CASE EmittedFirst(t, exclude, again) /\ UNCHANGED accepted
    <2>1. Selected(t, exclude) # {}
        BY DEF CutAward
    <2>2. /\ published' \in [Tasks -> SUBSET Award]
          /\ UNCHANGED <<award, status, accepted>>
          /\ \A u \in Tasks : published[u] \subseteq published'[u]
          /\ \A u \in Tasks : \A a \in published'[u] :
                a \in published[u] \/ a.performers \subseteq Pool(u)
        BY <1>1, <2>1, EmitEffect
    <2> QED BY <2>2 DEF Advances, TypeOK
<1>2. CASE Conclude({t}, [Nobody EXCEPT ![t] = exclude], again)
    <2>1. [Nobody EXCEPT ![t] = exclude] \in [Tasks -> SUBSET Bidders]
        BY DEF Nobody
    <2> DEFINE only == [Nobody EXCEPT ![t] = exclude]
    <2>2. only \in [Tasks -> SUBSET Bidders] /\ Conclude({t}, only, again)
        BY <1>2, <2>1
    <2>3. {t} \in SUBSET Tasks
        OBVIOUS
    <2> HIDE DEF only
    <2> QED BY <2>2, <2>3, ConcludeAdvances
<1> QED BY <1>1, <1>2 DEF CutAward

\* The steps that advance auctions.
LEMMA CloseAdvances ==
    ASSUME TypeOK, NEW t \in Tasks, CloseAuction(t)
    PROVE  Advances({t})
<1>1. Nobody \in [Tasks -> SUBSET Bidders] /\ {t} \in SUBSET Tasks
    BY DEF Nobody
<1> QED BY <1>1, ConcludeAdvances DEF CloseAuction

LEMMA KilledCloseAdvances ==
    ASSUME TypeOK, NEW t \in Tasks, KilledInClose(t)
    PROVE  Advances({t})
<1>1. {} \in SUBSET Bidders /\ FALSE \in BOOLEAN /\ CutAward(t, {}, FALSE)
    BY DEF KilledInClose
<1> QED BY <1>1, CutAdvances

LEMMA SweepAdvances ==
    ASSUME TypeOK, Sweep
    PROVE  Advances(Overdue)
<1>1. FailedWinners \in [Tasks -> SUBSET Bidders] /\ Overdue \in SUBSET Tasks
    BY DEF FailedWinners, Overdue, TypeOK, Row
<1> QED BY <1>1, ConcludeAdvances DEF Sweep

LEMMA KilledSweepAdvances ==
    ASSUME TypeOK, NEW t \in Tasks, KilledInSweep(t)
    PROVE  \/ UNCHANGED <<status, award, published, accepted>>
           \/ Advances({t}) /\ failed'[t] # {}
<1>1. pending[t].missing \in SUBSET Bidders
    BY DEF TypeOK, Row
<1>2. CASE UNCHANGED <<status, award, published, accepted>>
    BY <1>2
<1>3. CASE /\ failed' = [failed EXCEPT ![t] = @ \cup pending[t].missing]
           /\ CutAward(t, pending[t].missing, TRUE)
    <2>1. Advances({t})
        BY <1>1, <1>3, CutAdvances
    <2>2. failed'[t] # {}
        BY <1>3 DEF KilledInSweep, Overdue, TypeOK
    <2> QED BY <2>1, <2>2
<1> QED BY <1>2, <1>3 DEF KilledInSweep

------------------------------------------------------------------------------
(* Type correctness *)

LEMMA TypeInit == Init => TypeOK
BY DEF Init, TypeOK, NoAward, Award, NoRow, Row, AllocationAssumption

LEMMA TypeStep ==
    ASSUME TypeOK, [Next]_vars
    PROVE  TypeOK'
<1> USE DEF tables, record
<1>1. ASSUME NEW t \in Tasks, Announce(t) PROVE TypeOK'
    BY <1>1 DEF Announce, TypeOK
<1>2. ASSUME NEW t \in Tasks, WindowCloses(t) PROVE TypeOK'
    BY <1>2 DEF WindowCloses, TypeOK
<1>3. ASSUME NEW t \in Tasks, CloseAuction(t) PROVE TypeOK'
    <2>1. Advances({t})
        BY <1>3, CloseAdvances
    <2>2. pending' \in [Tasks -> Row]
        <3>1. NewRow(t, {}, FALSE) \in Row
            BY NewRowTyped
        <3> QED BY <1>3, <3>1 DEF CloseAuction, TypeOK
    <2> QED BY <1>3, <2>1, <2>2 DEF CloseAuction, Advances, TypeOK
<1>4. ASSUME NEW t \in Tasks, AcceptByPasses(t) PROVE TypeOK'
    <2>1. [pending[t] EXCEPT !.due = TRUE] \in Row
        <3>1. pending[t] \in Row
            BY DEF TypeOK
        <3> QED BY <3>1 DEF Row
    <2> QED BY <1>4, <2>1 DEF AcceptByPasses, TypeOK
<1>5. ASSUME NEW t \in Tasks, Settle(t) PROVE TypeOK'
    BY <1>5 DEF Settle, TypeOK
<1>6. ASSUME NEW t \in Tasks, NEW b \in Bidders, Commit(t, b) PROVE TypeOK'
    BY <1>6 DEF Commit, TypeOK
<1>7. ASSUME NEW t \in Tasks, NEW b \in Bidders, Reveal(t, b) PROVE TypeOK'
    BY <1>7 DEF Reveal, TypeOK
<1>8. ASSUME NEW t \in Tasks, NEW b \in Bidders, NEW a \in published[t], Accept(t, a, b)
      PROVE TypeOK'
    <2>1. pending' \in [Tasks -> Row]
        <3>1. [pending[t] EXCEPT !.missing = @ \ {b}] \in Row
            <4>1. pending[t] \in Row
                BY DEF TypeOK
            <4> QED BY <4>1 DEF Row
        <3> QED BY <1>8, <3>1 DEF Accept, TypeOK
    <2>2. accepted' \in [Tasks -> SUBSET Bidders]
        BY <1>8 DEF Accept, TypeOK
    <2> QED BY <1>8, <2>1, <2>2 DEF Accept, TypeOK
<1>9. ASSUME NEW t \in Tasks, KilledInClose(t) PROVE TypeOK'
    <2>1. Advances({t})
        BY <1>9, KilledCloseAdvances
    <2> QED BY <1>9, <2>1 DEF KilledInClose, Killed, Advances, TypeOK
<1>10. ASSUME NEW t \in Tasks, KilledInSweep(t) PROVE TypeOK'
    <2>1. pending[t].missing \in SUBSET Bidders
        BY DEF TypeOK, Row
    <2>2. pending' \in [Tasks -> Row] /\ failed' \in [Tasks -> SUBSET Bidders] /\ kills' \in Nat
        <3>1. pending' \in [Tasks -> Row] /\ kills' \in Nat
            BY <1>10 DEF KilledInSweep, Killed, TypeOK, NoRow, Row
        <3> DEFINE more == [failed EXCEPT ![t] = @ \cup pending[t].missing]
        <3>2. more \in [Tasks -> SUBSET Bidders]
            BY <2>1 DEF TypeOK
        <3>3. failed' = failed \/ failed' = more
            BY <1>10 DEF KilledInSweep
        <3> QED BY <3>1, <3>2, <3>3 DEF TypeOK
    <2>3. CASE UNCHANGED <<status, award, published, accepted>>
        BY <1>10, <2>2, <2>3 DEF KilledInSweep, TypeOK
    <2>4. CASE Advances({t})
        BY <1>10, <2>2, <2>4 DEF KilledInSweep, Advances, TypeOK
    <2> QED BY <1>10, <2>3, <2>4, KilledSweepAdvances
<1>11. ASSUME NEW t \in Tasks, KilledInSettle(t) PROVE TypeOK'
    BY <1>11 DEF KilledInSettle, Killed, TypeOK
<1>12. ASSUME Sweep PROVE TypeOK'
    <2>2. Advances(Overdue)
        BY <1>12, SweepAdvances
    <2>3. pending' \in [Tasks -> Row]
        <3>1. \A t \in Tasks : RowAfterSweep(t) \in Row
            BY NewRowTyped DEF RowAfterSweep
        <3> QED BY <1>12, <3>1 DEF Sweep, TypeOK, NoRow, Row
    <2>4. failed' \in [Tasks -> SUBSET Bidders]
        BY <1>12 DEF Sweep, TypeOK, Row
    <2> QED BY <1>12, <2>2, <2>3, <2>4 DEF Sweep, Advances, TypeOK
<1>13. CASE UNCHANGED vars
    BY <1>13 DEF vars, TypeOK
<1> QED BY <1>1, <1>2, <1>3, <1>4, <1>5, <1>6, <1>7, <1>8, <1>9, <1>10, <1>11, <1>12, <1>13
        DEF Next

\* Every table holds what its columns may hold, whatever the rule selects and wherever
\* the process is killed.
THEOREM TypeCorrect == Spec => []TypeOK
<1>1. Init => TypeOK
    BY TypeInit
<1>2. TypeOK /\ [Next]_vars => TypeOK'
    BY TypeStep
<1> QED BY <1>1, <1>2, PTL DEF Spec

------------------------------------------------------------------------------
(* What the record says of the tables *)

\* A step of an auction keeps RecordBacksRow and the counts, if it settles nothing.
LEMMA AdvancesKeepsRecord ==
    ASSUME TypeOK, RecordBacksRow, NEW S, Advances(S), UNCHANGED bids
    PROVE  RecordBacksRow'
<1> SUFFICES ASSUME NEW t \in Tasks
             PROVE  /\ award'[t].performers # {} => award'[t] \in published'[t]
                    /\ status'[t] = "awarded" => award'[t].performers # {}
                    /\ \A a \in published'[t] : a.performers \subseteq Pool(t)'
    BY DEF RecordBacksRow
<1>1. Pool(t)' = Pool(t)
    BY DEF Pool
<1>2. \A a \in published'[t] : a.performers \subseteq Pool(t)'
    BY <1>1 DEF RecordBacksRow, Advances
<1>3. CASE award'[t] = award[t] /\ (status'[t] = status[t] \/ status'[t] = "failed")
    BY <1>2, <1>3 DEF RecordBacksRow, Advances
<1>4. CASE award'[t] \in published'[t] /\ award'[t].performers # {}
    BY <1>2, <1>4
<1> QED BY <1>3, <1>4 DEF Advances

\* So does a step that publishes nothing and awards nothing.
LEMMA QuietKeepsRecord ==
    ASSUME TypeOK, RecordBacksRow,
           UNCHANGED <<award, published>>,
           \A t \in Tasks : status'[t] = "awarded" => status[t] = "awarded",
           \A t \in Tasks : Pool(t) \subseteq Pool(t)'
    PROVE  RecordBacksRow'
BY DEF RecordBacksRow

\* A step of an auction keeps the wall, if it replaces an Award only where a Reauction
\* named the winners that failed.
LEMMA AdvancesKeepsWall ==
    ASSUME TypeOK, WallKept, NEW S, Advances(S), UNCHANGED bids,
           \A p \in Tasks : failed'[p] = {} => failed[p] = {},
           \A p \in S : status[p] # "none",
           \A p \in S : award[p].performers = {} \/ failed'[p] # {}
    PROVE  WallKept'
<1> SUFFICES ASSUME NEW t \in Tasks
             PROVE  /\ status'[t] \in {"none", "bidding"} => award'[t].performers = {}
                    /\ status'[t] # "none" => \A p \in Wall[t] : award'[p].performers # {}
                    /\ \A b \in Bidders : bids'[t][b] # "none" =>
                          /\ status'[t] # "none"
                          /\ \A p \in Wall[t] : failed'[p] = {} => b \notin award'[p].performers
    BY DEF WallKept
<1>1. \A p \in Tasks : \/ award'[p] = award[p] /\ status'[p] = status[p]
                       \/ p \in S /\ award'[p] = award[p] /\ status'[p] = "failed"
                       \/ p \in S /\ status'[p] = "awarded" /\ award'[p].performers # {}
    BY DEF Advances
<1>2. \A p \in Wall[t] : p \in Tasks
    BY DEF AllocationAssumption
<1>3. status'[t] \in {"none", "bidding"} => award'[t].performers = {}
    BY <1>1 DEF WallKept
<1>4. \A p \in Wall[t] : award[p].performers # {} => award'[p].performers # {}
    BY <1>1, <1>2
<1>5. \A p \in Wall[t] : award[p].performers # {} /\ failed'[p] = {} =>
          award'[p] = award[p] /\ failed[p] = {}
    BY <1>1, <1>2
<1>6. status'[t] # "none" => \A p \in Wall[t] : award'[p].performers # {}
    <2>1. CASE status[t] = "none"
        BY <1>1, <2>1
    <2>2. CASE status[t] # "none"
        BY <1>4, <2>2 DEF WallKept
    <2> QED BY <2>1, <2>2
<1>7. \A b \in Bidders : bids'[t][b] # "none" =>
          /\ status'[t] # "none"
          /\ \A p \in Wall[t] : failed'[p] = {} => b \notin award'[p].performers
    BY <1>1, <1>5 DEF WallKept
<1> QED BY <1>3, <1>6, <1>7

\* So does a step that leaves Awards, statuses and bids alone.
LEMMA QuietKeepsWall ==
    ASSUME TypeOK, WallKept, UNCHANGED <<status, award, bids>>,
           \A p \in Tasks : failed'[p] = {} => failed[p] = {}
    PROVE  WallKept'
BY DEF WallKept, AllocationAssumption

------------------------------------------------------------------------------
(* The invariant of the auction *)

LEMMA AuctionInit == Init => AuctionInv
BY DEF Init, AuctionInv, RecordBacksRow, WallKept, SettlementsCounted, RowHasAuction,
       NoAward, NoRow, AllocationAssumption

\* Every step keeps the record behind the tables.
LEMMA RecordStep ==
    ASSUME TypeOK, TypeOK', AuctionInv, [Next]_vars
    PROVE  RecordBacksRow'
<1> USE DEF tables, record
<1>0. RecordBacksRow
    BY DEF AuctionInv
<1>1. ASSUME NEW t \in Tasks, Announce(t) PROVE RecordBacksRow'
    BY <1>0, <1>1, QuietKeepsRecord DEF Announce, TypeOK, Pool
<1>2. ASSUME NEW t \in Tasks, WindowCloses(t) \/ AcceptByPasses(t) PROVE RecordBacksRow'
    BY <1>0, <1>2, QuietKeepsRecord DEF WindowCloses, AcceptByPasses, Pool
<1>3. ASSUME NEW t \in Tasks, CloseAuction(t) PROVE RecordBacksRow'
    BY <1>0, <1>3, CloseAdvances, AdvancesKeepsRecord DEF CloseAuction
<1>4. ASSUME NEW t \in Tasks, Settle(t) \/ KilledInSettle(t) PROVE RecordBacksRow'
    BY <1>0, <1>4, QuietKeepsRecord DEF Settle, KilledInSettle, Pool
<1>5. ASSUME NEW t \in Tasks, NEW b \in Bidders, Commit(t, b) \/ Reveal(t, b)
      PROVE RecordBacksRow'
    <2>1. \A u \in Tasks : \A c \in Bidders :
              bids[u][c] = "revealed" => bids'[u][c] = "revealed"
        <3>1. CASE Commit(t, b)
            BY <3>1 DEF Commit, TypeOK
        <3>2. CASE Reveal(t, b)
            BY <3>2 DEF Reveal, TypeOK
        <3> QED BY <1>5, <3>1, <3>2
    <2>2. \A u \in Tasks : Pool(u) \subseteq Pool(u)'
        BY <2>1 DEF Pool
    <2>3. UNCHANGED <<status, award, published>>
        BY <1>5 DEF Commit, Reveal
    <2> QED BY <1>0, <2>2, <2>3, QuietKeepsRecord
<1>6. ASSUME NEW t \in Tasks, NEW b \in Bidders, NEW a \in published[t], Accept(t, a, b)
      PROVE RecordBacksRow'
    BY <1>0, <1>6, QuietKeepsRecord DEF Accept, Pool
<1>7. ASSUME NEW t \in Tasks, KilledInClose(t) PROVE RecordBacksRow'
    BY <1>0, <1>7, KilledCloseAdvances, AdvancesKeepsRecord DEF KilledInClose
<1>8. ASSUME NEW t \in Tasks, KilledInSweep(t) PROVE RecordBacksRow'
    <2>1. UNCHANGED bids
        BY <1>8 DEF KilledInSweep
    <2>2. CASE UNCHANGED <<status, award, published>>
        BY <1>0, <2>1, <2>2, QuietKeepsRecord DEF Pool
    <2>3. CASE Advances({t})
        BY <1>0, <2>1, <2>3, AdvancesKeepsRecord
    <2> QED BY <1>8, <2>2, <2>3, KilledSweepAdvances
<1>9. ASSUME Sweep PROVE RecordBacksRow'
    BY <1>0, <1>9, SweepAdvances, AdvancesKeepsRecord DEF Sweep
<1>10. CASE UNCHANGED vars
    BY <1>0, <1>10, QuietKeepsRecord DEF vars, Pool
<1> QED BY <1>1, <1>2, <1>3, <1>4, <1>5, <1>6, <1>7, <1>8, <1>9, <1>10 DEF Next

\* Every step keeps the wall.
LEMMA WallStep ==
    ASSUME TypeOK, TypeOK', AuctionInv, [Next]_vars
    PROVE  WallKept'
<1> USE DEF tables, record
<1>0. WallKept /\ RowHasAuction
    BY DEF AuctionInv
<1>1. ASSUME NEW t \in Tasks, Announce(t) PROVE WallKept'
    BY <1>0, <1>1 DEF Announce, PriorsAwarded, WallKept, TypeOK, AllocationAssumption
<1>2. ASSUME NEW t \in Tasks, WindowCloses(t) \/ AcceptByPasses(t) PROVE WallKept'
    BY <1>0, <1>2, QuietKeepsWall DEF WindowCloses, AcceptByPasses
<1>3. ASSUME NEW t \in Tasks, CloseAuction(t) PROVE WallKept'
    <2>1. \A p \in {t} : status[p] # "none" /\ award[p].performers = {}
        BY <1>0, <1>3 DEF CloseAuction, MayClose, WallKept
    <2> QED BY <1>0, <1>3, <2>1, CloseAdvances, AdvancesKeepsWall DEF CloseAuction
<1>4. ASSUME NEW t \in Tasks, Settle(t) \/ KilledInSettle(t) PROVE WallKept'
    BY <1>0, <1>4, QuietKeepsWall DEF Settle, KilledInSettle
<1>5. ASSUME NEW t \in Tasks, NEW b \in Bidders, Commit(t, b) PROVE WallKept'
    <2>1. UNCHANGED <<status, award, failed>>
        BY <1>5 DEF Commit
    <2>2. \A u \in Tasks : \A c \in Bidders :
              bids'[u][c] # "none" => bids[u][c] # "none" \/ (u = t /\ c = b)
        BY <1>5 DEF Commit, TypeOK
    <2>3. status[t] # "none" /\ \A p \in Wall[t] : b \notin award[p].performers
        BY <1>5 DEF Commit, MayBid
    <2> QED BY <1>0, <2>1, <2>2, <2>3 DEF WallKept
<1>6. ASSUME NEW t \in Tasks, NEW b \in Bidders, Reveal(t, b) PROVE WallKept'
    BY <1>0, <1>6 DEF Reveal, WallKept, TypeOK, AllocationAssumption
<1>7. ASSUME NEW t \in Tasks, NEW b \in Bidders, NEW a \in published[t], Accept(t, a, b)
      PROVE WallKept'
    BY <1>0, <1>7, QuietKeepsWall DEF Accept
<1>8. ASSUME NEW t \in Tasks, KilledInClose(t) PROVE WallKept'
    <2>1. \A p \in {t} : status[p] # "none" /\ award[p].performers = {}
        BY <1>0, <1>8 DEF KilledInClose, MayClose, WallKept
    <2> QED BY <1>0, <1>8, <2>1, KilledCloseAdvances, AdvancesKeepsWall DEF KilledInClose
<1>9. ASSUME NEW t \in Tasks, KilledInSweep(t) PROVE WallKept'
    <2>1. UNCHANGED bids /\ \A p \in Tasks : failed'[p] = {} => failed[p] = {}
        <3> DEFINE more == [failed EXCEPT ![t] = @ \cup pending[t].missing]
        <3>1. \A p \in Tasks : more[p] = {} => failed[p] = {}
            BY DEF TypeOK
        <3>2. failed' = failed \/ failed' = more
            BY <1>9 DEF KilledInSweep
        <3>3. UNCHANGED bids
            BY <1>9 DEF KilledInSweep
        <3> QED BY <3>1, <3>2, <3>3
    <2>2. CASE UNCHANGED <<status, award, published>>
        BY <1>0, <2>1, <2>2, QuietKeepsWall
    <2>3. CASE Advances({t}) /\ failed'[t] # {}
        <3>1. \A p \in {t} : status[p] # "none"
            BY <1>0, <1>9 DEF KilledInSweep, Overdue, RowHasAuction
        <3> QED BY <1>0, <2>1, <2>3, <3>1, AdvancesKeepsWall
    <2> QED BY <1>9, <2>2, <2>3, KilledSweepAdvances
<1>10. ASSUME Sweep PROVE WallKept'
    <2>1. \A p \in Tasks : failed'[p] = {} => failed[p] = {}
        BY <1>10 DEF Sweep
    <2>2. \A p \in Overdue : status[p] # "none" /\ failed'[p] # {}
        BY <1>0, <1>10 DEF Sweep, Overdue, RowHasAuction
    <2> QED BY <1>0, <1>10, <2>1, <2>2, SweepAdvances, AdvancesKeepsWall DEF Sweep
<1>11. CASE UNCHANGED vars
    BY <1>0, <1>11, QuietKeepsWall DEF vars
<1> QED BY <1>1, <1>2, <1>3, <1>4, <1>5, <1>6, <1>7, <1>8, <1>9, <1>10, <1>11 DEF Next

\* Every Settlement has its record, or was cut off from it by a kill.
LEMMA CountStep ==
    ASSUME TypeOK, TypeOK', AuctionInv, [Next]_vars
    PROVE  SettlementsCounted'
<1> USE DEF tables, record
<1> DEFINE one(t) == IF t \in recorded THEN 1 ELSE 0
<1>0. \A t \in Tasks : /\ settlements[t] \in Nat /\ kills \in Nat
                       /\ settlements[t] <= kills + one(t)
                       /\ settlements[t] > 0 => published[t] # {}
    BY DEF AuctionInv, SettlementsCounted, TypeOK
<1>1. \* A step that settles nothing keeps the counts.
      ASSUME UNCHANGED <<settlements, recorded>>, kills' \in {kills, kills + 1},
             \A t \in Tasks : published[t] \subseteq published'[t]
      PROVE  SettlementsCounted'
    BY <1>0, <1>1 DEF SettlementsCounted
<1>2. ASSUME UNCHANGED <<settlements, recorded, published, kills>> PROVE SettlementsCounted'
    BY <1>1, <1>2
<1>3. ASSUME NEW S, Advances(S), UNCHANGED <<settlements, recorded>>,
             kills' \in {kills, kills + 1}
      PROVE  SettlementsCounted'
    BY <1>1, <1>3 DEF Advances
<1>4. ASSUME NEW t \in Tasks, MaySettle(t) PROVE t \notin recorded /\ published[t] # {}
    BY <1>4 DEF MaySettle, AuctionInv, RecordBacksRow
<1>5. ASSUME NEW t \in Tasks, Announce(t) \/ WindowCloses(t) \/ AcceptByPasses(t)
      PROVE  SettlementsCounted'
    BY <1>2, <1>5 DEF Announce, WindowCloses, AcceptByPasses
<1>6. ASSUME NEW t \in Tasks, NEW b \in Bidders, Commit(t, b) \/ Reveal(t, b)
      PROVE  SettlementsCounted'
    BY <1>2, <1>6 DEF Commit, Reveal
<1>7. ASSUME NEW t \in Tasks, NEW b \in Bidders, NEW a \in published[t], Accept(t, a, b)
      PROVE  SettlementsCounted'
    BY <1>2, <1>7 DEF Accept
<1>8. ASSUME NEW t \in Tasks, CloseAuction(t) PROVE SettlementsCounted'
    BY <1>3, <1>8, CloseAdvances DEF CloseAuction
<1>9. ASSUME NEW t \in Tasks, KilledInClose(t) PROVE SettlementsCounted'
    BY <1>3, <1>9, KilledCloseAdvances DEF KilledInClose, Killed
<1>10. ASSUME NEW t \in Tasks, KilledInSweep(t) PROVE SettlementsCounted'
    <2>1. UNCHANGED <<settlements, recorded>> /\ kills' \in {kills, kills + 1}
        BY <1>10 DEF KilledInSweep, Killed
    <2>2. CASE UNCHANGED <<status, award, published, accepted>>
        BY <1>1, <2>1, <2>2
    <2>3. CASE Advances({t})
        BY <1>3, <2>1, <2>3
    <2> QED BY <1>10, <2>2, <2>3, KilledSweepAdvances
<1>11. ASSUME Sweep PROVE SettlementsCounted'
    BY <1>3, <1>11, SweepAdvances DEF Sweep
<1>12. ASSUME NEW t \in Tasks, Settle(t) PROVE SettlementsCounted'
    <2>1. t \notin recorded /\ published[t] # {}
        BY <1>4, <1>12 DEF Settle
    <2>2. /\ settlements' = [settlements EXCEPT ![t] = @ + 1]
          /\ recorded' = recorded \cup {t} /\ UNCHANGED <<published, kills>>
        BY <1>12 DEF Settle
    <2> QED BY <1>0, <2>1, <2>2 DEF SettlementsCounted, TypeOK
<1>13. ASSUME NEW t \in Tasks, KilledInSettle(t) PROVE SettlementsCounted'
    <2>1. t \notin recorded /\ published[t] # {}
        BY <1>4, <1>13 DEF KilledInSettle
    <2>2. /\ settlements' = [settlements EXCEPT ![t] = @ + 1] /\ kills' = kills + 1
          /\ UNCHANGED <<recorded, published>>
        BY <1>13 DEF KilledInSettle, Killed
    <2> QED BY <1>0, <2>1, <2>2 DEF SettlementsCounted, TypeOK
<1>14. CASE UNCHANGED vars
    BY <1>2, <1>14 DEF vars
<1> QED BY <1>5, <1>6, <1>7, <1>8, <1>9, <1>10, <1>11, <1>12, <1>13, <1>14 DEF Next

\* A watched task has an auction.
LEMMA RowStep ==
    ASSUME TypeOK, TypeOK', AuctionInv, [Next]_vars
    PROVE  RowHasAuction'
<1> USE DEF tables, record
<1>0. RowHasAuction
    BY DEF AuctionInv
<1>1. \* A step that opens no row and ends no auction.
      ASSUME \A t \in Tasks : status[t] # "none" => status'[t] # "none",
             \A t \in Tasks : pending'[t].open => status[t] # "none"
      PROVE  RowHasAuction'
    BY <1>1 DEF RowHasAuction
<1>2. ASSUME UNCHANGED <<status, pending>> PROVE RowHasAuction'
    BY <1>0, <1>2 DEF RowHasAuction
<1>3. ASSUME NEW S, Advances(S) PROVE \A t \in Tasks : status[t] # "none" => status'[t] # "none"
    BY <1>3 DEF Advances
<1>4. ASSUME NEW t \in Tasks, Announce(t) PROVE RowHasAuction'
    BY <1>0, <1>4 DEF Announce, RowHasAuction, TypeOK
<1>5. ASSUME NEW t \in Tasks, WindowCloses(t) \/ Settle(t) \/ KilledInSettle(t)
      PROVE  RowHasAuction'
    BY <1>2, <1>5 DEF WindowCloses, Settle, KilledInSettle
<1>6. ASSUME NEW t \in Tasks, AcceptByPasses(t) PROVE RowHasAuction'
    BY <1>0, <1>6 DEF AcceptByPasses, RowHasAuction, TypeOK, Row
<1>7. ASSUME NEW t \in Tasks, NEW b \in Bidders, Commit(t, b) \/ Reveal(t, b)
      PROVE  RowHasAuction'
    BY <1>2, <1>7 DEF Commit, Reveal
<1>8. ASSUME NEW t \in Tasks, NEW b \in Bidders, NEW a \in published[t], Accept(t, a, b)
      PROVE  RowHasAuction'
    BY <1>0, <1>8 DEF Accept, RowHasAuction, TypeOK, Row
<1>9. ASSUME NEW t \in Tasks, CloseAuction(t) PROVE RowHasAuction'
    <2>1. \A u \in Tasks : pending'[u].open => status[u] # "none"
        BY <1>0, <1>9 DEF CloseAuction, MayClose, RowHasAuction, TypeOK
    <2> QED BY <1>1, <1>3, <1>9, <2>1, CloseAdvances
<1>10. ASSUME NEW t \in Tasks, KilledInClose(t) PROVE RowHasAuction'
    <2>1. UNCHANGED pending
        BY <1>10 DEF KilledInClose
    <2> QED BY <1>0, <1>1, <1>3, <1>10, <2>1, KilledCloseAdvances DEF RowHasAuction
<1>11. ASSUME NEW t \in Tasks, KilledInSweep(t) PROVE RowHasAuction'
    <2>1. \A u \in Tasks : pending'[u].open => status[u] # "none"
        BY <1>0, <1>11 DEF KilledInSweep, RowHasAuction, TypeOK, NoRow
    <2>2. \A u \in Tasks : status[u] # "none" => status'[u] # "none"
        BY <1>3, <1>11, KilledSweepAdvances
    <2> QED BY <1>1, <2>1, <2>2
<1>12. ASSUME Sweep PROVE RowHasAuction'
    <2>1. \A u \in Tasks : pending'[u].open => pending[u].open
        BY <1>12 DEF Sweep, NoRow, Overdue
    <2>2. \A u \in Tasks : pending'[u].open => status[u] # "none"
        BY <1>0, <2>1 DEF RowHasAuction
    <2> QED BY <1>1, <1>3, <1>12, <2>2, SweepAdvances
<1>13. CASE UNCHANGED vars
    BY <1>2, <1>13 DEF vars
<1> QED BY <1>4, <1>5, <1>6, <1>7, <1>8, <1>9, <1>10, <1>11, <1>12, <1>13 DEF Next

\* AuctionInv is inductive.
LEMMA AuctionInvariant == Spec => [](TypeOK /\ AuctionInv)
<1>1. Init => TypeOK /\ AuctionInv
    BY TypeInit, AuctionInit
<1>2. ASSUME TypeOK, AuctionInv, [Next]_vars
      PROVE  (TypeOK /\ AuctionInv)'
    <2>1. TypeOK'
        BY <1>2, TypeStep
    <2> QED BY <1>2, <2>1, RecordStep, WallStep, CountStep, RowStep DEF AuctionInv
<1> QED BY <1>1, <1>2, PTL DEF Spec

------------------------------------------------------------------------------
(* What the tables promise *)

\* An Award the tables name is on the chain, with performers that revealed a bid.
THEOREM AwardIsOnRecord == Spec => []RecordBacksRow
<1>1. TypeOK /\ AuctionInv => RecordBacksRow
    BY DEF AuctionInv
<1> QED BY <1>1, AuctionInvariant, PTL

\* Nobody performs a task and one whose performers it excludes, unless that one was
\* re-auctioned.
THEOREM WallStands == Spec => []WallHolds
<1>1. ASSUME TypeOK, AuctionInv PROVE WallHolds
    <2> SUFFICES ASSUME NEW t \in Tasks, NEW p \in Wall[t], failed[p] = {},
                        NEW b \in award[t].performers
                 PROVE  b \notin award[p].performers
        BY DEF WallHolds
    <2>1. award[t] \in published[t]
        BY <1>1 DEF AuctionInv, RecordBacksRow
    <2>2. b \in Bidders /\ bids[t][b] = "revealed"
        BY <1>1, <2>1 DEF AuctionInv, RecordBacksRow, Pool
    <2> QED BY <1>1, <2>2 DEF AuctionInv, WallKept
<1> QED BY <1>1, AuctionInvariant, PTL

\* A task is settled once, but for one more time per kill, and never unawarded.
THEOREM SettlesOnce == Spec => []SettledOnce
<1>1. TypeOK /\ AuctionInv => SettledOnce
    BY DEF AuctionInv, SettlementsCounted, SettledOnce, TypeOK
<1> QED BY <1>1, AuctionInvariant, PTL

\* The invariant of the auction itself.
THEOREM AuctionStands == Spec => []AuctionInv
<1>1. TypeOK /\ AuctionInv => AuctionInv
    OBVIOUS
<1> QED BY <1>1, AuctionInvariant, PTL

------------------------------------------------------------------------------
(* Whom a re-auction leaves out *)

\* Whoever a row still waits for is a performer of the Award the row is named after.
RowsJustified == \A t \in Tasks : pending[t].open => Justifies(t, pending[t].again, pending[t].missing)

\* What a step may do to the chain: an Award of a re-auction excludes those its row
\* waited for and names the Award the row is named after.
NamesItsPrior ==
    \A t \in Tasks :
        /\ published[t] \subseteq published'[t]
        /\ \A a \in published'[t] :
              \/ a \in published[t]
              \/ ~a.again
              \/ /\ pending[t].open
                 /\ a.priorAgain = pending[t].again /\ a.excluded = pending[t].missing

\* And to the rows: one that was there waits for no others than before, and one that is
\* new waits for performers of an Award that is on the chain under its name.
RowsFollow ==
    \A t \in Tasks : pending'[t].open =>
        \/ /\ pending[t].open /\ pending'[t].again = pending[t].again
           /\ pending'[t].missing \subseteq pending[t].missing
        \/ \E a \in published'[t] :
              a.again = pending'[t].again /\ pending'[t].missing \subseteq a.performers

LEMMA JustifiedKept ==
    ASSUME RowsJustified, ExclusionsJustified, NamesItsPrior, RowsFollow
    PROVE  RowsJustified' /\ ExclusionsJustified'
<1>1. ASSUME NEW t \in Tasks, NEW again, NEW left, Justifies(t, again, left)
      PROVE  \E prior \in published'[t] : prior.again = again /\ left \subseteq prior.performers
    BY <1>1 DEF Justifies, NamesItsPrior
<1>2. ASSUME NEW t \in Tasks, pending'[t].open
      PROVE  \E prior \in published'[t] :
                prior.again = pending'[t].again /\ pending'[t].missing \subseteq prior.performers
    <2>1. CASE /\ pending[t].open /\ pending'[t].again = pending[t].again
               /\ pending'[t].missing \subseteq pending[t].missing
        <3>1. \E prior \in published'[t] :
                 prior.again = pending[t].again /\ pending[t].missing \subseteq prior.performers
            BY <1>1, <2>1 DEF RowsJustified
        <3> QED BY <2>1, <3>1
    <2> QED BY <1>2, <2>1 DEF RowsFollow
<1>3. ASSUME NEW t \in Tasks, NEW a \in published'[t], a.again
      PROVE  \E prior \in published'[t] :
                prior.again = a.priorAgain /\ a.excluded \subseteq prior.performers
    <2>1. CASE a \in published[t]
        BY <1>1, <1>3, <2>1 DEF ExclusionsJustified
    <2>2. CASE /\ pending[t].open
               /\ a.priorAgain = pending[t].again /\ a.excluded = pending[t].missing
        <3>1. \E prior \in published'[t] :
                 prior.again = pending[t].again /\ pending[t].missing \subseteq prior.performers
            BY <1>1, <2>2 DEF RowsJustified
        <3> QED BY <2>2, <3>1
    <2> QED BY <1>3, <2>1, <2>2 DEF NamesItsPrior
<1>4. RowsJustified'
    BY <1>2 DEF RowsJustified, Justifies
<1>5. ExclusionsJustified'
    BY <1>3 DEF ExclusionsJustified, Justifies
<1> QED BY <1>4, <1>5

\* What publishAward adds to the chain.
Publishes(S, exclude, again) ==
    /\ \A t \in Tasks : published[t] \subseteq published'[t]
    /\ \A t \in Tasks : \A a \in published'[t] :
          a \in published[t] \/ (t \in S /\ a = AwardFor(t, exclude[t], again))

LEMMA ConcludePublishes ==
    ASSUME TypeOK, NEW S \in SUBSET Tasks, NEW exclude, NEW again, Conclude(S, exclude, again)
    PROVE  /\ Publishes(S, exclude, again)
           /\ \A t \in S : Selected(t, exclude[t]) # {} =>
                 AwardFor(t, exclude[t], again) \in published'[t]
<1> DEFINE won == {t \in S : Selected(t, exclude[t]) # {}}
<1> DEFINE new(t) == AwardFor(t, exclude[t], again)
<1>1. published' = [t \in Tasks |-> IF t \in won THEN published[t] \cup {new(t)}
                                    ELSE published[t]]
    BY DEF Conclude
<1> HIDE DEF new
<1>2. /\ \A t \in Tasks : published[t] \subseteq published'[t]
      /\ \A t \in Tasks : \A a \in published'[t] : a \in published[t] \/ (t \in S /\ a = new(t))
      /\ \A t \in S : Selected(t, exclude[t]) # {} => new(t) \in published'[t]
    BY <1>1
<1> QED BY <1>2 DEF new, Publishes

LEMMA CutPublishes ==
    ASSUME TypeOK, NEW t \in Tasks, NEW exclude, NEW again, CutAward(t, exclude, again)
    PROVE  /\ \A u \in Tasks : published[u] \subseteq published'[u]
           /\ \A u \in Tasks : \A a \in published'[u] :
                 a \in published[u] \/ (u = t /\ a = AwardFor(t, exclude, again))
<1>1. CASE EmittedFirst(t, exclude, again)
    <2> DEFINE new == AwardFor(t, exclude, again)
    <2>1. published' = [published EXCEPT ![t] = @ \cup {new}]
        BY <1>1 DEF EmittedFirst
    <2> HIDE DEF new
    <2>2. /\ \A u \in Tasks : published[u] \subseteq published'[u]
          /\ \A u \in Tasks : \A a \in published'[u] : a \in published[u] \/ (u = t /\ a = new)
        BY <2>1 DEF TypeOK
    <2> QED BY <2>2 DEF new
<1>2. CASE Conclude({t}, [Nobody EXCEPT ![t] = exclude], again)
    <2> DEFINE only == [Nobody EXCEPT ![t] = exclude]
    <2>1. only[t] = exclude
        BY DEF Nobody
    <2>2. Conclude({t}, only, again) /\ {t} \in SUBSET Tasks
        BY <1>2
    <2> HIDE DEF only
    <2>3. Publishes({t}, only, again)
        BY <2>2, ConcludePublishes
    <2> QED BY <2>1, <2>3 DEF Publishes
<1> QED BY <1>1, <1>2 DEF CutAward

\* The Award of a first auction is no re-auction's; that of another names its row.
LEMMA FirstIsFirst ==
    ASSUME NEW t, NEW a, a = AwardFor(t, {}, FALSE)
    PROVE  ~a.again
<1>1. a.again = FALSE
    BY DEF AwardFor
<1> QED BY <1>1

LEMMA AgainNamesRow ==
    ASSUME TypeOK, NEW t \in Tasks, pending[t].open,
           NEW a, a = AwardFor(t, pending[t].missing, TRUE)
    PROVE  /\ pending[t].open
           /\ a.priorAgain = pending[t].again /\ a.excluded = pending[t].missing
<1>1. a.excluded = pending[t].missing /\ a.priorAgain = (TRUE /\ pending[t].again)
    BY DEF AwardFor
<1>2. pending[t].again \in BOOLEAN
    BY DEF TypeOK, Row
<1>3. (TRUE /\ pending[t].again) = pending[t].again
    BY <1>2
<1> QED BY <1>1, <1>3

\* A row written after the Award is on the chain follows it.
LEMMA NewRowFollows ==
    ASSUME NEW t \in Tasks, NEW exclude, NEW again, NewRow(t, exclude, again).open,
           Selected(t, exclude) # {} => AwardFor(t, exclude, again) \in published'[t]
    PROVE  \E a \in published'[t] :
              /\ a.again = NewRow(t, exclude, again).again
              /\ NewRow(t, exclude, again).missing \subseteq a.performers
<1>1. CASE Selected(t, exclude) = {}
    BY <1>1 DEF NewRow, NoRow
<1>2. CASE Selected(t, exclude) # {}
    <2>1. /\ NewRow(t, exclude, again).again = again
          /\ NewRow(t, exclude, again).missing = Selected(t, exclude)
        BY <1>2 DEF NewRow
    <2>2. /\ AwardFor(t, exclude, again).again = again
          /\ AwardFor(t, exclude, again).performers = Selected(t, exclude)
        BY DEF AwardFor
    <2> QED BY <1>2, <2>1, <2>2
<1> QED BY <1>1, <1>2

\* A step that leaves the chain alone names nobody.
LEMMA SilentNames == ASSUME UNCHANGED published PROVE NamesItsPrior
BY DEF NamesItsPrior

\* A step that opens no row and adds no one to one lets the rows follow.
LEMMA RowsKeptFollow ==
    ASSUME \A t \in Tasks : pending'[t].open =>
              /\ pending[t].open /\ pending'[t].again = pending[t].again
              /\ pending'[t].missing \subseteq pending[t].missing
    PROVE  RowsFollow
BY DEF RowsFollow

LEMMA CloseJustified ==
    ASSUME TypeOK, NEW t \in Tasks, CloseAuction(t)
    PROVE  NamesItsPrior /\ RowsFollow
<1>1. Nobody[t] = {} /\ {t} \in SUBSET Tasks
    BY DEF Nobody
<1>2. /\ Publishes({t}, Nobody, FALSE)
      /\ Selected(t, Nobody[t]) # {} => AwardFor(t, Nobody[t], FALSE) \in published'[t]
    BY <1>1, ConcludePublishes DEF CloseAuction
<1>3. NamesItsPrior
    <2>1. ASSUME NEW u \in Tasks, NEW a \in published'[u], a \notin published[u]
          PROVE  ~a.again
        BY <1>1, <1>2, <2>1, FirstIsFirst DEF Publishes
    <2> QED BY <1>2, <2>1, Zenon DEF NamesItsPrior, Publishes
<1>4. RowsFollow
    <2>1. pending' = [pending EXCEPT ![t] = NewRow(t, {}, FALSE)]
        BY DEF CloseAuction
    <2>2. NewRow(t, {}, FALSE).open =>
             \E a \in published'[t] :
                /\ a.again = NewRow(t, {}, FALSE).again
                /\ NewRow(t, {}, FALSE).missing \subseteq a.performers
        <3>1. Selected(t, {}) # {} => AwardFor(t, {}, FALSE) \in published'[t]
            BY <1>1, <1>2
        <3> QED BY <3>1, NewRowFollows, Zenon
    <2>3. ASSUME NEW u \in Tasks, u # t PROVE pending'[u] = pending[u]
        BY <2>1, <2>3 DEF TypeOK
    <2>4. pending'[t] = NewRow(t, {}, FALSE)
        BY <2>1 DEF TypeOK
    <2> QED BY <2>2, <2>3, <2>4 DEF RowsFollow
<1> QED BY <1>3, <1>4

LEMMA SweepJustified ==
    ASSUME TypeOK, Sweep
    PROVE  NamesItsPrior /\ RowsFollow
<1>1. Overdue \in SUBSET Tasks /\ \A t \in Overdue : FailedWinners[t] = pending[t].missing
                               /\ pending[t].open
    BY DEF Overdue, FailedWinners
<1>2. /\ Publishes(Overdue, FailedWinners, TRUE)
      /\ \A u \in Overdue : Selected(u, FailedWinners[u]) # {} =>
            AwardFor(u, FailedWinners[u], TRUE) \in published'[u]
    BY <1>1, ConcludePublishes DEF Sweep
<1>3. NamesItsPrior
    <2>1. ASSUME NEW u \in Tasks, NEW a \in published'[u], a \notin published[u]
          PROVE  /\ pending[u].open
                 /\ a.priorAgain = pending[u].again /\ a.excluded = pending[u].missing
        <3>1. u \in Overdue /\ a = AwardFor(u, pending[u].missing, TRUE) /\ pending[u].open
            <4>1. u \in Overdue /\ a = AwardFor(u, FailedWinners[u], TRUE)
                BY <1>2, <2>1, Zenon DEF Publishes
            <4>2. FailedWinners[u] = pending[u].missing /\ pending[u].open
                BY <1>1, <4>1
            <4> QED BY <4>1, <4>2, Zenon
        <3> QED BY <3>1, AgainNamesRow, Zenon
    <2> QED BY <1>2, <2>1, Zenon DEF NamesItsPrior, Publishes
<1>4. ASSUME NEW t \in Tasks, pending'[t].open
      PROVE  \/ /\ pending[t].open /\ pending'[t].again = pending[t].again
                /\ pending'[t].missing \subseteq pending[t].missing
             \/ \E a \in published'[t] :
                   a.again = pending'[t].again /\ pending'[t].missing \subseteq a.performers
    <2>1. pending'[t] = IF t \in Answered THEN NoRow
                        ELSE IF t \in Overdue THEN RowAfterSweep(t) ELSE pending[t]
        BY DEF Sweep
    <2>2. CASE t \in Overdue /\ t \notin Answered
        <3>1. pending'[t] = NewRow(t, pending[t].missing, TRUE)
            BY <2>1, <2>2 DEF RowAfterSweep
        <3>2. \E a \in published'[t] :
                 /\ a.again = NewRow(t, pending[t].missing, TRUE).again
                 /\ NewRow(t, pending[t].missing, TRUE).missing \subseteq a.performers
            <4>1. Selected(t, pending[t].missing) # {} =>
                      AwardFor(t, pending[t].missing, TRUE) \in published'[t]
                BY <1>1, <1>2, <2>2
            <4>2. NewRow(t, pending[t].missing, TRUE).open
                BY <1>4, <3>1
            <4> QED BY <4>1, <4>2, NewRowFollows, Zenon
        <3> QED BY <3>1, <3>2
    <2>3. CASE t \in Answered
        BY <1>4, <2>1, <2>3 DEF NoRow
    <2>4. CASE t \notin Overdue /\ t \notin Answered
        BY <1>4, <2>1, <2>4
    <2> QED BY <2>2, <2>3, <2>4
<1>5. RowsFollow
    BY <1>4 DEF RowsFollow
<1> QED BY <1>3, <1>5

LEMMA KilledSweepJustified ==
    ASSUME TypeOK, NEW t \in Tasks, KilledInSweep(t)
    PROVE  NamesItsPrior /\ RowsFollow
<1>1. RowsFollow
    <2>1. pending' = [pending EXCEPT ![t] = NoRow]
        BY DEF KilledInSweep
    <2>2. \A u \in Tasks : pending'[u] = IF u = t THEN NoRow ELSE pending[u]
        BY <2>1 DEF TypeOK
    <2>3. ~NoRow.open
        BY DEF NoRow
    <2> QED BY <2>2, <2>3, RowsKeptFollow
<1>2. CASE UNCHANGED published
    BY <1>1, <1>2, SilentNames
<1>3. CASE CutAward(t, pending[t].missing, TRUE)
    <2>1. pending[t].open
        BY DEF KilledInSweep, Overdue
    <2>2. NamesItsPrior
        <3>1. /\ \A u \in Tasks : published[u] \subseteq published'[u]
              /\ \A u \in Tasks : \A a \in published'[u] :
                    a \in published[u] \/ (u = t /\ a = AwardFor(t, pending[t].missing, TRUE))
            BY <1>3, CutPublishes
        <3>2. ASSUME NEW u \in Tasks, NEW a \in published'[u], a \notin published[u]
              PROVE  /\ pending[u].open
                     /\ a.priorAgain = pending[u].again /\ a.excluded = pending[u].missing
            <4>1. u = t /\ a = AwardFor(t, pending[t].missing, TRUE)
                BY <3>1, <3>2, Zenon
            <4>2. /\ pending[t].open
                  /\ a.priorAgain = pending[t].again /\ a.excluded = pending[t].missing
                BY <2>1, <4>1, AgainNamesRow, Zenon
            <4> QED BY <4>1, <4>2, Zenon
        <3> QED BY <3>1, <3>2, Zenon DEF NamesItsPrior
    <2> QED BY <1>1, <2>2
<1> QED BY <1>2, <1>3 DEF KilledInSweep

LEMMA JustifiedStep ==
    ASSUME TypeOK, RowsJustified, ExclusionsJustified, [Next]_vars
    PROVE  RowsJustified' /\ ExclusionsJustified'
<1> USE DEF tables, record
<1>1. UNCHANGED <<published, pending>> => NamesItsPrior /\ RowsFollow
    BY SilentNames DEF RowsFollow
<1>2. ASSUME NEW t \in Tasks,
             Announce(t) \/ WindowCloses(t) \/ Settle(t) \/ KilledInSettle(t)
      PROVE  NamesItsPrior /\ RowsFollow
    BY <1>1, <1>2 DEF Announce, WindowCloses, Settle, KilledInSettle
<1>3. ASSUME NEW t \in Tasks, AcceptByPasses(t) PROVE NamesItsPrior /\ RowsFollow
    BY <1>3, SilentNames DEF AcceptByPasses, RowsFollow, TypeOK, Row
<1>4. ASSUME NEW t \in Tasks, NEW b \in Bidders, Commit(t, b) \/ Reveal(t, b)
      PROVE  NamesItsPrior /\ RowsFollow
    BY <1>1, <1>4 DEF Commit, Reveal
<1>5. ASSUME NEW t \in Tasks, NEW b \in Bidders, NEW a \in published[t], Accept(t, a, b)
      PROVE  NamesItsPrior /\ RowsFollow
    BY <1>5, SilentNames DEF Accept, RowsFollow, TypeOK, Row
<1>6. ASSUME NEW t \in Tasks, KilledInClose(t) PROVE NamesItsPrior /\ RowsFollow
    <2>1. UNCHANGED pending /\ CutAward(t, {}, FALSE)
        BY <1>6 DEF KilledInClose
    <2>2. NamesItsPrior
        <3>1. /\ \A u \in Tasks : published[u] \subseteq published'[u]
              /\ \A u \in Tasks : \A a \in published'[u] :
                    a \in published[u] \/ (u = t /\ a = AwardFor(t, {}, FALSE))
            BY <2>1, CutPublishes
        <3> QED BY <3>1, FirstIsFirst, Zenon DEF NamesItsPrior
    <2> QED BY <2>1, <2>2 DEF RowsFollow
<1>7. UNCHANGED vars => NamesItsPrior /\ RowsFollow
    BY <1>1 DEF vars
<1>8. NamesItsPrior /\ RowsFollow
    BY <1>2, <1>3, <1>4, <1>5, <1>6, <1>7, CloseJustified, SweepJustified, KilledSweepJustified
       DEF Next
<1> QED BY <1>8, JustifiedKept

\* All the bidders a re-auction's Award leaves out are performers of one published Award
\* that bears the id it names as its prior, for any rule and wherever a kill falls.
THEOREM ExclusionsStand == Spec => []ExclusionsJustified
<1>1. Init => RowsJustified /\ ExclusionsJustified
    BY DEF Init, RowsJustified, ExclusionsJustified, NoRow
<1>2. TypeOK /\ (RowsJustified /\ ExclusionsJustified) /\ [Next]_vars =>
         (RowsJustified /\ ExclusionsJustified)'
    BY JustifiedStep
<1> QED BY <1>1, <1>2, TypeCorrect, PTL DEF Spec

------------------------------------------------------------------------------
(* Who is watched *)

\* What publishAward leaves of an auction: nobody has accepted, and whoever is now a
\* performer is waited for by the row that saveAuction's caller writes.
LEMMA ConcludedIsWatched ==
    ASSUME NEW S \in SUBSET Tasks, NEW exclude \in [Tasks -> SUBSET Bidders],
           NEW again \in BOOLEAN, Conclude(S, exclude, again),
           NEW t \in S, status'[t] = "awarded",
           NEW b \in award'[t].performers
    PROVE  /\ NewRow(t, exclude[t], again).open
           /\ b \in NewRow(t, exclude[t], again).missing
<1>1. status'[t] = Verdict(t, exclude[t])
    BY DEF Conclude
<1>2. Selected(t, exclude[t]) # {}
    BY <1>1 DEF Verdict
<1>3. award'[t] = AwardFor(t, exclude[t], again)
    BY <1>2 DEF Conclude
<1>4. award'[t].performers = Selected(t, exclude[t])
    BY <1>3 DEF AwardFor
<1> QED BY <1>2, <1>4 DEF NewRow

\* A task no selection is made for keeps its Award, its status and who accepted.
LEMMA UnconcludedStands ==
    ASSUME NEW S, NEW exclude, NEW again, Conclude(S, exclude, again),
           NEW t \in Tasks, t \notin S
    PROVE  status'[t] = status[t] /\ award'[t] = award[t] /\ accepted'[t] = accepted[t]
BY DEF Conclude

LEMMA WatchedStep ==
    ASSUME TypeOK, Watched, [Next]_vars
    PROVE  Watched'
<1> USE DEF tables, record
<1> DEFINE Seen(t, b) == b \in accepted[t] \/ (pending[t].open /\ b \in pending[t].missing)
<1>1. ASSUME kills' = kills, \A t \in Tasks : status'[t] = "awarded" =>
                 \A b \in award'[t].performers : Seen(t, b)'
      PROVE  Watched'
    BY <1>1 DEF Watched
<1>2. ASSUME kills' = kills,
             \A t \in Tasks : status'[t] = "awarded" => status[t] = "awarded",
             UNCHANGED award,
             \A t \in Tasks : \A b \in award[t].performers : Seen(t, b) => Seen(t, b)'
      PROVE  Watched'
    BY <1>2 DEF Watched
<1>3. ASSUME kills' = kills + 1 PROVE Watched'
    BY <1>3 DEF Watched, TypeOK
<1>4. ASSUME NEW t \in Tasks, Announce(t) PROVE Watched'
    <2>1. \A u \in Tasks : status'[u] = "awarded" => status[u] = "awarded"
        BY <1>4 DEF Announce, TypeOK
    <2>2. UNCHANGED <<award, pending, accepted, kills>>
        BY <1>4 DEF Announce
    <2> QED BY <2>1, <2>2 DEF Watched
<1>5. ASSUME NEW t \in Tasks, WindowCloses(t) \/ Settle(t) PROVE Watched'
    <2>1. UNCHANGED <<status, award, pending, accepted, kills>>
        BY <1>5 DEF WindowCloses, Settle
    <2> QED BY <2>1 DEF Watched
<1>6. ASSUME NEW t \in Tasks, NEW b \in Bidders, Commit(t, b) \/ Reveal(t, b) PROVE Watched'
    <2>1. UNCHANGED <<status, award, pending, accepted, kills>>
        BY <1>6 DEF Commit, Reveal
    <2> QED BY <2>1 DEF Watched
<1>7. ASSUME NEW t \in Tasks, AcceptByPasses(t) PROVE Watched'
    BY <1>2, <1>7 DEF AcceptByPasses, TypeOK, Row
<1>8. ASSUME NEW t \in Tasks, NEW b \in Bidders, NEW a \in published[t], Accept(t, a, b)
      PROVE  Watched'
    <2>1. ASSUME NEW u \in Tasks, NEW c \in award[u].performers, Seen(u, c)
          PROVE  Seen(u, c)'
        <3>1. CASE u = t
            BY <1>8, <2>1, <3>1 DEF Accept, TypeOK, Row
        <3>2. CASE u # t
            BY <1>8, <2>1, <3>2 DEF Accept, TypeOK
        <3> QED BY <3>1, <3>2
    <2> QED BY <1>2, <1>8, <2>1 DEF Accept
<1>9. ASSUME NEW t \in Tasks, CloseAuction(t) PROVE Watched'
    <2>0. {t} \in SUBSET Tasks /\ Nobody \in [Tasks -> SUBSET Bidders] /\ Nobody[t] = {}
        BY DEF Nobody
    <2>1. Conclude({t}, Nobody, FALSE) /\ pending' = [pending EXCEPT ![t] = NewRow(t, {}, FALSE)]
        BY <1>9 DEF CloseAuction
    <2>2. ASSUME NEW u \in Tasks, status'[u] = "awarded", NEW b \in award'[u].performers
          PROVE  kills = 0 => Seen(u, b)'
        <3>1. CASE u = t
            <4>1. NewRow(t, Nobody[t], FALSE).open /\ b \in NewRow(t, Nobody[t], FALSE).missing
                BY <2>0, <2>1, <2>2, <3>1, ConcludedIsWatched
            <4>2. pending'[u] = NewRow(t, Nobody[t], FALSE)
                BY <2>0, <2>1, <3>1 DEF TypeOK
            <4> QED BY <4>1, <4>2
        <3>2. CASE u # t
            <4>0. Conclude({t}, Nobody, FALSE) /\ u \notin {t}
                BY <2>1, <3>2
            <4>1. status'[u] = status[u] /\ award'[u] = award[u] /\ accepted'[u] = accepted[u]
                BY <4>0, UnconcludedStands, Zenon
            <4>2. pending'[u] = pending[u]
                BY <2>1, <3>2 DEF TypeOK
            <4>3. kills = 0 => b \in accepted[u] \/ (pending[u].open /\ b \in pending[u].missing)
                BY <2>2, <4>1 DEF Watched
            <4> QED BY <4>1, <4>2, <4>3
        <3> QED BY <3>1, <3>2
    <2>3. kills' = kills
        BY <1>9 DEF CloseAuction
    <2> QED BY <2>2, <2>3 DEF Watched
<1>10. ASSUME Sweep PROVE Watched'
    <2>0. Overdue \in SUBSET Tasks /\ FailedWinners \in [Tasks -> SUBSET Bidders]
        BY DEF Overdue, FailedWinners, TypeOK, Row
    <2>1. /\ Conclude(Overdue, FailedWinners, TRUE)
          /\ pending' = [t \in Tasks |-> IF t \in Answered THEN NoRow
                             ELSE IF t \in Overdue THEN RowAfterSweep(t) ELSE pending[t]]
          /\ kills' = kills
        BY <1>10 DEF Sweep
    <2>2. ASSUME kills = 0, NEW u \in Tasks, status'[u] = "awarded",
                 NEW b \in award'[u].performers
          PROVE  Seen(u, b)'
        <3>1. CASE u \in Overdue
            <4>1. u \notin Answered
                BY <3>1 DEF Overdue, Answered
            <4>2. FailedWinners[u] = pending[u].missing
                BY DEF FailedWinners
            <4>3. /\ NewRow(u, FailedWinners[u], TRUE).open
                  /\ b \in NewRow(u, FailedWinners[u], TRUE).missing
                BY <2>0, <2>1, <2>2, <3>1, ConcludedIsWatched
            <4>4. pending'[u] = RowAfterSweep(u)
                BY <2>1, <3>1, <4>1
            <4> QED BY <4>2, <4>3, <4>4 DEF RowAfterSweep
        <3>2. CASE u \notin Overdue
            <4>1. UNCHANGED <<status[u], award[u], accepted[u]>>
                BY <2>1, <3>2, UnconcludedStands
            <4>2. b \in accepted[u] \/ (pending[u].open /\ b \in pending[u].missing)
                BY <2>2, <4>1 DEF Watched
            <4>3. CASE u \in Answered
                BY <4>1, <4>2, <4>3 DEF Answered
            <4>4. CASE u \notin Answered
                <5>1. pending'[u] = pending[u]
                    BY <2>1, <3>2, <4>4
                <5> QED BY <4>1, <4>2, <5>1
            <4> QED BY <4>3, <4>4
        <3> QED BY <3>1, <3>2
    <2>3. CASE kills = 0
        BY <1>1, <2>1, <2>2, <2>3
    <2>4. CASE kills # 0
        BY <2>1, <2>4 DEF Watched
    <2> QED BY <2>3, <2>4
<1>11. ASSUME NEW t \in Tasks, KilledInClose(t) \/ KilledInSweep(t) \/ KilledInSettle(t)
       PROVE  Watched'
    BY <1>3, <1>11 DEF KilledInClose, KilledInSweep, KilledInSettle, Killed
<1>12. CASE UNCHANGED vars
    BY <1>2, <1>12 DEF vars
<1> QED BY <1>4, <1>5, <1>6, <1>7, <1>8, <1>9, <1>10, <1>11, <1>12 DEF Next

\* While the process lives, each performer of an awarded task has accepted or is watched
\* by the row the sweep will find, through any number of re-auctions.
THEOREM WatchStands == Spec => []Watched
<1>1. Init => Watched
    BY DEF Init, Watched
<1>2. TypeOK /\ Watched /\ [Next]_vars => Watched'
    BY WatchedStep
<1> QED BY <1>1, <1>2, TypeCorrect, PTL DEF Spec

HIDE AllocationAssumption

------------------------------------------------------------------------------
(* Orders, induction and folds over finite sets *)

\* Among subsets of a finite set there is one of which no smaller one is of them.
LEMMA LeastSubset ==
    ASSUME NEW S, IsFiniteSet(S), NEW Lacking, Lacking \subseteq SUBSET S, Lacking # {}
    PROVE  \E T \in Lacking : \A U \in SUBSET T : U # T => U \notin Lacking
<1>1. IsWellFoundedOn(StrictSubsetOrdering(S), SUBSET S)
    BY FS_StrictSubsetOrderingWellFounded, FS_FiniteSubsetsOfFinite
<1>2. PICK T \in Lacking : \A U \in Lacking : ~(<<U, T>> \in StrictSubsetOrdering(S))
    BY <1>1, WFMin
<1>3. ASSUME NEW U \in SUBSET T, U # T PROVE U \notin Lacking
    <2>1. T \in SUBSET S /\ U \in SUBSET S
        BY <1>2
    <2>2. <<U, T>> \in StrictSubsetOrdering(S)
        BY <1>3, <2>1 DEF StrictSubsetOrdering
    <2> QED BY <1>2, <2>2
<1> QED BY <1>2, <1>3

\* A set of natural numbers has a least member.
LessThan == {ss \in Nat \X Nat : ss[1] < ss[2]}
LEMMA LeastNatural ==
    ASSUME NEW S \in SUBSET Nat, S # {}
    PROVE  \E i \in S : \A j \in S : i <= j
<1>1. IsWellFoundedOn(LessThan, Nat)
    BY NatLessThanWellFounded DEF OpToRel, LessThan
<1>2. PICK i \in S : \A j \in S : <<j, i>> \notin LessThan
    BY <1>1, WFMin
<1>3. ASSUME NEW j \in S PROVE i <= j
    <2>1. i \in Nat /\ j \in Nat /\ <<j, i>> \notin LessThan
        BY <1>2
    <2> QED BY <2>1 DEF LessThan
<1> QED BY <1>3

\* Induction over the natural numbers, about the set of those that hold good.
LEMMA NaturalInduction ==
    ASSUME NEW Good, 0 \in Good, \A k \in Nat : k \in Good => k + 1 \in Good
    PROVE  \A n \in Nat : n \in Good
<1> SUFFICES ASSUME NEW n \in Nat, n \notin Good PROVE FALSE
    OBVIOUS
<1>1. PICK Bad : Bad = {i \in Nat : i \notin Good}
    OBVIOUS
<1>2. PICK i \in Bad : \A j \in Bad : i <= j
    BY <1>1, LeastNatural
<1>3. i \in Nat /\ i \notin Good /\ i # 0
    BY <1>1, <1>2
<1>4. i - 1 \in Nat /\ i - 1 \notin Bad /\ (i - 1) + 1 = i
    BY <1>2, <1>3
<1> QED BY <1>1, <1>3, <1>4

\* Of finitely many in a strict order one comes before all others.
InOrder(S, before) ==
    /\ \A x \in S : <<x, x>> \notin before
    /\ \A x, y \in S : x = y \/ <<x, y>> \in before \/ <<y, x>> \in before
    /\ \A x, y, z \in S : <<x, y>> \in before /\ <<y, z>> \in before => <<x, z>> \in before

LEMMA FirstIsThere ==
    ASSUME NEW S, IsFiniteSet(S), S # {}, NEW before, InOrder(S, before)
    PROVE  \E x \in S : \A y \in S \ {x} : <<x, y>> \in before
<1> DEFINE HasFirst(T) == \E x \in T : \A y \in T \ {x} : <<x, y>> \in before
<1> SUFFICES ASSUME ~HasFirst(S) PROVE FALSE
    OBVIOUS
<1>1. PICK Lacking : Lacking = {T \in SUBSET S : T # {} /\ ~HasFirst(T)}
    OBVIOUS
<1>2. Lacking \subseteq SUBSET S /\ Lacking # {}
    BY <1>1
<1>3. PICK T \in Lacking : \A U \in SUBSET T : U # T => U \notin Lacking
    BY <1>2, LeastSubset
<1>4. T \in SUBSET S /\ T # {} /\ ~HasFirst(T)
    BY <1>1, <1>3
<1>5. PICK x : x \in T
    BY <1>4
<1>6. CASE T \ {x} = {}
    BY <1>4, <1>5, <1>6
<1>7. CASE T \ {x} # {}
    <2>0. T \ {x} \in SUBSET T /\ T \ {x} # T /\ T \ {x} \in SUBSET S /\ T \ {x} \notin Lacking
        BY <1>3, <1>4, <1>5
    <2>1. HasFirst(T \ {x})
        <3> HIDE DEF HasFirst
        <3> QED BY <1>1, <1>7, <2>0
    <2>2. PICK z \in T \ {x} : \A y \in (T \ {x}) \ {z} : <<z, y>> \in before
        BY <2>1
    <2>3. x \in S /\ z \in S /\ x # z /\ T \subseteq S
        BY <1>4, <1>5, <2>2
    <2>4. CASE <<z, x>> \in before
        <3>1. \A y \in T \ {z} : <<z, y>> \in before
            BY <2>2, <2>4
        <3> QED BY <1>4, <2>2, <3>1
    <2>5. CASE <<x, z>> \in before
        <3>1. ASSUME NEW y \in T \ {x} PROVE <<x, y>> \in before
            <4>1. y = z \/ <<z, y>> \in before
                BY <2>2, <3>1
            <4> QED BY <2>3, <2>5, <3>1, <4>1 DEF InOrder
        <3> QED BY <1>4, <1>5, <3>1
    <2> QED BY <2>3, <2>4, <2>5 DEF InOrder
<1> QED BY <1>6, <1>7

\* A fold over a finite set: each subset's value is a turn on that of the subset without
\* the element that is picked from it.
Folded(base, pick, turn, g, T) ==
    IF T = {} THEN base ELSE turn[<<pick[T], g[T \ {pick[T]}]>>]

Foldable(S, V, base, pick, turn) ==
    /\ IsFiniteSet(S) /\ base \in V
    /\ \A T \in SUBSET S : T # {} => pick[T] \in T
    /\ turn \in [S \X V -> V]
IsFold(S, V, base, pick, turn, g) ==
    g \in [SUBSET S -> V] /\ \A T \in SUBSET S : g[T] = Folded(base, pick, turn, g, T)

\* There is one: it is built up by the size of the subsets.
LEMMA FoldExists ==
    ASSUME NEW S, NEW V, NEW base, NEW pick, NEW turn, Foldable(S, V, base, pick, turn)
    PROVE  \E g : IsFold(S, V, base, pick, turn, g)
<1>a. /\ IsFiniteSet(S) /\ base \in V
      /\ \A T \in SUBSET S : T # {} => pick[T] \in T
      /\ turn \in [S \X V -> V]
    BY DEF Foldable
<1> DEFINE Small(n) == {T \in SUBSET S : Cardinality(T) <= n}
           Done(n) == \E h \in [Small(n) -> V] :
                         \A T \in Small(n) : h[T] = Folded(base, pick, turn, h, T)
<1>0. \A T \in SUBSET S : /\ IsFiniteSet(T) /\ Cardinality(T) \in Nat
                          /\ (Cardinality(T) = 0 => T = {})
                          /\ Cardinality(T) <= Cardinality(S)
    BY <1>a, FS_Subset, FS_CardinalityType, FS_EmptySet
<1>1. Done(0)
    <2>1. PICK h : h = [T \in Small(0) |-> base]
        OBVIOUS
    <2>2. \A T \in Small(0) : T = {} /\ h[T] = base
        BY <1>0, <2>1
    <2>3. \A T \in Small(0) : h[T] = Folded(base, pick, turn, h, T)
        BY <2>2 DEF Folded
    <2>4. h \in [Small(0) -> V]
        BY <1>a, <2>1
    <2> QED BY <2>3, <2>4
<1>2. ASSUME NEW n \in Nat, Done(n) PROVE Done(n + 1)
    <2>1. PICK h \in [Small(n) -> V] : \A T \in Small(n) : h[T] = Folded(base, pick, turn, h, T)
        BY <1>2
    <2>2. PICK k : k = [T \in Small(n + 1) |-> Folded(base, pick, turn, h, T)]
        OBVIOUS
    <2>3. ASSUME NEW T \in Small(n + 1)
          PROVE  /\ Folded(base, pick, turn, h, T) = Folded(base, pick, turn, k, T)
                 /\ Folded(base, pick, turn, h, T) \in V
        <3>1. CASE T = {}
            BY <1>a, <3>1 DEF Folded
        <3>2. CASE T # {}
            <4>1. PICK x : x = pick[T]
                OBVIOUS
            <4>2. x \in T /\ x \in S
                BY <1>a, <2>3, <3>2, <4>1
            <4>3. Cardinality(T \ {x}) = Cardinality(T) - 1
                BY <1>0, <4>2, FS_RemoveElement
            <4>4. T \ {x} \in SUBSET S /\ Cardinality(T) \in Nat /\ Cardinality(T) <= n + 1
                BY <1>0, <2>3
            <4>5. T \ {x} \in Small(n) /\ T \ {x} \in Small(n + 1)
                BY <4>3, <4>4, <1>0
            <4> HIDE DEF Small
            <4>6. k[T \ {x}] = h[T \ {x}] /\ h[T \ {x}] \in V
                BY <2>1, <2>2, <4>5
            <4>7. turn[<<x, h[T \ {x}]>>] \in V
                BY <1>a, <4>2, <4>6
            <4> QED BY <3>2, <4>1, <4>6, <4>7 DEF Folded
        <3> QED BY <3>1, <3>2
    <2> HIDE DEF Small
    <2>4. k \in [Small(n + 1) -> V] /\ \A T \in Small(n + 1) : k[T] = Folded(base, pick, turn, k, T)
        BY <2>2, <2>3
    <2> QED BY <2>4
<1>3. ASSUME NEW n \in Nat PROVE Done(n)
    <2> HIDE DEF Done
    <2>1. PICK Good : Good = {k \in Nat : Done(k)}
        OBVIOUS
    <2>2. 0 \in Good /\ \A k \in Nat : k \in Good => k + 1 \in Good
        BY <1>1, <1>2, <2>1
    <2>3. n \in Good
        BY <2>2, NaturalInduction
    <2> QED BY <2>1, <2>3
<1>4. Done(Cardinality(S))
    BY <1>3, <1>a, FS_CardinalityType
<1>5. Small(Cardinality(S)) = SUBSET S
    BY <1>0
<1> HIDE DEF Small
<1> QED BY <1>4, <1>5 DEF IsFold

------------------------------------------------------------------------------
(* Sums and products over finite sets *)

\* One turn of the library's sum, and a function that is the sum of each subset.
Summand(F, g, T) ==
    IF T = {} THEN 0 ELSE F[CHOOSE x \in T : TRUE] + g[T \ {CHOOSE x \in T : TRUE}]
Summing(F, S, g) == g = [T \in SUBSET S |-> Summand(F, g, T)]

LEMMA SummingExists ==
    ASSUME NEW S, IsFiniteSet(S), NEW F \in [S -> Int]
    PROVE  \E g : Summing(F, S, g)
<1>1. PICK pick, turn : /\ pick = [T \in SUBSET S |-> CHOOSE x \in T : TRUE]
                        /\ turn = [p \in S \X Int |-> F[p[1]] + p[2]]
    OBVIOUS
<1>2. /\ \A T \in SUBSET S : pick[T] = CHOOSE x \in T : TRUE
      /\ \A T \in SUBSET S : T # {} => pick[T] \in T
    BY <1>1
<1>3. turn \in [S \X Int -> Int] /\ \A x \in S, v \in Int : turn[<<x, v>>] = F[x] + v
    BY <1>1
<1>4. PICK g : IsFold(S, Int, 0, pick, turn, g)
    <2>1. Foldable(S, Int, 0, pick, turn)
        BY <1>2, <1>3 DEF Foldable
    <2> QED BY <2>1, FoldExists
<1>5. ASSUME NEW T \in SUBSET S PROVE g[T] = Summand(F, g, T)
    <2>1. CASE T = {}
        BY <1>4, <2>1 DEF IsFold, Folded, Summand
    <2>2. CASE T # {}
        <3>1. PICK x : x = pick[T] /\ x = CHOOSE y \in T : TRUE
            BY <1>2
        <3>2. x \in S /\ g[T \ {x}] \in Int
            BY <1>2, <1>4, <2>2, <3>1 DEF IsFold
        <3>3. g[T] = turn[<<x, g[T \ {x}]>>]
            BY <1>4, <2>2, <3>1 DEF IsFold, Folded
        <3> QED BY <1>3, <2>2, <3>1, <3>2, <3>3 DEF Summand
    <2> QED BY <2>1, <2>2
<1> QED BY <1>4, <1>5 DEF IsFold, Summing

\* What a sum is: nothing of nothing, and of more than that any member and the rest.
Adds(F, S, g) ==
    /\ g \in [SUBSET S -> Int]
    /\ g[{}] = 0
    /\ \A T \in SUBSET S : \A x \in T : g[T] = F[x] + g[T \ {x}]

LEMMA SummingAdds ==
    ASSUME NEW S, IsFiniteSet(S), NEW F \in [S -> Int], NEW g, Summing(F, S, g)
    PROVE  Adds(F, S, g)
<1> DEFINE Right(T) == g[T] \in Int /\ \A x \in T : g[T] = F[x] + g[T \ {x}]
<1>0. \A T \in SUBSET S : g[T] = Summand(F, g, T)
    BY DEF Summing
<1>1. g[{}] = 0
    BY <1>0 DEF Summand
<1>2. ASSUME NEW T \in SUBSET S, \A U \in SUBSET T : U # T => Right(U) PROVE Right(T)
    <2>1. CASE T = {}
        BY <1>1, <2>1
    <2>2. CASE T # {}
        <3>1. PICK c : c = CHOOSE y \in T : TRUE
            OBVIOUS
        <3>2. c \in T /\ g[T] = F[c] + g[T \ {c}]
            BY <1>0, <2>2, <3>1 DEF Summand
        <3>3. Right(T \ {c})
            BY <1>2, <3>2
        <3>4. F[c] \in Int /\ g[T \ {c}] \in Int /\ g[T] \in Int
            BY <3>2, <3>3
        <3>5. ASSUME NEW x \in T, x # c PROVE g[T] = F[x] + g[T \ {x}]
            <4>1. Right(T \ {x})
                BY <1>2
            <4>2. c \in T \ {x} /\ x \in T \ {c} /\ (T \ {x}) \ {c} = (T \ {c}) \ {x}
                BY <3>2, <3>5
            <4>3. g[T \ {x}] = F[c] + g[(T \ {c}) \ {x}]
                BY <4>1, <4>2
            <4>4. g[T \ {c}] = F[x] + g[(T \ {c}) \ {x}]
                BY <3>3, <4>2
            <4>5. (T \ {c}) \ {x} # T
                BY <4>2
            <4>6. g[(T \ {c}) \ {x}] \in Int
                BY <1>2, <4>5
            <4>7. F[x] \in Int
                BY <3>5
            <4> QED BY <3>2, <3>4, <4>3, <4>4, <4>6, <4>7
        <3> QED BY <3>2, <3>4, <3>5
    <2> QED BY <2>1, <2>2
<1>3. ASSUME NEW T \in SUBSET S PROVE Right(T)
    <2> HIDE DEF Right
    <2> SUFFICES ASSUME ~Right(T) PROVE FALSE
        OBVIOUS
    <2>1. PICK Lacking : Lacking = {U \in SUBSET S : ~Right(U)}
        OBVIOUS
    <2>2. Lacking \subseteq SUBSET S /\ Lacking # {}
        BY <2>1
    <2>3. PICK U \in Lacking : \A V \in SUBSET U : V # U => V \notin Lacking
        BY <2>2, LeastSubset
    <2>4. U \in SUBSET S /\ ~Right(U) /\ \A V \in SUBSET U : V # U => Right(V)
        BY <2>1, <2>3
    <2> QED BY <1>2, <2>4
<1>4. g \in [SUBSET S -> Int]
    BY <1>3 DEF Summing
<1> QED BY <1>1, <1>3, <1>4 DEF Adds

\* The library's sum is one.
LEMMA SumAdds ==
    ASSUME NEW S, IsFiniteSet(S), NEW F \in [S -> Int]
    PROVE  \E g : Adds(F, S, g) /\ SumFunction(F) = g[S]
<1>1. PICK g : Summing(F, S, g) /\ SumFunction(F) = g[S]
    <2>1. DOMAIN F = S
        OBVIOUS
    <2>2. SumFunction(F) = (CHOOSE g : Summing(F, S, g))[S]
        BY <2>1 DEF SumFunction, SumFunctionOnSet, FoldFunctionOnSet, MapThenFoldSet, Summing, Summand
    <2> QED BY <2>2, SummingExists
<1> QED BY <1>1, SummingAdds

\* Products keep an order, and go over sums.
LEMMA TimesSum ==
    ASSUME NEW a \in Int, NEW b \in Int, NEW c \in Int
    PROVE  a * (b + c) = a * b + a * c
OBVIOUS

LEMMA TimesKeepsOrder ==
    ASSUME NEW a \in Int, NEW b \in Int, NEW w \in Nat, a <= b
    PROVE  a * w <= b * w
<1>1. (b - a) * w >= 0
    <2>1. b - a \in Nat
        OBVIOUS
    <2>2. \A d \in Nat : d * w >= 0
        OBVIOUS
    <2> QED BY <2>1, <2>2
<1>2. (b - a) * w = b * w - a * w
    OBVIOUS
<1>3. a * w \in Int /\ b * w \in Int
    OBVIOUS
<1> QED BY <1>1, <1>2, <1>3

\* What lies between two multiples, member by member, lies between them in sum.
Bounds(lo, F, G, hi, D) == \A x \in D : lo * F[x] <= G[x] /\ G[x] <= hi * F[x]
LEMMA SumsBetween ==
    ASSUME NEW S, IsFiniteSet(S), NEW W \in [S -> Int], NEW P \in [S -> Int],
           NEW g, Adds(W, S, g), NEW p, Adds(P, S, p), NEW lo \in Int, NEW hi \in Int,
           Bounds(lo, W, P, hi, S)
    PROVE  Bounds(lo, g, p, hi, SUBSET S)
<1> DEFINE Right(T) == lo * g[T] <= p[T] /\ p[T] <= hi * g[T]
<1>1. ASSUME NEW T \in SUBSET S, \A U \in SUBSET T : U # T => Right(U) PROVE Right(T)
    <2>1. CASE T = {}
        <3>1. g[T] = 0 /\ p[T] = 0
            BY <2>1 DEF Adds
        <3>2. lo * 0 = 0 /\ hi * 0 = 0
            OBVIOUS
        <3> QED BY <3>1, <3>2
    <2>2. ASSUME NEW x \in T PROVE Right(T)
        <3>1. Right(T \ {x})
            BY <1>1
        <3>2. PICK w, v, h, q \in Int : /\ w = W[x] /\ v = P[x]
                                        /\ h = g[T \ {x}] /\ q = p[T \ {x}]
            BY DEF Adds
        <3>3. g[T] = w + h /\ p[T] = v + q
            BY <3>2 DEF Adds
        <3>4. lo * h <= q /\ q <= hi * h /\ lo * w <= v /\ v <= hi * w
            BY <3>1, <3>2 DEF Bounds
        <3>5. lo * (w + h) = lo * w + lo * h /\ hi * (w + h) = hi * w + hi * h
            BY TimesSum
        <3>6. lo * w \in Int /\ lo * h \in Int /\ hi * w \in Int /\ hi * h \in Int
            OBVIOUS
        <3>7. lo * (w + h) <= v + q /\ v + q <= hi * (w + h)
            BY <3>4, <3>5, <3>6
        <3> QED BY <3>3, <3>7
    <2> QED BY <2>1, <2>2
<1>2. ASSUME NEW T \in SUBSET S PROVE Right(T)
    <2> HIDE DEF Right
    <2> SUFFICES ASSUME ~Right(T) PROVE FALSE
        OBVIOUS
    <2>1. PICK Lacking : Lacking = {U \in SUBSET S : ~Right(U)}
        OBVIOUS
    <2>2. Lacking \subseteq SUBSET S /\ Lacking # {}
        BY <2>1
    <2>3. PICK U \in Lacking : \A V \in SUBSET U : V # U => V \notin Lacking
        BY <2>2, LeastSubset
    <2>4. U \in SUBSET S /\ ~Right(U) /\ \A V \in SUBSET U : V # U => Right(V)
        BY <2>1, <2>3
    <2> QED BY <1>1, <2>4
<1> QED BY <1>2 DEF Bounds

\* Of finitely many numbers one is the greatest.
LEMMA Greatest ==
    ASSUME NEW S, IsFiniteSet(S), S # {}, NEW F \in [S -> Int]
    PROVE  \E x \in S : \A y \in S : F[y] <= F[x]
<1> DEFINE Top(T) == \E x \in T : \A y \in T : F[y] <= F[x]
<1> SUFFICES ASSUME ~Top(S) PROVE FALSE
    OBVIOUS
<1>1. PICK Lacking : Lacking = {T \in SUBSET S : T # {} /\ ~Top(T)}
    OBVIOUS
<1>2. Lacking \subseteq SUBSET S /\ Lacking # {}
    BY <1>1
<1>3. PICK T \in Lacking : \A U \in SUBSET T : U # T => U \notin Lacking
    BY <1>2, LeastSubset
<1>4. T \in SUBSET S /\ T # {} /\ ~Top(T)
    BY <1>1, <1>3
<1>5. PICK x : x \in T
    BY <1>4
<1>6. CASE T \ {x} = {}
    <2>1. \A y \in T : F[y] <= F[x]
        BY <1>4, <1>5, <1>6
    <2> QED BY <1>4, <1>5, <2>1
<1>7. CASE T \ {x} # {}
    <2>0. T \ {x} \in SUBSET T /\ T \ {x} # T /\ T \ {x} \in SUBSET S /\ T \ {x} \notin Lacking
        BY <1>3, <1>4, <1>5
    <2>1. Top(T \ {x})
        <3> HIDE DEF Top
        <3> QED BY <1>1, <1>7, <2>0
    <2>2. PICK z \in T \ {x} : \A y \in T \ {x} : F[y] <= F[z]
        BY <2>1
    <2>3. F[x] \in Int /\ F[z] \in Int /\ \A y \in T : F[y] \in Int
        BY <1>4, <1>5, <2>2
    <2>4. CASE F[x] <= F[z]
        <3>1. \A y \in T : F[y] <= F[z]
            BY <2>2, <2>4
        <3> QED BY <1>4, <2>2, <3>1
    <2>5. CASE F[z] <= F[x]
        <3>1. \A y \in T : F[y] <= F[x]
            BY <2>2, <2>3, <2>5
        <3> QED BY <1>4, <1>5, <3>1
    <2> QED BY <2>3, <2>4, <2>5
<1> QED BY <1>6, <1>7

\* One element more, and there are twice as many subsets.
LEMMA SubsetsDouble ==
    ASSUME NEW B, IsFiniteSet(B), NEW A \in SUBSET B, NEW y \in B, y \notin A
    PROVE  /\ 2 ^ Cardinality(A) \in Nat \ {0} /\ 2 * 2 ^ Cardinality(A) <= 2 ^ Cardinality(B)
           /\ B = A \cup {y} => 2 * 2 ^ Cardinality(A) = 2 ^ Cardinality(B)
<1>1. IsFiniteSet(A) /\ IsFiniteSet(SUBSET A) /\ IsFiniteSet(SUBSET B)
    BY FS_Subset, FS_SUBSET
<1>2. PICK f : f = [T \in SUBSET A |-> T \cup {y}]
    OBVIOUS
<1>3. PICK Q : Q = {T \cup {y} : T \in SUBSET A}
    OBVIOUS
<1>4. f \in Bijection(SUBSET A, Q)
    <2>1. f \in [SUBSET A -> Q]
        BY <1>2, <1>3
    <2>2. ASSUME NEW T \in SUBSET A, NEW U \in SUBSET A, f[T] = f[U] PROVE T = U
        <3>1. T \cup {y} = U \cup {y} /\ y \notin T /\ y \notin U
            BY <1>2, <2>2
        <3> QED BY <3>1
    <2>3. \A V \in Q : \E T \in SUBSET A : f[T] = V
        BY <1>2, <1>3
    <2> QED BY <2>1, <2>2, <2>3 DEF Bijection, Injection, Surjection, IsInjective
<1>5. IsFiniteSet(Q) /\ Cardinality(Q) = Cardinality(SUBSET A)
    BY <1>1, <1>4, FS_Bijection DEF ExistsBijection
<1>6. Q \cap SUBSET A = {}
    BY <1>3
<1>7. /\ IsFiniteSet(Q \cup SUBSET A)
      /\ Cardinality(Q \cup SUBSET A)
            = Cardinality(Q) + Cardinality(SUBSET A) - Cardinality(Q \cap SUBSET A)
    BY <1>1, <1>5, FS_Union
<1>8. Q \cup SUBSET A \subseteq SUBSET B
    BY <1>3
<1>9. Cardinality(Q \cup SUBSET A) <= Cardinality(SUBSET B)
    BY <1>1, <1>8, FS_Subset
<1>10. /\ Cardinality(SUBSET A) = 2 ^ Cardinality(A) /\ Cardinality(SUBSET B) = 2 ^ Cardinality(B)
       /\ Cardinality(SUBSET A) \in Nat /\ Cardinality(SUBSET A) # 0
       /\ Cardinality(SUBSET B) \in Nat
    BY <1>1, FS_SUBSET, FS_CardinalityType, FS_EmptySet
<1>11. Cardinality(Q \cap SUBSET A) = 0
    BY <1>6, FS_EmptySet
<1>12. ASSUME B = A \cup {y}, NEW T \in SUBSET B PROVE T \in Q \cup SUBSET A
    <2>1. CASE y \in T
        <3>1. T \ {y} \in SUBSET A /\ T = (T \ {y}) \cup {y}
            BY <1>12, <2>1
        <3> QED BY <1>3, <3>1
    <2>2. CASE y \notin T
        BY <1>12, <2>2
    <2> QED BY <2>1, <2>2
<1>13. B = A \cup {y} => Cardinality(SUBSET B) = Cardinality(Q \cup SUBSET A)
    <2> SUFFICES ASSUME B = A \cup {y} PROVE SUBSET B = Q \cup SUBSET A
        OBVIOUS
    <2>1. SUBSET B \subseteq Q \cup SUBSET A
        BY <1>12, Zenon
    <2> QED BY <1>8, <2>1, Zenon
<1>14. Cardinality(Q \cup SUBSET A) = 2 * Cardinality(SUBSET A)
    BY <1>5, <1>7, <1>10, <1>11
<1> QED BY <1>9, <1>10, <1>13, <1>14

\* A quotient rounded down is the greatest number whose multiple is not above.
LEMMA QuotientFits ==
    ASSUME NEW n \in Int, NEW m \in Nat \ {0}
    PROVE  n \div m \in Int /\ m * (n \div m) <= n /\ n < m * (n \div m) + m
<1>1. n = m * (n \div m) + (n % m)
    OBVIOUS
<1>2. n % m \in Int /\ n % m >= 0 /\ n % m < m
    OBVIOUS
<1>3. n \div m \in Int /\ m * (n \div m) \in Int
    OBVIOUS
<1> QED BY <1>1, <1>2, <1>3

LEMMA QuotientAbove ==
    ASSUME NEW n \in Int, NEW m \in Nat \ {0}, NEW k \in Int, k * m <= n
    PROVE  k <= n \div m
<1>1. PICK q \in Int : q = n \div m /\ m * q <= n /\ n < m * q + m
    BY QuotientFits
<1> SUFFICES ASSUME q + 1 <= k PROVE FALSE
    BY <1>1
<1>2. (q + 1) * m <= k * m
    BY TimesKeepsOrder
<1>3. (q + 1) * m = m * q + m
    BY TimesSum
<1>4. k * m \in Int /\ m * q \in Int
    OBVIOUS
<1> QED BY <1>1, <1>2, <1>3, <1>4

LEMMA QuotientBelow ==
    ASSUME NEW n \in Int, NEW m \in Nat \ {0}, NEW c \in Int, 2 * n <= c * m
    PROVE  n \div m <= c \div 2
<1>1. PICK q \in Int : q = n \div m /\ m * q <= n
    BY QuotientFits
<1>2. (2 * q) * m <= c * m
    <2>1. (2 * q) * m = 2 * (m * q) /\ m * q \in Int /\ c * m \in Int
        OBVIOUS
    <2> QED BY <1>1, <2>1
<1>3. 2 * q <= c
    <2> SUFFICES ASSUME c + 1 <= 2 * q PROVE FALSE
        OBVIOUS
    <2>1. (c + 1) * m <= (2 * q) * m
        BY TimesKeepsOrder
    <2>2. (c + 1) * m = c * m + m /\ c * m \in Int
        OBVIOUS
    <2> QED BY <1>2, <2>1, <2>2
<1>4. q <= c \div 2
    BY <1>3
<1> QED BY <1>1, <1>4

\* A mean of which one part weighs more than the rest lies beyond the middle between
\* that part and the least or the greatest of the rest.
LEMMA MeanOfNewest ==
    ASSUME NEW w \in Nat, NEW r \in Nat, r < w, NEW a \in Int, NEW q \in Int,
           NEW lo \in Int, NEW hi \in Int, lo <= a, a <= hi, lo * r <= q, q <= hi * r
    PROVE  /\ (w * a + q) \div (w + r) >= (a + lo) \div 2
           /\ (w * a + q) \div (w + r) <= (a + hi) \div 2
<1>0. /\ w * a + q \in Int /\ w + r \in Nat \ {0} /\ w - r \in Nat
      /\ a - lo \in Nat /\ hi - a \in Nat
      /\ lo * r \in Int /\ hi * r \in Int /\ w * a \in Int
    OBVIOUS
<1>1. 2 * (w * a + q) >= (a + lo) * (w + r)
    <2>1. (w - r) * (a - lo) >= 0
        <3>1. \A d, e \in Nat : d * e >= 0
            OBVIOUS
        <3> QED BY <1>0, <3>1
    <2>2. (w - r) * (a - lo) = 2 * (w * a + lo * r) - (a + lo) * (w + r)
        OBVIOUS
    <2>3. (a + lo) * (w + r) \in Int
        OBVIOUS
    <2> QED BY <1>0, <2>1, <2>2, <2>3
<1>2. 2 * (w * a + q) <= (a + hi) * (w + r)
    <2>1. (w - r) * (hi - a) >= 0
        <3>1. \A d, e \in Nat : d * e >= 0
            OBVIOUS
        <3> QED BY <1>0, <3>1
    <2>2. (w - r) * (hi - a) = (a + hi) * (w + r) - 2 * (w * a + hi * r)
        OBVIOUS
    <2>3. (a + hi) * (w + r) \in Int
        OBVIOUS
    <2> QED BY <1>0, <2>1, <2>2, <2>3
<1>3. (a + lo) \div 2 <= (w * a + q) \div (w + r)
    <2>1. PICK k \in Int : k = (a + lo) \div 2 /\ 2 * k <= a + lo
        OBVIOUS
    <2>2. (2 * k) * (w + r) <= (a + lo) * (w + r)
        BY <1>0, <2>1, TimesKeepsOrder
    <2>3. (2 * k) * (w + r) = 2 * (k * (w + r)) /\ k * (w + r) \in Int /\ (a + lo) * (w + r) \in Int
        OBVIOUS
    <2>4. k * (w + r) <= w * a + q
        BY <1>0, <1>1, <2>2, <2>3
    <2> QED BY <1>0, <2>1, <2>4, QuotientAbove
<1>4. (w * a + q) \div (w + r) <= (a + hi) \div 2
    <2>1. a + hi \in Int
        OBVIOUS
    <2> QED BY <1>0, <1>2, <2>1, QuotientBelow
<1>5. (a + lo) \div 2 \in Int /\ (w * a + q) \div (w + r) \in Int
    BY <1>0, QuotientFits
<1> QED BY <1>3, <1>4, <1>5

\* Induction over the subsets of a finite set, about the set of those that hold good.
LEMMA SubsetInduction ==
    ASSUME NEW S, IsFiniteSet(S), NEW Good, {} \in Good,
           \A T \in SUBSET S : \A x \in T : T \ {x} \in Good => T \in Good
    PROVE  \A T \in SUBSET S : T \in Good
<1> SUFFICES ASSUME NEW T \in SUBSET S, T \notin Good PROVE FALSE
    OBVIOUS
<1>1. PICK Lacking : Lacking = {U \in SUBSET S : U \notin Good}
    OBVIOUS
<1>2. Lacking \subseteq SUBSET S /\ Lacking # {}
    BY <1>1
<1>3. PICK U \in Lacking : \A V \in SUBSET U : V # U => V \notin Lacking
    BY <1>2, LeastSubset
<1>4. U \in SUBSET S /\ U \notin Good /\ U # {}
    BY <1>1, <1>3
<1>5. PICK x : x \in U
    BY <1>4
<1>6. U \ {x} \in SUBSET U /\ U \ {x} # U /\ U \ {x} \in SUBSET S
    BY <1>4, <1>5
<1>7. U \ {x} \in Good
    BY <1>1, <1>3, <1>6
<1> QED BY <1>4, <1>5, <1>7

\* Sums whose summands are in one ratio are in that ratio.
InRatio(T, k, F, j, G) == \A x \in T : k * F[x] = j * G[x]

LEMMA SumsScale ==
    ASSUME NEW S, NEW F, NEW g, Adds(F, S, g), NEW R, NEW G, NEW h, Adds(G, R, h),
           F \in [S -> Int], G \in [R -> Int],
           NEW T \in SUBSET S, T \in SUBSET R, IsFiniteSet(T),
           NEW k \in Int, NEW j \in Int, InRatio(T, k, F, j, G)
    PROVE  k * g[T] = j * h[T]
<1>1. PICK Good : Good = {U \in SUBSET T : k * g[U] = j * h[U]}
    OBVIOUS
<1>2. {} \in Good
    <2>1. g[{}] = 0 /\ h[{}] = 0
        BY DEF Adds
    <2> QED BY <1>1, <2>1
<1>3. ASSUME NEW U \in SUBSET T, NEW x \in U, U \ {x} \in Good PROVE U \in Good
    <2>1. PICK u, v, y, z \in Int : /\ u = F[x] /\ v = G[x]
                                    /\ y = g[U \ {x}] /\ z = h[U \ {x}]
        BY DEF Adds
    <2>2. g[U] = u + y /\ h[U] = v + z
        BY <2>1 DEF Adds
    <2>3. k * u = j * v /\ k * y = j * z
        BY <1>1, <1>3, <2>1 DEF InRatio
    <2>4. k * (u + y) = k * u + k * y /\ j * (v + z) = j * v + j * z
        BY TimesSum
    <2> QED BY <1>1, <2>2, <2>3, <2>4
<1>4. \A U \in SUBSET T : U \in Good
    BY <1>2, <1>3, SubsetInduction
<1> QED BY <1>1, <1>4

\* The library's sum of a part of a function.
LEMMA SumOfPart ==
    ASSUME NEW S, NEW F \in [S -> Int], NEW g, Adds(F, S, g), NEW T \in SUBSET S, IsFiniteSet(T)
    PROVE  SumFunction([x \in T |-> F[x]]) = g[T]
<1>1. PICK G : G = [x \in T |-> F[x]]
    OBVIOUS
<1>2. G \in [T -> Int]
    BY <1>1
<1>3. PICK h : Adds(G, T, h) /\ SumFunction(G) = h[T]
    BY <1>2, SumAdds
<1>4. 1 \in Int /\ T \in SUBSET T /\ InRatio(T, 1, F, 1, G)
    BY <1>1 DEF InRatio
<1>5. 1 * g[T] = 1 * h[T]
    BY <1>2, <1>3, <1>4, SumsScale
<1>6. g[T] \in Int /\ h[T] \in Int
    BY <1>3 DEF Adds
<1> QED BY <1>1, <1>3, <1>5, <1>6

LEMMA SumOfUnion ==
    ASSUME NEW S, NEW F \in [S -> Int], NEW g, Adds(F, S, g),
           NEW T \in SUBSET S, NEW U \in SUBSET S, T \cap U = {}, IsFiniteSet(U)
    PROVE  g[T \cup U] = g[T] + g[U]
<1>1. PICK Good : Good = {V \in SUBSET U : g[T \cup V] = g[T] + g[V]}
    OBVIOUS
<1>2. {} \in Good
    <2>1. g[{}] = 0 /\ g[T] \in Int /\ T \cup {} = T
        BY DEF Adds
    <2> QED BY <1>1, <2>1
<1>3. ASSUME NEW V \in SUBSET U, NEW x \in V, V \ {x} \in Good PROVE V \in Good
    <2>1. (T \cup V) \ {x} = T \cup (V \ {x}) /\ T \cup V \in SUBSET S /\ x \in T \cup V
        BY <1>3
    <2>2. g[T \cup V] = F[x] + g[T \cup (V \ {x})] /\ g[V] = F[x] + g[V \ {x}]
        BY <2>1 DEF Adds
    <2>3. g[T \cup (V \ {x})] = g[T] + g[V \ {x}]
        BY <1>1, <1>3
    <2>4. F[x] \in Int /\ g[T] \in Int /\ g[V \ {x}] \in Int
        BY DEF Adds
    <2> QED BY <1>1, <2>2, <2>3, <2>4
<1>4. \A V \in SUBSET U : V \in Good
    BY <1>2, <1>3, SubsetInduction
<1> QED BY <1>1, <1>4

\* Summed group by group, it is the same sum.
LEMMA SumOfGroups ==
    ASSUME NEW S, IsFiniteSet(S), NEW F \in [S -> Int], NEW g, Adds(F, S, g), NEW K,
           NEW M, IsFiniteSet(M), NEW C \in [M -> Int], NEW c, Adds(C, M, c),
           NEW G, \A m \in M : G[m] = {x \in S : K[x] = m} /\ C[m] = g[G[m]],
           \A x \in S : K[x] \in M
    PROVE  c[M] = g[S]
<1>1. PICK Good : Good = {N \in SUBSET M : c[N] = g[{x \in S : K[x] \in N}]}
    OBVIOUS
<1>2. {} \in Good
    <2>1. c[{}] = 0 /\ g[{}] = 0 /\ {x \in S : K[x] \in {}} = {}
        BY DEF Adds
    <2> QED BY <1>1, <2>1
<1>3. ASSUME NEW N \in SUBSET M, NEW m \in N, N \ {m} \in Good PROVE N \in Good
    <2>1. PICK T, U : T = {x \in S : K[x] \in N \ {m}} /\ U = {x \in S : K[x] = m}
        OBVIOUS
    <2>2. T \in SUBSET S /\ U \in SUBSET S /\ T \cap U = {} /\ T \cup U = {x \in S : K[x] \in N}
        BY <2>1
    <2>3. IsFiniteSet(U)
        BY <2>2, FS_Subset
    <2>4. g[T \cup U] = g[T] + g[U]
        BY <2>2, <2>3, SumOfUnion
    <2>5. c[N] = C[m] + c[N \ {m}]
        BY DEF Adds
    <2>6. C[m] = g[U] /\ c[N \ {m}] = g[T]
        BY <1>1, <1>3, <2>1
    <2>7. g[T] \in Int /\ g[U] \in Int
        BY <2>2 DEF Adds
    <2>8. c[N] = g[T \cup U]
        BY <2>4, <2>5, <2>6, <2>7
    <2>9. c[N] = g[{x \in S : K[x] \in N}]
        BY <2>2, <2>8
    <2> QED BY <1>1, <2>9
<1>4. M \in Good
    BY <1>2, <1>3, SubsetInduction
<1>5. {x \in S : K[x] \in M} = S
    OBVIOUS
<1> QED BY <1>1, <1>4, <1>5

\* Summed under other names, it is the same sum.
Renames(E, A, f, F, T) ==
    /\ f \in [A -> T] /\ \A x \in T : \E a \in A : x = f[a]
    /\ \A a \in A : \A b \in A : f[a] = f[b] => a = b
    /\ \A a \in A : E[a] = F[f[a]]

LEMMA SumRenamed ==
    ASSUME NEW S, NEW F \in [S -> Int], NEW g, Adds(F, S, g),
           NEW A, IsFiniteSet(A), NEW E \in [A -> Int], NEW e, Adds(E, A, e),
           NEW T \in SUBSET S, NEW f, Renames(E, A, f, F, T)
    PROVE  e[A] = g[T]
<1> USE DEF Renames
<1>1. PICK Good : Good = {B \in SUBSET A : e[B] = g[{f[a] : a \in B}]}
    OBVIOUS
<1>2. {} \in Good
    <2>1. e[{}] = 0 /\ g[{}] = 0 /\ {f[a] : a \in {}} = {}
        BY DEF Adds
    <2> QED BY <1>1, <2>1
<1>3. ASSUME NEW B \in SUBSET A, NEW x \in B, B \ {x} \in Good PROVE B \in Good
    <2>1. PICK V, U : V = {f[a] : a \in B} /\ U = {f[a] : a \in B \ {x}}
        OBVIOUS
    <2>2. V \in SUBSET S /\ f[x] \in V /\ V \ {f[x]} = U
        BY <2>1
    <2>3. g[V] = F[f[x]] + g[U]
        BY <2>2 DEF Adds
    <2>4. e[B] = E[x] + e[B \ {x}]
        BY DEF Adds
    <2>5. e[B \ {x}] = g[U]
        BY <1>1, <1>3, <2>1
    <2> QED BY <1>1, <2>1, <2>3, <2>4, <2>5
<1>4. \A B \in SUBSET A : B \in Good
    <2> HIDE DEF Renames
    <2> QED BY <1>2, <1>3, SubsetInduction
<1>5. T = {f[a] : a \in A}
    <2>1. \A a \in A : f[a] \in T
        OBVIOUS
    <2>2. \A x \in T : \E a \in A : x = f[a]
        OBVIOUS
    <2> QED BY <2>1, <2>2
<1>6. A \in Good
    BY <1>4
<1> QED BY <1>1, <1>5, <1>6

LEMMA SumConstant ==
    ASSUME NEW S, IsFiniteSet(S), NEW F, NEW g, Adds(F, S, g), NEW d \in Int, \A x \in S : F[x] = d
    PROVE  g[S] = d * Cardinality(S)
<1>1. PICK Good : Good = {T \in SUBSET S : g[T] = d * Cardinality(T)}
    OBVIOUS
<1>2. {} \in Good
    <2>1. g[{}] = 0 /\ Cardinality({}) = 0
        BY FS_EmptySet DEF Adds
    <2> QED BY <1>1, <2>1
<1>3. ASSUME NEW T \in SUBSET S, NEW x \in T, T \ {x} \in Good PROVE T \in Good
    <2>1. IsFiniteSet(T) /\ Cardinality(T \ {x}) = Cardinality(T) - 1 /\ Cardinality(T) \in Int
        BY FS_Subset, FS_RemoveElement, FS_CardinalityType
    <2>2. PICK n \in Int : n = Cardinality(T)
        BY <2>1
    <2>3. g[T] = d + g[T \ {x}]
        BY DEF Adds
    <2>4. g[T \ {x}] = d * (n - 1)
        BY <1>1, <1>3, <2>1, <2>2
    <2>5. d + d * (n - 1) = d * n
        OBVIOUS
    <2> QED BY <1>1, <2>2, <2>3, <2>4, <2>5
<1>4. S \in Good
    BY <1>2, <1>3, SubsetInduction
<1> QED BY <1>1, <1>4

LEMMA SumPositive ==
    ASSUME NEW S, IsFiniteSet(S), S # {}, NEW F \in [S -> Nat \ {0}], NEW g, Adds(F, S, g)
    PROVE  g[S] \in Nat \ {0}
<1>1. PICK Good : Good = {T \in SUBSET S : g[T] \in Nat}
    OBVIOUS
<1>2. {} \in Good
    BY <1>1 DEF Adds
<1>3. ASSUME NEW T \in SUBSET S, NEW x \in T, T \ {x} \in Good PROVE T \in Good
    <2>1. g[T] = F[x] + g[T \ {x}] /\ F[x] \in Nat \ {0} /\ g[T \ {x}] \in Nat
        BY <1>1, <1>3 DEF Adds
    <2> QED BY <1>1, <2>1
<1>4. \A T \in SUBSET S : T \in Good
    BY <1>2, <1>3, SubsetInduction
<1>5. PICK x : x \in S
    OBVIOUS
<1>6. S \ {x} \in SUBSET S /\ g[S] = F[x] + g[S \ {x}]
    BY <1>5 DEF Adds
<1>7. g[S \ {x}] \in Nat /\ F[x] \in Nat \ {0}
    BY <1>1, <1>4, <1>5, <1>6
<1> QED BY <1>6, <1>7

\* The library's product of a set of numbers is a common multiple of them.
Factor(g, T) ==
    IF T = {} THEN 1 ELSE (CHOOSE x \in T : TRUE) * g[T \ {CHOOSE x \in T : TRUE}]
Multiplying(S, g) == g = [T \in SUBSET S |-> Factor(g, T)]

LEMMA MultiplyingExists ==
    ASSUME NEW S, IsFiniteSet(S), S \subseteq Nat \ {0}
    PROVE  \E g : Multiplying(S, g)
<1>1. PICK pick, turn : /\ pick = [T \in SUBSET S |-> CHOOSE x \in T : TRUE]
                        /\ turn = [p \in S \X Nat |-> p[1] * p[2]]
    OBVIOUS
<1>2. /\ \A T \in SUBSET S : pick[T] = CHOOSE x \in T : TRUE
      /\ \A T \in SUBSET S : T # {} => pick[T] \in T
    BY <1>1
<1>3. turn \in [S \X Nat -> Nat] /\ \A x \in S, v \in Nat : turn[<<x, v>>] = x * v
    <2>1. \A x, v \in Nat : x * v \in Nat
        OBVIOUS
    <2>2. \A p \in S \X Nat : p[1] * p[2] \in Nat
        BY <2>1
    <2> QED BY <1>1, <2>2
<1>4. PICK g : IsFold(S, Nat, 1, pick, turn, g)
    <2>1. Foldable(S, Nat, 1, pick, turn)
        BY <1>2, <1>3 DEF Foldable
    <2> QED BY <2>1, FoldExists
<1>5. ASSUME NEW T \in SUBSET S PROVE g[T] = Factor(g, T)
    <2>1. CASE T = {}
        BY <1>4, <2>1 DEF IsFold, Folded, Factor
    <2>2. CASE T # {}
        <3>1. PICK x : x = pick[T] /\ x = CHOOSE y \in T : TRUE
            BY <1>2
        <3>2. x \in S /\ g[T \ {x}] \in Nat
            BY <1>2, <1>4, <2>2, <3>1 DEF IsFold
        <3>3. g[T] = turn[<<x, g[T \ {x}]>>]
            BY <1>4, <2>2, <3>1 DEF IsFold, Folded
        <3> QED BY <1>3, <2>2, <3>1, <3>2, <3>3 DEF Factor
    <2> QED BY <2>1, <2>2
<1> QED BY <1>4, <1>5 DEF IsFold, Multiplying

LEMMA MultipleOfProduct ==
    ASSUME NEW c \in Nat \ {0}, NEW n \in Nat \ {0}
    PROVE  /\ c * n \in Nat \ {0} /\ (c * n) % c = 0
           /\ \A d \in Nat \ {0} : n % d = 0 => (c * n) % d = 0
<1>1. c * n \in Nat \ {0} /\ (c * n) % c = 0
    OBVIOUS
<1>2. ASSUME NEW d \in Nat \ {0}, n % d = 0 PROVE (c * n) % d = 0
    <2>1. PICK k \in Int : n = d * k
        BY <1>2
    <2>2. c * n = d * (c * k) /\ c * k \in Int
        BY <2>1
    <2>3. \A m \in Int : (d * m) % d = 0
        OBVIOUS
    <2> QED BY <2>2, <2>3
<1> QED BY <1>1, <1>2

LEMMA ProductDivides ==
    ASSUME NEW S, IsFiniteSet(S), S \subseteq Nat \ {0}
    PROVE  ProductSet(S) \in Nat \ {0} /\ \A d \in S : ProductSet(S) % d = 0
<1>1. PICK g : Multiplying(S, g) /\ ProductSet(S) = g[S]
    <2>1. ProductSet(S) = (CHOOSE g : Multiplying(S, g))[S]
        BY DEF ProductSet, FoldSet, MapThenFoldSet, Multiplying, Factor
    <2> QED BY <2>1, MultiplyingExists
<1>2. \A T \in SUBSET S : g[T] = Factor(g, T)
    BY <1>1 DEF Multiplying
<1>3. PICK Lacking : Lacking = {T \in SUBSET S : ~(g[T] \in Nat \ {0} /\ \A d \in T : g[T] % d = 0)}
    OBVIOUS
<1>4. ASSUME Lacking # {} PROVE FALSE
    <2>0. Lacking \subseteq SUBSET S
        BY <1>3
    <2>1. PICK T \in Lacking : \A U \in SUBSET T : U # T => U \notin Lacking
        BY <1>4, <2>0, LeastSubset
    <2>2. T \in SUBSET S /\ ~(g[T] \in Nat \ {0} /\ \A d \in T : g[T] % d = 0)
        BY <1>3, <2>1
    <2>3. T # {}
        <3>1. T = {} => g[T] = 1
            BY <1>2, <2>2 DEF Factor
        <3> QED BY <2>2, <3>1
    <2>4. PICK c : c = CHOOSE x \in T : TRUE
        OBVIOUS
    <2>5. c \in T /\ g[T] = c * g[T \ {c}]
        BY <1>2, <2>2, <2>3, <2>4 DEF Factor
    <2>6. T \ {c} \in SUBSET T /\ T \ {c} # T /\ T \ {c} \in SUBSET S /\ T \ {c} \notin Lacking
        BY <2>1, <2>2, <2>5
    <2>7. PICK n \in Nat \ {0} : n = g[T \ {c}] /\ \A d \in T \ {c} : n % d = 0
        BY <1>3, <2>6
    <2>8. c \in Nat \ {0} /\ T \subseteq Nat \ {0}
        BY <2>2, <2>5
    <2>9. c * n \in Nat \ {0} /\ (c * n) % c = 0 /\ \A d \in T \ {c} : (c * n) % d = 0
        BY <2>7, <2>8, MultipleOfProduct
    <2> QED BY <2>2, <2>5, <2>7, <2>9
<1> QED BY <1>1, <1>3, <1>4

------------------------------------------------------------------------------
(* Reputation *)

\* The settlements of a chain are told apart by their digests.
Settlements ==
    [at : 1..MaxTime, digest : 1..MaxSettled, entry : Entries, vindicated : Vindications]
ChainTold ==
    /\ ledger \in Seq(Settlements)
    /\ \A s, u \in DOMAIN ledger : ledger[s].digest = ledger[u].digest => s = u

LEMMA SettlementTyped ==
    ASSUME ChainTold, NEW s \in DOMAIN ledger
    PROVE  /\ ledger[s] \in Settlements /\ ledger[s].at \in Int /\ ledger[s].digest \in Int
           /\ ledger[s].entry \in Entries
<1>1. ledger \in [1..Len(ledger) -> Settlements] /\ s \in 1..Len(ledger)
    BY DEF ChainTold
<1>2. ledger[s] \in Settlements
    BY <1>1
<1>3. MaxTime \in Nat /\ MaxSettled \in Nat
    BY RulesAssumption
<1> QED BY <1>2, <1>3 DEF Settlements

\* By instant and digest they are in one order.
LEMMA OneOrder ==
    ASSUME ChainTold, NEW s \in DOMAIN ledger, NEW u \in DOMAIN ledger, NEW v \in DOMAIN ledger
    PROVE  /\ ~Older(s, s)
           /\ s = u \/ Older(s, u) \/ Older(u, s)
           /\ Older(s, u) /\ Older(u, v) => Older(s, v)
<1>1. \A x \in {s, u, v} : ledger[x].at \in Int /\ ledger[x].digest \in Int
    BY SettlementTyped
<1> QED BY <1>1 DEF ChainTold, Older

\* Some settlements have a newest.
LEMMA NewestIsThere ==
    ASSUME ChainTold, NEW S \in SUBSET DOMAIN ledger, IsFiniteSet(S), S # {}
    PROVE  \E n \in S : \A s \in S \ {n} : Older(s, n)
<1>1. PICK newer : newer = {p \in S \X S : Older(p[2], p[1])}
    OBVIOUS
<1>2. \A s, u \in S : <<s, u>> \in newer <=> Older(u, s)
    BY <1>1
<1>3. InOrder(S, newer)
    BY <1>2, OneOrder DEF InOrder
<1> QED BY <1>2, <1>3, FirstIsThere

\* A settlement weighs at least twice as much as any older one.
LEMMA WeightTyped ==
    ASSUME NEW S, IsFiniteSet(S), NEW s
    PROVE  Weight(S, s) \in Nat \ {0}
<1>1. PICK A : A = {u \in S : Older(u, s)}
    OBVIOUS
<1>2. IsFiniteSet(A) /\ IsFiniteSet(SUBSET A)
    BY <1>1, FS_Subset, FS_SUBSET
<1>3. /\ Cardinality(SUBSET A) = 2 ^ Cardinality(A)
      /\ Cardinality(SUBSET A) \in Nat /\ Cardinality(SUBSET A) # 0
    BY <1>2, FS_SUBSET, FS_CardinalityType, FS_EmptySet
<1> QED BY <1>1, <1>3 DEF Weight

LEMMA WeightDoubles ==
    ASSUME ChainTold, NEW S \in SUBSET DOMAIN ledger, IsFiniteSet(S),
           NEW s \in S, NEW u \in S, Older(s, u)
    PROVE  2 * Weight(S, s) <= Weight(S, u)
<1>1. PICK A, B : A = {v \in S : Older(v, s)} /\ B = {v \in S : Older(v, u)}
    OBVIOUS
<1>2. A \in SUBSET B /\ s \in B /\ s \notin A
    BY <1>1, OneOrder
<1>3. IsFiniteSet(B)
    BY <1>1, FS_Subset
<1>4. 2 * 2 ^ Cardinality(A) <= 2 ^ Cardinality(B)
    BY <1>2, <1>3, SubsetsDouble
<1> QED BY <1>1, <1>4 DEF Weight

\* So it weighs more than all that is older together.
LEMMA NewestOutweighs ==
    ASSUME ChainTold, NEW S \in SUBSET DOMAIN ledger, IsFiniteSet(S), NEW of \in SUBSET S,
           NEW W, W = [s \in of |-> Weight(S, s)], NEW g, Adds(W, of, g)
    PROVE  \A T \in SUBSET of : \A x \in S :
              (\A t \in T : Older(t, x)) => g[T] \in Nat /\ g[T] < Weight(S, x)
<1> DEFINE Light(T) == \A x \in S : (\A t \in T : Older(t, x)) => g[T] \in Nat /\ g[T] < Weight(S, x)
<1>0. \A s \in S : Weight(S, s) \in Nat \ {0}
    BY WeightTyped
<1>1. ASSUME NEW T \in SUBSET of, \A U \in SUBSET T : U # T => Light(U) PROVE Light(T)
    <2> SUFFICES ASSUME NEW x \in S, \A t \in T : Older(t, x)
                 PROVE  g[T] \in Nat /\ g[T] < Weight(S, x)
        OBVIOUS
    <2>1. CASE T = {}
        BY <1>0, <2>1 DEF Adds
    <2>2. CASE T # {}
        <3>1. T \in SUBSET DOMAIN ledger /\ IsFiniteSet(T)
            BY FS_Subset
        <3>2. PICK y \in T : \A t \in T \ {y} : Older(t, y)
            BY <2>2, <3>1, NewestIsThere
        <3>3. y \in S /\ y \in of /\ Older(y, x)
            BY <3>2
        <3>4. Light(T \ {y})
            BY <1>1, <3>2
        <3>5. g[T \ {y}] \in Nat /\ g[T \ {y}] < Weight(S, y)
            BY <3>2, <3>3, <3>4
        <3>6. g[T] = Weight(S, y) + g[T \ {y}]
            BY <3>2, <3>3 DEF Adds
        <3>7. 2 * Weight(S, y) <= Weight(S, x)
            BY <3>3, WeightDoubles
        <3>8. Weight(S, y) \in Nat /\ Weight(S, x) \in Nat
            BY <1>0, <3>3
        <3> QED BY <3>5, <3>6, <3>7, <3>8
    <2> QED BY <2>1, <2>2
<1>2. ASSUME NEW T \in SUBSET of PROVE Light(T)
    <2> HIDE DEF Light
    <2> SUFFICES ASSUME ~Light(T) PROVE FALSE
        OBVIOUS
    <2>1. PICK Lacking : Lacking = {U \in SUBSET of : ~Light(U)}
        OBVIOUS
    <2>2. Lacking \subseteq SUBSET of /\ Lacking # {} /\ IsFiniteSet(of)
        BY <2>1, FS_Subset
    <2>3. PICK U \in Lacking : \A V \in SUBSET U : V # U => V \notin Lacking
        BY <2>2, LeastSubset
    <2>4. U \in SUBSET of /\ ~Light(U) /\ \A V \in SUBSET U : V # U => Light(V)
        BY <2>1, <2>3
    <2> QED BY <1>1, <2>4
<1> QED BY <1>2

LEMMA AccuracyTyped ==
    ASSUME ChainTold, NEW s \in DOMAIN ledger, NEW b \in Candidates
    PROVE  Accuracy(s, b) \in Nat
<1>1. ledger[s].entry \in Entries
    BY SettlementTyped
<1>2. PICK e : e = ledger[s].entry[b] /\ e.est \in Int /\ e.act \in Int
    BY <1>1, RulesAssumption
<1>3. ASSUME e.est > 0 PROVE \A off \in Nat : (100 * off) \div e.est \in Int /\ (100 * off) \div e.est >= 0
    <2>1. ASSUME NEW off \in Nat PROVE (100 * off) \div e.est \in Int /\ (100 * off) \div e.est >= 0
        <3>1. PICK n \in Nat : n = 100 * off
            OBVIOUS
        <3>2. PICK m \in Nat \ {0} : m = e.est
            BY <1>2, <1>3
        <3>3. n \div m \in Int /\ 0 <= n \div m
            BY QuotientFits, QuotientAbove
        <3> QED BY <3>1, <3>2, <3>3
    <2> QED BY <2>1
<1>4. PICK off \in Nat : off = IF e.act > e.est THEN e.act - e.est ELSE e.est - e.act
    BY <1>2
<1>5. Bonus \in Nat
    BY RulesAssumption
<1>6. CASE Usable(s, b)
    <2>1. e.est > 0
        BY <1>2, <1>6 DEF Usable
    <2>2. PICK missed \in Int : missed = (100 * off) \div e.est
        BY <1>3, <2>1
    <2>3. PICK kept \in Nat : kept = IF missed >= 100 THEN 0 ELSE 100 - missed
        OBVIOUS
    <2>4. Accuracy(s, b) = kept + (IF b \in ledger[s].vindicated THEN Bonus ELSE 0)
        BY <1>2, <1>4, <1>6, <2>2, <2>3 DEF Accuracy
    <2> QED BY <1>5, <2>4
<1>7. CASE ~Usable(s, b)
    BY <1>7 DEF Accuracy
<1> QED BY <1>6, <1>7

\* The score of a history lies on the newest's side of the middle.
LEMMA ScoreOfHistory ==
    ASSUME ChainTold, NEW S \in SUBSET DOMAIN ledger, NEW b \in Candidates,
           Weighed(S, b) # {}
    PROVE  /\ ScoreOver(S, b) \in Int
           /\ \E newest, low, high \in Weighed(S, b) :
              /\ \A s \in Weighed(S, b) \ {newest} : Older(s, newest)
              /\ \A s \in Weighed(S, b) : Accuracy(low, b) <= Accuracy(s, b)
              /\ \A s \in Weighed(S, b) : Accuracy(s, b) <= Accuracy(high, b)
              /\ ScoreOver(S, b) >= (Accuracy(newest, b) + Accuracy(low, b)) \div 2
              /\ ScoreOver(S, b) <= (Accuracy(newest, b) + Accuracy(high, b)) \div 2
<1>1. PICK of : of = Weighed(S, b)
    OBVIOUS
<1>2. of \in SUBSET S /\ of # {} /\ of \in SUBSET DOMAIN ledger
    BY <1>1 DEF Weighed
<1>3. IsFiniteSet(S) /\ IsFiniteSet(of)
    <2>1. DOMAIN ledger = 1..Len(ledger) /\ Len(ledger) \in Nat
        BY DEF ChainTold
    <2>2. IsFiniteSet(DOMAIN ledger)
        BY <2>1, FS_Interval
    <2> QED BY <1>2, <2>2, FS_Subset
<1>4. PICK W, P, A, B : /\ W = [s \in of |-> Weight(S, s)]
                        /\ P = [s \in of |-> Weight(S, s) * Accuracy(s, b)]
                        /\ A = [s \in of |-> Accuracy(s, b)]
                        /\ B = [s \in of |-> 0 - Accuracy(s, b)]
    OBVIOUS
<1>5. \A s \in of : Weight(S, s) \in Nat \ {0} /\ Accuracy(s, b) \in Nat
    BY <1>2, <1>3, WeightTyped, AccuracyTyped
<1>6. W \in [of -> Int] /\ P \in [of -> Int] /\ A \in [of -> Int] /\ B \in [of -> Int]
    BY <1>4, <1>5
<1>7. PICK g : Adds(W, of, g) /\ SumFunction(W) = g[of]
    BY <1>3, <1>6, SumAdds
<1>8. PICK p : Adds(P, of, p) /\ SumFunction(P) = p[of]
    BY <1>3, <1>6, SumAdds
<1>9. ScoreOver(S, b) = p[of] \div g[of]
    BY <1>1, <1>2, <1>4, <1>7, <1>8 DEF ScoreOver
<1>10. PICK n \in of : \A s \in of \ {n} : Older(s, n)
    BY <1>2, <1>3, NewestIsThere
<1>11. PICK high \in of : \A s \in of : A[s] <= A[high]
    BY <1>2, <1>3, <1>6, Greatest
<1>12. PICK low \in of : \A s \in of : B[s] <= B[low]
    BY <1>2, <1>3, <1>6, Greatest
<1>13. \A s \in of : Accuracy(low, b) <= Accuracy(s, b) /\ Accuracy(s, b) <= Accuracy(high, b)
    BY <1>4, <1>5, <1>11, <1>12
<1>14. PICK lo, hi, a \in Nat : lo = Accuracy(low, b) /\ hi = Accuracy(high, b) /\ a = Accuracy(n, b)
    BY <1>5, <1>10, <1>11, <1>12
<1>15. Bounds(lo, W, P, hi, of)
    <2> SUFFICES ASSUME NEW s \in of PROVE lo * W[s] <= P[s] /\ P[s] <= hi * W[s]
        BY DEF Bounds
    <2>1. PICK w, c \in Nat : w = Weight(S, s) /\ c = Accuracy(s, b) /\ W[s] = w /\ P[s] = w * c
        BY <1>4, <1>5
    <2>2. lo <= c /\ c <= hi
        BY <1>13, <1>14, <2>1
    <2>3. lo * w <= c * w /\ c * w <= hi * w
        BY <2>2, TimesKeepsOrder
    <2>4. c * w = w * c
        OBVIOUS
    <2> QED BY <2>1, <2>3, <2>4
<1>16. PICK r, q : r = g[of \ {n}] /\ q = p[of \ {n}]
    OBVIOUS
<1>17. r \in Nat /\ r < Weight(S, n) /\ q \in Int
    <2>1. of \ {n} \in SUBSET of /\ n \in S
        BY <1>2, <1>10
    <2>2. g[of \ {n}] \in Nat /\ g[of \ {n}] < Weight(S, n)
        BY <1>2, <1>3, <1>4, <1>7, <1>10, <2>1, NewestOutweighs
    <2> QED BY <1>8, <1>16, <2>1, <2>2 DEF Adds
<1>18. lo * r <= q /\ q <= hi * r
    <2>1. Bounds(lo, g, p, hi, SUBSET of)
        <3>1. lo \in Int /\ hi \in Int
            BY <1>14
        <3>2. IsFiniteSet(of) /\ W \in [of -> Int] /\ P \in [of -> Int]
            BY <1>3, <1>6
        <3>3. Adds(W, of, g) /\ Adds(P, of, p)
            BY <1>7, <1>8
        <3> QED BY <1>15, <3>1, <3>2, <3>3, SumsBetween
    <2> QED BY <1>16, <2>1 DEF Bounds
<1>19. g[of] = Weight(S, n) + r /\ p[of] = Weight(S, n) * a + q
    BY <1>4, <1>7, <1>8, <1>10, <1>14, <1>16 DEF Adds
<1>20. lo <= a /\ a <= hi
    BY <1>10, <1>13, <1>14
<1>21. PICK w \in Nat : w = Weight(S, n)
    BY <1>5, <1>10
<1>22. /\ (w * a + q) \div (w + r) >= (a + lo) \div 2
       /\ (w * a + q) \div (w + r) <= (a + hi) \div 2
    <2>1. r \in Nat /\ r < w /\ q \in Int /\ lo \in Int /\ hi \in Int /\ a \in Int
        BY <1>14, <1>17, <1>21
    <2> QED BY <1>18, <1>20, <2>1, MeanOfNewest
<1>23. (w * a + q) \div (w + r) \in Int
    <2>1. w + r \in Nat \ {0} /\ w * a + q \in Int
        BY <1>14, <1>17, <1>18, <1>21
    <2> QED BY <2>1, QuotientFits
<1>24. /\ ScoreOver(S, b) \in Int
       /\ ScoreOver(S, b) >= (Accuracy(n, b) + Accuracy(low, b)) \div 2
       /\ ScoreOver(S, b) <= (Accuracy(n, b) + Accuracy(high, b)) \div 2
    BY <1>9, <1>14, <1>19, <1>21, <1>22, <1>23
<1> QED BY <1>1, <1>10, <1>11, <1>12, <1>13, <1>24

------------------------------------------------------------------------------
(* The invariant of an award *)

\* What the announce pinned are the rows of before its snapshot, also later on.
AwardInv ==
    /\ RulesTypeOK
    /\ ChainTold
    /\ rule # NoRule => /\ stamped.taken \in Int /\ stamped.taken <= clock
                        /\ pinned = RecordedBefore(stamped.taken)

LEMMA AwardInvInit == AwardInit => AwardInv
<1> SUFFICES ASSUME AwardInit PROVE AwardInv
    OBVIOUS
<1>1. ledger \in Seq(Settlements) /\ Len(ledger) = 0 /\ DOMAIN ledger = {}
    BY DEF AwardInit
<1>2. opened \in [Candidates -> Bids \cup {NoBid}]
    BY DEF AwardInit
<1> QED BY <1>1, <1>2, RulesAssumption DEF AwardInit, AwardInv, RulesTypeOK, ChainTold

\* A settlement joins the chain at its end; its row may, or may not, be written.
LEMMA SettleKeeps ==
    ASSUME AwardInv, NEW entry \in Entries, NEW v \in Vindications, NEW rank \in 1..MaxSettled,
           NEW row \in BOOLEAN, SettlePast(entry, v, rank, row)
    PROVE  AwardInv'
<1> DEFINE new == Settlement(rank, entry, v)
           k == Len(ledger) + 1
<1>1. new \in Settlements /\ new.at = clock /\ new.digest = rank
    BY DEF Settlement, Settlements, AwardInv, RulesTypeOK
<1>2. ledger \in Seq(Settlements) /\ Len(ledger) \in Nat /\ MaxSettled \in Nat /\ Len(ledger) < MaxSettled
    BY RulesAssumption DEF AwardInv, ChainTold, SettlePast
<1>3. /\ ledger' \in Seq(Settlements) /\ Len(ledger') = k /\ ledger'[k] = new
      /\ \A s \in DOMAIN ledger : ledger'[s] = ledger[s]
      /\ DOMAIN ledger' = DOMAIN ledger \cup {k} /\ DOMAIN ledger = 1..Len(ledger)
    <2> HIDE DEF new
    <2>1. ledger' = Append(ledger, new)
        BY DEF SettlePast, new
    <2> QED BY <1>1, <1>2, <2>1
<1>4. k \notin DOMAIN ledger
    BY <1>2, <1>3
<1>5. ASSUME NEW s \in DOMAIN ledger', NEW u \in DOMAIN ledger', ledger'[s].digest = ledger'[u].digest
      PROVE  s = u
    <2>1. \A x \in DOMAIN ledger : ledger'[x].digest # rank
        BY <1>3 DEF SettlePast
    <2>2. ledger'[k].digest = rank
        BY <1>1, <1>3
    <2> QED BY <1>3, <1>5, <2>1, <2>2 DEF AwardInv, ChainTold
<1>6. ChainTold'
    BY <1>3, <1>5 DEF ChainTold
<1>7. RulesTypeOK'
    BY <1>2, <1>3 DEF AwardInv, RulesTypeOK, SettlePast
<1>8. ASSUME rule' # NoRule
      PROVE  /\ stamped'.taken \in Int /\ stamped'.taken <= clock'
             /\ pinned' = RecordedBefore(stamped.taken)'
    <2>1. /\ stamped' = stamped /\ clock' = clock /\ pinned' = pinned
          /\ stamped.taken \in Int /\ stamped.taken <= clock /\ clock \in Int
          /\ pinned = RecordedBefore(stamped.taken)
        BY <1>8 DEF AwardInv, RulesTypeOK, SettlePast
    <2>2. onFile \subseteq DOMAIN ledger /\ onFile' \in {onFile, onFile \cup {k}}
        BY <1>3 DEF AwardInv, RulesTypeOK, SettlePast
    <2>3. ~(ledger'[k].at < stamped.taken)
        BY <1>1, <1>3, <2>1
    <2>4. \A s \in onFile : ledger'[s] = ledger[s]
        BY <1>3, <2>2
    <2> QED BY <2>1, <2>2, <2>3, <2>4 DEF RecordedBefore
<1> QED BY <1>6, <1>7, <1>8 DEF AwardInv

LEMMA AnnounceKeeps ==
    ASSUME AwardInv, NEW r \in Rules, NEW emitted \in clock..MaxTime, AnnounceRule(r, emitted)
    PROVE  AwardInv'
<1>1. clock \in 1..MaxTime /\ clock' \in 1..MaxTime /\ clock <= clock' /\ MaxTime \in Nat
    BY RulesAssumption DEF AwardInv, RulesTypeOK, AnnounceRule
<1>2. pinned' \subseteq onFile' /\ RulesTypeOK'
    BY <1>1 DEF AwardInv, RulesTypeOK, AnnounceRule, RecordedBefore
<1>3. ChainTold'
    BY DEF AwardInv, ChainTold, AnnounceRule
<1>4. stamped'.taken = clock /\ pinned' = RecordedBefore(stamped.taken)'
    BY DEF AnnounceRule, RecordedBefore
<1> QED BY <1>1, <1>2, <1>3, <1>4 DEF AwardInv

LEMMA AwardStep ==
    ASSUME AwardInv, [AwardNext]_ruleVars
    PROVE  AwardInv'
<1>1. CASE HubClock
    <2>1. /\ UNCHANGED <<ledger, onFile, rule, pinned, stamped, opened>>
          /\ clock \in Int /\ clock' \in 1..MaxTime /\ clock <= clock'
        BY <1>1, RulesAssumption DEF AwardInv, RulesTypeOK, HubClock
    <2> QED BY <2>1 DEF AwardInv, RulesTypeOK, ChainTold, RecordedBefore
<1>2. ASSUME NEW b \in Candidates, NEW p \in Bids, OpenBid(b, p) PROVE AwardInv'
    <2>1. opened' \in [Candidates -> Bids \cup {NoBid}]
        BY <1>2 DEF AwardInv, RulesTypeOK, OpenBid
    <2> QED BY <1>2, <2>1 DEF AwardInv, RulesTypeOK, ChainTold, RecordedBefore, OpenBid
<1>3. CASE UNCHANGED ruleVars
    BY <1>3 DEF ruleVars, AwardInv, RulesTypeOK, ChainTold, RecordedBefore
<1> QED BY <1>1, <1>2, <1>3, SettleKeeps, AnnounceKeeps DEF AwardNext

\* ScoresStand: types, the newest's weight and the exhaustive snapshot, together.
LEMMA ScoresFromInv ==
    ASSUME AwardInv
    PROVE  ScoresStand
<1>1. ChainTold /\ pinned \in SUBSET DOMAIN ledger
    BY DEF AwardInv, RulesTypeOK
<1>2. NewestWeighsMost
    <2> SUFFICES ASSUME NEW b \in Candidates, Weighed(pinned, b) = {}
                 PROVE  ScoreOver(pinned, b) = 50
        BY <1>1, ScoreOfHistory DEF NewestWeighsMost, Reputation, Snapshot
    <2> QED BY DEF ScoreOver
<1>3. SnapshotExhaustive
    <2> SUFFICES ASSUME rule # NoRule, NEW s \in Omitted, s \in onFile, ~(ledger[s].at >= stamped.taken)
                 PROVE  FALSE
        BY DEF SnapshotExhaustive
    <2>1. s \in DOMAIN ledger /\ s \notin pinned
        BY DEF Omitted
    <2>2. ledger[s].at \in Int /\ stamped.taken \in Int /\ pinned = RecordedBefore(stamped.taken)
        BY <2>1, SettlementTyped DEF AwardInv
    <2> QED BY <2>1, <2>2 DEF RecordedBefore
<1> QED BY <1>2, <1>3 DEF AwardInv, ScoresStand

\* A score is a mean of which the newest settlement weighs more than all older ones,
\* over a snapshot that is exhaustive to a replay: for any bidders, entries, bonus and
\* number of settlements.
THEOREM ScoresHold == AwardSpec => []ScoresStand
<1>1. AwardInv /\ [AwardNext]_ruleVars => AwardInv'
    BY AwardStep
<1>2. AwardInv => ScoresStand
    BY ScoresFromInv
<1> QED BY <1>1, <1>2, AwardInvInit, PTL DEF AwardSpec

------------------------------------------------------------------------------
(* Ranking *)

LEMMA CandidatesTold ==
    ASSUME NEW a \in Candidates, NEW b \in Candidates
    PROVE  /\ Key[a] \in Int /\ (Key[a] = Key[b] => a = b)
           /\ RowOf[a] \in Int /\ (RowOf[a] = RowOf[b] => a = b)
<1>1. Key[a] \in Int /\ (Key[a] = Key[b] => a = b)
    BY RulesAssumption DEF IsInjective
<1>2. RowOf[a] \in 1..Cardinality(Candidates) /\ DOMAIN RowOf = Candidates
    BY RulesAssumption
<1>3. Cardinality(Candidates) \in Nat
    BY RulesAssumption, FS_CardinalityType
<1>4. RowOf[a] = RowOf[b] => a = b
    BY <1>2, RulesAssumption DEF IsInjective
<1> QED BY <1>1, <1>2, <1>3, <1>4

LEMMA ScoreIsNumber ==
    ASSUME AwardInv, NEW b \in Candidates
    PROVE  Reputation(b) \in Int
<1>1. ChainTold /\ pinned \in SUBSET DOMAIN ledger
    BY DEF AwardInv, RulesTypeOK
<1>2. CASE Weighed(pinned, b) = {}
    BY <1>2 DEF Reputation, Snapshot, ScoreOver
<1>3. CASE Weighed(pinned, b) # {}
    <2>1. ScoreOver(pinned, b) \in Int
        BY <1>1, <1>3, ScoreOfHistory
    <2> QED BY <2>1 DEF Reputation, Snapshot
<1> QED BY <1>2, <1>3

LEMMA RuleTyped ==
    ASSUME AwardInv, rule # NoRule
    PROVE  /\ rule.weights.match \in Int /\ rule.weights.cost \in Int
           /\ rule.weights.latency \in Int /\ rule.weights.reputation \in Int
<1>1. rule \in Rules
    BY DEF AwardInv, RulesTypeOK
<1> QED BY <1>1, RulesAssumption DEF IsRule

LEMMA RevealedTyped ==
    ASSUME AwardInv, rule # NoRule, NEW b \in Revealed
    PROVE  b \in Candidates /\ Finite(b) \in Int
<1>1. b \in Candidates /\ opened[b] \in Bids
    BY DEF Revealed, AwardInv, RulesTypeOK
<1>2. opened[b].match \in Int /\ opened[b].cost \in Int /\ opened[b].latency \in Int
    BY <1>1, RulesAssumption DEF IsPayload, Unparsed
<1>3. Reputation(b) \in Int
    BY <1>1, ScoreIsNumber
<1>4. PICK w : w = rule.weights
    OBVIOUS
<1>5. /\ w.match * opened[b].match \in Int /\ w.cost * opened[b].cost \in Int
      /\ w.reputation * Reputation(b) \in Int /\ w.latency * opened[b].latency \in Int
    BY <1>2, <1>3, <1>4, RuleTyped
<1> QED BY <1>1, <1>4, <1>5 DEF Finite

\* The sort puts infinite scores in the order of their rows, at one end of the others.
LEMMA SortsByScore ==
    ASSUME AwardInv, rule # NoRule, NEW a \in Revealed, NEW b \in Revealed, a # b
    PROVE  SortsBefore(a, b) <=>
              IF Endless(a) /\ Endless(b) THEN RowOf[a] < RowOf[b]
              ELSE Higher(a, b) \/ (~Higher(b, a) /\ Key[a] < Key[b])
<1>1. /\ a \in Candidates /\ b \in Candidates /\ Finite(a) \in Int /\ Finite(b) \in Int
      /\ rule.weights.latency \in Int
    BY RevealedTyped, RuleTyped
<1>2. Key[a] \in Int /\ Key[b] \in Int /\ Key[a] # Key[b]
    BY <1>1, CandidatesTold
<1>3. Endless(a) \/ Endless(b) => rule.weights.latency # 0
    BY DEF Endless
<1> QED BY <1>1, <1>2, <1>3 DEF SortsBefore, Beats, Higher

LEMMA SortsInOrder ==
    ASSUME AwardInv, rule # NoRule
    PROVE  InOrder(Revealed, {p \in Revealed \X Revealed : SortsBefore(p[1], p[2])})
<1> DEFINE R == {p \in Revealed \X Revealed : SortsBefore(p[1], p[2])}
<1>0. \A x, y \in Revealed : <<x, y>> \in R <=> SortsBefore(x, y)
    OBVIOUS
<1>1. ASSUME NEW x \in Revealed PROVE ~SortsBefore(x, x)
    <2>1. x \in Candidates /\ Finite(x) \in Int /\ Key[x] \in Int /\ RowOf[x] \in Int
        BY RevealedTyped, CandidatesTold
    <2> QED BY <2>1 DEF SortsBefore, Beats, Higher
<1>2. ASSUME NEW x \in Revealed, NEW y \in Revealed, x # y
      PROVE  (SortsBefore(x, y) \/ SortsBefore(y, x)) /\ ~(SortsBefore(x, y) /\ SortsBefore(y, x))
    <2>1. \A u, v \in {x, y} : /\ u \in Candidates /\ Finite(u) \in Int
                               /\ Key[u] \in Int /\ RowOf[u] \in Int
                               /\ (u # v => Key[u] # Key[v] /\ RowOf[u] # RowOf[v])
        BY RevealedTyped, CandidatesTold
    <2>2. Endless(x) \/ Endless(y) => rule.weights.latency # 0
        BY DEF Endless
    <2> QED BY <1>2, <2>1, <2>2, SortsByScore, RuleTyped DEF Higher
<1>3. ASSUME NEW x \in Revealed, NEW y \in Revealed, NEW z \in Revealed,
             SortsBefore(x, y), SortsBefore(y, z)
      PROVE  SortsBefore(x, z)
    <2>1. x # y /\ y # z /\ x # z
        BY <1>1, <1>2, <1>3
    <2>2. \A u \in {x, y, z} : Finite(u) \in Int /\ Key[u] \in Int /\ RowOf[u] \in Int
        BY RevealedTyped, CandidatesTold
    <2>3. Endless(x) \/ Endless(y) \/ Endless(z) => rule.weights.latency # 0
        BY DEF Endless
    <2>4. /\ IF Endless(x) /\ Endless(y) THEN RowOf[x] < RowOf[y]
             ELSE Higher(x, y) \/ (~Higher(y, x) /\ Key[x] < Key[y])
          /\ IF Endless(y) /\ Endless(z) THEN RowOf[y] < RowOf[z]
             ELSE Higher(y, z) \/ (~Higher(z, y) /\ Key[y] < Key[z])
        BY <1>3, <2>1, SortsByScore
    <2>5. IF Endless(x) /\ Endless(z) THEN RowOf[x] < RowOf[z]
          ELSE Higher(x, z) \/ (~Higher(z, x) /\ Key[x] < Key[z])
        BY <2>2, <2>3, <2>4, RuleTyped DEF Higher
    <2> QED BY <2>1, <2>5, SortsByScore
<1> HIDE DEF R
<1>4. InOrder(Revealed, R)
    BY <1>0, <1>1, <1>2, <1>3 DEF InOrder
<1> QED BY <1>4 DEF R

\* The replay's order is that of the sort, where no two scores are infinite.
LEMMA RankingIs ==
    ASSUME AwardInv, rule # NoRule, NEW P \in SUBSET Revealed, P # {}
    PROVE  \E top \in P : /\ \A b \in P \ {top} : SortsBefore(top, b) /\ ~SortsBefore(b, top)
                          /\ Ranking(P) = [performers |-> {top}, synthesizer |-> {}]
<1>1. PICK R : R = {p \in Revealed \X Revealed : SortsBefore(p[1], p[2])}
    OBVIOUS
<1>2. InOrder(Revealed, R) /\ \A x, y \in Revealed : <<x, y>> \in R <=> SortsBefore(x, y)
    BY <1>1, SortsInOrder
<1>3. InOrder(P, R)
    BY <1>2 DEF InOrder
<1>4. IsFiniteSet(P)
    BY RulesAssumption, FS_Subset DEF Revealed
<1>5. PICK x \in P : \A y \in P \ {x} : <<x, y>> \in R
    BY <1>3, <1>4, FirstIsThere
<1>6. \E a \in P : \A b \in P \ {a} : SortsBefore(a, b)
    BY <1>2, <1>5
<1>7. PICK top : top = CHOOSE a \in P : \A b \in P \ {a} : SortsBefore(a, b)
    OBVIOUS
<1>8. top \in P /\ \A b \in P \ {top} : SortsBefore(top, b)
    BY <1>6, <1>7
<1>9. ASSUME NEW b \in P \ {top} PROVE ~SortsBefore(b, top)
    <2>1. b \in Revealed /\ top \in Revealed /\ SortsBefore(top, b)
        BY <1>8
    <2> QED BY <1>2, <2>1 DEF InOrder
<1>10. Ranking(P) = [performers |-> {top}, synthesizer |-> {}]
    BY <1>7 DEF Ranking
<1> QED BY <1>8, <1>9, <1>10

LEMMA RankingAgrees ==
    ASSUME AwardInv, rule # NoRule, NEW P \in SUBSET Revealed,
           \A a, b \in P : a # b => ~(Endless(a) /\ Endless(b))
    PROVE  Ranking(P) = [performers |-> SelectRanking(P), synthesizer |-> {}]
<1>1. CASE P = {}
    BY <1>1 DEF Ranking, NoSelection, SelectRanking
<1>2. CASE P # {}
    <2>1. PICK top \in P : /\ \A b \in P \ {top} : SortsBefore(top, b) /\ ~SortsBefore(b, top)
                           /\ Ranking(P) = [performers |-> {top}, synthesizer |-> {}]
        BY <1>2, RankingIs
    <2>2. ASSUME NEW a \in P, NEW b \in P, a # b
          PROVE  SortsBefore(a, b) <=> Higher(a, b) \/ (~Higher(b, a) /\ Key[a] < Key[b])
        BY <2>2, SortsByScore
    <2>3. top \in SelectRanking(P)
        BY <2>1, <2>2 DEF SelectRanking
    <2>4. ASSUME NEW a \in SelectRanking(P), a # top PROVE FALSE
        <3>1. a \in P /\ SortsBefore(a, top)
            BY <2>2, <2>4 DEF SelectRanking
        <3> QED BY <2>1, <2>4, <3>1
    <2> QED BY <2>1, <2>3, <2>4
<1> QED BY <1>1, <1>2

\* Without a bidder that is not the first, the first is the same.
LEMMA RankingWithout ==
    ASSUME AwardInv, rule # NoRule, NEW b \in Revealed, b \notin Ranking(Revealed).performers
    PROVE  Ranking(Revealed \ {b}) = Ranking(Revealed)
<1>1. PICK top \in Revealed :
          /\ \A c \in Revealed \ {top} : SortsBefore(top, c) /\ ~SortsBefore(c, top)
          /\ Ranking(Revealed) = [performers |-> {top}, synthesizer |-> {}]
    BY RankingIs
<1>2. top \in Revealed \ {b}
    BY <1>1
<1>3. PICK first \in Revealed \ {b} :
          /\ \A c \in (Revealed \ {b}) \ {first} : SortsBefore(first, c) /\ ~SortsBefore(c, first)
          /\ Ranking(Revealed \ {b}) = [performers |-> {first}, synthesizer |-> {}]
    BY <1>2, RankingIs
<1>4. first = top
    BY <1>1, <1>2, <1>3
<1> QED BY <1>1, <1>3, <1>4

------------------------------------------------------------------------------
(* Masks *)

LEMMA PowerDoubles ==
    ASSUME NEW n \in Nat
    PROVE  2 ^ n \in Nat \ {0} /\ 2 ^ (n + 1) = 2 * 2 ^ n
<1>1. PICK A, B : A = 1..n /\ B = 1..n + 1
    OBVIOUS
<1>2. IsFiniteSet(A) /\ Cardinality(A) = n /\ IsFiniteSet(B) /\ Cardinality(B) = n + 1
    BY <1>1, FS_Interval
<1>3. A \in SUBSET B /\ n + 1 \in B /\ n + 1 \notin A /\ B = A \cup {n + 1}
    BY <1>1
<1> QED BY <1>2, <1>3, SubsetsDouble

LEMMA PowerOfNone == 2 ^ 0 = 1
    OBVIOUS

\* The digits of a number in base 2.
Digit(m, i) == (m \div 2 ^ i) % 2 = 1

\* Twice a number, and one more or not, has its digits one place up.
LEMMA DigitsShift ==
    ASSUME NEW m \in Nat, NEW c \in {0, 1}
    PROVE  /\ Digit(2 * m + c, 0) <=> c = 1
           /\ \A i \in Nat : Digit(2 * m + c, i + 1) <=> Digit(m, i)
<1>1. Digit(2 * m + c, 0) <=> c = 1
    <2>1. (2 * m + c) \div 1 = 2 * m + c /\ (2 * m + c) % 2 = c
        OBVIOUS
    <2> QED BY <2>1, PowerOfNone DEF Digit
<1>2. ASSUME NEW i \in Nat PROVE Digit(2 * m + c, i + 1) <=> Digit(m, i)
    <2>1. PICK k \in Nat \ {0} : k = 2 ^ i /\ 2 ^ (i + 1) = 2 * k
        BY PowerDoubles
    <2>2. PICK q \in Int : q = m \div k /\ k * q <= m /\ m < k * q + k
        BY QuotientFits
    <2>3. 2 * k \in Nat \ {0} /\ 2 * m + c \in Int
        OBVIOUS
    <2>4. PICK r \in Int : /\ r = (2 * m + c) \div (2 * k)
                           /\ (2 * k) * r <= 2 * m + c /\ 2 * m + c < (2 * k) * r + 2 * k
        BY <2>3, QuotientFits
    <2>5. (2 * k) * r = 2 * (k * r) /\ k * r \in Int /\ k * q \in Int
        OBVIOUS
    <2>6. k * r <= m /\ m < k * r + k
        BY <2>4, <2>5
    <2>7. ASSUME NEW x \in Int, NEW y \in Int, k * x <= m, m < k * y + k PROVE x <= y
        <3> SUFFICES ASSUME y + 1 <= x PROVE FALSE
            OBVIOUS
        <3>1. (y + 1) * k <= x * k
            BY TimesKeepsOrder
        <3>2. (y + 1) * k = k * y + k /\ x * k = k * x /\ k * x \in Int /\ k * y \in Int
            OBVIOUS
        <3> QED BY <2>7, <3>1, <3>2
    <2>8. q = r
        BY <2>2, <2>6, <2>7
    <2> QED BY <2>1, <2>2, <2>4, <2>8 DEF Digit
<1> QED BY <1>1, <1>2

\* Any digits are those of a number: from 0 up to where the places end.
LEMMA AnyDigits ==
    ASSUME NEW n \in Nat
    PROVE  \A T \in SUBSET (0..n - 1) :
              \E m \in 0..2 ^ n - 1 : \A i \in 0..n - 1 : Digit(m, i) <=> i \in T
<1> DEFINE Done(k) == \A T \in SUBSET (0..k - 1) :
                         \E m \in 0..2 ^ k - 1 : \A i \in 0..k - 1 : Digit(m, i) <=> i \in T
<1>1. Done(0)
    <2>1. 0 \in 0..2 ^ 0 - 1 /\ \A i \in 0..0 - 1 : FALSE
        BY PowerOfNone
    <2> QED BY <2>1
<1>2. ASSUME NEW k \in Nat, Done(k) PROVE Done(k + 1)
    <2> SUFFICES ASSUME NEW T \in SUBSET (0..k)
                 PROVE  \E m \in 0..2 ^ (k + 1) - 1 : \A i \in 0..k : Digit(m, i) <=> i \in T
        OBVIOUS
    <2>1. PICK U : U = {i \in 0..k - 1 : i + 1 \in T}
        OBVIOUS
    <2>2. PICK h \in 0..2 ^ k - 1 : \A i \in 0..k - 1 : Digit(h, i) <=> i \in U
        BY <1>2, <2>1
    <2>3. PICK c \in {0, 1} : c = 1 <=> 0 \in T
        OBVIOUS
    <2>4. PICK p \in Nat \ {0} : p = 2 ^ k /\ 2 ^ (k + 1) = 2 * p
        BY PowerDoubles
    <2>5. h \in Nat /\ 2 * h + c \in 0..2 ^ (k + 1) - 1
        BY <2>2, <2>3, <2>4
    <2>6. ASSUME NEW i \in 0..k PROVE Digit(2 * h + c, i) <=> i \in T
        <3>1. CASE i = 0
            BY <2>3, <2>5, <3>1, DigitsShift
        <3>2. CASE i # 0
            <4>1. PICK j \in 0..k - 1 : i = j + 1 /\ j \in Nat
                BY <3>2
            <4>2. Digit(2 * h + c, i) <=> Digit(h, j)
                BY <2>3, <2>5, <4>1, DigitsShift
            <4> QED BY <2>1, <2>2, <4>1, <4>2
        <3> QED BY <3>1, <3>2
    <2> QED BY <2>5, <2>6
<1>3. Done(n)
    <2> HIDE DEF Done
    <2>1. PICK Good : Good = {k \in Nat : Done(k)}
        OBVIOUS
    <2>2. 0 \in Good /\ \A k \in Nat : k \in Good => k + 1 \in Good
        BY <1>1, <1>2, <2>1
    <2>3. n \in Good
        BY <2>2, NaturalInduction
    <2> QED BY <2>1, <2>3
<1> QED BY <1>3

\* The rows of a pool are numbered apart, from 0.
LEMMA IndexTyped ==
    ASSUME NEW P \in SUBSET Candidates, NEW a \in P
    PROVE  /\ Index(P, a) \in 0..Cardinality(P) - 1
           /\ \A b \in P : RowOf[a] < RowOf[b] => Index(P, a) < Index(P, b)
<1>1. IsFiniteSet(P) /\ Cardinality(P) \in Nat
    BY RulesAssumption, FS_Subset, FS_CardinalityType
<1> DEFINE Above(b) == {c \in P : RowOf[c] < RowOf[b]}
<1>2. \A b, c \in P : RowOf[b] \in Int /\ RowOf[c] \in Int
    BY CandidatesTold
<1>3. \A b \in P : IsFiniteSet(Above(b)) /\ Cardinality(Above(b)) \in Nat
    BY <1>1, FS_Subset, FS_CardinalityType
<1>4. Cardinality(Above(a)) < Cardinality(P)
    <2>1. Above(a) \in SUBSET P /\ a \notin Above(a)
        BY <1>2
    <2>2. Cardinality(Above(a)) <= Cardinality(P) /\ Cardinality(Above(a)) # Cardinality(P)
        BY <1>1, <2>1, FS_Subset
    <2> QED BY <1>1, <1>3, <2>2
<1>5. ASSUME NEW b \in P, RowOf[a] < RowOf[b] PROVE Cardinality(Above(a)) < Cardinality(Above(b))
    <2>1. Above(a) \in SUBSET Above(b) /\ a \notin Above(a) /\ a \in Above(b)
        BY <1>2, <1>5
    <2>2. /\ Cardinality(Above(a)) <= Cardinality(Above(b))
          /\ Cardinality(Above(a)) # Cardinality(Above(b))
        BY <1>3, <2>1, FS_Subset
    <2> QED BY <1>3, <2>2
<1>6. \A b \in P : Index(P, b) = Cardinality(Above(b))
    BY DEF Index
<1> HIDE DEF Above
<1> QED BY <1>1, <1>3, <1>4, <1>5, <1>6

\* The masks enumerate the subsets of a pool, of which 0 stands for the empty one.
LEMMA MasksEnumerate ==
    ASSUME NEW P \in SUBSET Candidates, NEW S \in SUBSET P, S # {}
    PROVE  \E m \in 1..2 ^ Cardinality(P) - 1 : Masked(P, m) = S
<1>1. Cardinality(P) \in Nat
    BY RulesAssumption, FS_Subset, FS_CardinalityType
<1>2. PICK n \in Nat : n = Cardinality(P)
    BY <1>1
<1>3. PICK T : T = {Index(P, b) : b \in S}
    OBVIOUS
<1>4. T \in SUBSET (0..n - 1)
    BY <1>2, <1>3, IndexTyped
<1>5. PICK m \in 0..2 ^ n - 1 : \A i \in 0..n - 1 : Digit(m, i) <=> i \in T
    BY <1>4, AnyDigits
<1>6. ASSUME NEW b \in P PROVE Index(P, b) \in T <=> b \in S
    <2>1. ASSUME NEW c \in S, Index(P, c) = Index(P, b) PROVE c = b
        <3>1. c \in Candidates /\ b \in Candidates /\ Index(P, b) \in Int
            BY <1>1, IndexTyped
        <3>2. ~(RowOf[b] < RowOf[c]) /\ ~(RowOf[c] < RowOf[b])
            BY <2>1, <3>1, IndexTyped
        <3>3. RowOf[b] \in Int /\ RowOf[c] \in Int
            BY <3>1, CandidatesTold
        <3>4. RowOf[b] = RowOf[c]
            BY <3>2, <3>3
        <3> QED BY <3>1, <3>4, CandidatesTold
    <2> QED BY <1>3, <2>1
<1>7. \A b \in P : Digit(m, Index(P, b)) <=> b \in S
    BY <1>2, <1>5, <1>6, IndexTyped
<1>8. Masked(P, m) = S
    BY <1>7 DEF Masked, Digit
<1>9. m # 0
    <2> SUFFICES ASSUME m = 0 PROVE FALSE
        OBVIOUS
    <2>1. PICK b \in S : Digit(0, Index(P, b))
        BY <1>7
    <2>2. Index(P, b) \in Nat
        BY <1>1, IndexTyped
    <2>3. PICK k \in Nat \ {0} : k = 2 ^ Index(P, b)
        BY <2>2, PowerDoubles
    <2>4. 0 \div k = 0
        OBVIOUS
    <2> QED BY <2>1, <2>3, <2>4 DEF Digit
<1>10. m \in 1..2 ^ n - 1
    <2>1. 2 ^ n \in Nat
        BY PowerDoubles
    <2> QED BY <1>5, <1>9, <2>1
<1> QED BY <1>2, <1>8, <1>10

------------------------------------------------------------------------------
(* Coverage *)

\* A smaller set is ahead, and of two of one size that of the lower keys.
Ahead(S, T) ==
    \/ Cardinality(S) < Cardinality(T)
    \/ Cardinality(S) = Cardinality(T) /\ LowerKeys(S, T)

LEMMA KeysInOrder ==
    ASSUME NEW S \in SUBSET Candidates, NEW T \in SUBSET Candidates, NEW U \in SUBSET Candidates
    PROVE  /\ ~LowerKeys(S, S)
           /\ S = T \/ LowerKeys(S, T) \/ LowerKeys(T, S)
           /\ LowerKeys(S, T) /\ LowerKeys(T, U) => LowerKeys(S, U)
<1>1. \A b, c \in Candidates : Key[b] \in Nat /\ (Key[b] = Key[c] => b = c)
    BY CandidatesTold, RulesAssumption
<1>2. ~LowerKeys(S, S)
    BY DEF LowerKeys, SymDiff
<1>3. S = T \/ LowerKeys(S, T) \/ LowerKeys(T, S)
    <2> SUFFICES ASSUME S # T PROVE LowerKeys(S, T) \/ LowerKeys(T, S)
        OBVIOUS
    <2>1. PICK D : D = SymDiff(S, T)
        OBVIOUS
    <2>2. D \in SUBSET Candidates /\ D # {} /\ D \subseteq S \cup T /\ SymDiff(T, S) = D
        BY <2>1 DEF SymDiff
    <2>3. PICK K : K = {Key[b] : b \in D}
        OBVIOUS
    <2>4. K \in SUBSET Nat /\ K # {}
        BY <1>1, <2>2, <2>3
    <2>5. PICK k \in K : \A j \in K : k <= j
        BY <2>4, LeastNatural
    <2>6. PICK b \in D : \A c \in D : Key[b] <= Key[c]
        BY <2>3, <2>5
    <2> QED BY <2>1, <2>2, <2>6 DEF LowerKeys
<1>4. ASSUME LowerKeys(S, T), LowerKeys(T, U) PROVE LowerKeys(S, U)
    <2>1. PICK x \in SymDiff(S, T) : x \in S /\ \A c \in SymDiff(S, T) : Key[x] <= Key[c]
        BY <1>4 DEF LowerKeys
    <2>2. PICK y \in SymDiff(T, U) : y \in T /\ \A c \in SymDiff(T, U) : Key[y] <= Key[c]
        BY <1>4 DEF LowerKeys
    <2>3. x \in S /\ x \notin T /\ y \in T /\ y \notin U /\ x \in Candidates /\ y \in Candidates
        BY <2>1, <2>2 DEF SymDiff
    <2>4. /\ \A c \in Candidates : Key[c] < Key[x] => (c \in S <=> c \in T)
          /\ \A c \in Candidates : Key[c] < Key[y] => (c \in T <=> c \in U)
        BY <1>1, <2>1, <2>2, <2>3 DEF SymDiff
    <2>5. Key[x] < Key[y] \/ Key[y] < Key[x]
        BY <1>1, <2>3
    <2>6. CASE Key[x] < Key[y]
        <3>1. x \in SymDiff(S, U) \cap S
            BY <2>3, <2>4, <2>6 DEF SymDiff
        <3>2. \A c \in SymDiff(S, U) : Key[x] <= Key[c]
            BY <1>1, <2>3, <2>4, <2>6 DEF SymDiff
        <3> QED BY <3>1, <3>2 DEF LowerKeys
    <2>7. CASE Key[y] < Key[x]
        <3>1. y \in SymDiff(S, U) \cap S
            BY <2>3, <2>4, <2>7 DEF SymDiff
        <3>2. \A c \in SymDiff(S, U) : Key[y] <= Key[c]
            BY <1>1, <2>3, <2>4, <2>7 DEF SymDiff
        <3> QED BY <3>1, <3>2 DEF LowerKeys
    <2> QED BY <2>5, <2>6, <2>7
<1> QED BY <1>2, <1>3, <1>4

LEMMA SetsInOrder ==
    ASSUME NEW S \in SUBSET Candidates, NEW T \in SUBSET Candidates, NEW U \in SUBSET Candidates
    PROVE  /\ ~Ahead(S, S)
           /\ S = T \/ Ahead(S, T) \/ Ahead(T, S)
           /\ Ahead(S, T) /\ Ahead(T, U) => Ahead(S, U)
<1>1. \A X \in SUBSET Candidates : Cardinality(X) \in Nat
    BY RulesAssumption, FS_Subset, FS_CardinalityType
<1> QED BY <1>1, KeysInOrder DEF Ahead

\* One turn of the enumeration, as the library folds it.
BestOf(P, masks, g, T) ==
    IF T = {} THEN {} ELSE Better(g[T \ {Max(T)}], Masked(P, masks[Max(T)]))
Enumerating(P, masks, g) == g = [T \in SUBSET DOMAIN masks |-> BestOf(P, masks, g, T)]

LEMMA EnumerationIs ==
    ASSUME NEW P, NEW masks
    PROVE  FoldLeft(LAMBDA acc, m : Better(acc, Masked(P, m)), {}, masks)
              = (CHOOSE g : Enumerating(P, masks, g))[DOMAIN masks]
BY DEF FoldLeft, MapThenFoldSet, Enumerating, BestOf

LEMMA GreatestOf ==
    ASSUME NEW n \in Nat, NEW T \in SUBSET (1..n), T # {}
    PROVE  Max(T) \in T /\ \A i \in T : i <= Max(T)
<1>1. IsFiniteSet(T)
    <2>1. IsFiniteSet(1..n)
        BY FS_Interval
    <2> QED BY <2>1, FS_Subset
<1>2. PICK F : F = [i \in T |-> i]
    OBVIOUS
<1>3. F \in [T -> Int]
    BY <1>2
<1>4. PICK x \in T : \A y \in T : F[y] <= F[x]
    BY <1>1, <1>3, Greatest
<1>5. \E i \in T : \A j \in T : i >= j
    BY <1>2, <1>4
<1>6. Max(T) \in T /\ \A y \in T : Max(T) >= y
    BY <1>5 DEF Max
<1> QED BY <1>6

LEMMA EnumerationExists ==
    ASSUME NEW P \in SUBSET Candidates, NEW n \in Nat, NEW masks, masks = [m \in 1..n |-> m]
    PROVE  \E g : Enumerating(P, masks, g)
<1>0. PICK pick : pick = [T \in SUBSET (1..n) |-> Max(T)]
    OBVIOUS
<1>1. PICK turn :
          turn = [p \in (1..n) \X SUBSET Candidates |-> Better(p[2], Masked(P, p[1]))]
    OBVIOUS
<1>2. \A m : Masked(P, m) \in SUBSET Candidates
    BY DEF Masked
<1>3. \A m, B : B \in SUBSET Candidates => Better(B, Masked(P, m)) \in SUBSET Candidates
    BY <1>2 DEF Better
<1>4. Foldable(1..n, SUBSET Candidates, {}, pick, turn)
    <2>1. turn \in [(1..n) \X SUBSET Candidates -> SUBSET Candidates]
        BY <1>1, <1>3
    <2>2. \A T \in SUBSET (1..n) : T # {} => pick[T] \in T
        BY <1>0, GreatestOf
    <2>3. IsFiniteSet(1..n) /\ {} \in SUBSET Candidates
        BY FS_Interval
    <2> QED BY <2>1, <2>2, <2>3 DEF Foldable
<1>5. PICK g : IsFold(1..n, SUBSET Candidates, {}, pick, turn, g)
    BY <1>4, FoldExists
<1>6. ASSUME NEW T \in SUBSET (1..n) PROVE g[T] = BestOf(P, masks, g, T)
    <2>1. CASE T = {}
        BY <1>5, <2>1 DEF IsFold, Folded, BestOf
    <2>2. CASE T # {}
        <3>1. PICK x : x = pick[T] /\ x = Max(T) /\ x \in 1..n /\ masks[x] = x
            BY <1>0, <2>2, GreatestOf
        <3>2. T \ {x} \in SUBSET (1..n) /\ g[T \ {x}] \in SUBSET Candidates
            BY <1>5 DEF IsFold
        <3>3. g[T] = turn[<<x, g[T \ {x}]>>]
            BY <1>5, <2>2, <3>1 DEF IsFold, Folded
        <3>4. turn[<<x, g[T \ {x}]>>] = Better(g[T \ {x}], Masked(P, x))
            BY <1>1, <3>1, <3>2
        <3> QED BY <2>2, <3>1, <3>3, <3>4 DEF BestOf
    <2> QED BY <2>1, <2>2
<1>7. DOMAIN masks = 1..n
    OBVIOUS
<1> QED BY <1>5, <1>6, <1>7 DEF IsFold, Enumerating

\* What is the best after some masks: the foremost of the covering sets they stand for.
Foremost(P, k, B) ==
    /\ B \in SUBSET P
    /\ B # {} => Covering(B)
    /\ \A m \in 1..k : Covering(Masked(P, m)) => B # {} /\ (Masked(P, m) = B \/ Ahead(B, Masked(P, m)))

LEMMA BetterIsForemost ==
    ASSUME NEW P \in SUBSET Candidates, NEW k \in Nat, NEW B, Foremost(P, k, B),
           rule.domains # {}
    PROVE  Foremost(P, k + 1, Better(B, Masked(P, k + 1)))
<1>1. PICK S : S = Masked(P, k + 1)
    OBVIOUS
<1>2. S \in SUBSET P /\ B \in SUBSET P
    BY <1>1 DEF Masked, Foremost
<1>3. Covering(S) => S # {}
    BY DEF Covering
<1>4. \A m : Masked(P, m) \in SUBSET Candidates
    BY DEF Masked
<1>5. 1..k + 1 = (1..k) \cup {k + 1}
    OBVIOUS
<1>6. CASE Covering(S) /\ (B = {} \/ Ahead(S, B))
    <2>1. Better(B, S) = S
        BY <1>6 DEF Better, Ahead
    <2>2. ASSUME NEW m \in 1..k, Covering(Masked(P, m)) PROVE Ahead(S, Masked(P, m))
        <3>1. B # {} /\ (Masked(P, m) = B \/ Ahead(B, Masked(P, m)))
            BY <2>2 DEF Foremost
        <3>2. S \in SUBSET Candidates /\ B \in SUBSET Candidates /\ Masked(P, m) \in SUBSET Candidates
            BY <1>2, <1>4
        <3> QED BY <1>6, <3>1, <3>2, SetsInOrder
    <2> QED BY <1>1, <1>2, <1>3, <1>5, <1>6, <2>1, <2>2 DEF Foremost
<1>7. CASE ~(Covering(S) /\ (B = {} \/ Ahead(S, B)))
    <2>1. Better(B, S) = B
        BY <1>7 DEF Better, Ahead
    <2>2. Covering(S) => B # {} /\ (S = B \/ Ahead(B, S))
        <3>1. S \in SUBSET Candidates /\ B \in SUBSET Candidates
            BY <1>2
        <3> QED BY <1>7, <3>1, SetsInOrder
    <2> QED BY <1>1, <1>5, <2>1, <2>2 DEF Foremost
<1> QED BY <1>6, <1>7

LEMMA EnumerationEnds ==
    ASSUME NEW P \in SUBSET Candidates, NEW n \in Nat, NEW masks, masks = [m \in 1..n |-> m],
           rule.domains # {}, NEW g, Enumerating(P, masks, g)
    PROVE  Foremost(P, n, g[DOMAIN masks])
<1>0. DOMAIN masks = 1..n
    OBVIOUS
<1>1. \A T \in SUBSET (1..n) : g[T] = BestOf(P, masks, g, T)
    BY <1>0 DEF Enumerating
<1> DEFINE Done(k) == k <= n => Foremost(P, k, g[1..k])
<1>2. Done(0)
    <2>1. 1..0 = {}
        OBVIOUS
    <2>2. g[{}] = {}
        BY <1>1 DEF BestOf
    <2> QED BY <2>1, <2>2 DEF Foremost
<1>3. ASSUME NEW k \in Nat, Done(k) PROVE Done(k + 1)
    <2> SUFFICES ASSUME k + 1 <= n PROVE Foremost(P, k + 1, g[1..k + 1])
        OBVIOUS
    <2>1. PICK T, x : T = 1..k + 1 /\ x = Max(T)
        OBVIOUS
    <2>2. k + 1 \in 1..n /\ k + 1 \in T /\ T \in SUBSET (1..n)
        BY <2>1
    <2>3. x = k + 1
        <3>1. x \in T /\ k + 1 <= x
            BY <2>1, <2>2, GreatestOf
        <3> QED BY <2>1, <3>1
    <2>4. masks[x] = k + 1 /\ T # {}
        BY <2>2, <2>3
    <2>5. T \ {x} = 1..k
        BY <2>1, <2>3
    <2>6. g[T] = Better(g[T \ {x}], Masked(P, masks[x]))
        BY <1>1, <2>1, <2>2, <2>4 DEF BestOf
    <2>7. g[T] = Better(g[1..k], Masked(P, k + 1))
        BY <2>4, <2>5, <2>6
    <2>8. Foremost(P, k, g[1..k])
        BY <1>3
    <2> QED BY <2>1, <2>7, <2>8, BetterIsForemost
<1>4. Done(n)
    <2> HIDE DEF Done
    <2>1. PICK Good : Good = {k \in Nat : Done(k)}
        OBVIOUS
    <2>2. 0 \in Good /\ \A k \in Nat : k \in Good => k + 1 \in Good
        BY <1>2, <1>3, <2>1
    <2>3. n \in Good
        BY <2>2, NaturalInduction
    <2> QED BY <2>1, <2>3
<1> QED BY <1>0, <1>4

\* The winner of the enumeration is the foremost of all subsets that cover, if any does.
IsForemost(P, B) ==
    /\ B \in SUBSET P
    /\ B # {} => Covering(B)
    /\ \A S \in SUBSET P : Covering(S) => B # {} /\ (S = B \/ Ahead(B, S))

LEMMA CoverageIs ==
    ASSUME NEW P \in SUBSET Candidates, Cardinality(Candidates) <= 30, rule.domains # {}
    PROVE  \E B : IsForemost(P, B) /\ Coverage(P) = [performers |-> B, synthesizer |-> Broadest(B)]
<1>1. Cardinality(P) \in Nat /\ Cardinality(P) <= 30
    <2>1. /\ Cardinality(P) \in Nat /\ Cardinality(Candidates) \in Nat
          /\ Cardinality(P) <= Cardinality(Candidates)
        BY RulesAssumption, FS_Subset, FS_CardinalityType
    <2> QED BY <2>1
<1>2. PICK n \in Nat : n = OneShifted(Cardinality(P)) - 1 /\ n = 2 ^ Cardinality(P) - 1
    <2>1. Cardinality(P) % 32 = Cardinality(P)
        BY <1>1
    <2>2. OneShifted(Cardinality(P)) = 2 ^ Cardinality(P)
        BY <1>1, <2>1 DEF OneShifted
    <2>3. 2 ^ Cardinality(P) \in Nat \ {0}
        BY <1>1, PowerDoubles
    <2> QED BY <2>2, <2>3
<1>3. PICK masks : masks = [m \in 1..n |-> m]
    OBVIOUS
<1>4. PICK B : B = FoldLeft(LAMBDA acc, m : Better(acc, Masked(P, m)), {}, masks)
    OBVIOUS
<1>5. Coverage(P) = [performers |-> B, synthesizer |-> Broadest(B)]
    BY <1>2, <1>3, <1>4 DEF Coverage
<1>6. PICK g : Enumerating(P, masks, g) /\ B = g[DOMAIN masks]
    BY <1>3, <1>4, EnumerationIs, EnumerationExists
<1>7. Foremost(P, n, B)
    BY <1>3, <1>6, EnumerationEnds
<1>8. ASSUME NEW S \in SUBSET P, Covering(S) PROVE B # {} /\ (S = B \/ Ahead(B, S))
    <2>1. S # {}
        BY <1>8 DEF Covering
    <2>2. PICK m \in 1..n : Masked(P, m) = S
        BY <1>2, <2>1, MasksEnumerate
    <2> QED BY <1>7, <1>8, <2>2 DEF Foremost
<1>9. IsForemost(P, B)
    BY <1>7, <1>8 DEF Foremost, IsForemost
<1> QED BY <1>5, <1>9

\* There is one foremost set, and the replay selects it.
LEMMA ForemostIsSelected ==
    ASSUME NEW P \in SUBSET Candidates, NEW B, IsForemost(P, B), rule.domains # {}
    PROVE  SelectCoverage(P) = B
<1>1. PICK covering : covering = {S \in SUBSET P : rule.domains # {} /\ S # {} /\ Covering(S)}
    OBVIOUS
<1>2. PICK least : least = {S \in covering : \A T \in covering \ {S} : Ahead(S, T)}
    OBVIOUS
<1>3. SelectCoverage(P) = UNION least
    BY <1>1, <1>2 DEF SelectCoverage, Ahead
<1>4. \A S \in SUBSET P : S \in covering <=> Covering(S)
    BY <1>1 DEF Covering
<1>5. CASE B = {}
    <2>1. covering = {}
        BY <1>1, <1>5 DEF IsForemost
    <2> QED BY <1>2, <1>3, <1>5, <2>1
<1>6. CASE B # {}
    <2>1. B \in covering /\ \A T \in covering \ {B} : Ahead(B, T)
        BY <1>1, <1>6 DEF IsForemost
    <2>2. ASSUME NEW S \in least, S # B PROVE FALSE
        <3>1. S \in SUBSET Candidates /\ B \in SUBSET Candidates /\ Ahead(S, B) /\ Ahead(B, S)
            BY <1>1, <1>2, <2>1, <2>2
        <3> QED BY <3>1, SetsInOrder
    <2>3. least = {B}
        BY <1>2, <2>1, <2>2
    <2> QED BY <1>3, <2>3
<1> QED BY <1>5, <1>6

LEMMA CoverageAgrees ==
    ASSUME NEW P \in SUBSET Candidates, Cardinality(Candidates) <= 30
    PROVE  Coverage(P) = [performers |-> SelectCoverage(P), synthesizer |-> Broadest(SelectCoverage(P))]
<1>1. CASE rule.domains # {}
    BY <1>1, CoverageIs, ForemostIsSelected
<1>2. CASE rule.domains = {}
    <2>1. SelectCoverage(P) = {}
        BY <1>2 DEF SelectCoverage
    <2>2. Broadest({}) = {}
        <3>1. Cardinality({}) = 0
            BY FS_EmptySet
        <3> QED BY <3>1 DEF Broadest
    <2> QED BY <1>2, <2>1, <2>2 DEF Coverage, NoSelection
<1> QED BY <1>1, <1>2

\* With 31 bids the shift is negative: no mask is tried, and nobody is awarded.
LEMMA NoMaskOfThirtyOne ==
    ASSUME NEW P, Cardinality(P) = 31
    PROVE  Coverage(P).performers = {}
<1>1. PICK masks : masks = [m \in 1..(OneShifted(Cardinality(P)) - 1) |-> m]
    OBVIOUS
<1>2. DOMAIN masks = {}
    <2>1. OneShifted(Cardinality(P)) = -2147483647 - 1
        BY DEF OneShifted
    <2> QED BY <1>1, <2>1
<1>3. PICK B : B = FoldLeft(LAMBDA acc, m : Better(acc, Masked(P, m)), {}, masks)
    OBVIOUS
<1>4. B = {}
    <2>1. PICK g : g = [T \in SUBSET DOMAIN masks |-> {}]
        OBVIOUS
    <2>2. \A T \in SUBSET DOMAIN masks : T = {}
        BY <1>2
    <2>3. Enumerating(P, masks, g)
        BY <2>1, <2>2 DEF Enumerating, BestOf
    <2>4. PICK h : Enumerating(P, masks, h) /\ B = h[DOMAIN masks]
        BY <1>3, <2>3, EnumerationIs
    <2> QED BY <1>2, <2>4 DEF Enumerating, BestOf
<1>5. rule.domains # {} => Coverage(P) = [performers |-> B, synthesizer |-> Broadest(B)]
    BY <1>1, <1>3 DEF Coverage
<1> QED BY <1>4, <1>5 DEF Coverage, NoSelection

LEMMA CoverageWithout ==
    ASSUME NEW P \in SUBSET Candidates, Cardinality(Candidates) <= 30,
           NEW b \in P, b \notin Coverage(P).performers
    PROVE  Coverage(P \ {b}) = Coverage(P)
<1>1. CASE rule.domains # {}
    <2>1. PICK B : IsForemost(P, B) /\ Coverage(P) = [performers |-> B, synthesizer |-> Broadest(B)]
        BY <1>1, CoverageIs
    <2>2. IsForemost(P \ {b}, B)
        BY <2>1 DEF IsForemost
    <2>3. SelectCoverage(P) = B /\ SelectCoverage(P \ {b}) = B
        BY <1>1, <2>1, <2>2, ForemostIsSelected
    <2> QED BY <2>3, CoverageAgrees
<1>2. CASE rule.domains = {}
    BY <1>2 DEF Coverage
<1> QED BY <1>1, <1>2

------------------------------------------------------------------------------
(* An award is what a replay makes of it *)

LEMMA AwardFromInv ==
    ASSUME AwardInv, Cardinality(Candidates) <= 30
    PROVE  AwardRecomputes
<1>0. Revealed \in SUBSET Candidates
    BY DEF Revealed
<1>1. ASSUME rule # NoRule, NEW P \in SUBSET Revealed,
             \A a, b \in P : a # b => ~(Endless(a) /\ Endless(b))
      PROVE  RunRule(P) = Recomputed(P)
    <2>1. P \in SUBSET Candidates
        BY <1>0
    <2> QED BY <1>1, <2>1, RankingAgrees, CoverageAgrees DEF RunRule, Recomputed
<1>2. RulesAgree
    BY <1>1 DEF RulesAgree
<1>3. ASSUME rule # NoRule, NEW b \in Revealed \ RunRule(Revealed).performers
      PROVE  RunRule(Revealed \ {b}) = RunRule(Revealed)
    BY <1>0, <1>3, RankingWithout, CoverageWithout DEF RunRule
<1>4. LosersDoNotMatter
    BY <1>3 DEF LosersDoNotMatter
<1> QED BY <1>2, <1>4 DEF AwardRecomputes

\* The hub and a replay award any pool of revealed bids alike, and a bid that does not
\* win does not matter: for any bids and rules, and as many bidders as `1 << n` counts,
\* of which 31 are one too many.
THEOREM AwardsRecompute ==
    ASSUME Cardinality(Candidates) <= 30
    PROVE  AwardSpec => []AwardRecomputes
<1>1. AwardInv /\ [AwardNext]_ruleVars => AwardInv'
    BY AwardStep
<1>2. AwardInv => AwardRecomputes
    BY AwardFromInv
<1> QED BY <1>1, <1>2, AwardInvInit, PTL DEF AwardSpec
------------------------------------------------------------------------------
(* The record of a period *)

\* What the record holds, and that nothing on it is of later than now.
Kept == [task : Jobs, actors : Payees, at : Nat]
Marked == [holder : Members, item : Works \cup Marks]
Acts == [act : {"Enroll", "Unenroll"}, agent : Agents, operator : Members, at : Nat]
RecordKept ==
    /\ now \in Nat \ {0}
    /\ hubChain \in Seq(Kept) /\ \A s \in DOMAIN hubChain : hubChain[s].at <= now
    /\ IsFiniteSet(copies) /\ copies \in SUBSET Marked
    /\ IsFiniteSet(trail) /\ trail \in SUBSET Acts /\ \A e \in trail : e.at <= now
    /\ \A a \in Agents : \E e \in trail : e.act = "Enroll" /\ e.agent = a /\ e.at = 0

\* A pool: some of the copies there are.
IsPool(C) == IsFiniteSet(C) /\ C \in SUBSET Marked

LEMMA MergedPool ==
    ASSUME RecordKept, NEW ms
    PROVE  IsPool(Merged(ms))
BY FS_Subset DEF Merged, IsPool, RecordKept

\* The image of a finite set, under a function.
LEMMA ImageFinite ==
    ASSUME NEW S, IsFiniteSet(S), NEW f, DOMAIN f = S
    PROVE  IsFiniteSet({f[x] : x \in S})
<1>1. PICK T : T = {f[x] : x \in S}
    OBVIOUS
<1>2. PICK h : h = [x \in S |-> f[x]]
    OBVIOUS
<1>3. h \in Surjection(S, T)
    BY <1>1, <1>2 DEF Surjection
<1>4. IsFiniteSet(T)
    BY <1>3, FS_Surjection
<1> QED BY <1>1, <1>4

\* A period is a stretch of the chain, and closes with its last settlement.
LEMMA FrameStands ==
    ASSUME RecordKept, NEW f \in Frames
    PROVE  /\ Slice(f) \subseteq DOMAIN hubChain /\ Slice(f) # {} /\ IsFiniteSet(Slice(f))
           /\ f.to \in Slice(f) /\ f.from + 1 \in Slice(f) /\ f.from \in Nat /\ f.to \in Nat
           /\ ClosesAt(f) = hubChain[f.to].at /\ ClosesAt(f) \in Nat /\ ClosesAt(f) <= now
           /\ \A s \in Slice(f) : hubChain[s] \in Kept
<1>1. Len(hubChain) \in Nat /\ DOMAIN hubChain = 1..Len(hubChain)
      /\ hubChain \in [1..Len(hubChain) -> Kept]
    BY DEF RecordKept
<1>2. f.from \in 0..Len(hubChain) /\ f.to \in 0..Len(hubChain) /\ f.from < f.to
    BY DEF Frames
<1>3. Slice(f) \subseteq DOMAIN hubChain /\ f.to \in Slice(f) /\ f.from + 1 \in Slice(f)
    BY <1>1, <1>2 DEF Slice
<1>4. IsFiniteSet(Slice(f))
    <2>1. f.from + 1 \in Int /\ f.to \in Int
        BY <1>1, <1>2
    <2> QED BY <2>1, FS_Interval DEF Slice
<1>5. ClosesAt(f) = hubChain[f.to].at
    BY <1>3 DEF ClosesAt
<1>6. \A s \in Slice(f) : hubChain[s] \in Kept
    BY <1>1, <1>3
<1>7. hubChain[f.to].at \in Nat /\ hubChain[f.to].at <= now
    BY <1>3, <1>6 DEF Kept, RecordKept
<1> QED BY <1>1, <1>2, <1>3, <1>4, <1>5, <1>6, <1>7

\* At every close each agent is some operator's.
LEMMA OperatorIsMember ==
    ASSUME RecordKept, NEW a \in Agents, NEW at \in Nat
    PROVE  OperatorAt(a, at) \in Members
<1>1. PICK mine : mine = EnrolledBy(a, at)
    OBVIOUS
<1>2. mine \in SUBSET trail /\ IsFiniteSet(mine)
    BY <1>1, FS_Subset DEF EnrolledBy, RecordKept
<1>3. mine # {}
    BY <1>1 DEF EnrolledBy, RecordKept
<1>4. PICK F : F = [e \in mine |-> e.at]
    OBVIOUS
<1>5. F \in [mine -> Int]
    BY <1>2, <1>4 DEF RecordKept, Acts
<1>6. PICK e \in mine : \A d \in mine : F[d] <= F[e]
    BY <1>2, <1>3, <1>5, Greatest
<1>7. \E x \in mine : \A d \in mine : d.at <= x.at
    BY <1>4, <1>6
<1>8. PICK last : last = CHOOSE x \in mine : \A d \in mine : d.at <= x.at
    OBVIOUS
<1>9. last \in mine
    BY <1>7, <1>8
<1>10. OperatorAt(a, at) = last.operator
    BY <1>1, <1>3, <1>8 DEF OperatorAt
<1> QED BY <1>2, <1>9, <1>10 DEF RecordKept, Acts

------------------------------------------------------------------------------
(* The rows of credit *)

LEMMA WholeStands ==
    ASSUME NEW w \in Works
    PROVE  /\ Whole(w) \in Nat \ {0} /\ IsFiniteSet(DOMAIN w.shares)
           /\ DOMAIN w.shares \subseteq Agents /\ DOMAIN w.shares # {}
           /\ w.shares \in [DOMAIN w.shares -> Nat \ {0}]
           /\ \E g : Adds(w.shares, DOMAIN w.shares, g) /\ Whole(w) = g[DOMAIN w.shares]
<1>1. /\ DOMAIN w.shares \subseteq Agents /\ DOMAIN w.shares # {}
      /\ w.shares \in [DOMAIN w.shares -> Nat \ {0}]
    BY ContributionAssumption DEF IsResult
<1>2. IsFiniteSet(DOMAIN w.shares)
    BY <1>1, FS_Subset, ContributionAssumption
<1>3. w.shares \in [DOMAIN w.shares -> Int]
    BY <1>1
<1>4. PICK g : Adds(w.shares, DOMAIN w.shares, g) /\ Whole(w) = g[DOMAIN w.shares]
    BY <1>2, <1>3, SumAdds DEF Whole
<1>5. Whole(w) \in Nat \ {0}
    BY <1>1, <1>2, <1>4, SumPositive
<1> QED BY <1>1, <1>2, <1>4, <1>5

CreditRow(s, c, a) == [through |-> s, work |-> c, agent |-> a]

\* A row is an author of a Result that a settlement of the period leads to.
LEMMA CreditRowIs ==
    ASSUME NEW C, NEW f, NEW r \in Rows(C, f)
    PROVE  /\ r = CreditRow(r.through, r.work, r.agent)
           /\ r.through \in Slice(f) /\ r.work \in ResultsOn(C, f, r.through)
           /\ r.agent \in DOMAIN r.work.item.shares /\ r.agent \in Agents
           /\ r.work.item \in Works
<1>1. PICK s \in Slice(f) : r \in RowsOn(C, f, s)
    BY DEF Rows
<1>2. /\ r \in [through : {s}, work : ResultsOn(C, f, s), agent : Agents]
      /\ r.agent \in DOMAIN r.work.item.shares
    BY <1>1 DEF RowsOn
<1>3. r.through = s /\ r.work \in ResultsOn(C, f, s) /\ r.agent \in Agents
      /\ r = CreditRow(r.through, r.work, r.agent)
    BY <1>2 DEF CreditRow
<1>4. r.work.item \in Works
    BY <1>3 DEF ResultsOn
<1> QED BY <1>2, <1>3, <1>4

LEMMA IsRow ==
    ASSUME NEW C, NEW f, NEW s \in Slice(f), NEW c \in ResultsOn(C, f, s),
           NEW a \in DOMAIN c.item.shares
    PROVE  CreditRow(s, c, a) \in Rows(C, f)
<1>1. c.item \in Works
    BY DEF ResultsOn
<1>2. a \in Agents
    BY <1>1, WholeStands
<1>3. CreditRow(s, c, a) \in [through : {s}, work : ResultsOn(C, f, s), agent : Agents]
    BY <1>2 DEF CreditRow
<1>4. CreditRow(s, c, a).agent = a /\ CreditRow(s, c, a).work = c
    BY DEF CreditRow
<1>5. CreditRow(s, c, a) \in RowsOn(C, f, s)
    BY <1>3, <1>4 DEF RowsOn
<1> QED BY <1>5 DEF Rows

LEMMA RowsFinite ==
    ASSUME RecordKept, NEW C, IsPool(C), NEW f \in Frames
    PROVE  IsFiniteSet(Rows(C, f)) /\ IsFiniteSet(Deduplicated(C))
<1>1. IsFiniteSet(Deduplicated(C))
    <2>1. PICK h : h = [c \in C |-> [item |-> c.item]]
        OBVIOUS
    <2>2. IsFiniteSet({h[c] : c \in C})
        BY <2>1, ImageFinite DEF IsPool
    <2>3. {h[c] : c \in C} = Deduplicated(C)
        BY <2>1 DEF Deduplicated
    <2> QED BY <2>2, <2>3
<1>2. PICK P : P = Slice(f) \X (Deduplicated(C) \X Agents)
    OBVIOUS
<1>3. IsFiniteSet(P)
    BY <1>1, <1>2, FS_Product, FrameStands, ContributionAssumption
<1>4. PICK h : h = [p \in P |-> CreditRow(p[1], p[2][1], p[2][2])]
    OBVIOUS
<1>5. PICK T : T = {h[p] : p \in P}
    OBVIOUS
<1>6. IsFiniteSet(T)
    BY <1>3, <1>4, <1>5, ImageFinite
<1>7. ASSUME NEW r \in Rows(C, f) PROVE r \in T
    <2>1. r.work \in Deduplicated(C) /\ r.agent \in Agents /\ r.through \in Slice(f)
          /\ r = CreditRow(r.through, r.work, r.agent)
        BY CreditRowIs DEF ResultsOn
    <2>2. PICK p : p = <<r.through, <<r.work, r.agent>>>>
        OBVIOUS
    <2>3. p \in P /\ h[p] = r
        BY <1>2, <1>4, <2>1, <2>2
    <2> QED BY <1>5, <2>3
<1> QED BY <1>1, <1>6, <1>7, FS_Subset

\* The denominator is a common multiple.
LEMMA DenominatorStands ==
    ASSUME RecordKept, NEW C, IsPool(C), NEW f \in Frames
    PROVE  /\ Denominator(C, f) \in Nat \ {0}
           /\ \A r \in Rows(C, f) : Denominator(C, f) % Whole(r.work.item) = 0
<1>1. PICK R : R = Rows(C, f)
    OBVIOUS
<1>2. PICK h : h = [r \in R |-> Whole(r.work.item)]
    OBVIOUS
<1>3. PICK ds : ds = {h[r] : r \in R}
    OBVIOUS
<1>4. ds = {Whole(r.work.item) : r \in Rows(C, f)}
    BY <1>1, <1>2, <1>3
<1>5. IsFiniteSet(ds)
    BY <1>1, <1>2, <1>3, RowsFinite, ImageFinite
<1>6. ds \subseteq Nat \ {0}
    BY <1>4, CreditRowIs, WholeStands
<1>7. PICK most \in Nat \ {0} : most = ProductSet(ds) /\ \A d \in ds : most % d = 0
    BY <1>5, <1>6, ProductDivides
<1>8. PICK Common : Common = {n \in 1..most : \A d \in ds : n % d = 0}
    OBVIOUS
<1>9. Common \in SUBSET Nat /\ most \in Common
    BY <1>7, <1>8
<1>10. \E x \in Common : \A y \in Common : x <= y
    BY <1>9, LeastNatural
<1>11. PICK x : x = Min(Common)
    OBVIOUS
<1>12. x \in Common
    BY <1>10, <1>11 DEF Min
<1>13. Denominator(C, f) = x
    BY <1>4, <1>7, <1>8, <1>11 DEF Denominator, CommonDenominator
<1> QED BY <1>4, <1>8, <1>12, <1>13

\* A share over a common multiple is exact.
LEMMA MultipleOver ==
    ASSUME NEW n \in Nat, NEW d \in Nat, NEW w \in Nat \ {0}, d % w = 0
    PROVE  (n * d) \div w \in Int /\ w * ((n * d) \div w) = n * d
<1>1. PICK k \in Int : d = w * k
    OBVIOUS
<1>2. n * d = w * (n * k) /\ n * k \in Int
    BY <1>1
<1>3. \A m \in Int : (w * m) \div w = m
    OBVIOUS
<1> QED BY <1>2, <1>3

LEMMA CancelFactor ==
    ASSUME NEW n \in Nat \ {0}, NEW x \in Int, NEW y \in Int, n * x = n * y
    PROVE  x = y
<1>1. (n * x) \div n = x /\ (n * y) \div n = y
    OBVIOUS
<1> QED BY <1>1

LEMMA SharesStand ==
    ASSUME NEW C, NEW f, NEW r \in Rows(C, f), NEW d \in Nat, d % Whole(r.work.item) = 0
    PROVE  /\ Share(r, d) \in Int /\ Whole(r.work.item) \in Nat \ {0}
           /\ r.work.item.shares[r.agent] \in Nat
           /\ Whole(r.work.item) * Share(r, d) = r.work.item.shares[r.agent] * d
<1>1. PICK w : w = r.work.item /\ w \in Works /\ r.agent \in DOMAIN w.shares
    BY CreditRowIs
<1>2. Whole(w) \in Nat \ {0} /\ w.shares[r.agent] \in Nat
    BY <1>1, WholeStands
<1> QED BY <1>1, <1>2, MultipleOver DEF Share

------------------------------------------------------------------------------
(* No credit is lost or made up *)

\* What an operator is credited is the sum of its rows.
LEMMA CreditIs ==
    ASSUME RecordKept, NEW C, IsPool(C), NEW f \in Frames, NEW F,
           F = [r \in Rows(C, f) |-> Share(r, Denominator(C, f))],
           NEW g, Adds(F, Rows(C, f), g), NEW m \in Members
    PROVE  Credited(C, f)[m] \in Int /\ Credited(C, f)[m] = g[Earned(Rows(C, f), f, m)]
<1>1. PICK R, d : R = Rows(C, f) /\ d = Denominator(C, f)
    OBVIOUS
<1>2. F \in [R -> Int]
    BY <1>1, DenominatorStands, SharesStand
<1>3. PICK T : T = Earned(R, f, m)
    OBVIOUS
<1>4. T \in SUBSET R /\ IsFiniteSet(T)
    BY <1>1, <1>3, RowsFinite, FS_Subset DEF Earned
<1>5. SumFunction([r \in T |-> F[r]]) = g[T]
    BY <1>1, <1>2, <1>4, SumOfPart
<1>6. [r \in T |-> F[r]] = [r \in T |-> Share(r, d)]
    BY <1>1, <1>4
<1>7. Credited(C, f)[m] = SumFunction([r \in T |-> Share(r, d)])
    BY <1>1, <1>3 DEF Credited
<1>8. g[T] \in Int
    BY <1>1, <1>4 DEF Adds
<1> QED BY <1>1, <1>3, <1>5, <1>6, <1>7, <1>8

\* The authors of one Result, through one settlement, are credited a whole.
LEMMA ResultIsWhole ==
    ASSUME RecordKept, NEW C, IsPool(C), NEW f \in Frames, NEW F,
           F = [r \in Rows(C, f) |-> Share(r, Denominator(C, f))],
           NEW g, Adds(F, Rows(C, f), g), NEW q \in Rows(C, f)
    PROVE  g[{r \in Rows(C, f) : r.through = q.through /\ r.work = q.work}] = Denominator(C, f)
<1>1. PICK R, d : R = Rows(C, f) /\ d = Denominator(C, f)
    OBVIOUS
<1>2. F \in [R -> Int] /\ d \in Nat \ {0}
    BY <1>1, DenominatorStands, SharesStand
<1>3. PICK s, c, w, A : s = q.through /\ c = q.work /\ w = q.work.item /\ A = DOMAIN w.shares
    OBVIOUS
<1>4. s \in Slice(f) /\ c \in ResultsOn(C, f, s) /\ w = c.item /\ w \in Works
    BY <1>3, CreditRowIs
<1>5. IsFiniteSet(A) /\ A # {} /\ w.shares \in [A -> Nat \ {0}] /\ Whole(w) \in Nat \ {0}
    BY <1>3, <1>4, WholeStands
<1>6. PICK h : Adds(w.shares, A, h) /\ Whole(w) = h[A]
    BY <1>3, <1>4, WholeStands
<1>7. PICK fn : fn = [a \in A |-> CreditRow(s, c, a)]
    OBVIOUS
<1>8. fn \in [A -> R] /\ \A a \in A : \A b \in A : fn[a] = fn[b] => a = b
    <2>1. \A a \in A : CreditRow(s, c, a) \in R
        BY <1>1, <1>3, <1>4, IsRow
    <2>2. \A a \in A : fn[a].agent = a
        BY <1>7 DEF CreditRow
    <2> QED BY <1>7, <2>1, <2>2
<1>9. PICK E : E = [a \in A |-> F[fn[a]]]
    OBVIOUS
<1>10. E \in [A -> Int] /\ \A a \in A : E[a] = F[fn[a]]
    BY <1>2, <1>8, <1>9
<1>11. PICK e : Adds(E, A, e)
    BY <1>5, <1>10, SumAdds
<1>12. PICK T : T = {fn[a] : a \in A}
    OBVIOUS
<1>13. e[A] = g[T]
    <2>1. Adds(F, R, g) /\ F \in [R -> Int]
        BY <1>1, <1>2
    <2>2. IsFiniteSet(A) /\ E \in [A -> Int] /\ Adds(E, A, e)
        BY <1>5, <1>10, <1>11
    <2>3. T \in SUBSET R /\ Renames(E, A, fn, F, T)
        BY <1>8, <1>10, <1>12 DEF Renames
    <2> QED BY <2>1, <2>2, <2>3, SumRenamed
<1>14. T = {r \in R : r.through = s /\ r.work = c}
    <2>1. ASSUME NEW a \in A PROVE fn[a] \in R /\ fn[a].through = s /\ fn[a].work = c
        BY <1>7, <1>8, <2>1 DEF CreditRow
    <2>2. ASSUME NEW r \in R, r.through = s, r.work = c PROVE r \in {fn[a] : a \in A}
        <3>1. r = CreditRow(s, c, r.agent) /\ r.agent \in A
            BY <1>1, <1>3, <2>2, CreditRowIs
        <3> QED BY <1>7, <3>1
    <2> QED BY <1>12, <2>1, <2>2
<1>15. \A a \in A : Whole(w) * E[a] = d * w.shares[a]
    <2> SUFFICES ASSUME NEW a \in A PROVE Whole(w) * E[a] = d * w.shares[a]
        OBVIOUS
    <2>1. fn[a] \in R /\ fn[a].work = c /\ fn[a].agent = a
        BY <1>7, <1>8 DEF CreditRow
    <2>2. E[a] = Share(fn[a], d)
        BY <1>1, <1>10, <2>1
    <2>3. d % Whole(fn[a].work.item) = 0
        BY <1>1, <2>1, DenominatorStands
    <2>4. Whole(w) * Share(fn[a], d) = w.shares[a] * d
        BY <1>1, <1>2, <1>4, <2>1, <2>3, SharesStand
    <2>5. w.shares[a] \in Int
        BY <1>5
    <2>6. w.shares[a] * d = d * w.shares[a]
        BY <1>2, <2>5
    <2> QED BY <2>2, <2>4, <2>6
<1>16. Whole(w) * e[A] = d * h[A]
    <2>1. PICK n \in Int : n = Whole(w)
        BY <1>5
    <2>2. PICK G \in [A -> Int] : G = w.shares
        BY <1>5
    <2>3. Adds(E, A, e) /\ Adds(G, A, h) /\ E \in [A -> Int] /\ IsFiniteSet(A)
        BY <1>5, <1>6, <1>10, <1>11, <2>2
    <2>4. A \in SUBSET A /\ d \in Int
        BY <1>2
    <2>5. InRatio(A, n, E, d, G)
        BY <1>15, <2>1, <2>2 DEF InRatio
    <2>6. n * e[A] = d * h[A]
        BY <2>2, <2>3, <2>4, <2>5, SumsScale
    <2> QED BY <2>1, <2>6
<1>17. e[A] = d
    <2>1. PICK n \in Nat \ {0} : n = Whole(w)
        BY <1>5
    <2>2. PICK x \in Int : x = e[A]
        BY <1>11 DEF Adds
    <2>3. n * x = d * n
        BY <1>6, <1>16, <2>1, <2>2
    <2>4. n * x = n * d
        BY <1>2, <2>3
    <2>5. x = d
        BY <1>2, <2>4, CancelFactor
    <2> QED BY <2>2, <2>5
<1> QED BY <1>1, <1>3, <1>13, <1>14, <1>17

\* The settlements and the Results that were credited through them.
Paid(C, f) ==
    {p \in Slice(f) \X Inputs(C, f).works : p[2].task = hubChain[p[1]].task}

LEMMA PaidIs ==
    ASSUME NEW C, NEW f, NEW p
    PROVE  p \in Paid(C, f) <=>
              \E s \in Slice(f) : \E c \in ResultsOn(C, f, s) : p = <<s, c.item>>
<1>1. ASSUME p \in Paid(C, f)
      PROVE  \E s \in Slice(f) : \E c \in ResultsOn(C, f, s) : p = <<s, c.item>>
    <2>1. /\ p = <<p[1], p[2]>> /\ p[1] \in Slice(f) /\ p[2] \in Inputs(C, f).works
          /\ p[2].task = hubChain[p[1]].task
        BY <1>1 DEF Paid
    <2>2. PICK u \in Slice(f) : \E c \in ResultsOn(C, f, u) : p[2] = c.item
        BY <2>1 DEF Inputs
    <2>3. PICK c \in ResultsOn(C, f, u) : p[2] = c.item
        BY <2>2
    <2>4. c \in ResultsOn(C, f, p[1])
        BY <2>1, <2>3 DEF ResultsOn
    <2> QED BY <2>1, <2>3, <2>4
<1>2. ASSUME NEW s \in Slice(f), NEW c \in ResultsOn(C, f, s), p = <<s, c.item>>
      PROVE  p \in Paid(C, f)
    <2>1. c.item \in Inputs(C, f).works /\ c.item.task = hubChain[s].task
        BY DEF Inputs, ResultsOn
    <2> QED BY <1>2, <2>1 DEF Paid
<1> QED BY <1>1, <1>2

LEMMA CreditAddsUp ==
    ASSUME RecordKept, NEW C, IsPool(C), NEW f \in Frames
    PROVE  SumFunction(Credited(C, f)) = Denominator(C, f) * Cardinality(Paid(C, f))
<1>1. PICK R, d : R = Rows(C, f) /\ d = Denominator(C, f)
    OBVIOUS
<1>2. PICK F : F = [r \in R |-> Share(r, d)]
    OBVIOUS
<1>3. F \in [R -> Int] /\ d \in Nat \ {0} /\ IsFiniteSet(R)
    BY <1>1, <1>2, DenominatorStands, SharesStand, RowsFinite
<1>4. PICK g : Adds(F, R, g)
    BY <1>3, SumAdds
<1>5. PICK B : B = Credited(C, f)
    OBVIOUS
<1>6. \A m \in Members : B[m] \in Int /\ B[m] = g[Earned(R, f, m)]
    BY <1>1, <1>2, <1>4, <1>5, CreditIs
<1>7. B \in [Members -> Int] /\ IsFiniteSet(Members)
    BY <1>5, <1>6, ContributionAssumption DEF Credited
<1>8. PICK b : Adds(B, Members, b) /\ SumFunction(B) = b[Members]
    BY <1>7, SumAdds
<1>9. b[Members] = g[R]
    <2>1. PICK K : K = [r \in R |-> OperatorAt(r.agent, ClosesAt(f))]
        OBVIOUS
    <2>2. \A r \in R : K[r] \in Members
        BY <1>1, <2>1, CreditRowIs, FrameStands, OperatorIsMember
    <2>3. \A m \in Members : Earned(R, f, m) = {r \in R : K[r] = m}
        BY <2>1 DEF Earned
    <2>4. \A m \in Members : B[m] = g[{r \in R : K[r] = m}]
        BY <1>6, <2>3
    <2>5. IsFiniteSet(R) /\ F \in [R -> Int] /\ Adds(F, R, g)
        BY <1>3, <1>4
    <2>6. IsFiniteSet(Members) /\ B \in [Members -> Int] /\ Adds(B, Members, b)
        BY <1>7, <1>8
    <2>7. PICK G : G = [m \in Members |-> {r \in R : K[r] = m}]
        OBVIOUS
    <2>8. \A m \in Members : G[m] = {r \in R : K[r] = m} /\ B[m] = g[G[m]]
        BY <2>4, <2>7
    <2> QED BY <2>2, <2>5, <2>6, <2>8, SumOfGroups
<1>10. PICK L : L = [r \in R |-> <<r.through, r.work>>]
    OBVIOUS
<1>11. PICK Q : Q = {L[r] : r \in R}
    OBVIOUS
<1>12. IsFiniteSet(Q)
    BY <1>3, <1>10, <1>11, ImageFinite
<1>13. PICK D : D = [q \in Q |-> d]
    OBVIOUS
<1>14. D \in [Q -> Int]
    BY <1>3, <1>13
<1>15. PICK h : Adds(D, Q, h)
    BY <1>12, <1>14, SumAdds
<1>16. h[Q] = g[R]
    <2>1. ASSUME NEW q \in Q PROVE D[q] = g[{r \in R : L[r] = q}]
        <3>1. PICK x \in R : q = L[x]
            BY <1>11
        <3>2. {r \in R : L[r] = q} = {r \in R : r.through = x.through /\ r.work = x.work}
            BY <1>10, <3>1
        <3>3. g[{r \in R : r.through = x.through /\ r.work = x.work}] = d
            BY <1>1, <1>2, <1>4, ResultIsWhole
        <3> QED BY <1>13, <3>2, <3>3
    <2>2. \A r \in R : L[r] \in Q
        BY <1>11
    <2>3. IsFiniteSet(R) /\ F \in [R -> Int] /\ Adds(F, R, g)
        BY <1>3, <1>4
    <2>4. IsFiniteSet(Q) /\ D \in [Q -> Int] /\ Adds(D, Q, h)
        BY <1>12, <1>14, <1>15
    <2>5. \A q \in Q : D[q] = g[{r \in R : L[r] = q}]
        BY <2>1
    <2>6. PICK G : G = [q \in Q |-> {r \in R : L[r] = q}]
        OBVIOUS
    <2>7. \A q \in Q : G[q] = {r \in R : L[r] = q} /\ D[q] = g[G[q]]
        BY <2>5, <2>6
    <2> QED BY <2>2, <2>3, <2>4, <2>7, SumOfGroups
<1>17. h[Q] = d * Cardinality(Q)
    BY <1>3, <1>12, <1>13, <1>15, SumConstant
<1>18. Cardinality(Q) = Cardinality(Paid(C, f))
    <2>1. PICK P : P = Paid(C, f)
        OBVIOUS
    <2>2. PICK z : z = [q \in Q |-> <<q[1], q[2].item>>]
        OBVIOUS
    <2>3. ASSUME NEW q \in Q
          PROVE  \E s \in Slice(f) : \E c \in ResultsOn(C, f, s) : q = <<s, c>> /\ z[q] = <<s, c.item>>
        <3>1. PICK x \in R : q = <<x.through, x.work>>
            BY <1>10, <1>11
        <3>2. x.through \in Slice(f) /\ x.work \in ResultsOn(C, f, x.through)
            BY <1>1, CreditRowIs
        <3>3. z[q] = <<x.through, x.work.item>>
            BY <2>2, <3>1
        <3> QED BY <3>1, <3>2, <3>3
    <2>4. z \in [Q -> P]
        BY <2>1, <2>2, <2>3, PaidIs
    <2>5. ASSUME NEW q \in Q, NEW p \in Q, z[q] = z[p] PROVE q = p
        <3>1. PICK s \in Slice(f) : \E c \in ResultsOn(C, f, s) : q = <<s, c>> /\ z[q] = <<s, c.item>>
            BY <2>3
        <3>2. PICK c \in ResultsOn(C, f, s) : q = <<s, c>> /\ z[q] = <<s, c.item>>
            BY <3>1
        <3>3. PICK t \in Slice(f) : \E e \in ResultsOn(C, f, t) : p = <<t, e>> /\ z[p] = <<t, e.item>>
            BY <2>3
        <3>4. PICK e \in ResultsOn(C, f, t) : p = <<t, e>> /\ z[p] = <<t, e.item>>
            BY <3>3
        <3>5. s = t /\ c.item = e.item
            BY <2>5, <3>2, <3>4
        <3>6. c = [item |-> c.item] /\ e = [item |-> e.item]
            BY DEF ResultsOn, Deduplicated
        <3> QED BY <3>2, <3>4, <3>5, <3>6
    <2>6. ASSUME NEW p \in P PROVE \E q \in Q : z[q] = p
        <3>0. PICK s \in Slice(f) : \E c \in ResultsOn(C, f, s) : p = <<s, c.item>>
            BY <2>1, PaidIs
        <3>1. PICK c \in ResultsOn(C, f, s) : p = <<s, c.item>>
            BY <3>0
        <3>2. c.item \in Works
            BY DEF ResultsOn
        <3>3. PICK a : a \in DOMAIN c.item.shares
            BY <3>2, WholeStands
        <3>4. CreditRow(s, c, a) \in R
            BY <1>1, <3>3, IsRow
        <3>5. L[CreditRow(s, c, a)] = <<s, c>>
            BY <1>10, <3>4 DEF CreditRow
        <3>6. <<s, c>> \in Q
            BY <1>11, <3>4, <3>5
        <3>7. z[<<s, c>>] = p
            BY <2>2, <3>1, <3>6
        <3> QED BY <3>6, <3>7
    <2>7. z \in Bijection(Q, P)
        BY <2>4, <2>5, <2>6 DEF Bijection, Injection, Surjection, IsInjective
    <2> QED BY <1>12, <2>1, <2>7, FS_Bijection DEF ExistsBijection
<1> QED BY <1>1, <1>5, <1>8, <1>9, <1>16, <1>17, <1>18

\* What cannot be read is counted, for each operator that acted in it.
LEMMA UnreadIsCounted ==
    ASSUME RecordKept, NEW C, NEW f \in Frames, NEW s \in Slice(f), NEW a \in hubChain[s].actors
    PROVE  \/ \E p \in Paid(C, f) : p[1] = s
           \/ Unreadable(C, f)[OperatorAt(a, ClosesAt(f))] > 0
<1>1. CASE ResultsOn(C, f, s) # {}
    <2>1. PICK c : c \in ResultsOn(C, f, s)
        BY <1>1
    <2>2. <<s, c.item>> \in Paid(C, f) /\ <<s, c.item>>[1] = s
        BY <2>1, PaidIs
    <2> QED BY <2>2
<1>2. CASE ResultsOn(C, f, s) = {}
    <2>1. a \in Agents
        <3>1. hubChain[s].actors \in Payees
            BY FrameStands DEF Kept
        <3> QED BY <3>1, ContributionAssumption
    <2>2. PICK m \in Members : m = OperatorAt(a, ClosesAt(f))
        BY <2>1, FrameStands, OperatorIsMember
    <2>3. PICK U : U = {x \in Unseen(C, f) :
                          \E y \in hubChain[x].actors : OperatorAt(y, ClosesAt(f)) = m}
        OBVIOUS
    <2>4. s \in U
        BY <1>2, <2>2, <2>3 DEF Unseen
    <2>5. IsFiniteSet(U)
        BY <2>3, FrameStands, FS_Subset DEF Unseen
    <2>6. Cardinality(U) \in Nat /\ Cardinality(U) # 0
        BY <2>4, <2>5, FS_CardinalityType, FS_EmptySet
    <2>7. Unreadable(C, f)[m] = Cardinality(U)
        BY <2>3 DEF Unreadable
    <2> QED BY <2>2, <2>6, <2>7
<1> QED BY <1>1, <1>2

LEMMA CreditIsConserved ==
    ASSUME RecordKept
    PROVE  CreditConserved
<1> SUFFICES ASSUME NEW ms \in SUBSET Members, NEW f \in Frames
             PROVE  LET t == Compute(Merged(ms), f)
                        paid == {p \in Slice(f) \X t.inputs.works : p[2].task = hubChain[p[1]].task} IN
                    /\ SumFunction(t.credited) = t.denominator * Cardinality(paid)
                    /\ \A s \in Slice(f) : \A a \in hubChain[s].actors :
                          \/ \E p \in paid : p[1] = s
                          \/ t.unreadable[OperatorAt(a, ClosesAt(f))] > 0
    BY DEF CreditConserved
<1>1. PICK C : C = Merged(ms) /\ IsPool(C)
    BY MergedPool
<1>2. PICK t : t = Compute(C, f)
    OBVIOUS
<1>3. /\ t.credited = Credited(C, f) /\ t.denominator = Denominator(C, f)
      /\ t.unreadable = Unreadable(C, f) /\ t.inputs = Inputs(C, f)
    BY <1>2 DEF Compute
<1>4. {p \in Slice(f) \X t.inputs.works : p[2].task = hubChain[p[1]].task} = Paid(C, f)
    BY <1>3 DEF Paid
<1>5. SumFunction(Credited(C, f)) = Denominator(C, f) * Cardinality(Paid(C, f))
    BY <1>1, CreditAddsUp
<1> QED BY <1>1, <1>2, <1>3, <1>4, <1>5, UnreadIsCounted
------------------------------------------------------------------------------
(* Adjoining periods *)

\* The period of two that adjoin.
Joined(f, g) == [f EXCEPT !.to = g.to]
Adjoin(f, g) == f \in Frames /\ g \in Frames /\ f.to = g.from /\ f.scope = g.scope

LEMMA JoinedStands ==
    ASSUME RecordKept, NEW f, NEW g, Adjoin(f, g)
    PROVE  /\ Joined(f, g) \in Frames /\ ClosesAt(Joined(f, g)) = ClosesAt(g)
           /\ Slice(Joined(f, g)) = Slice(f) \cup Slice(g) /\ Slice(f) \cap Slice(g) = {}
           /\ Joined(f, g).scope = f.scope
<1>1. /\ f \in [from : 0..Len(hubChain), to : 0..Len(hubChain), scope : Scopes] /\ f.from < f.to
      /\ g \in [from : 0..Len(hubChain), to : 0..Len(hubChain), scope : Scopes] /\ g.from < g.to
      /\ f.to = g.from /\ f.scope = g.scope /\ Len(hubChain) \in Nat
    BY DEF Adjoin, Frames, RecordKept
<1>2. PICK w : w = Joined(f, g)
    OBVIOUS
<1>3. w = [from |-> f.from, to |-> g.to, scope |-> f.scope]
    BY <1>1, <1>2 DEF Joined
<1>4. w.from = f.from /\ w.to = g.to /\ w.scope = f.scope
    BY <1>3
<1>5. w \in Frames
    BY <1>1, <1>3, <1>4 DEF Frames
<1>6. ClosesAt(w) = ClosesAt(g)
    BY <1>4, <1>5, FrameStands DEF Adjoin
<1>7. Slice(w) = Slice(f) \cup Slice(g) /\ Slice(f) \cap Slice(g) = {}
    BY <1>1, <1>4 DEF Slice
<1> QED BY <1>2, <1>4, <1>5, <1>6, <1>7

LEMMA RowsJoin ==
    ASSUME RecordKept, NEW C, NEW f, NEW g, Adjoin(f, g)
    PROVE  /\ Rows(C, Joined(f, g)) = Rows(C, f) \cup Rows(C, g)
           /\ Rows(C, f) \cap Rows(C, g) = {}
<1>1. PICK w : w = Joined(f, g)
    OBVIOUS
<1>2. w.scope = f.scope /\ w.scope = g.scope
    BY <1>1, JoinedStands DEF Adjoin
<1>3. \A s : ResultsOn(C, w, s) = ResultsOn(C, f, s) /\ ResultsOn(C, w, s) = ResultsOn(C, g, s)
    BY <1>2 DEF ResultsOn
<1>4. \A s : RowsOn(C, w, s) = RowsOn(C, f, s) /\ RowsOn(C, w, s) = RowsOn(C, g, s)
    BY <1>3 DEF RowsOn
<1>5. Rows(C, w) = Rows(C, f) \cup Rows(C, g)
    BY <1>1, <1>4, JoinedStands DEF Rows
<1>6. Rows(C, f) \cap Rows(C, g) = {}
    BY JoinedStands, CreditRowIs
<1> QED BY <1>1, <1>5, <1>6

\* The share of a row over one common denominator and over another.
LEMMA SharesCompare ==
    ASSUME NEW C, NEW f, NEW r \in Rows(C, f), NEW d \in Nat, NEW e \in Nat,
           d % Whole(r.work.item) = 0, e % Whole(r.work.item) = 0
    PROVE  e * Share(r, d) = d * Share(r, e)
<1>1. PICK n \in Nat \ {0} : n = Whole(r.work.item)
    BY SharesStand
<1>2. PICK k \in Nat : k = r.work.item.shares[r.agent]
    BY SharesStand
<1>3. PICK x \in Int : x = Share(r, d) /\ n * x = k * d
    BY <1>1, <1>2, SharesStand
<1>4. PICK y \in Int : y = Share(r, e) /\ n * y = k * e
    BY <1>1, <1>2, SharesStand
<1>5. n * (e * x) = e * (k * d) /\ n * (d * y) = d * (k * e)
    <2>1. n * (e * x) = e * (n * x) /\ n * (d * y) = d * (n * y)
        OBVIOUS
    <2> QED BY <1>3, <1>4, <2>1
<1>6. e * (k * d) = d * (k * e)
    OBVIOUS
<1>7. e * x \in Int /\ d * y \in Int /\ n * (e * x) = n * (d * y)
    BY <1>5, <1>6
<1>8. e * x = d * y
    BY <1>7, CancelFactor
<1> QED BY <1>3, <1>4, <1>8

\* A part of the rows, credited over the denominator of its own period and of the whole.
LEMMA PartCompares ==
    ASSUME RecordKept, NEW C, IsPool(C), NEW f \in Frames, NEW w \in Frames,
           Rows(C, f) \subseteq Rows(C, w), NEW F,
           F = [r \in Rows(C, w) |-> Share(r, Denominator(C, w))],
           NEW g, Adds(F, Rows(C, w), g), NEW m \in Members
    PROVE  /\ Denominator(C, f) * g[Earned(Rows(C, f), f, m)]
                 = Denominator(C, w) * Credited(C, f)[m]
           /\ g[Earned(Rows(C, f), f, m)] \in Int /\ Credited(C, f)[m] \in Int
<1>1. PICK R, Q : R = Rows(C, w) /\ Q = Rows(C, f)
    OBVIOUS
<1>2. PICK d, e \in Nat \ {0} : d = Denominator(C, w) /\ e = Denominator(C, f)
    BY DenominatorStands
<1>3. F \in [R -> Int]
    BY <1>1, DenominatorStands, SharesStand
<1>4. PICK G : G = [r \in Q |-> Share(r, e)]
    OBVIOUS
<1>5. G \in [Q -> Int]
    BY <1>1, <1>2, <1>4, DenominatorStands, SharesStand
<1>6. IsFiniteSet(Q)
    BY <1>1, RowsFinite
<1>7. PICK h : Adds(G, Q, h)
    BY <1>5, <1>6, SumAdds
<1>8. PICK T : T = Earned(Q, f, m)
    OBVIOUS
<1>9. T \in SUBSET Q /\ T \in SUBSET R /\ IsFiniteSet(T)
    BY <1>1, <1>6, <1>8, FS_Subset DEF Earned
<1>10. ASSUME NEW r \in T PROVE e * F[r] = d * G[r]
    <2>1. r \in Q /\ r \in R
        BY <1>9
    <2>2. d % Whole(r.work.item) = 0 /\ e % Whole(r.work.item) = 0
        BY <1>1, <1>2, <2>1, DenominatorStands
    <2>3. e * Share(r, d) = d * Share(r, e)
        BY <1>1, <2>1, <2>2, SharesCompare
    <2> QED BY <1>1, <1>2, <1>4, <2>1, <2>3
<1>11. e * g[T] = d * h[T]
    <2>1. PICK k, j \in Int : k = e /\ j = d
        OBVIOUS
    <2>2. Adds(F, R, g) /\ InRatio(T, k, F, j, G)
        BY <1>1, <1>10, <2>1 DEF InRatio
    <2>3. F \in [R -> Int] /\ G \in [Q -> Int] /\ Adds(G, Q, h)
        BY <1>3, <1>5, <1>7
    <2>4. T \in SUBSET R /\ T \in SUBSET Q /\ IsFiniteSet(T)
        BY <1>9
    <2>5. k * g[T] = j * h[T]
        BY <2>2, <2>3, <2>4, SumsScale
    <2> QED BY <2>1, <2>5
<1>12. Credited(C, f)[m] \in Int /\ Credited(C, f)[m] = h[T]
    BY <1>1, <1>2, <1>4, <1>7, <1>8, CreditIs
<1>13. g[T] \in Int
    BY <1>1, <1>9 DEF Adds
<1> QED BY <1>1, <1>2, <1>8, <1>11, <1>12, <1>13

LEMMA PeriodsAddUp ==
    ASSUME RecordKept
    PROVE  PeriodsAdd
<1> SUFFICES ASSUME NEW f \in Frames, NEW g \in Frames, f.to = g.from, f.scope = g.scope,
                    NEW m \in Members,
                    \A a \in Agents : (OperatorAt(a, ClosesAt(f)) = m) <=> (OperatorAt(a, ClosesAt(g)) = m)
             PROVE  LET t == Compute(Merged(Members), [f EXCEPT !.to = g.to])
                        first == Compute(Merged(Members), f)
                        second == Compute(Merged(Members), g) IN
                    t.credited[m] * first.denominator * second.denominator
                      = t.denominator * (first.credited[m] * second.denominator
                                         + second.credited[m] * first.denominator)
    BY DEF PeriodsAdd
<1>1. PICK C : C = Merged(Members) /\ IsPool(C)
    BY MergedPool
<1>2. Adjoin(f, g)
    BY DEF Adjoin
<1>3. PICK w : w = Joined(f, g) /\ w \in Frames /\ ClosesAt(w) = ClosesAt(g)
    BY <1>2, JoinedStands
<1>4. PICK R, P, Q : R = Rows(C, w) /\ P = Rows(C, f) /\ Q = Rows(C, g)
    OBVIOUS
<1>5. R = P \cup Q /\ P \cap Q = {}
    BY <1>2, <1>3, <1>4, RowsJoin
<1>6. PICK n, d, e \in Nat : n = Denominator(C, w) /\ d = Denominator(C, f) /\ e = Denominator(C, g)
    BY <1>1, <1>3, DenominatorStands
<1>7. PICK F : F = [r \in R |-> Share(r, n)]
    OBVIOUS
<1>8. F \in [R -> Int] /\ IsFiniteSet(R)
    BY <1>1, <1>3, <1>4, <1>6, <1>7, DenominatorStands, SharesStand, RowsFinite
<1>9. PICK s : Adds(F, R, s)
    BY <1>8, SumAdds
<1>10. PICK T, U : T = Earned(P, f, m) /\ U = Earned(Q, g, m)
    OBVIOUS
<1>11. F = [r \in Rows(C, w) |-> Share(r, Denominator(C, w))] /\ Adds(F, Rows(C, w), s)
    BY <1>4, <1>6, <1>7, <1>9
<1>12. Earned(R, w, m) = T \cup U
    <2>1. ASSUME NEW r \in P
          PROVE  (OperatorAt(r.agent, ClosesAt(w)) = m) <=> (OperatorAt(r.agent, ClosesAt(f)) = m)
        BY <1>3, <1>4, CreditRowIs
    <2> QED BY <1>3, <1>5, <1>10, <2>1 DEF Earned
<1>13. T \in SUBSET R /\ U \in SUBSET R /\ T \cap U = {} /\ IsFiniteSet(U)
    <2>1. T \subseteq P /\ U \subseteq Q
        BY <1>10 DEF Earned
    <2>2. T \in SUBSET R /\ U \in SUBSET R /\ T \cap U = {}
        BY <1>5, <2>1
    <2> QED BY <1>8, <2>2, FS_Subset
<1>14. s[T \cup U] = s[T] + s[U]
    <2>1. F \in [R -> Int]
        BY <1>8
    <2> QED BY <1>9, <1>13, <2>1, SumOfUnion
<1>15. Credited(C, w)[m] = s[Earned(R, w, m)]
    BY <1>1, <1>3, <1>4, <1>11, CreditIs
<1>16. PICK p, x \in Int : p = Credited(C, f)[m] /\ x = s[T] /\ d * x = n * p
    <2>1. Rows(C, f) \subseteq Rows(C, w)
        BY <1>4, <1>5
    <2>2. /\ Denominator(C, f) * s[Earned(Rows(C, f), f, m)] = Denominator(C, w) * Credited(C, f)[m]
          /\ s[Earned(Rows(C, f), f, m)] \in Int /\ Credited(C, f)[m] \in Int
        BY <1>1, <1>3, <1>11, <2>1, PartCompares
    <2> QED BY <1>4, <1>6, <1>10, <2>2
<1>17. PICK q, y \in Int : q = Credited(C, g)[m] /\ y = s[U] /\ e * y = n * q
    <2>1. Rows(C, g) \subseteq Rows(C, w)
        BY <1>4, <1>5
    <2>2. /\ Denominator(C, g) * s[Earned(Rows(C, g), g, m)] = Denominator(C, w) * Credited(C, g)[m]
          /\ s[Earned(Rows(C, g), g, m)] \in Int /\ Credited(C, g)[m] \in Int
        BY <1>1, <1>3, <1>11, <2>1, PartCompares
    <2> QED BY <1>4, <1>6, <1>10, <2>2
<1>18. Credited(C, w)[m] = x + y
    <2>1. Credited(C, w)[m] = s[T] + s[U]
        BY <1>12, <1>14, <1>15
    <2>2. s[T] = x /\ s[U] = y
        BY <1>16, <1>17
    <2> QED BY <2>1, <2>2
<1>19. (x + y) * d * e = n * (p * e + q * d)
    <2>1. (x + y) * d * e = (d * x) * e + (e * y) * d
        OBVIOUS
    <2>2. (n * p) * e + (n * q) * d = n * (p * e + q * d)
        OBVIOUS
    <2> QED BY <1>16, <1>17, <2>1, <2>2
<1>20. /\ Compute(C, w).credited[m] = x + y /\ Compute(C, w).denominator = n
       /\ Compute(C, f).credited[m] = p /\ Compute(C, f).denominator = d
       /\ Compute(C, g).credited[m] = q /\ Compute(C, g).denominator = e
    BY <1>6, <1>16, <1>17, <1>18 DEF Compute
<1>21. w = [f EXCEPT !.to = g.to]
    BY <1>3 DEF Joined
<1> QED BY <1>1, <1>19, <1>20, <1>21
------------------------------------------------------------------------------
(* What a summary is computed from *)

\* Two pools that show the same on the threads of a period.
SameResults(C, D, f) ==
    \A s \in Slice(f) :
        /\ ResultsOn(C, f, s) = ResultsOn(D, f, s)
        /\ Superseded(C, hubChain[s].task) <=> Superseded(D, hubChain[s].task)

\* A summary depends on nothing else of a pool.
LEMMA SameSummary ==
    ASSUME NEW C, NEW D, NEW f, SameResults(C, D, f)
    PROVE  Compute(C, f) = Compute(D, f)
<1>1. \A s \in Slice(f) : ResultsOn(C, f, s) = ResultsOn(D, f, s)
    BY DEF SameResults
<1>2. \A s \in Slice(f) : RowsOn(C, f, s) = RowsOn(D, f, s)
    BY <1>1 DEF RowsOn
<1>3. Rows(C, f) = Rows(D, f)
    BY <1>2 DEF Rows
<1>4. Denominator(C, f) = Denominator(D, f)
    BY <1>3 DEF Denominator
<1>5. Credited(C, f) = Credited(D, f)
    BY <1>3, <1>4 DEF Credited
<1>6. Unseen(C, f) = Unseen(D, f)
    BY <1>1 DEF Unseen
<1>7. Unreadable(C, f) = Unreadable(D, f)
    BY <1>6 DEF Unreadable
<1>8. Qualified(C, f) = Qualified(D, f)
    <2>1. PICK R : R = Rows(C, f) /\ R = Rows(D, f)
        BY <1>3
    <2>2. PICK P, Q : /\ P = {r \in R : Superseded(C, r.work.item.task)}
                      /\ Q = {r \in R : Superseded(D, r.work.item.task)}
        OBVIOUS
    <2>3. \A r \in R : Superseded(C, r.work.item.task) <=> Superseded(D, r.work.item.task)
        <3> SUFFICES ASSUME NEW r \in R
                     PROVE  Superseded(C, r.work.item.task) <=> Superseded(D, r.work.item.task)
            OBVIOUS
        <3>1. r.through \in Slice(f) /\ r.work \in ResultsOn(C, f, r.through)
            BY <2>1, CreditRowIs
        <3>2. r.work.item.task = hubChain[r.through].task
            BY <3>1 DEF ResultsOn
        <3> QED BY <3>1, <3>2 DEF SameResults
    <2>4. P = Q
        BY <2>2, <2>3
    <2>5. Qualified(C, f) = [m \in Members |->
              Cardinality({<<r.through, r.work>> : r \in Earned(P, f, m)})]
        BY <2>1, <2>2 DEF Qualified
    <2>6. Qualified(D, f) = [m \in Members |->
              Cardinality({<<r.through, r.work>> : r \in Earned(Q, f, m)})]
        BY <2>1, <2>2 DEF Qualified
    <2> QED BY <2>4, <2>5, <2>6
<1>9. Inputs(C, f) = Inputs(D, f)
    BY <1>1 DEF Inputs
<1> QED BY <1>4, <1>5, <1>7, <1>8, <1>9 DEF Compute

LEMMA SameThreads ==
    ASSUME NEW C, NEW D, NEW f, OnThreads(C, f) = OnThreads(D, f)
    PROVE  SameResults(C, D, f)
<1>1. ASSUME NEW E, NEW s \in Slice(f), NEW i, i.task = hubChain[s].task
      PROVE  i \in OnThreads(E, f) <=> \E c \in E : c.item = i
    BY <1>1 DEF OnThreads
<1> SUFFICES ASSUME NEW s \in Slice(f)
             PROVE  /\ ResultsOn(C, f, s) = ResultsOn(D, f, s)
                    /\ Superseded(C, hubChain[s].task) <=> Superseded(D, hubChain[s].task)
    BY DEF SameResults
<1>2. ASSUME NEW i, i.task = hubChain[s].task
      PROVE  (\E c \in C : c.item = i) <=> (\E c \in D : c.item = i)
    <2>1. i \in OnThreads(C, f) <=> \E c \in C : c.item = i
        BY <1>1, <1>2
    <2>2. i \in OnThreads(D, f) <=> \E c \in D : c.item = i
        BY <1>1, <1>2
    <2> QED BY <2>1, <2>2
<1>3. ASSUME NEW c, c.item.task = hubChain[s].task
      PROVE  c \in Deduplicated(C) <=> c \in Deduplicated(D)
    <2>1. \A E : c \in Deduplicated(E) <=> c = [item |-> c.item] /\ \E d \in E : d.item = c.item
        BY DEF Deduplicated
    <2> QED BY <1>2, <1>3, <2>1
<1>4. ResultsOn(C, f, s) = ResultsOn(D, f, s)
    BY <1>3 DEF ResultsOn
<1>5. Superseded(C, hubChain[s].task) <=> Superseded(D, hubChain[s].task)
    BY <1>2 DEF Superseded
<1> QED BY <1>4, <1>5

------------------------------------------------------------------------------
(* What a later step leaves of a period *)

\* The chain up to a period's close, and the trail up to that instant, are what they were.
ClosedBooks(f) ==
    /\ \A s \in Slice(f) : hubChain'[s] = hubChain[s]
    /\ \A e \in trail \cup trail' : e.at <= ClosesAt(f) => (e \in trail <=> e \in trail')

LEMMA ClosesStays ==
    ASSUME RecordKept, NEW f \in Frames, ClosedBooks(f)
    PROVE  ClosesAt(f)' = ClosesAt(f)
<1>1. Slice(f) # {} /\ f.to \in Slice(f)
    BY FrameStands
<1>2. hubChain'[f.to] = hubChain[f.to]
    BY <1>1 DEF ClosedBooks
<1> QED BY <1>1, <1>2 DEF ClosesAt, Slice

LEMMA OperatorStays ==
    ASSUME RecordKept, NEW f \in Frames, ClosedBooks(f), NEW a
    PROVE  OperatorAt(a, ClosesAt(f))' = OperatorAt(a, ClosesAt(f))
<1>1. PICK M : M = EnrolledBy(a, ClosesAt(f))
    OBVIOUS
<1>2. EnrolledBy(a, ClosesAt(f))' = M
    <2>1. PICK n : n = ClosesAt(f) /\ n = ClosesAt(f)'
        BY ClosesStays
    <2>2. M = {e \in trail : e.act = "Enroll" /\ e.agent = a /\ e.at <= n}
        BY <1>1, <2>1 DEF EnrolledBy
    <2>3. EnrolledBy(a, ClosesAt(f))' = {e \in trail' : e.act = "Enroll" /\ e.agent = a /\ e.at <= n}
        BY <2>1 DEF EnrolledBy
    <2>4. \A e \in trail \cup trail' : e.at <= n => (e \in trail <=> e \in trail')
        BY <2>1 DEF ClosedBooks
    <2> QED BY <2>2, <2>3, <2>4
<1>3. OperatorAt(a, ClosesAt(f)) =
          IF M = {} THEN a ELSE (CHOOSE e \in M : \A d \in M : d.at <= e.at).operator
    BY <1>1 DEF OperatorAt
<1>4. OperatorAt(a, ClosesAt(f))' =
          IF M = {} THEN a ELSE (CHOOSE e \in M : \A d \in M : d.at <= e.at).operator
    BY <1>2 DEF OperatorAt
<1> QED BY <1>3, <1>4

LEMMA EarnedStays ==
    ASSUME RecordKept, NEW f \in Frames, ClosedBooks(f), NEW R, NEW m
    PROVE  Earned(R, f, m)' = Earned(R, f, m)
BY OperatorStays DEF Earned

LEMMA ResultsStay ==
    ASSUME RecordKept, NEW f \in Frames, ClosedBooks(f), NEW C, NEW s \in Slice(f)
    PROVE  ResultsOn(C, f, s)' = ResultsOn(C, f, s) /\ RowsOn(C, f, s)' = RowsOn(C, f, s)
<1>1. hubChain'[s] = hubChain[s]
    BY DEF ClosedBooks
<1>2. ResultsOn(C, f, s)' = ResultsOn(C, f, s)
    BY <1>1 DEF ResultsOn, Deduplicated
<1> QED BY <1>2 DEF RowsOn

LEMMA RowsStay ==
    ASSUME RecordKept, NEW f \in Frames, ClosedBooks(f), NEW C
    PROVE  Rows(C, f)' = Rows(C, f) /\ Denominator(C, f)' = Denominator(C, f)
<1>1. Rows(C, f)' = Rows(C, f)
    BY ResultsStay DEF Rows, Slice
<1>2. PICK R : R = Rows(C, f) /\ R = Rows(C, f)'
    BY <1>1
<1>3. Denominator(C, f) = CommonDenominator({Whole(r.work.item) : r \in R})
    BY <1>2 DEF Denominator
<1>4. Denominator(C, f)' = CommonDenominator({Whole(r.work.item) : r \in R})
    BY <1>2 DEF Denominator, CommonDenominator, Whole
<1> QED BY <1>1, <1>3, <1>4
LEMMA CreditStays ==
    ASSUME RecordKept, NEW f \in Frames, ClosedBooks(f), NEW C
    PROVE  Credited(C, f)' = Credited(C, f)
<1>1. PICK R, d : R = Rows(C, f) /\ d = Denominator(C, f)
    OBVIOUS
<1>2. Rows(C, f)' = R /\ Denominator(C, f)' = d
    BY <1>1, RowsStay
<1>3. PICK E : E = [m \in Members |-> Earned(R, f, m)]
    OBVIOUS
<1>4. \A m \in Members : Earned(R, f, m) = E[m] /\ Earned(R, f, m)' = E[m]
    BY <1>3, EarnedStays
<1>5. Credited(C, f) = [m \in Members |-> SumFunction([r \in E[m] |-> Share(r, d)])]
    BY <1>1, <1>4 DEF Credited
<1>6. Credited(C, f)' = [m \in Members |-> SumFunction([r \in E[m] |-> Share(r, d)])]
    <2>1. \A m \in Members : E[m] = {r \in R : OperatorAt(r.agent, ClosesAt(f))' = m}
        BY <1>4 DEF Earned
    <2> QED BY <1>2, <2>1 DEF Credited, Earned, Share, Whole, SumFunction
<1> QED BY <1>5, <1>6

LEMMA UnreadableStays ==
    ASSUME RecordKept, NEW f \in Frames, ClosedBooks(f), NEW C
    PROVE  Unreadable(C, f)' = Unreadable(C, f)
<1>1. PICK U : U = Unseen(C, f)
    OBVIOUS
<1>2. Unseen(C, f)' = U
    BY <1>1, ResultsStay DEF Unseen, Slice
<1>3. \A s \in U : s \in Slice(f) /\ hubChain'[s] = hubChain[s]
    BY <1>1 DEF Unseen, ClosedBooks
<1>4. PICK N : N = [m \in Members |->
          {s \in U : \E a \in hubChain[s].actors : OperatorAt(a, ClosesAt(f)) = m}]
    OBVIOUS
<1>5. ASSUME NEW m \in Members
      PROVE  N[m] = {s \in U : \E a \in hubChain'[s].actors : OperatorAt(a, ClosesAt(f))' = m}
    BY <1>3, <1>4, OperatorStays
<1>6. Unreadable(C, f) = [m \in Members |-> Cardinality(N[m])]
    BY <1>1, <1>4 DEF Unreadable
<1>7. Unreadable(C, f)' = [m \in Members |-> Cardinality(N[m])]
    BY <1>2, <1>5 DEF Unreadable
<1> QED BY <1>6, <1>7

LEMMA QualifiedStays ==
    ASSUME RecordKept, NEW f \in Frames, ClosedBooks(f), NEW C
    PROVE  Qualified(C, f)' = Qualified(C, f)
<1>1. PICK R : R = {r \in Rows(C, f) : Superseded(C, r.work.item.task)}
    OBVIOUS
<1>2. R = {r \in Rows(C, f)' : Superseded(C, r.work.item.task)}
    BY <1>1, RowsStay
<1>3. PICK E : E = [m \in Members |-> Earned(R, f, m)]
    OBVIOUS
<1>4. \A m \in Members : Earned(R, f, m) = E[m] /\ Earned(R, f, m)' = E[m]
    BY <1>3, EarnedStays
<1>5. Qualified(C, f) = [m \in Members |-> Cardinality({<<r.through, r.work>> : r \in E[m]})]
    BY <1>1, <1>4 DEF Qualified
<1>6. Qualified(C, f)' = [m \in Members |-> Cardinality({<<r.through, r.work>> : r \in E[m]})]
    <2>1. \A m \in Members : E[m] = {r \in R : OperatorAt(r.agent, ClosesAt(f))' = m}
        BY <1>4 DEF Earned
    <2> QED BY <1>2, <2>1 DEF Qualified, Earned, Superseded
<1> QED BY <1>5, <1>6

LEMMA SummaryStays ==
    ASSUME RecordKept, NEW f \in Frames, ClosedBooks(f), NEW C
    PROVE  Compute(C, f)' = Compute(C, f) /\ OnThreads(C, f)' = OnThreads(C, f)
<1>1. \A s \in Slice(f) : hubChain'[s] = hubChain[s]
    BY DEF ClosedBooks
<1>2. Inputs(C, f)' = Inputs(C, f)
    BY ResultsStay DEF Inputs, Slice
<1>3. Membership(f)' = Membership(f)
    <2>1. /\ f.to \in Slice(f) /\ f.from + 1 \in Slice(f) /\ Slice(f) # {}
          /\ ClosesAt(f) = hubChain[f.to].at
        BY FrameStands
    <2>2. PICK n, k : n = hubChain[f.from + 1].at /\ k = ClosesAt(f)
        OBVIOUS
    <2>3. Membership(f) = {e \in trail : e.at >= n /\ e.at <= k}
        BY <2>1, <2>2 DEF Membership
    <2>4. Membership(f)' = {e \in trail' : e.at >= n /\ e.at <= k}
        BY <1>1, <2>1, <2>2 DEF Membership, Slice
    <2>5. \A e \in trail \cup trail' : e.at <= k => (e \in trail <=> e \in trail')
        BY <2>2 DEF ClosedBooks
    <2> QED BY <2>3, <2>4, <2>5
<1>4. OnThreads(C, f)' = OnThreads(C, f)
    BY <1>1 DEF OnThreads, Slice
<1> QED BY <1>2, <1>3, <1>4, RowsStay, CreditStays, UnreadableStays, QualifiedStays DEF Compute
------------------------------------------------------------------------------
(* The accounts, at every step *)

\* A published summary is of a period of the chain, its author saw no more than there
\* is, and it recomputes.
GoodSummary(s) ==
    /\ s.frame \in Frames /\ s.saw \subseteq OnThreads(Merged(Members), s.frame)
    /\ OnThreads(Merged(Members), s.frame) = s.saw =>
          \/ Recomputes(s)
          \/ \E e \in trail : e.at = ClosesAt(s.frame)

AccountsInv == RecordKept /\ \A s \in summaries : GoodSummary(s)

\* What the verifier recomputes, of the pool of all members; and so in the next state.
WholePool ==
    \A X : X = Merged(Members) =>
        \A f : Recompute(f) = Compute(X, f) /\ OnThreads(Merged(Members), f) = OnThreads(X, f)

LEMMA WholePoolNow == WholePool
BY DEF WholePool, Recompute

LEMMA WholePoolNext == WholePool'
BY WholePoolNow, PTL

LEMMA FramesStay ==
    ASSUME RecordKept, RecordKept', Len(hubChain)' >= Len(hubChain), NEW f \in Frames
    PROVE  f \in Frames'
<1>1. Len(hubChain) \in Nat /\ Len(hubChain)' \in Nat
    BY DEF RecordKept
<1> QED BY <1>1 DEF Frames

LEMMA ThreadsGrow ==
    ASSUME NEW f, \A s \in Slice(f) : hubChain'[s] = hubChain[s], copies \subseteq copies'
    PROVE  OnThreads(Merged(Members), f) \subseteq OnThreads(Merged(Members), f)'
BY DEF OnThreads, Merged, Slice

LEMMA GoodStays ==
    ASSUME RecordKept, RecordKept', Len(hubChain)' >= Len(hubChain), copies \subseteq copies',
           trail \subseteq trail', NEW s, GoodSummary(s), ClosedBooks(s.frame)
    PROVE  GoodSummary(s)'
<1>1. PICK f : f = s.frame /\ f \in Frames
    BY DEF GoodSummary
<1>2. f \in Frames'
    BY <1>1, FramesStay
<1>3. PICK C, D : C = Merged(Members) /\ D = Merged(Members)'
    OBVIOUS
<1>4. Recompute(f) = Compute(C, f) /\ OnThreads(Merged(Members), f) = OnThreads(C, f)
    BY <1>3, WholePoolNow DEF WholePool
<1>5. Recompute(f)' = Compute(D, f)' /\ OnThreads(Merged(Members), f)' = OnThreads(D, f)'
    BY <1>3, WholePoolNext DEF WholePool
<1>6. Recompute(f)' = Compute(D, f) /\ OnThreads(Merged(Members), f)' = OnThreads(D, f)
    BY <1>1, <1>5, SummaryStays
<1>7. OnThreads(C, f) \subseteq OnThreads(D, f)
    <2>1. OnThreads(Merged(Members), f) \subseteq OnThreads(Merged(Members), f)'
        BY <1>1, ThreadsGrow DEF ClosedBooks
    <2> QED BY <1>4, <1>6, <2>1
<1>8. ClosesAt(f)' = ClosesAt(f)
    BY <1>1, ClosesStays
<1>9. s.saw \subseteq OnThreads(C, f)
    BY <1>1, <1>4 DEF GoodSummary
<1>10. ASSUME OnThreads(D, f) = s.saw
       PROVE  Recomputes(s)' \/ \E e \in trail' : e.at = ClosesAt(f)'
    <2>1. OnThreads(C, f) = s.saw /\ OnThreads(C, f) = OnThreads(D, f)
        BY <1>7, <1>9, <1>10
    <2>2. CASE \E e \in trail : e.at = ClosesAt(f)
        BY <1>8, <2>2
    <2>3. CASE Recomputes(s)
        <3>1. Compute(C, f) = Compute(D, f)
            BY <2>1, SameThreads, SameSummary
        <3>2. Recompute(s.frame)' = Recompute(s.frame)
            BY <1>1, <1>4, <1>6, <3>1
        <3> QED BY <2>3, <3>2 DEF Recomputes
    <2> QED BY <1>1, <1>4, <2>1, <2>2, <2>3 DEF GoodSummary
<1> QED BY <1>1, <1>2, <1>6, <1>7, <1>9, <1>10 DEF GoodSummary

LEMMA AccountsInit == PeriodInit => AccountsInv
<1> SUFFICES ASSUME PeriodInit PROVE AccountsInv
    OBVIOUS
<1>1. PICK h : h = [a \in Agents |-> [act |-> "Enroll", agent |-> a,
                                      operator |-> FirstOperator[a], at |-> 0]]
    OBVIOUS
<1>2. trail = {h[a] : a \in Agents}
    BY <1>1 DEF PeriodInit
<1>3. IsFiniteSet(trail)
    BY <1>1, <1>2, ImageFinite, ContributionAssumption
<1>4. trail \in SUBSET Acts /\ \A e \in trail : e.at = 0
    BY <1>1, <1>2, ContributionAssumption DEF Acts
<1>5. \A a \in Agents : \E e \in trail : e.act = "Enroll" /\ e.agent = a /\ e.at = 0
    BY <1>1, <1>2
<1>6. now = 1 /\ hubChain = <<>> /\ copies = {} /\ summaries = {}
    BY DEF PeriodInit
<1>7. RecordKept
    BY <1>3, <1>4, <1>5, <1>6, FS_EmptySet DEF RecordKept
<1> QED BY <1>6, <1>7 DEF AccountsInv

LEMMA BooksStep == RecordKept /\ [PeriodNext]_sumVars => RecordKept'
<1> SUFFICES ASSUME RecordKept, [PeriodNext]_sumVars PROVE RecordKept'
    OBVIOUS
<1>1. CASE Wait
    <2>1. now \in Nat \ {0} /\ now' = now + 1 /\ UNCHANGED <<hubChain, copies, trail>>
        BY <1>1 DEF Wait, RecordKept
    <2>2. \A s \in DOMAIN hubChain : hubChain[s].at \in Nat /\ hubChain[s].at <= now
        <3>1. \A s \in DOMAIN hubChain : hubChain[s] \in Kept
            BY DEF RecordKept
        <3>2. \A k \in Kept : k.at \in Nat
            BY DEF Kept
        <3> QED BY <3>1, <3>2 DEF RecordKept
    <2>3. \A e \in trail : e.at \in Nat /\ e.at <= now
        BY DEF RecordKept, Acts
    <2>4. \A n \in Nat : n <= now => n <= now + 1
        BY <2>1
    <2>5. /\ \A s \in DOMAIN hubChain : hubChain[s].at <= now'
          /\ \A e \in trail : e.at <= now'
        BY <2>1, <2>2, <2>3, <2>4
    <2> QED BY <2>1, <2>5 DEF RecordKept
<1>2. ASSUME NEW i \in Works \cup Marks, Post(i) PROVE RecordKept'
    <2>1. i.by \in Members
        BY ContributionAssumption DEF IsResult
    <2>2. [holder |-> i.by, item |-> i] \in Marked
        BY <2>1 DEF Marked
    <2>3. copies' \in SUBSET Marked /\ IsFiniteSet(copies')
        BY <1>2, <2>2, FS_AddElement DEF Post, RecordKept
    <2> QED BY <1>2, <2>3 DEF Post, RecordKept
<1>3. ASSUME NEW m \in Members, NEW c \in copies, Receive(m, c) PROVE RecordKept'
    <2>1. [holder |-> m, item |-> c.item] \in Marked
        BY DEF Marked, RecordKept
    <2>2. copies' \in SUBSET Marked /\ IsFiniteSet(copies')
        BY <1>3, <2>1, FS_AddElement DEF Receive, RecordKept
    <2> QED BY <1>3, <2>2 DEF Receive, RecordKept
<1>4. ASSUME NEW t \in Jobs, NEW actors \in Payees, SettleTask(t, actors) PROVE RecordKept'
    <2>1. PICK k : k = [task |-> t, actors |-> actors, at |-> now]
        OBVIOUS
    <2>2. k \in Kept /\ k.at = now
        BY <2>1 DEF Kept, RecordKept
    <2>3. hubChain' = Append(hubChain, k) /\ now' = now /\ copies' = copies /\ trail' = trail
        BY <1>4, <2>1 DEF SettleTask
    <2>4. hubChain \in Seq(Kept) /\ hubChain' \in Seq(Kept)
        BY <2>2, <2>3 DEF RecordKept
    <2>5. \A s \in DOMAIN hubChain' : hubChain'[s] = k \/ (s \in DOMAIN hubChain /\ hubChain'[s] = hubChain[s])
        BY <2>2, <2>3, <2>4
    <2>6. \A s \in DOMAIN hubChain' : hubChain'[s].at <= now'
        BY <2>2, <2>3, <2>5 DEF RecordKept
    <2> QED BY <2>3, <2>4, <2>6 DEF RecordKept
<1>5. ASSUME NEW e \in Moves, Move(e) PROVE RecordKept'
    <2>1. PICK d : d = [act |-> e.act, agent |-> e.agent, operator |-> e.operator, at |-> now]
        OBVIOUS
    <2>2. d \in Acts /\ d.at = now
        BY <2>1, ContributionAssumption DEF Acts, RecordKept
    <2>3. trail' = trail \cup {d} /\ UNCHANGED <<now, hubChain, copies, summaries>>
        BY <1>5, <2>1 DEF Move
    <2>4. IsFiniteSet(trail') /\ trail' \in SUBSET Acts /\ \A x \in trail' : x.at <= now'
        BY <2>2, <2>3, FS_AddElement DEF RecordKept
    <2> QED BY <2>3, <2>4 DEF RecordKept
<1>6. ASSUME NEW m \in Members, NEW f \in Frames, Publish(m, f) PROVE RecordKept'
    BY <1>6 DEF Publish, RecordKept
<1>7. CASE UNCHANGED sumVars
    BY <1>7 DEF sumVars, RecordKept
<1> QED BY <1>1, <1>2, <1>3, <1>4, <1>5, <1>6, <1>7 DEF PeriodNext
\* A step that adds to the record leaves what was published good.
LEMMA AllStay ==
    ASSUME AccountsInv, RecordKept', Len(hubChain)' >= Len(hubChain), copies \subseteq copies',
           trail \subseteq trail', summaries' = summaries,
           \A s \in summaries : ClosedBooks(s.frame) \/ GoodSummary(s)'
    PROVE  AccountsInv'
BY GoodStays DEF AccountsInv

LEMMA BooksAreClosed ==
    ASSUME RecordKept, NEW f \in Frames, hubChain' = hubChain, trail' = trail
    PROVE  ClosedBooks(f)
BY DEF ClosedBooks

\* An act in the millisecond of the close may have been read or not.
LEMMA MoveAtClose ==
    ASSUME RecordKept, RecordKept', NEW s, GoodSummary(s), hubChain' = hubChain, copies' = copies,
           NEW e \in trail', e.at = ClosesAt(s.frame)
    PROVE  GoodSummary(s)'
<1>1. PICK f \in Frames : f = s.frame
    BY DEF GoodSummary
<1>2. f \in Frames'
    BY DEF Frames
<1>3. ClosesAt(f)' = ClosesAt(f)
    BY DEF ClosesAt, Slice
<1>4. OnThreads(Merged(Members), f) \subseteq OnThreads(Merged(Members), f)'
    BY ThreadsGrow
<1> QED BY <1>1, <1>2, <1>3, <1>4 DEF GoodSummary

LEMMA PublishedIsGood ==
    ASSUME RecordKept, NEW m \in Members, NEW f \in Frames, NEW s,
           s = [frame |-> f, totals |-> Compute(Merged({m}), f),
                saw |-> OnThreads(Merged({m}), f)]
    PROVE  GoodSummary(s)
<1>1. PICK C, D : C = Merged(Members) /\ D = Merged({m})
    OBVIOUS
<1>2. s.frame = f /\ s.totals = Compute(D, f) /\ s.saw = OnThreads(D, f)
    BY <1>1
<1>3. D \subseteq C
    BY <1>1 DEF Merged
<1>4. OnThreads(D, f) \subseteq OnThreads(C, f)
    BY <1>3 DEF OnThreads
<1>5. ASSUME OnThreads(C, f) = OnThreads(D, f) PROVE Recomputes(s)
    <2>1. Compute(C, f) = Compute(D, f)
        BY <1>5, SameThreads, SameSummary
    <2>2. Recompute(s.frame) = s.totals
        BY <1>1, <1>2, <2>1 DEF Recompute
    <2> QED BY <2>2 DEF Recomputes
<1> QED BY <1>1, <1>2, <1>4, <1>5 DEF GoodSummary

LEMMA AccountsStep == AccountsInv /\ [PeriodNext]_sumVars => AccountsInv'
<1> SUFFICES ASSUME AccountsInv, [PeriodNext]_sumVars PROVE AccountsInv'
    OBVIOUS
<1>0. RecordKept /\ RecordKept' /\ \A s \in summaries : GoodSummary(s) /\ s.frame \in Frames
    BY BooksStep DEF AccountsInv, GoodSummary
<1>1. ASSUME hubChain' = hubChain, trail' = trail, summaries' = summaries, copies \subseteq copies'
      PROVE  AccountsInv'
    <2>1. \A s \in summaries : ClosedBooks(s.frame)
        BY <1>0, <1>1, BooksAreClosed
    <2>2. Len(hubChain)' >= Len(hubChain) /\ trail \subseteq trail'
        BY <1>0, <1>1 DEF RecordKept
    <2> QED BY <1>0, <1>1, <2>1, <2>2, AllStay
<1>2. CASE Wait
    BY <1>1, <1>2 DEF Wait
<1>3. ASSUME NEW i \in Works \cup Marks, Post(i) PROVE AccountsInv'
    BY <1>1, <1>3 DEF Post
<1>4. ASSUME NEW m \in Members, NEW c \in copies, Receive(m, c) PROVE AccountsInv'
    BY <1>1, <1>4 DEF Receive
<1>5. ASSUME NEW t \in Jobs, NEW actors \in Payees, SettleTask(t, actors) PROVE AccountsInv'
    <2>1. PICK k : hubChain' = Append(hubChain, k)
        BY <1>5 DEF SettleTask
    <2>2. copies' = copies /\ trail' = trail /\ summaries' = summaries
        BY <1>5 DEF SettleTask
    <2>3. hubChain \in Seq(Kept)
        BY <1>0 DEF RecordKept
    <2>4. Len(hubChain)' >= Len(hubChain) /\ \A s \in DOMAIN hubChain : hubChain'[s] = hubChain[s]
        BY <2>1, <2>3
    <2>5. \A s \in summaries : ClosedBooks(s.frame)
        BY <1>0, <2>2, <2>4, FrameStands DEF ClosedBooks
    <2> QED BY <1>0, <2>2, <2>4, <2>5, AllStay
<1>6. ASSUME NEW e \in Moves, Move(e) PROVE AccountsInv'
    <2>1. PICK d : d.at = now /\ trail' = trail \cup {d}
        BY <1>6 DEF Move
    <2>2. hubChain' = hubChain /\ copies' = copies /\ summaries' = summaries
        BY <1>6 DEF Move
    <2>3. ASSUME NEW s \in summaries PROVE ClosedBooks(s.frame) \/ GoodSummary(s)'
        <3>1. ClosesAt(s.frame) \in Nat /\ ClosesAt(s.frame) <= now /\ now \in Nat
            BY <1>0, FrameStands DEF RecordKept
        <3>2. CASE ClosesAt(s.frame) = now
            BY <1>0, <2>1, <2>2, <3>2, MoveAtClose
        <3>3. CASE ClosesAt(s.frame) # now
            <4>1. ~(d.at <= ClosesAt(s.frame))
                BY <2>1, <3>1, <3>3
            <4> QED BY <2>1, <2>2, <4>1 DEF ClosedBooks
        <3> QED BY <3>2, <3>3
    <2>4. Len(hubChain)' >= Len(hubChain)
        BY <1>0, <2>2 DEF RecordKept
    <2> QED BY <1>0, <2>1, <2>2, <2>3, <2>4, AllStay
<1>7. ASSUME NEW m \in Members, NEW f \in Frames, Publish(m, f) PROVE AccountsInv'
    <2>1. PICK n : /\ n = [frame |-> f, totals |-> Compute(Merged({m}), f),
                           saw |-> OnThreads(Merged({m}), f)]
                   /\ summaries' = summaries \cup {n}
        BY <1>7 DEF Publish
    <2>2. UNCHANGED <<now, hubChain, copies, trail>>
        BY <1>7 DEF Publish
    <2>3. GoodSummary(n)
        BY <1>0, <2>1, PublishedIsGood
    <2>4. ASSUME NEW s \in summaries' PROVE GoodSummary(s)'
        <3>1. GoodSummary(s) /\ s.frame \in Frames
            BY <1>0, <2>1, <2>3 DEF GoodSummary
        <3>2. ClosedBooks(s.frame)
            BY <1>0, <2>2, <3>1, BooksAreClosed
        <3>3. Len(hubChain)' >= Len(hubChain)
            BY <1>0, <2>2 DEF RecordKept
        <3> QED BY <1>0, <2>2, <3>1, <3>2, <3>3, GoodStays
    <2> QED BY <1>0, <2>4 DEF AccountsInv
<1>8. CASE UNCHANGED sumVars
    BY <1>1, <1>8 DEF sumVars
<1> QED BY <1>2, <1>3, <1>4, <1>5, <1>6, <1>7, <1>8 DEF PeriodNext

LEMMA AccountsInvAddsUp == AccountsInv => AccountsAddUp
BY CreditIsConserved, PeriodsAddUp DEF AccountsInv, AccountsAddUp, GoodSummary, SummaryRecomputes

\* The contribution summaries of a hub, hub/summary.ts and verifier/summary.py: no credit
\* is lost or made up over any part of the record, two adjoining periods add up to the
\* whole, and what was published recomputes later, whoever has left or changed hands.
THEOREM AccountsHold == PeriodSpec => []AccountsAddUp
BY AccountsInit, AccountsStep, AccountsInvAddsUp, PTL DEF PeriodSpec
==============================================================================
