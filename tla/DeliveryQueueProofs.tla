-------------------------- MODULE DeliveryQueueProofs --------------------------
(***************************************************************************)
(* TLAPS proofs about DeliveryQueue, for every set of callers, of peers    *)
(* and every value of the bounds, and about the schedule that runs it      *)
(* (Resident), for any loops, hubs and peers and any lateness.             *)
(***************************************************************************)
EXTENDS DeliveryQueue, Resident, FiniteSetTheorems, WellFoundedInduction, TLAPS

------------------------------------------------------------------------------
(* Lemmas about the helpers *)

\* A set of natural numbers has a least member.
LessOnNat == {ss \in Nat \X Nat : ss[1] < ss[2]}

LEMMA LeastNatural ==
    ASSUME NEW S \in SUBSET Nat, S # {}
    PROVE  \E i \in S : \A j \in S : i <= j
<1>1. IsWellFoundedOn(LessOnNat, Nat)
  BY NatLessThanWellFounded DEF OpToRel, LessOnNat
<1>2. PICK i \in S : \A j \in S : <<j, i>> \notin LessOnNat
  BY <1>1, WFMin
<1>3. \A j \in Nat : j < i => <<j, i>> \in LessOnNat
  BY DEF LessOnNat
<1>4. \A j \in S : i <= j
  <2>1. SUFFICES ASSUME NEW j \in S PROVE ~(j < i)
    OBVIOUS
  <2>2. <<j, i>> \notin LessOnNat /\ j \in Nat
    BY <1>2
  <2>3. QED
    BY <1>3, <2>2
<1>5. QED
  BY <1>4

LEMMA LeastOfNaturals ==
    ASSUME NEW S \in SUBSET Nat, S # {}
    PROVE  Least(S) \in S /\ \A j \in S : Least(S) <= j
BY LeastNatural DEF Least

\* Powers of two are numbers: they count subsets.
LEMMA PowerTyped ==
    ASSUME NEW n \in Nat
    PROVE  2 ^ n \in Nat
<1>1. IsFiniteSet(1..n) /\ Cardinality(1..n) = n
  BY FS_Interval
<1>2. IsFiniteSet(SUBSET (1..n)) /\ Cardinality(SUBSET (1..n)) = 2 ^ n
  BY <1>1, FS_SUBSET
<1>3. Cardinality(SUBSET (1..n)) \in Nat
  BY <1>2, FS_CardinalityType
<1>4. QED
  BY <1>2, <1>3

\* The row a flush has in flight is a row of its snapshot.
LEMMA CurrentInBatch ==
    ASSUME TypeOK, NEW c \in Callers, InFlight(c)
    PROVE  Current(c) \in batch[c] /\ Current(c) \in Ids
<1>1. batch[c] \in SUBSET Ids /\ batch[c] # {}
  BY DEF TypeOK, InFlight
<1>2. batch[c] \in SUBSET Nat
  BY <1>1, QueueAssumption DEF QueueAssumption, Ids
<1>3. QED
  BY <1>1, <1>2, LeastOfNaturals DEF Current

\* The instant a drain jumps to is a natural number.
LEMMA NextDueIsNatural ==
    ASSUME TypeOK, Pending # {}
    PROVE  NextDue \in Nat
<1> DEFINE due == {DueAt(i) : i \in Pending}
<1>1. due \in SUBSET Nat /\ due # {}
  <2>1. \A i \in Pending : rows[i] \in Row
    BY DEF TypeOK, Pending
  <2>2. \A r \in Row : r.next \in Nat /\ r.target \in Peers
    BY DEF Row
  <2>3. \A i \in Pending : DueAt(i) \in Nat
    BY <2>1, <2>2 DEF TypeOK, DueAt, Larger
  <2>4. QED
    BY <2>3
<1>2. \E t \in due : \A u \in due : t <= u
  BY <1>1, LeastNatural
<1>3. QED
  BY <1>1, <1>2 DEF NextDue

\* The schedule of a failed row is a natural number.
LEMMA RetryAtIsNatural ==
    ASSUME TypeOK, NEW c \in Callers, InFlight(c),
           NEW delay \in RetryAfters \cup {NoDelay}, AttemptsNow(c) < MaxAttempts
    PROVE  RetryAt(c, delay) \in Nat
<1>1. began[c] \in Nat /\ AttemptsNow(c) \in Nat \ {0}
  BY CurrentInBatch DEF TypeOK, AttemptsNow
<1>2. delay = NoDelay \/ delay \in Nat
  BY QueueAssumption DEF QueueAssumption
<1>3. 2 ^ (AttemptsNow(c) - 1) \in Nat
  BY <1>1, PowerTyped
<1>4. Backoff(c, AttemptsNow(c)) \in Nat
  BY <1>3, QueueAssumption DEF Backoff, Smaller, QueueAssumption
<1>5. QED
  BY <1>1, <1>2, <1>4 DEF RetryAt, Larger

\* The hops a process end catches in flight are counted by a natural number.
LEMMA FlyingHopsAreNatural ==
    ASSUME NEW S \in SUBSET Callers, NEW i
    PROVE  Cardinality({c \in S : Current(c) = i}) \in Nat
BY QueueAssumption, FS_Subset, FS_CardinalityType DEF QueueAssumption

------------------------------------------------------------------------------
(* Type correctness *)

LEMMA NoRowIsRow == NoRow \in Row
BY QueueAssumption DEF NoRow, Row, DeliveryState, QueueAssumption

LEMMA InitTyped == Init => TypeOK
BY NoRowIsRow, QueueAssumption DEF Init, TypeOK, QueueAssumption

\* The reads of a flush leave every variable typed.
LEMMA SnapshotTyped ==
    ASSUME TypeOK, NEW c \in Callers, NEW now \in Nat, Snapshot(c, now)
    PROVE  /\ phase' \in [Callers -> {"idle", "flush", "again"}]
           /\ batch' \in [Callers -> SUBSET Ids]
           /\ snap' \in [Callers -> [Ids -> Nat]]
           /\ began' \in [Callers -> Nat]
<1>1. Ready(now) \in SUBSET Ids
  BY DEF Ready, Pending
<1>2. [i \in Ids |-> IF i \in Ready(now) THEN rows[i].attempts ELSE 0] \in [Ids -> Nat]
  BY DEF TypeOK, Row
<1>3. QED
  BY <1>1, <1>2 DEF TypeOK, Snapshot

\* Every step of the queue leaves the state typed.
LEMMA NextTyped ==
    ASSUME TypeOK, [Next]_vars
    PROVE  TypeOK'
<1> USE DEF tableVars, callVars, historyVars
<1>1. ASSUME NEW p \in Peers, NEW local \in BOOLEAN, Enqueue(p, local)
      PROVE  TypeOK'
  <2>1. used + 1 \in Ids
    BY <1>1, QueueAssumption DEF Enqueue, TypeOK, Ids, QueueAssumption
  <2>2. [state |-> "pending", attempts |-> 0, next |-> clock,
         target |-> p, local |-> local] \in Row
    BY DEF TypeOK, Row, DeliveryState
  <2>3. rows' \in [Ids -> Row] /\ used' \in 0..MaxItems
    BY <1>1, <2>1, <2>2, QueueAssumption DEF Enqueue, TypeOK, QueueAssumption
  <2>4. QED
    BY <1>1, <2>3 DEF Enqueue, TypeOK
<1>2. ASSUME NEW c \in Callers, BeginFlush(c)
      PROVE  TypeOK'
  BY <1>2, SnapshotTyped DEF BeginFlush, TypeOK
<1>3. ASSUME NEW c \in Callers, BeginDrain(c)
      PROVE  TypeOK'
  <2>1. Larger(clock, NextDue) \in Nat
    BY <1>3, NextDueIsNatural DEF BeginDrain, TypeOK, Larger
  <2>2. QED
    BY <1>3, <2>1, SnapshotTyped DEF BeginDrain, TypeOK
<1>4. ASSUME NEW c \in Callers, NextPass(c)
      PROVE  TypeOK'
  <2>1. Larger(began[c], NextDue) \in Nat
    BY <1>4, NextDueIsNatural DEF NextPass, TypeOK, Larger
  <2>2. QED
    BY <1>4, <2>1, SnapshotTyped DEF NextPass, TypeOK
<1>5. ASSUME NEW c \in Callers, SettleDelivered(c)
      PROVE  TypeOK'
  <2>1. Current(c) \in Ids /\ AttemptsNow(c) \in Nat
    BY <1>5, CurrentInBatch DEF SettleDelivered, AttemptsNow, TypeOK
  <2>2. rows' \in [Ids -> Row]
    <3>1. rows[Current(c)] \in Row
      BY <2>1 DEF TypeOK
    <3>2. [rows[Current(c)] EXCEPT !.state = "delivered",
                                   !.attempts = AttemptsNow(c)] \in Row
      BY <2>1, <3>1 DEF Row, DeliveryState
    <3>3. rows' = [rows EXCEPT ![Current(c)] =
                     [rows[Current(c)] EXCEPT !.state = "delivered",
                                              !.attempts = AttemptsNow(c)]]
      BY <1>5, <2>1 DEF SettleDelivered, TypeOK
    <3>4. QED
      BY <3>2, <3>3 DEF TypeOK
  <2>3. QED
    BY <1>5, <2>1, <2>2 DEF SettleDelivered, TypeOK, Progress
<1>6. ASSUME NEW c \in Callers, NEW delay \in RetryAfters \cup {NoDelay},
             NEW arrived \in BOOLEAN, SettleFailed(c, delay, arrived)
      PROVE  TypeOK'
  <2>1. /\ InFlight(c) /\ Current(c) \in Ids
        /\ AttemptsNow(c) \in Nat /\ began[c] \in Nat /\ MaxAttempts \in Nat
    BY <1>6, CurrentInBatch, QueueAssumption
    DEF SettleFailed, AttemptsNow, TypeOK, QueueAssumption
  <2>2. rows[Current(c)] \in Row /\ rows[Current(c)].target \in Peers
    BY <2>1 DEF TypeOK, Row
  <2>3. FailedRow(c, delay) \in Row
    <3>1. CASE AttemptsNow(c) >= MaxAttempts
      BY <2>1, <2>2, <3>1 DEF FailedRow, Row, DeliveryState
    <3>2. CASE AttemptsNow(c) < MaxAttempts
      <4>1. RetryAt(c, delay) \in Nat
        BY <2>1, <3>2, RetryAtIsNatural
      <4>2. QED
        BY <2>1, <2>2, <3>2, <4>1 DEF FailedRow, Row, DeliveryState
    <3>3. QED
      BY <2>1, <3>1, <3>2
  <2>4. delay # NoDelay => began[c] + delay \in Nat
    BY <2>1, QueueAssumption DEF QueueAssumption
  <2>5. notBefore' \in [Peers -> Nat]
    BY <1>6, <2>2, <2>4 DEF SettleFailed, PeerFloor, TypeOK, Larger
  <2>6. asked' \in [Peers -> Nat]
    BY <1>6, <2>2, <2>4 DEF SettleFailed, TypeOK, Larger
  <2>7. lastStart' \in [Ids -> Nat]
    BY <1>6, <2>1 DEF SettleFailed, TypeOK, Smaller
  <2>8. rows' \in [Ids -> Row]
    BY <1>6, <2>3 DEF SettleFailed, TypeOK
  <2>9. /\ batch' \in [Callers -> SUBSET Ids] /\ gone' \in [Callers -> SUBSET Ids]
        /\ moved' \in [Callers -> BOOLEAN]
    BY <1>6, <2>1 DEF SettleFailed, TypeOK, Progress
  <2>10. tries' \in [Ids -> Nat] /\ landed' \in [Ids -> Nat]
    BY <1>6, <2>1 DEF SettleFailed, TypeOK
  <2>11. QED
    BY <1>6, <2>5, <2>6, <2>7, <2>8, <2>9, <2>10 DEF SettleFailed, TypeOK
<1>7. ASSUME NEW c \in Callers, TickReturns(c)
      PROVE  TypeOK'
  BY <1>7 DEF TickReturns, RecordDeadLetters, Forget, NoSnap, TypeOK
<1>8. ASSUME NEW c \in Callers, DrainReturns(c)
      PROVE  TypeOK'
  <2>1. errors' \in [Ids -> Nat]
    BY <1>8 DEF DrainReturns, RecordDeadLetters, TypeOK
  <2>2. phase' \in [Callers -> {"idle", "flush", "again"}] /\ round' \in [Callers -> Nat]
    BY <1>8 DEF DrainReturns, TypeOK
  <2>3. QED
    BY <1>8, <2>1, <2>2 DEF DrainReturns, Forget, NoSnap, TypeOK
<1>9. ASSUME NEW c \in Callers, RunStops(c)
      PROVE  TypeOK'
  BY <1>9 DEF RunStops, TypeOK
<1>10. ASSUME Exit
       PROVE  TypeOK'
  <2>1. tries' \in [Ids -> Nat] /\ landed' \in [Ids -> Nat]
    <3> DEFINE flying == {c \in Callers : InFlight(c)}
               Hops(S, i) == Cardinality({c \in S : Current(c) = i})
    <3>1. \A S \in SUBSET flying : \A i \in Ids : Hops(S, i) \in Nat
      BY FlyingHopsAreNatural
    <3>2. PICK S \in SUBSET flying :
            /\ tries' = [i \in Ids |-> tries[i] + Hops(flying, i)]
            /\ landed' = [i \in Ids |-> landed[i] + Hops(S, i)]
      BY <1>10 DEF Exit
    <3>3. \A i \in Ids : Hops(flying, i) \in Nat /\ Hops(S, i) \in Nat
      BY <3>1
    <3> HIDE DEF Hops, flying
    <3>4. \A i \in Ids : tries[i] \in Nat /\ landed[i] \in Nat
      BY DEF TypeOK
    <3>5. \A i \in Ids : tries[i] + Hops(flying, i) \in Nat
                         /\ landed[i] + Hops(S, i) \in Nat
      BY <3>3, <3>4
    <3>6. QED
      BY <3>2, <3>5
  <2>2. QED
    BY <1>10, <2>1 DEF Exit, NoSnap, TypeOK
<1>11. ASSUME Advance
       PROVE  TypeOK'
  BY <1>11 DEF Advance, TypeOK
<1>12. CASE UNCHANGED vars
  BY <1>12 DEF vars, TypeOK
<1>13. QED
  BY <1>1, <1>2, <1>3, <1>4, <1>5, <1>6, <1>7, <1>8, <1>9, <1>10, <1>11, <1>12
  DEF Next, Settle, StopReturns, Kill

\* Every reachable state is typed: rows keep their columns, the clocks and
\* counters stay natural numbers, and a snapshot never names a row that is not
\* in the table's range.
THEOREM TypeCorrect == Spec => []TypeOK
<1>1. Init => TypeOK
  BY InitTyped
<1>2. TypeOK /\ [Next]_vars => TypeOK'
  BY NextTyped
<1>3. QED
  BY <1>1, <1>2, PTL DEF Spec

------------------------------------------------------------------------------
(* The budget, for any number of overlapping flushes *)

\* Where the new batches and snapshots of a flush come from.
LEMMA SnapshotReads ==
    ASSUME TypeOK, NEW c \in Callers, NEW now, Snapshot(c, now)
    PROVE  /\ batch'[c] \subseteq Pending
           /\ \A i \in batch'[c] : snap'[c][i] = rows[i].attempts
           /\ \A d \in Callers \ {c} : batch'[d] = batch[d] /\ snap'[d] = snap[d]
BY DEF Snapshot, TypeOK, Ready, Pending

\* The hops of an exit only add to the count.
FlyingFor(i) == {c \in Callers : InFlight(c) /\ Current(c) = i}

LEMMA ExitCounts ==
    ASSUME TypeOK, Exit
    PROVE  /\ \A i \in Ids : tries'[i] = tries[i] + Cardinality(FlyingFor(i))
           /\ \A i \in Ids : Cardinality(FlyingFor(i)) \in Nat
<1>1. \A i : {c \in {d \in Callers : InFlight(d)} : Current(c) = i} = FlyingFor(i)
  BY DEF FlyingFor
<1>2. \A i \in Ids : tries'[i] = tries[i] + Cardinality(FlyingFor(i))
  BY <1>1 DEF Exit
<1>3. \A i \in Ids : Cardinality(FlyingFor(i)) \in Nat
  BY QueueAssumption, FS_Subset, FS_CardinalityType DEF QueueAssumption, FlyingFor
<1>4. QED
  BY <1>2, <1>3

LEMMA InitBudget == Init => BudgetInv
BY QueueAssumption
DEF Init, BudgetInv, AttemptsAreHops, GivenUpOnlyAfterBudget, NoRow, QueueAssumption

LEMMA NextBudget ==
    ASSUME TypeOK, BudgetInv, [Next]_vars
    PROVE  BudgetInv'
<1> USE DEF tableVars, callVars, historyVars
<1>a. /\ \A i \in Ids : rows[i].attempts \in Nat /\ tries[i] \in Nat
      /\ \A c \in Callers, i \in Ids : snap[c][i] \in Nat
      /\ MaxAttempts \in Nat
  BY QueueAssumption DEF TypeOK, Row, QueueAssumption
<1> DEFINE Step == \A i \in Ids :
             /\ rows'[i].attempts <= tries'[i]
             /\ \A c \in Callers : i \in batch'[c] => snap'[c][i] <= tries'[i]
             /\ rows'[i].state = "dead" => tries'[i] >= MaxAttempts
<1>b. SUFFICES Step
  BY DEF BudgetInv, AttemptsAreHops, GivenUpOnlyAfterBudget
<1>c. \A i \in Ids :
         /\ rows[i].attempts <= tries[i]
         /\ \A c \in Callers : i \in batch[c] => snap[c][i] <= tries[i]
         /\ rows[i].state = "dead" => tries[i] >= MaxAttempts
  BY DEF BudgetInv, AttemptsAreHops, GivenUpOnlyAfterBudget
<1>1. ASSUME NEW p \in Peers, NEW local \in BOOLEAN, Enqueue(p, local)
      PROVE  Step
  <2>1. \A i \in Ids : \/ rows'[i] = rows[i]
                       \/ rows'[i].attempts = 0 /\ rows'[i].state = "pending"
    BY <1>1 DEF Enqueue, TypeOK
  <2>2. UNCHANGED <<batch, snap, tries>>
    BY <1>1 DEF Enqueue
  <2>3. QED
    BY <1>a, <1>c, <2>1, <2>2
<1>2. ASSUME NEW c \in Callers, NEW now, Snapshot(c, now), UNCHANGED <<rows, tries>>
      PROVE  Step
  BY <1>2, <1>c, SnapshotReads DEF Pending
<1>3. ASSUME NEW c \in Callers, SettleDelivered(c)
      PROVE  Step
  <2>1. Current(c) \in batch[c] /\ Current(c) \in Ids
    BY <1>3, CurrentInBatch DEF SettleDelivered
  <2>2. /\ tries' = [tries EXCEPT ![Current(c)] = @ + 1]
        /\ snap' = snap /\ \A d \in Callers : batch'[d] \subseteq batch[d]
    BY <1>3 DEF SettleDelivered, TypeOK
  <2>3. \A i \in Ids : tries'[i] >= tries[i] /\ tries'[i] \in Nat
    BY <1>a, <2>2 DEF TypeOK
  <2>4. /\ rows'[Current(c)].attempts = AttemptsNow(c)
        /\ rows'[Current(c)].state = "delivered"
        /\ \A i \in Ids \ {Current(c)} : rows'[i] = rows[i]
    <3>1. rows' = [rows EXCEPT ![Current(c)] =
                     [rows[Current(c)] EXCEPT !.state = "delivered",
                                              !.attempts = AttemptsNow(c)]]
      BY <1>3, <2>1 DEF SettleDelivered, TypeOK
    <3>2. rows[Current(c)] \in Row
      BY <2>1 DEF TypeOK
    <3>3. QED
      BY <2>1, <3>1, <3>2 DEF TypeOK, Row
  <2>5. AttemptsNow(c) <= tries'[Current(c)]
    BY <1>a, <1>c, <2>1, <2>2 DEF AttemptsNow, TypeOK
  <2>6. QED
    BY <1>a, <1>c, <2>2, <2>3, <2>4, <2>5
<1>4. ASSUME NEW c \in Callers, NEW delay \in RetryAfters \cup {NoDelay},
             NEW arrived \in BOOLEAN, SettleFailed(c, delay, arrived)
      PROVE  Step
  <2>1. Current(c) \in batch[c] /\ Current(c) \in Ids
    BY <1>4, CurrentInBatch DEF SettleFailed
  <2>2. /\ tries' = [tries EXCEPT ![Current(c)] = @ + 1]
        /\ snap' = snap /\ \A d \in Callers : batch'[d] \subseteq batch[d]
    BY <1>4 DEF SettleFailed, TypeOK
  <2>3. \A i \in Ids : tries'[i] >= tries[i] /\ tries'[i] \in Nat
    BY <1>a, <2>2 DEF TypeOK
  <2>4. AttemptsNow(c) <= tries'[Current(c)] /\ AttemptsNow(c) \in Nat
    BY <1>a, <1>c, <2>1, <2>2 DEF AttemptsNow, TypeOK
  <2>5. rows[Current(c)] \in Row
    BY <2>1 DEF TypeOK
  <2>6. /\ rows'[Current(c)] = FailedRow(c, delay)
        /\ \A i \in Ids \ {Current(c)} : rows'[i] = rows[i]
    BY <1>4, <2>1 DEF SettleFailed, TypeOK
  <2>7. /\ FailedRow(c, delay).attempts = AttemptsNow(c)
        /\ FailedRow(c, delay).state = "dead" =>
              AttemptsNow(c) >= MaxAttempts \/ rows[Current(c)].state = "dead"
    BY <2>5 DEF FailedRow, Row
  <2>8. QED
    BY <1>a, <1>c, <2>1, <2>2, <2>3, <2>4, <2>6, <2>7
<1>5. ASSUME NEW c \in Callers, Forget(c), UNCHANGED <<rows, tries>>
      PROVE  Step
  <2>1. \A d \in Callers, i \in Ids :
           i \in batch'[d] => i \in batch[d] /\ (snap'[d][i] = snap[d][i] \/ snap'[d][i] = 0)
    BY <1>5 DEF Forget, NoSnap, TypeOK
  <2>2. QED
    BY <1>5, <1>a, <1>c, <2>1
<1>6. ASSUME Exit
      PROVE  Step
  <2>1. \A i \in Ids : tries'[i] >= tries[i] /\ tries'[i] \in Nat
    <3>1. \A t, n \in Nat : t + n >= t /\ t + n \in Nat
      OBVIOUS
    <3>2. QED
      BY <1>6, <1>a, <3>1, ExitCounts
  <2>2. rows' = rows /\ \A c \in Callers : batch'[c] = {}
    BY <1>6 DEF Exit
  <2>3. QED
    BY <1>a, <1>c, <2>1, <2>2
<1>7. ASSUME UNCHANGED <<rows, batch, snap, tries>>
      PROVE  Step
  BY <1>7, <1>c
<1>8. QED
  BY <1>1, <1>2, <1>3, <1>4, <1>5, <1>6, <1>7
  DEF Next, Settle, StopReturns, Kill, BeginFlush, BeginDrain, NextPass,
      TickReturns, DrainReturns, RunStops, Advance, vars

\* A row counts no hop that was not made, whatever callers flush the table.
THEOREM BudgetStands == Spec => []BudgetInv
<1>1. Init => BudgetInv
  BY InitBudget
<1>2. TypeOK /\ BudgetInv /\ [Next]_vars => BudgetInv'
  BY NextBudget
<1>3. QED
  BY <1>1, <1>2, TypeCorrect, PTL DEF Spec

\* No activity is given up before MaxAttempts hops were made, whatever callers
\* flush the table and however their flushes overlap.
THEOREM BudgetIsSpent == Spec => []GivenUpOnlyAfterBudget
<1>1. BudgetInv => GivenUpOnlyAfterBudget
  BY DEF BudgetInv
<1>2. QED
  BY <1>1, BudgetStands, PTL

------------------------------------------------------------------------------
(* The schedule, for any number of overlapping flushes *)

\* A failed row waits at least as long as its schedule says, from the start of the
\* flush that failed it or from now, whichever was first.
LEMMA RetryWaits ==
    ASSUME TypeOK, NEW c \in Callers, InFlight(c),
           NEW delay \in RetryAfters \cup {NoDelay}
    PROVE  /\ Smaller(began[c], clock) \in Nat /\ RetryAt(c, delay) \in Nat
           /\ RetryAt(c, delay) >= Smaller(began[c], clock) + Spread(AttemptsNow(c))
<1>1. began[c] \in Nat /\ clock \in Nat /\ AttemptsNow(c) \in Nat \ {0}
  BY CurrentInBatch DEF TypeOK, AttemptsNow
<1>2. delay = NoDelay \/ delay \in Nat
  BY QueueAssumption DEF QueueAssumption
<1>3. PICK e \in Nat : e = BackoffBase * 2 ^ (AttemptsNow(c) - 1)
  <2>1. 2 ^ (AttemptsNow(c) - 1) \in Nat
    BY <1>1, PowerTyped
  <2>2. QED
    BY <2>1, QueueAssumption DEF QueueAssumption
<1>4. /\ Spread(AttemptsNow(c)) \in Nat /\ Backoff(c, AttemptsNow(c)) \in Nat
      /\ Backoff(c, AttemptsNow(c)) >= Spread(AttemptsNow(c))
  BY <1>3, QueueAssumption DEF Backoff, Spread, Smaller, QueueAssumption
<1>5. QED
  BY <1>1, <1>2, <1>4 DEF RetryAt, Larger, Smaller

LEMMA InitSchedule == Init => ScheduleInv
BY DEF Init, ScheduleInv, OnTime, NoRow

LEMMA NextSchedule ==
    ASSUME TypeOK, ScheduleInv, [Next]_vars
    PROVE  ScheduleInv'
<1> USE DEF tableVars, callVars, historyVars
<1>a. SUFFICES notBefore' = asked' /\ \A i \in Ids : OnTime(rows'[i], lastStart'[i])
  BY DEF ScheduleInv, OnTime
<1>b. notBefore = asked /\ \A i \in Ids : OnTime(rows[i], lastStart[i])
  BY DEF ScheduleInv
<1>1. CASE UNCHANGED <<rows, notBefore, asked, lastStart>>
  BY <1>1, <1>b
<1>2. ASSUME NEW p \in Peers, NEW local \in BOOLEAN, Enqueue(p, local)
      PROVE  notBefore' = asked' /\ \A i \in Ids : OnTime(rows'[i], lastStart'[i])
  <2>1. \A i \in Ids : rows'[i] = rows[i] \/ rows'[i].attempts = 0
    BY <1>2 DEF Enqueue, TypeOK
  <2>2. QED
    BY <1>2, <1>b, <2>1 DEF Enqueue, OnTime
<1>3. ASSUME NEW c \in Callers, SettleDelivered(c)
      PROVE  notBefore' = asked' /\ \A i \in Ids : OnTime(rows'[i], lastStart'[i])
  <2>1. \A i \in Ids : rows'[i] = rows[i] \/ rows'[i].state = "delivered"
    BY <1>3 DEF SettleDelivered, TypeOK, Row
  <2>2. QED
    BY <1>3, <1>b, <2>1 DEF SettleDelivered, OnTime
<1>4. ASSUME NEW c \in Callers, NEW delay \in RetryAfters \cup {NoDelay},
             NEW arrived \in BOOLEAN, SettleFailed(c, delay, arrived)
      PROVE  notBefore' = asked' /\ \A i \in Ids : OnTime(rows'[i], lastStart'[i])
  <2>1. InFlight(c) /\ Current(c) \in Ids /\ rows[Current(c)] \in Row
    BY <1>4, CurrentInBatch DEF SettleFailed, TypeOK
  <2>2. /\ rows'[Current(c)] = FailedRow(c, delay)
        /\ lastStart'[Current(c)] = Smaller(began[c], clock)
        /\ \A i \in Ids \ {Current(c)} : rows'[i] = rows[i] /\ lastStart'[i] = lastStart[i]
    BY <1>4, <2>1 DEF SettleFailed, TypeOK
  <2>3. OnTime(FailedRow(c, delay), Smaller(began[c], clock))
    <3>1. CASE AttemptsNow(c) >= MaxAttempts
      BY <2>1, <3>1 DEF FailedRow, OnTime, Row
    <3>2. CASE ~(AttemptsNow(c) >= MaxAttempts)
      <4>1. /\ FailedRow(c, delay).attempts = AttemptsNow(c)
            /\ FailedRow(c, delay).next = RetryAt(c, delay)
        BY <2>1, <3>2 DEF FailedRow, Row
      <4>2. QED
        BY <2>1, <4>1, RetryWaits DEF OnTime
    <3>3. QED
      BY <3>1, <3>2
  <2>4. notBefore' = asked'
    BY <1>4, <1>b DEF SettleFailed, PeerFloor, TypeOK
  <2>5. QED
    BY <1>b, <2>2, <2>3, <2>4
<1>5. QED
  BY <1>1, <1>2, <1>3, <1>4
  DEF Next, Settle, StopReturns, Kill, Exit, BeginFlush, BeginDrain, NextPass,
      TickReturns, DrainReturns, RunStops, Advance, vars

\* A flush on the real clock takes up no row before its schedule, whoever failed it,
\* and no flush takes up a row inside a window its peer asked for.
THEOREM ScheduleStands == Spec => ScheduleIsKept
<1>1. Init => ScheduleInv
  BY InitSchedule
<1>2. TypeOK /\ ScheduleInv /\ [Next]_vars => ScheduleInv'
  BY NextSchedule
<1>3. TypeOK /\ ScheduleInv /\ [Next]_vars =>
        [\A c \in Callers : NewBatch(c) =>
            (c \notin Drainers => RetriesAreSpread(c)) /\ RetryAfterIsHonoured(c)]_vars
  <2>1. SUFFICES ASSUME TypeOK, ScheduleInv, Next, NEW c \in Callers, NewBatch(c)
                 PROVE  (c \notin Drainers => RetriesAreSpread(c)) /\ RetryAfterIsHonoured(c)
    OBVIOUS
  <2>2. \E now : Snapshot(c, now) /\ (c \notin Drainers => now = clock)
    <3>1. CASE UNCHANGED batch
      BY <2>1, <3>1 DEF NewBatch
    <3>2. ASSUME NEW d \in Callers, SettleDelivered(d) \/
                 \E delay \in RetryAfters \cup {NoDelay}, arrived \in BOOLEAN :
                     SettleFailed(d, delay, arrived)
          PROVE  FALSE
      <4>1. batch' = [batch EXCEPT ![d] = @ \ {Current(d)}]
        BY <3>2 DEF SettleDelivered, SettleFailed
      <4>2. QED
        BY <2>1, <4>1 DEF NewBatch, TypeOK
    <3>3. CASE Exit
      BY <2>1, <3>3 DEF Exit, NewBatch
    <3>4. ASSUME NEW d \in Callers, NEW now, Snapshot(d, now), d \notin Drainers => now = clock
          PROVE  \E t : Snapshot(c, t) /\ (c \notin Drainers => t = clock)
      <4>1. d = c
        BY <2>1, <3>4 DEF Snapshot, NewBatch, TypeOK
      <4>2. QED
        BY <3>4, <4>1
    <3>5. ASSUME NEW d \in Callers, BeginFlush(d) \/ BeginDrain(d) \/ NextPass(d)
          PROVE  \E now : Snapshot(d, now) /\ (d \notin Drainers => now = clock)
      BY <3>5 DEF BeginFlush, BeginDrain, NextPass
    <3>6. CASE \E d \in Callers : TickReturns(d) \/ DrainReturns(d) \/ RunStops(d)
      BY <3>1, <3>6 DEF TickReturns, DrainReturns, RunStops, Forget
    <3>7. CASE Advance \/ \E p \in Peers, local \in BOOLEAN : Enqueue(p, local)
      BY <3>1, <3>7 DEF Advance, Enqueue, callVars
    <3>8. QED
      BY <2>1, <3>2, <3>3, <3>4, <3>5, <3>6, <3>7 DEF Next, Settle, StopReturns, Kill
  <2>3. PICK now : Snapshot(c, now) /\ (c \notin Drainers => now = clock)
    BY <2>2
  <2>4. /\ began'[c] = now
        /\ \A i \in batch'[c] : /\ i \in Ids /\ rows[i].state = "pending"
                               /\ rows[i].next <= now /\ notBefore[rows[i].target] <= now
    BY <2>1, <2>3 DEF Snapshot, Ready, Pending, TypeOK
  <2>5. RetryAfterIsHonoured(c)
    BY <2>1, <2>4 DEF RetryAfterIsHonoured, ScheduleInv
  <2>6. ASSUME c \notin Drainers PROVE RetriesAreSpread(c)
    <3>1. SUFFICES ASSUME NEW i \in batch'[c], rows[i].attempts > 0
                   PROVE  clock >= lastStart[i] + Spread(rows[i].attempts)
      BY DEF RetriesAreSpread
    <3>2. i \in Ids /\ rows[i].next <= clock /\ rows[i].state = "pending"
      BY <2>3, <2>4, <2>6
    <3>3. rows[i].next >= lastStart[i] + Spread(rows[i].attempts)
      BY <2>1, <3>1, <3>2 DEF ScheduleInv, OnTime
    <3>4. /\ rows[i].next \in Nat /\ clock \in Nat /\ lastStart[i] \in Nat
          /\ Spread(rows[i].attempts) \in Nat
      <4>1. /\ rows[i].next \in Nat /\ clock \in Nat /\ lastStart[i] \in Nat
            /\ rows[i].attempts \in Nat
        BY <2>1, <3>2 DEF TypeOK, Row
      <4>2. 2 ^ (rows[i].attempts - 1) \in Nat
        BY <3>1, <4>1, PowerTyped
      <4>3. QED
        BY <4>1, <4>2, QueueAssumption DEF Spread, Smaller, QueueAssumption
    <3>5. QED
      BY <3>2, <3>3, <3>4
  <2>7. QED
    BY <2>5, <2>6
<1>4. QED
  BY <1>1, <1>2, <1>3, TypeCorrect, PTL DEF Spec, ScheduleIsKept

------------------------------------------------------------------------------
(* One caller: what the queue promises where no two flushes overlap *)

OneCaller == \A c, d \in Callers : c = d

LEMMA InitOneFlush == Init => OneFlushInv
BY QueueAssumption
DEF Init, OneFlushInv, SnapshotFresh, HopsCounted, NoRow, QueueAssumption

\* An exit catches at most one hop.
LEMMA OneHopInFlight ==
    ASSUME OneCaller, NEW i \in Ids
    PROVE  Cardinality(FlyingFor(i)) \in {0, 1}
<1>1. CASE FlyingFor(i) = {}
  BY <1>1, FS_EmptySet
<1>2. ASSUME NEW c \in FlyingFor(i)
      PROVE  Cardinality(FlyingFor(i)) = 1
  <2>1. FlyingFor(i) = {c}
    BY <1>2 DEF OneCaller, FlyingFor
  <2>2. QED
    BY <2>1, FS_Singleton
<1>3. QED
  BY <1>1, <1>2

\* A hop that settles finds its row as the snapshot read it.
LEMMA SettledRowIsFresh ==
    ASSUME TypeOK, OneFlushInv, NEW c \in Callers, InFlight(c)
    PROVE  /\ Current(c) \in batch[c] /\ Current(c) \in Ids
           /\ rows[Current(c)] \in Row
           /\ rows[Current(c)].state = "pending"
           /\ AttemptsNow(c) = rows[Current(c)].attempts + 1
           /\ AttemptsNow(c) \in Nat /\ AttemptsNow(c) <= MaxAttempts
<1>1. Current(c) \in batch[c] /\ Current(c) \in Ids
  BY CurrentInBatch
<1>2. rows[Current(c)] \in Row /\ rows[Current(c)].attempts \in Nat
  BY <1>1 DEF TypeOK, Row
<1>3. /\ rows[Current(c)].state = "pending"
      /\ snap[c][Current(c)] = rows[Current(c)].attempts
  BY <1>1 DEF OneFlushInv, SnapshotFresh
<1>4. rows[Current(c)].attempts < MaxAttempts
  BY <1>1, <1>3 DEF OneFlushInv, HopsCounted
<1>5. QED
  BY <1>1, <1>2, <1>3, <1>4, QueueAssumption DEF AttemptsNow, QueueAssumption

\* A step that settles row i, the only flush there is having it in flight.
LEMMA SettleKeepsOneFlush ==
    ASSUME OneCaller, TypeOK, OneFlushInv, NEW c \in Callers, InFlight(c),
           rows'[Current(c)].attempts = AttemptsNow(c),
           rows'[Current(c)].state = "pending" => AttemptsNow(c) < MaxAttempts,
           rows'[Current(c)].state # "none",
           \A i \in Ids \ {Current(c)} : rows'[i] = rows[i],
           tries' = [tries EXCEPT ![Current(c)] = @ + 1],
           batch' = [batch EXCEPT ![c] = @ \ {Current(c)}],
           UNCHANGED <<snap, exits, used>>
    PROVE  OneFlushInv'
<1>1. /\ Current(c) \in Ids /\ rows[Current(c)].state = "pending"
      /\ AttemptsNow(c) = rows[Current(c)].attempts + 1
      /\ AttemptsNow(c) \in Nat /\ AttemptsNow(c) <= MaxAttempts
      /\ rows[Current(c)].attempts \in Nat
  BY SettledRowIsFresh DEF Row
<1>2. SnapshotFresh'
  <2>1. \A d \in Callers : d = c
    BY DEF OneCaller
  <2>2. batch'[c] = batch[c] \ {Current(c)} /\ batch[c] \subseteq Ids
    BY DEF TypeOK
  <2>3. QED
    BY <2>1, <2>2 DEF SnapshotFresh, OneFlushInv
<1>3. HopsCounted'
  <2>1. \A i \in Ids : tries[i] \in Nat /\ exits \in Nat /\ used \in Nat
    BY QueueAssumption DEF TypeOK, QueueAssumption
  <2>2. \A i \in Ids \ {Current(c)} : tries'[i] = tries[i]
    BY DEF TypeOK
  <2>3. tries'[Current(c)] = tries[Current(c)] + 1
    BY <1>1 DEF TypeOK
  <2>4. /\ tries[Current(c)] <= rows[Current(c)].attempts + exits
        /\ ~(Current(c) > used)
    BY <1>1 DEF OneFlushInv, HopsCounted
  <2>5. tries'[Current(c)] <= rows'[Current(c)].attempts + exits
    BY <1>1, <2>1, <2>3, <2>4
  <2>6. QED
    BY <1>1, <2>1, <2>2, <2>4, <2>5 DEF OneFlushInv, HopsCounted
<1>4. QED
  BY <1>2, <1>3 DEF OneFlushInv

\* What a settled hop does to the table.
LEMMA DeliveredRow ==
    ASSUME TypeOK, OneFlushInv, NEW c \in Callers, SettleDelivered(c)
    PROVE  /\ rows'[Current(c)].attempts = AttemptsNow(c)
           /\ rows'[Current(c)].state = "delivered"
           /\ \A i \in Ids \ {Current(c)} : rows'[i] = rows[i]
<1>1. Current(c) \in Ids /\ rows[Current(c)] \in Row
  BY SettledRowIsFresh DEF SettleDelivered
<1>2. rows' = [rows EXCEPT ![Current(c)] =
                 [rows[Current(c)] EXCEPT !.state = "delivered",
                                          !.attempts = AttemptsNow(c)]]
  BY <1>1 DEF SettleDelivered, TypeOK
<1>3. QED
  BY <1>1, <1>2 DEF TypeOK, Row

LEMMA FailedHopRow ==
    ASSUME TypeOK, OneFlushInv, NEW c \in Callers,
           NEW delay, NEW arrived, SettleFailed(c, delay, arrived)
    PROVE  /\ rows'[Current(c)].attempts = AttemptsNow(c)
           /\ rows'[Current(c)].state \in {"pending", "dead"}
           /\ rows'[Current(c)].state = "pending" => AttemptsNow(c) < MaxAttempts
           /\ \A i \in Ids \ {Current(c)} : rows'[i] = rows[i]
<1>1. /\ Current(c) \in Ids /\ rows[Current(c)] \in Row
      /\ rows[Current(c)].state = "pending"
      /\ AttemptsNow(c) \in Nat /\ MaxAttempts \in Nat
  BY SettledRowIsFresh, QueueAssumption DEF SettleFailed, QueueAssumption
<1>2. /\ rows'[Current(c)] = FailedRow(c, delay)
      /\ \A i \in Ids \ {Current(c)} : rows'[i] = rows[i]
  BY <1>1 DEF SettleFailed, TypeOK
<1>3. /\ FailedRow(c, delay).attempts = AttemptsNow(c)
      /\ FailedRow(c, delay).state =
            (IF AttemptsNow(c) >= MaxAttempts THEN "dead" ELSE "pending")
  BY <1>1 DEF FailedRow, Row
<1>4. QED
  BY <1>1, <1>2, <1>3

LEMMA NextOneFlush ==
    ASSUME OneCaller, TypeOK, OneFlushInv, [Next]_vars
    PROVE  OneFlushInv'
<1> USE DEF tableVars, callVars, historyVars
<1>1. ASSUME NEW p \in Peers, NEW local \in BOOLEAN, Enqueue(p, local)
      PROVE  OneFlushInv'
  <2>1. used + 1 \in Ids /\ used + 1 > used /\ used \in Nat
    BY <1>1, QueueAssumption DEF Enqueue, TypeOK, Ids, QueueAssumption
  <2>2. rows[used + 1].state = "none" /\ tries[used + 1] = 0
    BY <2>1 DEF OneFlushInv, HopsCounted
  <2>3. /\ rows'[used + 1].state = "pending" /\ rows'[used + 1].attempts = 0
        /\ \A i \in Ids \ {used + 1} : rows'[i] = rows[i]
    BY <1>1, <2>1 DEF Enqueue, TypeOK
  <2>4. UNCHANGED <<batch, snap, tries, exits>> /\ used' = used + 1
    BY <1>1 DEF Enqueue
  <2>5. SnapshotFresh'
    <3>1. \A c \in Callers : batch[c] \subseteq Ids /\ used + 1 \notin batch[c]
      BY <2>2 DEF TypeOK, OneFlushInv, SnapshotFresh
    <3>2. QED
      BY <2>3, <2>4, <3>1 DEF OneFlushInv, SnapshotFresh
  <2>6. \A i \in Ids : i > used' => i > used /\ i # used + 1
    BY <2>1, <2>4 DEF Ids
  <2>7. HopsCounted'
    BY <2>1, <2>2, <2>3, <2>4, <2>6, QueueAssumption
    DEF TypeOK, OneFlushInv, HopsCounted, QueueAssumption
  <2>8. QED
    BY <2>5, <2>7 DEF OneFlushInv
<1>2. ASSUME NEW c \in Callers, NEW now, Snapshot(c, now),
             UNCHANGED <<rows, tries, used, exits>>
      PROVE  OneFlushInv'
  BY <1>2, SnapshotReads DEF Pending, OneFlushInv, SnapshotFresh, HopsCounted
<1>3. ASSUME NEW c \in Callers, SettleDelivered(c)
      PROVE  OneFlushInv'
  BY <1>3, DeliveredRow, SettleKeepsOneFlush DEF SettleDelivered
<1>4. ASSUME NEW c \in Callers, NEW delay \in RetryAfters \cup {NoDelay},
             NEW arrived \in BOOLEAN, SettleFailed(c, delay, arrived)
      PROVE  OneFlushInv'
  BY <1>4, FailedHopRow, SettleKeepsOneFlush DEF SettleFailed
<1>5. ASSUME NEW c \in Callers, Returned(c), Forget(c),
             UNCHANGED <<rows, tries, used, exits>>
      PROVE  OneFlushInv'
  <2>1. \A d \in Callers : batch'[d] = {}
    BY <1>5 DEF OneCaller, Forget, Returned
  <2>2. QED
    BY <1>5, <2>1 DEF OneFlushInv, SnapshotFresh, HopsCounted
<1>6. ASSUME Exit
      PROVE  OneFlushInv'
  <2>1. \A i \in Ids : /\ tries[i] \in Nat /\ rows[i].attempts \in Nat /\ exits \in Nat
                      /\ tries'[i] \in {tries[i], tries[i] + 1}
    <3>1. \A i \in Ids : tries[i] \in Nat /\ rows[i].attempts \in Nat /\ exits \in Nat
      BY DEF TypeOK, Row
    <3>2. \A i \in Ids : tries'[i] = tries[i] + Cardinality(FlyingFor(i))
      BY <1>6, ExitCounts
    <3>3. QED
      BY <3>1, <3>2, OneHopInFlight
  <2>2. /\ rows' = rows /\ used' = used /\ exits' = exits + 1
        /\ \A c \in Callers : batch'[c] = {}
    BY <1>6 DEF Exit
  <2>3. \A i \in Ids : i > used => FlyingFor(i) = {}
    <3>1. SUFFICES ASSUME NEW i \in Ids, i > used, NEW c \in FlyingFor(i)
                   PROVE  FALSE
      OBVIOUS
    <3>2. rows[i].state = "pending"
      BY <3>1, SettledRowIsFresh DEF FlyingFor
    <3>3. QED
      BY <3>1, <3>2 DEF OneFlushInv, HopsCounted
  <2>4. \A i \in Ids : i > used => tries'[i] = tries[i]
    <3>1. SUFFICES ASSUME NEW i \in Ids, i > used PROVE tries'[i] = tries[i]
      OBVIOUS
    <3>2. Cardinality(FlyingFor(i)) = 0
      BY <2>3, <3>1, FS_EmptySet
    <3>3. QED
      BY <1>6, <2>1, <3>2, ExitCounts
  <2>5. HopsCounted'
    BY <2>1, <2>2, <2>4 DEF OneFlushInv, HopsCounted
  <2>6. QED
    BY <2>2, <2>5 DEF OneFlushInv, SnapshotFresh
<1>7. ASSUME UNCHANGED <<rows, batch, snap, tries, used, exits>>
      PROVE  OneFlushInv'
  BY <1>7 DEF OneFlushInv, SnapshotFresh, HopsCounted
<1>8. QED
  BY <1>1, <1>2, <1>3, <1>4, <1>5, <1>6, <1>7
  DEF Next, Settle, StopReturns, Kill, BeginFlush, BeginDrain, NextPass,
      TickReturns, DrainReturns, RunStops, Advance, vars

\* Where one caller flushes the table, its snapshot never goes stale.
THEOREM OneFlushStands ==
    ASSUME OneCaller
    PROVE  Spec => []OneFlushInv
<1>1. Init => OneFlushInv
  BY InitOneFlush
<1>2. TypeOK /\ OneFlushInv /\ [Next]_vars => OneFlushInv'
  BY NextOneFlush
<1>3. QED
  BY <1>1, <1>2, TypeCorrect, PTL DEF Spec

\* Where one caller flushes the table, its snapshot never goes stale, and each
\* row is tried at most MaxAttempts times and once more per exit of the process.
THEOREM OneCallerBudget ==
    ASSUME OneCaller
    PROVE  Spec => []AttemptBudget
<1>1. TypeOK /\ OneFlushInv => AttemptBudget
  <2>1. SUFFICES ASSUME TypeOK, OneFlushInv, NEW i \in Ids
                 PROVE  tries[i] <= MaxAttempts + exits
    BY DEF AttemptBudget
  <2>2. /\ tries[i] <= rows[i].attempts + exits /\ rows[i].attempts <= MaxAttempts
        /\ tries[i] \in Nat /\ rows[i].attempts \in Nat
        /\ exits \in Nat /\ MaxAttempts \in Nat
    BY <2>1, QueueAssumption DEF OneFlushInv, HopsCounted, TypeOK, Row, QueueAssumption
  <2>3. QED
    BY <2>2
<1>2. QED
  BY <1>1, TypeCorrect, OneFlushStands, PTL

\* Where one caller flushes the table, a row that was delivered or given up is
\* never written again.  With two callers this fails: the later of two overlapping
\* flushes writes over the other's outcome.
THEOREM OneCallerOutcome ==
    ASSUME OneCaller
    PROVE  Spec => OutcomeIsFinal
<1> DEFINE Final == \A i \in Ids :
              rows[i].state \in {"delivered", "dead"} => rows'[i] = rows[i]
<1>1. TypeOK /\ OneFlushInv /\ [Next]_vars => [Final]_vars
  <2> USE DEF tableVars, callVars, historyVars
  <2>1. SUFFICES ASSUME TypeOK, OneFlushInv, [Next]_vars PROVE Final \/ UNCHANGED vars
    OBVIOUS
  <2>2. ASSUME NEW p \in Peers, NEW local \in BOOLEAN, Enqueue(p, local)
        PROVE  Final
    <3>1. used + 1 \in Ids /\ used + 1 > used
      BY <2>1, <2>2, QueueAssumption DEF Enqueue, TypeOK, Ids, QueueAssumption
    <3>2. rows[used + 1].state = "none"
      BY <2>1, <3>1 DEF OneFlushInv, HopsCounted
    <3>3. QED
      BY <2>1, <2>2, <3>2 DEF Enqueue, TypeOK
  <2>3. ASSUME NEW c \in Callers, SettleDelivered(c)
        PROVE  Final
    BY <2>1, <2>3, DeliveredRow, SettledRowIsFresh DEF SettleDelivered
  <2>4. ASSUME NEW c \in Callers, NEW delay, NEW arrived, SettleFailed(c, delay, arrived)
        PROVE  Final
    BY <2>1, <2>4, FailedHopRow, SettledRowIsFresh DEF SettleFailed
  <2>5. ASSUME rows' = rows
        PROVE  Final
    BY <2>5
  <2>6. QED
    BY <2>1, <2>2, <2>3, <2>4, <2>5
    DEF Next, Settle, StopReturns, Kill, Exit, BeginFlush, BeginDrain, NextPass,
        TickReturns, DrainReturns, RunStops, Advance
<1>2. QED
  BY <1>1, TypeCorrect, OneFlushStands, PTL DEF Spec, OutcomeIsFinal

------------------------------------------------------------------------------
(* What the chain reports of dead letters, and the contract *)

\* A row is reported once at most, dead and of an agent; a row that a report
\* still holds is dead and not reported yet.
ReportsFit ==
    \A i \in Ids :
        /\ errors[i] \in {0, 1}
        /\ errors[i] = 1 => rows[i].state = "dead" /\ rows[i].local
        /\ \A c \in Callers : i \in gone[c] => rows[i].state = "dead" /\ errors[i] = 0

\* A hop that settles leaves its row out of every report, but for the one of the
\* flush that gave it up.
LEMMA SettleReports ==
    ASSUME TypeOK, OneFlushInv, ReportsFit, NEW c \in Callers, InFlight(c)
    PROVE  /\ errors[Current(c)] = 0
           /\ \A d \in Callers : Current(c) \notin gone[d]
<1>1. Current(c) \in Ids /\ rows[Current(c)].state = "pending"
  BY SettledRowIsFresh
<1>2. QED
  BY <1>1 DEF ReportsFit

\* recordDeadLetters of a whole report.
LEMMA RecordKeepsReports ==
    ASSUME OneCaller, TypeOK, ReportsFit, NEW c \in Callers,
           RecordDeadLetters(gone[c]), Forget(c), UNCHANGED rows
    PROVE  ReportsFit'
<1>1. \A i \in Ids : errors'[i] = IF i \in Recordable(gone[c]) THEN errors[i] + 1 ELSE errors[i]
  BY DEF RecordDeadLetters
<1>2. \A i \in Recordable(gone[c]) :
        i \in Ids => errors[i] = 0 /\ rows[i].state = "dead" /\ rows[i].local
  BY DEF Recordable, ReportsFit
<1>3. \A i \in Ids : errors'[i] \in {0, 1}
                    /\ (errors'[i] = 1 => rows[i].state = "dead" /\ rows[i].local)
  BY <1>1, <1>2 DEF ReportsFit
<1>4. \A d \in Callers : gone'[d] = {}
  BY DEF Forget, TypeOK, OneCaller
<1>5. QED
  BY <1>3, <1>4 DEF ReportsFit

LEMMA NextReports ==
    ASSUME OneCaller, TypeOK, OneFlushInv, ReportsFit, [Next]_vars
    PROVE  ReportsFit'
<1> USE DEF tableVars, callVars, historyVars
<1>1. ASSUME NEW p \in Peers, NEW local \in BOOLEAN, Enqueue(p, local)
      PROVE  ReportsFit'
  <2>1. used + 1 \in Ids /\ used + 1 > used
    BY <1>1, QueueAssumption DEF Enqueue, TypeOK, Ids, QueueAssumption
  <2>2. rows[used + 1].state = "none"
    BY <2>1 DEF OneFlushInv, HopsCounted
  <2>3. \A i \in Ids \ {used + 1} : rows'[i] = rows[i]
    BY <1>1, <2>1 DEF Enqueue, TypeOK
  <2>4. QED
    BY <1>1, <2>2, <2>3 DEF Enqueue, ReportsFit
<1>2. ASSUME NEW c \in Callers, SettleDelivered(c)
      PROVE  ReportsFit'
  <2>1. \A i \in Ids \ {Current(c)} : rows'[i] = rows[i]
    BY <1>2, DeliveredRow
  <2>2. errors[Current(c)] = 0 /\ \A d \in Callers : Current(c) \notin gone[d]
    BY <1>2, SettleReports DEF SettleDelivered
  <2>3. UNCHANGED <<errors, gone>>
    BY <1>2 DEF SettleDelivered
  <2>4. QED
    BY <2>1, <2>2, <2>3 DEF ReportsFit
<1>3. ASSUME NEW c \in Callers, NEW delay, NEW arrived, SettleFailed(c, delay, arrived)
      PROVE  ReportsFit'
  <2>1. /\ \A i \in Ids \ {Current(c)} : rows'[i] = rows[i]
        /\ rows'[Current(c)] = FailedRow(c, delay)
    BY <1>3, FailedHopRow, SettledRowIsFresh DEF SettleFailed, TypeOK
  <2>2. errors[Current(c)] = 0 /\ \A d \in Callers : Current(c) \notin gone[d]
    BY <1>3, SettleReports DEF SettleFailed
  <2>3. AttemptsNow(c) >= MaxAttempts => FailedRow(c, delay).state = "dead"
    BY <1>3, SettledRowIsFresh DEF SettleFailed, FailedRow, Row
  <2>4. \A d \in Callers : \A i \in gone'[d] :
          i \in gone[d] \/ (i = Current(c) /\ AttemptsNow(c) >= MaxAttempts)
    BY <1>3 DEF SettleFailed, TypeOK
  <2>5. QED
    BY <1>3, <2>1, <2>2, <2>3, <2>4 DEF SettleFailed, ReportsFit
<1>4. ASSUME NEW c \in Callers, TickReturns(c)
      PROVE  ReportsFit'
  BY <1>4, RecordKeepsReports DEF TickReturns
<1>5. ASSUME NEW c \in Callers, DrainReturns(c)
      PROVE  ReportsFit'
  <2>1. CASE c \in Runs
    BY <1>5, <2>1, RecordKeepsReports DEF DrainReturns
  <2>2. CASE c \notin Runs
    <3>1. UNCHANGED <<rows, errors>> /\ \A d \in Callers : gone'[d] = {}
      BY <1>5, <2>2 DEF DrainReturns, Forget, TypeOK, OneCaller
    <3>2. QED
      BY <3>1 DEF ReportsFit
  <2>3. QED
    BY <2>1, <2>2
<1>6. ASSUME Exit
      PROVE  ReportsFit'
  BY <1>6 DEF Exit, ReportsFit
<1>7. ASSUME UNCHANGED <<rows, gone, errors>>
      PROVE  ReportsFit'
  BY <1>7 DEF ReportsFit
<1>8. QED
  BY <1>1, <1>2, <1>3, <1>4, <1>5, <1>6, <1>7
  DEF Next, Settle, StopReturns, Kill, BeginFlush, BeginDrain, NextPass,
      RunStops, Advance, vars

LEMMA ReportsStand ==
    ASSUME OneCaller
    PROVE  Spec => []ReportsFit
<1>1. Init => ReportsFit
  BY DEF Init, ReportsFit
<1>2. TypeOK /\ OneFlushInv /\ ReportsFit /\ [Next]_vars => ReportsFit'
  BY NextReports
<1>3. QED
  BY <1>1, <1>2, TypeCorrect, OneFlushStands, PTL DEF Spec

\* An exit catches no hop or one, and the peer took that one in or did not.
LEMMA ExitLands ==
    ASSUME OneCaller, TypeOK, Exit
    PROVE  \/ landed' = landed
           \/ \E c \in Callers : InFlight(c) /\ landed' = [landed EXCEPT ![Current(c)] = @ + 1]
<1> DEFINE flying == {c \in Callers : InFlight(c)}
           Caught(S, i) == {c \in S : Current(c) = i}
<1>1. PICK S \in SUBSET flying :
        landed' = [i \in Ids |-> landed[i] + Cardinality(Caught(S, i))]
  BY DEF Exit
<1>2. landed \in [Ids -> Nat]
  BY DEF TypeOK
<1>3. CASE S = {}
  <2>1. \A i \in Ids : Cardinality(Caught(S, i)) = 0
    BY <1>3, FS_EmptySet
  <2>2. QED
    BY <1>1, <1>2, <2>1
<1>4. ASSUME NEW c \in S
      PROVE  InFlight(c) /\ landed' = [landed EXCEPT ![Current(c)] = @ + 1]
  <2>1. c \in Callers /\ InFlight(c) /\ S = {c}
    BY <1>4 DEF OneCaller
  <2>2. PICK k \in Ids : k = Current(c)
    BY <2>1, CurrentInBatch
  <2>3. Caught(S, k) = {c} /\ \A i \in Ids \ {k} : Caught(S, i) = {}
    BY <2>1, <2>2
  <2>4. Cardinality(Caught(S, k)) = 1 /\ \A i \in Ids \ {k} : Cardinality(Caught(S, i)) = 0
    BY <2>3, FS_EmptySet, FS_Singleton
  <2>5. \A i \in Ids : landed[i] \in Nat /\ landed'[i] = landed[i] + Cardinality(Caught(S, i))
    BY <1>1, <1>2
  <2> HIDE DEF Caught
  <2>6. landed'[k] = landed[k] + 1 /\ \A i \in Ids \ {k} : landed'[i] = landed[i]
    BY <2>4, <2>5
  <2>7. landed' = [landed EXCEPT ![k] = @ + 1]
    <3>1. landed' = [i \in Ids |-> landed'[i]]
      BY <1>1
    <3>2. QED
      BY <1>2, <2>6, <3>1
  <2>8. QED
    BY <2>1, <2>2, <2>7
<1>5. QED
  BY <1>3, <1>4

\* Every step of the queue is a step of the contract, or changes nothing it shows.
LEMMA StepMaps ==
    ASSUME OneCaller, TypeOK, OneFlushInv, ReportsFit, [Next]_vars
    PROVE  [Delivery!ContractNext]_(Delivery!contractVars)
<1> USE DEF tableVars, callVars, historyVars
<1> DEFINE status == [i \in Ids |-> rows[i].state]
<1>a. ASSUME status' = status, landed' = landed, errors' = errors
      PROVE  [Delivery!ContractNext]_(Delivery!contractVars)
  BY <1>a DEF Delivery!contractVars
<1>b. ASSUME NEW i \in Ids,
             Delivery!Submit(i) \/ Delivery!Arrive(i) \/ Delivery!Deliver(i) \/ Delivery!GiveUp(i)
      PROVE  [Delivery!ContractNext]_(Delivery!contractVars)
  <2>1. Delivery!ContractNext
    BY <1>b, Zenon DEF Delivery!ContractNext
  <2>2. QED
    BY <2>1
<1>1. ASSUME NEW p \in Peers, NEW local \in BOOLEAN, Enqueue(p, local)
      PROVE  [Delivery!ContractNext]_(Delivery!contractVars)
  <2>1. used + 1 \in Ids /\ used + 1 > used
    BY <1>1, QueueAssumption DEF Enqueue, TypeOK, Ids, QueueAssumption
  <2>2. status[used + 1] = "none"
    BY <2>1 DEF OneFlushInv, HopsCounted
  <2>3. status' = [status EXCEPT ![used + 1] = "pending"]
    BY <1>1, <2>1 DEF Enqueue, TypeOK
  <2>4. PICK j \in Ids : j = used + 1
    BY <2>1
  <2>5. Delivery!Submit(j)
    BY <1>1, <2>2, <2>3, <2>4 DEF Enqueue, Delivery!Submit
  <2>6. QED
    BY <1>b, <2>5
<1>2. ASSUME NEW c \in Callers, SettleDelivered(c)
      PROVE  [Delivery!ContractNext]_(Delivery!contractVars)
  <2>1. Current(c) \in Ids /\ status[Current(c)] = "pending"
    BY <1>2, SettledRowIsFresh DEF SettleDelivered
  <2>2. status' = [status EXCEPT ![Current(c)] = "delivered"]
    BY <1>2, <2>1, DeliveredRow
  <2>3. PICK j \in Ids : j = Current(c)
    BY <2>1
  <2>4. landed' = [landed EXCEPT ![j] = @ + 1] /\ errors' = errors
    BY <1>2, <2>3 DEF SettleDelivered
  <2>5. Delivery!Deliver(j)
    BY <2>1, <2>2, <2>3, <2>4 DEF Delivery!Deliver
  <2>6. QED
    BY <1>b, <2>5
<1>3. ASSUME NEW c \in Callers, NEW delay, NEW arrived, SettleFailed(c, delay, arrived)
      PROVE  [Delivery!ContractNext]_(Delivery!contractVars)
  <2>1. Current(c) \in Ids /\ status[Current(c)] = "pending"
    BY <1>3, SettledRowIsFresh DEF SettleFailed
  <2>2. /\ \A i \in Ids \ {Current(c)} : rows'[i] = rows[i]
        /\ rows'[Current(c)].state \in {"pending", "dead"}
    BY <1>3, FailedHopRow DEF SettleFailed
  <2>3. landed' \in {landed, [landed EXCEPT ![Current(c)] = @ + 1]} /\ errors' = errors
    <3>1. landed' = [landed EXCEPT ![Current(c)] = IF arrived THEN @ + 1 ELSE @]
      BY <1>3 DEF SettleFailed
    <3>2. QED
      BY <1>3, <3>1 DEF SettleFailed, TypeOK
  <2>j. PICK j \in Ids : j = Current(c)
    BY <2>1
  <2>4. CASE rows'[Current(c)].state = "dead"
    <3>1. status' = [status EXCEPT ![Current(c)] = "dead"]
      BY <2>1, <2>2, <2>4
    <3>2. Delivery!GiveUp(j)
      BY <2>1, <2>3, <2>j, <3>1 DEF Delivery!GiveUp
    <3>3. QED
      BY <1>b, <3>2
  <2>5. CASE rows'[Current(c)].state = "pending"
    <3>1. status' = status
      BY <2>1, <2>2, <2>5
    <3>2. CASE landed' = landed
      BY <1>a, <2>3, <3>1, <3>2
    <3>3. CASE landed' = [landed EXCEPT ![Current(c)] = @ + 1]
      <4>1. Delivery!Arrive(j)
        BY <2>1, <2>3, <2>j, <3>1, <3>3 DEF Delivery!Arrive
      <4>2. QED
        BY <1>b, <4>1
    <3>4. QED
      BY <2>3, <3>2, <3>3
  <2>6. QED
    BY <2>2, <2>4, <2>5
<1>4. ASSUME NEW c \in Callers, RecordDeadLetters(gone[c]), UNCHANGED <<rows, landed>>
      PROVE  [Delivery!ContractNext]_(Delivery!contractVars)
  <2>1. PICK S \in SUBSET Ids : S = Recordable(gone[c])
    BY DEF Recordable, TypeOK
  <2>2. \A i \in S : rows[i].state = "dead" /\ errors[i] = 0
    BY <2>1 DEF Recordable, ReportsFit
  <2>3. errors' = [i \in Ids |-> IF i \in S THEN 1 ELSE errors[i]]
    <3>1. errors' = [i \in Ids |-> IF i \in S THEN errors[i] + 1 ELSE errors[i]]
      BY <1>4, <2>1 DEF RecordDeadLetters
    <3>2. QED
      BY <2>2, <3>1
  <2>4. status' = status /\ landed' = landed
    BY <1>4
  <2>5. Delivery!Report(S)
    BY <2>2, <2>3, <2>4 DEF Delivery!Report
  <2>6. QED
    BY <2>5 DEF Delivery!ContractNext
<1>5. ASSUME NEW c \in Callers, DrainReturns(c)
      PROVE  [Delivery!ContractNext]_(Delivery!contractVars)
  <2>1. CASE c \in Runs
    BY <1>4, <1>5, <2>1 DEF DrainReturns
  <2>2. CASE c \notin Runs
    <3>1. rows' = rows /\ landed' = landed /\ errors' = errors
      BY <1>5, <2>2 DEF DrainReturns
    <3>2. QED
      BY <1>a, <3>1
  <2>3. QED
    BY <2>1, <2>2
<1>6. ASSUME Exit
      PROVE  [Delivery!ContractNext]_(Delivery!contractVars)
  <2>1. rows' = rows /\ errors' = errors
    BY <1>6 DEF Exit
  <2>2. CASE landed' = landed
    BY <1>a, <2>1, <2>2
  <2>3. ASSUME NEW c \in Callers, InFlight(c), landed' = [landed EXCEPT ![Current(c)] = @ + 1]
        PROVE  [Delivery!ContractNext]_(Delivery!contractVars)
    <3>1. Current(c) \in Ids /\ status[Current(c)] = "pending"
      BY <2>3, SettledRowIsFresh
    <3>2. status' = status
      BY <2>1
    <3>3. PICK j \in Ids : j = Current(c)
      BY <3>1
    <3>4. Delivery!Arrive(j)
      BY <2>1, <2>3, <3>1, <3>2, <3>3 DEF Delivery!Arrive
    <3>5. QED
      BY <1>b, <3>4
  <2>4. QED
    BY <1>6, <2>2, <2>3, ExitLands
<1>7. ASSUME UNCHANGED <<rows, landed, errors>>
      PROVE  [Delivery!ContractNext]_(Delivery!contractVars)
  BY <1>a, <1>7
<1>8. QED
  BY <1>1, <1>2, <1>3, <1>4, <1>5, <1>6, <1>7
  DEF Next, Settle, StopReturns, Kill, BeginFlush, BeginDrain, NextPass,
      TickReturns, RunStops, Advance, vars

\* Where one caller flushes the table, the queue implements what ReliableDelivery
\* promises: retries, schedules, passes and exits of the process are invisible,
\* and an item is delivered or given up once, and reported once at most.
THEOREM QueueImplementsContract ==
    ASSUME OneCaller
    PROVE  Spec => DeliveryContract
<1>1. Init => Delivery!ContractInit
  BY DEF Init, NoRow, Delivery!ContractInit
<1>2. TypeOK /\ OneFlushInv /\ ReportsFit /\ [Next]_vars
         => [Delivery!ContractNext]_(Delivery!contractVars)
  BY StepMaps
<1>3. QED
  BY <1>1, <1>2, TypeCorrect, OneFlushStands, ReportsStand, PTL
  DEF Spec, DeliveryContract, Delivery!Contract

\* While nothing ends the process and no hub drains the table, no report is lost.
Undisturbed == Hubs = {} /\ Stops = {} /\ MaxKills = 0

LEMMA NextSurfaced ==
    ASSUME OneCaller, Undisturbed, TypeOK, OneFlushInv, ReportsFit, Surfaced, [Next]_vars
    PROVE  Surfaced'
<1> USE DEF tableVars, callVars, historyVars
<1> DEFINE Told(i) == rows[i].state = "dead" /\ rows[i].local
                         /\ (\A c \in Callers : i \notin gone[c]) => errors[i] = 1
<1>a. ReportsFit'
  BY NextReports
<1>b. SUFFICES \A i \in Ids : Told(i)'
  BY <1>a DEF ReportsFit, Surfaced
<1>c. \A i \in Ids : Told(i)
  BY DEF Surfaced
<1>1. ASSUME NEW p \in Peers, NEW local \in BOOLEAN, Enqueue(p, local)
      PROVE  \A i \in Ids : Told(i)'
  <2>1. \A i \in Ids \ {used + 1} : rows'[i] = rows[i]
    BY <1>1 DEF Enqueue, TypeOK
  <2>2. used + 1 \in Ids => rows'[used + 1].state = "pending"
    BY <1>1 DEF Enqueue, TypeOK
  <2>3. UNCHANGED <<errors, gone>>
    BY <1>1 DEF Enqueue
  <2>4. QED
    BY <1>c, <2>1, <2>2, <2>3
<1>2. ASSUME NEW c \in Callers, SettleDelivered(c)
      PROVE  \A i \in Ids : Told(i)'
  <2>1. /\ rows'[Current(c)].state = "delivered"
        /\ \A i \in Ids \ {Current(c)} : rows'[i] = rows[i]
    BY <1>2, DeliveredRow
  <2>2. UNCHANGED <<errors, gone>>
    BY <1>2 DEF SettleDelivered
  <2>3. QED
    BY <1>c, <2>1, <2>2
<1>3. ASSUME NEW c \in Callers, NEW delay, NEW arrived, SettleFailed(c, delay, arrived)
      PROVE  \A i \in Ids : Told(i)'
  <2>1. /\ \A i \in Ids \ {Current(c)} : rows'[i] = rows[i]
        /\ rows'[Current(c)].state = "pending" => AttemptsNow(c) < MaxAttempts
        /\ rows'[Current(c)].state \in {"pending", "dead"}
    BY <1>3, FailedHopRow
  <2>2. rows'[Current(c)].state = "dead" => AttemptsNow(c) >= MaxAttempts
    BY <1>3, SettledRowIsFresh DEF SettleFailed, FailedRow, Row, TypeOK
  <2>3. /\ errors' = errors
        /\ \A d \in Callers : gone[d] \subseteq gone'[d]
        /\ AttemptsNow(c) >= MaxAttempts => Current(c) \in gone'[c]
    BY <1>3 DEF SettleFailed, TypeOK
  <2>4. \A i \in Ids \ {Current(c)} : Told(i)'
    <3>1. \A d \in Callers : gone'[d] \subseteq gone[d] \cup {Current(c)}
      BY <1>3 DEF SettleFailed, TypeOK
    <3>2. QED
      BY <1>c, <2>1, <2>3, <3>1
  <2>5. \A i \in Ids : i = Current(c) => Told(i)'
    BY <2>1, <2>2, <2>3
  <2>6. QED
    BY <2>4, <2>5
<1>4. ASSUME NEW c \in Callers, RecordDeadLetters(gone[c]), UNCHANGED rows
      PROVE  \A i \in Ids : Told(i)'
  <2>1. \A i \in Ids : errors[i] \in {0, 1}
    BY DEF ReportsFit
  <2>2. \A i \in Ids : errors'[i] = IF i \in Recordable(gone[c]) THEN errors[i] + 1 ELSE errors[i]
    BY <1>4 DEF RecordDeadLetters
  <2>3. \A i \in gone[c] : i \in Ids => errors[i] = 0
    BY DEF ReportsFit
  <2>4. SUFFICES ASSUME NEW i \in Ids, rows[i].state = "dead", rows[i].local
                 PROVE  errors'[i] = 1
    BY <1>4
  <2>5. CASE i \in gone[c]
    BY <2>2, <2>3, <2>4, <2>5 DEF Recordable
  <2>6. CASE i \notin gone[c]
    <3>1. errors[i] = 1
      BY <1>c, <2>4, <2>6 DEF OneCaller
    <3>2. QED
      BY <2>2, <2>6, <3>1 DEF Recordable
  <2>7. QED
    BY <2>5, <2>6
<1>5. ASSUME UNCHANGED <<rows, gone, errors>>
      PROVE  \A i \in Ids : Told(i)'
  BY <1>5, <1>c
<1>6. ~Kill /\ \A c \in Callers : ~StopReturns(c)
  BY DEF Undisturbed, Kill, StopReturns, TypeOK
<1>7. ASSUME NEW c \in Callers, DrainReturns(c)
      PROVE  RecordDeadLetters(gone[c]) /\ UNCHANGED rows
  BY <1>7 DEF DrainReturns, Drainers, Undisturbed
<1>8. QED
  BY <1>1, <1>2, <1>3, <1>4, <1>5, <1>6, <1>7
  DEF Next, Settle, BeginFlush, BeginDrain, NextPass,
      TickReturns, RunStops, Advance, vars

\* Where one loop or run flushes the table and nothing ends the process, an
\* agent's dead letter is one Error on the chain as soon as the flush that gave
\* it up has returned.  A kill before the return loses the report, and a hub's
\* drain discards it.
THEOREM DeadLettersSurface ==
    ASSUME OneCaller, Undisturbed
    PROVE  Spec => []Surfaced
<1>1. Init => Surfaced
  BY DEF Init, Surfaced, NoRow
<1>2. TypeOK /\ OneFlushInv /\ ReportsFit /\ Surfaced /\ [Next]_vars => Surfaced'
  BY NextSurfaced
<1>3. QED
  BY <1>1, <1>2, TypeCorrect, OneFlushStands, ReportsStand, PTL DEF Spec

------------------------------------------------------------------------------
(* The schedule: turns *)

\* After r full rounds of a hub's peers, the first c of them have had one turn more;
\* a turn was an offer, unless it was one of the th that threw.
TurnsOf(r, c, p) == IF p <= c THEN r + 1 ELSE r
InTurn(n, c, of, th) ==
    /\ c \in 0..(n - 1) /\ th \in Nat /\ of \in [1..n -> Nat]
    /\ \E r \in Nat : \A p \in 1..n : of[p] <= TurnsOf(r, c, p) /\ TurnsOf(r, c, p) <= of[p] + th
TurnsInv ==
    /\ DOMAIN cursor = HubsRun /\ DOMAIN offers = HubsRun /\ DOMAIN thrown = HubsRun
    /\ \A h \in HubsRun : InTurn(Len(PeersOf[h]), cursor[h], offers[h], thrown[h])

LEMMA Modulo ==
    ASSUME NEW n \in Nat \ {0}, NEW c \in 0..(n - 1)
    PROVE  c % n = c /\ (c + 1) % n = IF c + 1 = n THEN 0 ELSE c + 1
<1>1. c % n = c
    BY Z3
<1>2. (c + 1) % n = IF c + 1 = n THEN 0 ELSE c + 1
    BY Z3
<1> QED BY <1>1, <1>2

LEMMA TurnTaken ==
    ASSUME NEW n \in Nat \ {0}, NEW c, NEW of, NEW th, InTurn(n, c, of, th),
           NEW of2, NEW th2,
           \/ th2 \in {th, th + 1} /\ of2 = [p \in 1..n |-> IF p = (c % n) + 1 THEN of[p] + 1 ELSE of[p]]
           \/ th2 = th + 1 /\ of2 = of
    PROVE  InTurn(n, (c + 1) % n, of2, th2)
<1> DEFINE c2 == IF c + 1 = n THEN 0 ELSE c + 1
<1>1. /\ c \in 0..(n - 1) /\ th \in Nat /\ of \in [1..n -> Nat] /\ th2 \in Nat /\ th <= th2 /\ th2 <= th + 1
    <2>1. c \in 0..(n - 1) /\ th \in Nat /\ of \in [1..n -> Nat]
        BY DEF InTurn
    <2>2. th2 = th \/ th2 = th + 1
        OBVIOUS
    <2>3. th2 \in Nat /\ th <= th2 /\ th2 <= th + 1
        BY <2>1, <2>2
    <2> QED BY <2>1, <2>3
<1>0. c % n = c /\ (c + 1) % n = c2
    BY <1>1, Modulo
<1>2. PICK r \in Nat : \A p \in 1..n : of[p] <= TurnsOf(r, c, p) /\ TurnsOf(r, c, p) <= of[p] + th
    BY DEF InTurn
<1>3. of2 \in [1..n -> Nat] /\ \A p \in 1..n : p # c + 1 => of2[p] = of[p]
    BY <1>0, <1>1
<1>4. c + 1 \in 1..n /\ c2 \in 0..(n - 1)
    BY <1>1
<1>5. \/ of2[c + 1] = of[c + 1] + 1
      \/ of2[c + 1] = of[c + 1] /\ th2 = th + 1
    BY <1>0, <1>1, <1>4
<1> DEFINE q == IF c + 1 = n THEN r + 1 ELSE r
<1>6. ASSUME NEW p \in 1..n, p # c + 1 PROVE TurnsOf(q, c2, p) = TurnsOf(r, c, p)
    BY <1>1, <1>6 DEF TurnsOf
<1>7. TurnsOf(q, c2, c + 1) = TurnsOf(r, c, c + 1) + 1
    BY <1>1 DEF TurnsOf
<1>8. \A p \in 1..n : TurnsOf(r, c, p) \in Nat
    BY <1>1 DEF TurnsOf
<1> HIDE DEF c2
<1>9. q \in Nat
    OBVIOUS
<1> HIDE DEF q
<1>10. ASSUME NEW p \in 1..n PROVE of2[p] <= TurnsOf(q, c2, p) /\ TurnsOf(q, c2, p) <= of2[p] + th2
    <2>1. of[p] \in Nat /\ of[p] <= TurnsOf(r, c, p) /\ TurnsOf(r, c, p) <= of[p] + th /\ TurnsOf(r, c, p) \in Nat
        BY <1>1, <1>2, <1>8
    <2>2. CASE p # c + 1
        BY <1>1, <1>3, <1>6, <2>1, <2>2
    <2>3. CASE p = c + 1
        <3>1. of2[p] = of[p] + 1 \/ (of2[p] = of[p] /\ th2 = th + 1)
            BY <1>5, <2>3
        <3>2. TurnsOf(q, c2, p) = TurnsOf(r, c, p) + 1
            BY <1>7, <2>3
        <3>3. th \in Nat /\ th2 \in Nat /\ th <= th2
            BY <1>1
        <3> DEFINE T == TurnsOf(r, c, p)
                   o == of[p]
        <3>4. o \in Nat /\ T \in Nat /\ o <= T /\ T <= o + th
            BY <2>1
        <3> HIDE DEF T, o
        <3>5. o + 1 <= T + 1 /\ T + 1 <= o + 1 + th2
            BY <3>3, <3>4
        <3>6. th2 = th + 1 => o <= T + 1 /\ T + 1 <= o + th2
            BY <3>3, <3>4
        <3> QED BY <3>1, <3>2, <3>5, <3>6 DEF T, o
    <2> QED BY <2>2, <2>3
<1> QED BY <1>0, <1>1, <1>3, <1>4, <1>9, <1>10 DEF InTurn

\* Nothing happens to a hub's turns in a tick, or it takes one.
LEMMA BeginTickTurns ==
    ASSUME TurnsInv, NEW l, BeginTick(l) PROVE TurnsInv'
<1>1. ASSUME NEW h \in HubsRun PROVE Len(PeersOf[h]) \in Nat \ {0} /\ DOMAIN PeersOf[h] = 1..Len(PeersOf[h])
    BY ResidentAssumption DEF ResidentAssumption
<1> DEFINE N == Len(Hosted)
           Turned(h, m) == [p \in 1..Len(PeersOf[h]) |->
                IF h \in FirstHubs(m) /\ p = PeerOf(h) THEN offers[h][p] + 1 ELSE offers[h][p]]
<1>2. ASSUME NEW h \in HubsRun
      PROVE  /\ InTurn(Len(PeersOf[h]), cursor[h], offers[h], thrown[h])
             /\ \A m : h \notin FirstHubs(m) => Turned(h, m) = offers[h]
             /\ PeerOf(h) = (cursor[h] % Len(PeersOf[h])) + 1
    <2>1. InTurn(Len(PeersOf[h]), cursor[h], offers[h], thrown[h])
        BY DEF TurnsInv
    <2>2. offers[h] = [p \in 1..Len(PeersOf[h]) |-> offers[h][p]]
        BY <2>1 DEF InTurn
    <2> QED BY <2>1, <2>2 DEF PeerOf
<1>3. ASSUME NEW n, NEW m, Turns(n, m)
      PROVE  /\ DOMAIN cursor' = HubsRun /\ DOMAIN offers' = HubsRun
             /\ \A h \in HubsRun :
                  /\ cursor'[h] = IF h \in FirstHubs(n) THEN (cursor[h] + 1) % Len(PeersOf[h]) ELSE cursor[h]
                  /\ offers'[h] = Turned(h, m)
    BY <1>1, <1>3 DEF Turns
<1> HIDE DEF Turned
<1>4. CASE UNCHANGED offerVars
    BY <1>4 DEF offerVars, TurnsInv
<1>5. CASE Turns(N, N) /\ UNCHANGED thrown
    <2>1. ASSUME NEW h \in HubsRun PROVE InTurn(Len(PeersOf[h]), cursor'[h], offers'[h], thrown'[h])
        <3>1. CASE h \in FirstHubs(N)
            <4>1. offers'[h] = [p \in 1..Len(PeersOf[h]) |->
                        IF p = (cursor[h] % Len(PeersOf[h])) + 1 THEN offers[h][p] + 1 ELSE offers[h][p]]
                BY <1>2, <1>3, <1>5, <3>1 DEF Turned
            <4>2. cursor'[h] = (cursor[h] + 1) % Len(PeersOf[h]) /\ thrown'[h] = thrown[h]
                BY <1>3, <1>5, <3>1
            <4> QED BY <1>1, <1>2, <4>1, <4>2, TurnTaken
        <3>2. CASE h \notin FirstHubs(N)
            BY <1>2, <1>3, <1>5, <3>2
        <3> QED BY <3>1, <3>2
    <2> QED BY <1>3, <1>5, <2>1 DEF TurnsInv
<1>6. ASSUME NEW n \in DOMAIN Hosted, Turns(n, n - 1),
             thrown' = [thrown EXCEPT ![Hosted[n]] = thrown[Hosted[n]] + 1]
      PROVE  TurnsInv'
    <2>0. n \in Nat /\ n >= 1 /\ DOMAIN thrown = HubsRun
        BY ResidentAssumption DEF ResidentAssumption, TurnsInv
    <2>1. ASSUME NEW h \in HubsRun PROVE InTurn(Len(PeersOf[h]), cursor'[h], offers'[h], thrown'[h])
        <3>1. h \in FirstHubs(n) <=> (h \in FirstHubs(n - 1) \/ h = Hosted[n])
            BY <2>0 DEF FirstHubs
        <3>2. h # Hosted[n] => thrown'[h] = thrown[h]
            BY <1>6, <2>0
        <3>3. h = Hosted[n] => thrown'[h] = thrown[h] + 1
            BY <1>6, <2>0
        <3>4. CASE h \in FirstHubs(n - 1)
            <4>1. offers'[h] = [p \in 1..Len(PeersOf[h]) |->
                        IF p = (cursor[h] % Len(PeersOf[h])) + 1 THEN offers[h][p] + 1 ELSE offers[h][p]]
                BY <1>2, <1>3, <1>6, <3>4 DEF Turned
            <4>2. cursor'[h] = (cursor[h] + 1) % Len(PeersOf[h]) /\ thrown'[h] \in {thrown[h], thrown[h] + 1}
                BY <1>3, <1>6, <3>1, <3>2, <3>3, <3>4
            <4> QED BY <1>1, <1>2, <4>1, <4>2, TurnTaken
        <3>5. CASE h \notin FirstHubs(n - 1) /\ h = Hosted[n]
            <4>1. offers'[h] = offers[h] /\ thrown'[h] = thrown[h] + 1
                BY <1>2, <1>3, <1>6, <3>3, <3>5
            <4>2. cursor'[h] = (cursor[h] + 1) % Len(PeersOf[h])
                BY <1>3, <1>6, <3>1, <3>5
            <4> QED BY <1>1, <1>2, <4>1, <4>2, TurnTaken
        <3>6. CASE h \notin FirstHubs(n - 1) /\ h # Hosted[n]
            BY <1>2, <1>3, <1>6, <3>1, <3>2, <3>6
        <3> QED BY <3>4, <3>5, <3>6
    <2> QED BY <1>3, <1>6, <2>0, <2>1 DEF TurnsInv
<1> QED BY <1>4, <1>5, <1>6 DEF BeginTick

LEMMA TurnsStart == ResidentInit => TurnsInv
<1> SUFFICES ASSUME ResidentInit, NEW h \in HubsRun
             PROVE  InTurn(Len(PeersOf[h]), cursor[h], offers[h], thrown[h])
    BY DEF ResidentInit, TurnsInv
<1> DEFINE n == Len(PeersOf[h])
<1>1. n \in Nat \ {0} /\ DOMAIN PeersOf[h] = 1..n
    BY ResidentAssumption DEF ResidentAssumption
<1>2. cursor[h] = 0 /\ offers[h] = [p \in 1..n |-> 0] /\ thrown[h] = 0
    BY <1>1 DEF ResidentInit
<1> HIDE DEF n
<1>3. \A p \in 1..n : offers[h][p] <= TurnsOf(0, 0, p) /\ TurnsOf(0, 0, p) <= offers[h][p] + 0
    BY <1>2 DEF TurnsOf
<1>4. /\ cursor[h] \in 0..(n - 1) /\ offers[h] \in [1..n -> Nat] /\ 0 \in Nat
    BY <1>1, <1>2
<1>5. \E r \in Nat : \A p \in 1..n :
            offers[h][p] <= TurnsOf(r, cursor[h], p) /\ TurnsOf(r, cursor[h], p) <= offers[h][p] + thrown[h]
    BY <1>2, <1>3
<1>6. InTurn(n, cursor[h], offers[h], thrown[h])
    BY <1>2, <1>4, <1>5 DEF InTurn
<1> QED BY <1>6 DEF n

LEMMA InTurns == TurnsInv => PeersTakeTurns
<1> SUFFICES ASSUME TurnsInv, NEW h \in HubsRun, NEW p \in DOMAIN PeersOf[h], NEW q \in DOMAIN PeersOf[h]
             PROVE  offers[h][p] <= offers[h][q] + 1 + thrown[h]
    BY DEF PeersTakeTurns
<1>1. DOMAIN PeersOf[h] = 1..Len(PeersOf[h]) /\ Len(PeersOf[h]) \in Nat
    BY ResidentAssumption DEF ResidentAssumption
<1>2. InTurn(Len(PeersOf[h]), cursor[h], offers[h], thrown[h])
    BY DEF TurnsInv
<1>3. PICK r \in Nat : \A o \in 1..Len(PeersOf[h]) :
            offers[h][o] <= TurnsOf(r, cursor[h], o) /\ TurnsOf(r, cursor[h], o) <= offers[h][o] + thrown[h]
    BY <1>2 DEF InTurn
<1>4. offers[h][p] \in Nat /\ offers[h][q] \in Nat /\ thrown[h] \in Nat
    BY <1>1, <1>2 DEF InTurn
<1>5. TurnsOf(r, cursor[h], p) <= r + 1 /\ r <= TurnsOf(r, cursor[h], q) /\ TurnsOf(r, cursor[h], p) \in Nat
      /\ TurnsOf(r, cursor[h], q) \in Nat
    BY DEF TurnsOf
<1>6. /\ offers[h][p] <= TurnsOf(r, cursor[h], p)
      /\ TurnsOf(r, cursor[h], q) <= offers[h][q] + thrown[h]
    BY <1>1, <1>3
<1> DEFINE a == TurnsOf(r, cursor[h], p)
           b == TurnsOf(r, cursor[h], q)
           x == offers[h][p]
           y == offers[h][q]
           z == thrown[h]
<1>7. /\ x \in Nat /\ y \in Nat /\ z \in Nat /\ a \in Nat /\ b \in Nat
      /\ a <= r + 1 /\ r <= b /\ x <= a /\ b <= y + z
    BY <1>4, <1>5, <1>6
<1> HIDE DEF a, b, x, y, z
<1>8. x <= y + 1 + z
    BY <1>7
<1> QED BY <1>8 DEF x, y, z

------------------------------------------------------------------------------
(* The schedule: time *)

N == Len(LoopOrder)
Place(l) == CHOOSE i \in DOMAIN LoopOrder : LoopOrder[i] = l
LengthOf(n) == n * Longest     \* as long as n ticks can take

LEMMA LongerTicks ==
    ASSUME NEW n \in Nat, NEW m \in Nat
    PROVE  /\ LengthOf(n) \in Nat /\ LengthOf(n + 1) = LengthOf(n) + Longest /\ Longest \in Nat
           /\ n <= m => LengthOf(n) <= LengthOf(m)
           /\ LengthOf(n + m) = LengthOf(n) + LengthOf(m)
           /\ n >= 1 => Longest <= LengthOf(n)
<1>1. Longest \in Nat
    BY ResidentAssumption DEF ResidentAssumption
<1>2. n * Longest \in Nat /\ m * Longest \in Nat
    BY <1>1, Z3
<1>3. (n + 1) * Longest = n * Longest + Longest
    BY <1>1, Z3
<1>4. n <= m => n * Longest <= m * Longest
    BY <1>1, Z3
<1>5. (n + m) * Longest = n * Longest + m * Longest
    BY <1>1, Z3
<1>6. n >= 1 => Longest <= n * Longest
    BY <1>1, Z3
<1> QED BY <1>1, <1>2, <1>3, <1>4, <1>5, <1>6 DEF LengthOf

LEMMA Places ==
    /\ N \in Nat /\ DOMAIN LoopOrder = 1..N
    /\ \A l \in LoopsOn : Place(l) \in 1..N /\ LoopOrder[Place(l)] = l
    /\ \A i \in 1..N : LoopOrder[i] \in LoopsOn /\ Place(LoopOrder[i]) = i
<1>1. N \in Nat /\ DOMAIN LoopOrder = 1..N
    BY ResidentAssumption DEF ResidentAssumption, N
<1>2. \A i, j \in 1..N : LoopOrder[i] = LoopOrder[j] => i = j
    BY <1>1, ResidentAssumption DEF ResidentAssumption
<1>3. ASSUME NEW l \in LoopsOn PROVE Place(l) \in 1..N /\ LoopOrder[Place(l)] = l
    <2>1. \E i \in DOMAIN LoopOrder : LoopOrder[i] = l
        BY DEF LoopsOn, ToSet
    <2> QED BY <1>1, <2>1 DEF Place
<1>4. ASSUME NEW i \in 1..N PROVE LoopOrder[i] \in LoopsOn
    BY <1>1 DEF LoopsOn, ToSet
<1>5. ASSUME NEW i \in 1..N PROVE Place(LoopOrder[i]) = i
    BY <1>2, <1>3, <1>4
<1> QED BY <1>1, <1>3, <1>4, <1>5

\* Who runs next among those woken is the one that stands first.
LEMMA FirstStands ==
    ASSUME NEW ls \in SUBSET LoopsOn, NEW i \in DOMAIN LoopOrder, FirstOf(ls, i)
    PROVE  \A k \in ls : i <= Place(k)
<1> SUFFICES ASSUME NEW k \in ls PROVE i <= Place(k)
    OBVIOUS
<1>1. Place(k) \in 1..N /\ LoopOrder[Place(k)] = k /\ i \in 1..N /\ N \in Nat
    BY Places
<1>2. Place(k) \notin 1..(i - 1)
    BY <1>1 DEF FirstOf
<1> QED BY <1>1, <1>2

LEMMA LeastWake ==
    ASSUME NEW S \in SUBSET Nat, NEW n \in S
    PROVE  Min(S) \in Nat /\ Min(S) <= n
<1> DEFINE LessThan == {x \in Nat \X Nat : x[1] < x[2]}
<1>1. IsWellFoundedOn(LessThan, Nat)
    BY NatLessThanWellFounded DEF OpToRel
<1>2. PICK i \in S : \A j \in S : <<j, i>> \notin LessThan
    BY <1>1, WFMin
<1>3. ASSUME NEW j \in S PROVE i <= j
    <2>1. i \in Nat /\ j \in Nat /\ <<j, i>> \notin LessThan
        BY <1>2
    <2> QED BY <2>1
<1> QED BY <1>3 DEF Min

LEMMA GreaterOf ==
    ASSUME NEW a \in Int, NEW b \in Int
    PROVE  Max({a, b}) = IF a >= b THEN a ELSE b
<1> DEFINE m == IF a >= b THEN a ELSE b
<1>1. m \in {a, b} /\ \A y \in {a, b} : m >= y
    OBVIOUS
<1>2. \A x \in {a, b} : (\A y \in {a, b} : x >= y) => x = m
    OBVIOUS
<1> HIDE DEF m
<1>3. Max({a, b}) = m
    BY <1>1, <1>2 DEF Max
<1> QED BY <1>3 DEF m

\* What follows is about one instant: nx is when each loop is due and pd its period,
\* lb when it last began, w the clock, wk the loops woken and tk the ticks in flight.
Typed(nx, pd, lb, w, wk, tk) ==
    /\ nx \in [LoopsOn -> Nat] /\ pd \in [LoopsOn -> Nat \ {0}] /\ lb \in [LoopsOn -> Nat] /\ w \in Nat
    /\ wk \subseteq LoopsOn /\ \A t \in tk : t.loop \in LoopsOn /\ t.since \in Nat

\* A loop that is not waiting began when its wake came or after the ticks of those
\* before it; it is not overdue but for a late wake, one in which others run, or
\* its own tick.
Overrun(l) == IF Place(l) = N THEN N - 1 ELSE N
Begun(l, nx, pd, lb) == nx - pd <= lb /\ lb <= nx - pd + LengthOf(Place(l) - 1)
InTime(l, nx, lb, w) == w <= nx + Late \/ w <= nx + LengthOf(Overrun(l)) \/ w <= lb + Longest

\* One that is waiting was in time when its wake came.
RungInTime(l, nx, pd, lb) ==
    /\ lb + pd <= nx - pd + LengthOf(Place(l) - 1)
    /\ \/ nx - pd <= lb + pd + Late
       \/ nx - pd <= lb + pd + LengthOf(Overrun(l))
       \/ nx - pd <= lb + Longest
TickFit(t, nx, pd, lb, w, wk) ==
    /\ t.loop \notin wk /\ t.since = lb[t.loop] /\ w <= t.since + Longest
    /\ \A k \in wk : Place(t.loop) < Place(k) /\ nx[k] - pd[k] = nx[t.loop] - pd[t.loop]

\* With one alarm: no loop came due before the last wake but those that were woken
\* by it, and the clock is where the ticks of that wake can have brought it.
AlarmFits(nx, pd, lb, w, wk, tk) ==
    /\ \A k, l \in LoopsOn : nx[k] - pd[k] < nx[l]
    /\ \A l \in LoopsOn : nx[l] - pd[l] <= w
    /\ \A l \in wk : RungInTime(l, nx[l], pd[l], lb[l])
    /\ \A l, k \in wk : nx[l] - pd[l] = nx[k] - pd[k] /\ w <= nx[l] - pd[l] + LengthOf(Place(k) - 1)
    /\ \A l \in LoopsOn \ wk : Begun(l, nx[l], pd[l], lb[l]) /\ InTime(l, nx[l], lb[l], w)
    /\ \A t \in tk : TickFit(t, nx, pd, lb, w, wk)

\* The clock, while a tick takes its time.
LEMMA AlarmTicksOn ==
    ASSUME NEW nx, NEW pd, NEW lb, NEW w, NEW wk, NEW tk, Typed(nx, pd, lb, w, wk, tk),
           AlarmFits(nx, pd, lb, w, wk, tk), NEW t \in tk, \A u \in tk : w < u.since + Longest
    PROVE  AlarmFits(nx, pd, lb, w + 1, wk, tk)
<1> DEFINE c == t.loop
           R == nx[c] - pd[c]
<1>1. /\ c \in LoopsOn \ wk /\ t.since = lb[c] /\ w + 1 <= lb[c] + Longest /\ lb[c] \in Nat /\ w \in Nat
      /\ nx[c] \in Nat /\ pd[c] \in Nat /\ Longest \in Nat
    <2>1. TickFit(t, nx, pd, lb, w, wk) /\ w < t.since + Longest
        BY DEF AlarmFits
    <2>2. t.loop \in LoopsOn /\ t.since \in Nat /\ w \in Nat /\ Longest \in Nat
        BY ResidentAssumption DEF ResidentAssumption, Typed
    <2>3. c \in LoopsOn \ wk /\ t.since = lb[c] /\ lb[c] \in Nat /\ nx[c] \in Nat /\ pd[c] \in Nat
        BY <2>1, <2>2 DEF TickFit, Typed
    <2>4. w + 1 <= t.since + Longest
        BY <2>1, <2>2
    <2> QED BY <2>2, <2>3, <2>4
<1>2. Place(c) \in 1..N /\ N \in Nat /\ Place(c) - 1 \in Nat /\ Place(c) \in Nat
    BY <1>1, Places
<1>3. R \in Int /\ lb[c] <= R + LengthOf(Place(c) - 1)
    BY <1>1 DEF AlarmFits, Begun
<1>4. w + 1 <= R + LengthOf(Place(c))
    <2>1. LengthOf((Place(c) - 1) + 1) = LengthOf(Place(c) - 1) + Longest /\ LengthOf(Place(c) - 1) \in Nat
        BY <1>2, LongerTicks
    <2>2. (Place(c) - 1) + 1 = Place(c)
        BY <1>2
    <2>3. LengthOf(Place(c)) = LengthOf(Place(c) - 1) + Longest
        BY <2>1, <2>2
    <2> HIDE DEF R, c
    <2> QED BY <1>1, <1>3, <2>1, <2>3
<1> HIDE DEF c
<1>5. ASSUME NEW l \in wk, NEW k \in wk
      PROVE  w + 1 <= nx[l] - pd[l] + LengthOf(Place(k) - 1)
    <2>1. nx[l] - pd[l] = R /\ Place(c) < Place(k)
        BY DEF AlarmFits, TickFit, c
    <2>2. Place(k) \in 1..N
        BY Places DEF Typed
    <2>3. Place(k) - 1 \in Nat /\ Place(c) <= Place(k) - 1
        BY <1>2, <2>1, <2>2
    <2>4. LengthOf(Place(c)) \in Nat /\ LengthOf(Place(k) - 1) \in Nat /\ LengthOf(Place(c)) <= LengthOf(Place(k) - 1)
        BY <1>2, <2>3, LongerTicks
    <2> HIDE DEF R
    <2> QED BY <1>1, <1>3, <1>4, <2>1, <2>4
<1>6. ASSUME NEW l \in LoopsOn \ wk
      PROVE  InTime(l, nx[l], lb[l], w + 1)
    <2>1. CASE l = c
        BY <1>1, <2>1 DEF InTime
    <2>2. CASE l # c
        <3>1. Place(l) \in 1..N /\ Place(l) # Place(c)
            BY <1>1, <2>2, Places
        <3>2. Overrun(l) \in Nat /\ Place(c) <= Overrun(l)
            BY <1>2, <3>1 DEF Overrun
        <3>3. LengthOf(Place(c)) \in Nat /\ LengthOf(Overrun(l)) \in Nat /\ LengthOf(Place(c)) <= LengthOf(Overrun(l))
            BY <1>2, <3>2, LongerTicks
        <3>4. R < nx[l] /\ nx[l] \in Nat
            BY <1>1 DEF AlarmFits, Typed
        <3> HIDE DEF R
        <3>5. w + 1 <= nx[l] + LengthOf(Overrun(l))
            BY <1>1, <1>3, <1>4, <3>3, <3>4
        <3> QED BY <3>5 DEF InTime
    <2> QED BY <2>1, <2>2
<1>7. \A l \in LoopsOn : nx[l] - pd[l] <= w + 1
    <2> SUFFICES ASSUME NEW l \in LoopsOn PROVE nx[l] - pd[l] <= w + 1
        OBVIOUS
    <2>1. nx[l] \in Nat /\ pd[l] \in Nat /\ nx[l] - pd[l] <= w
        BY DEF AlarmFits, Typed
    <2> QED BY <1>1, <2>1
<1>8. ASSUME NEW u \in tk PROVE TickFit(u, nx, pd, lb, w + 1, wk)
    <2>1. TickFit(u, nx, pd, lb, w, wk) /\ w < u.since + Longest /\ u.since \in Nat
        BY DEF AlarmFits, Typed
    <2>2. w + 1 <= u.since + Longest
        BY <1>1, <2>1
    <2> QED BY <2>1, <2>2 DEF TickFit
<1> QED BY <1>5, <1>6, <1>7, <1>8 DEF AlarmFits

\* The clock, while nothing happens.
LEMMA AlarmWaits ==
    ASSUME NEW nx, NEW pd, NEW lb, NEW w, Typed(nx, pd, lb, w, {}, {}),
           AlarmFits(nx, pd, lb, w, {}, {}), \A l \in LoopsOn : w < nx[l] + Late
    PROVE  AlarmFits(nx, pd, lb, w + 1, {}, {})
<1>1. Late \in Nat /\ w \in Nat
    BY ResidentAssumption DEF ResidentAssumption, Typed
<1>2. ASSUME NEW l \in LoopsOn PROVE InTime(l, nx[l], lb[l], w + 1) /\ nx[l] - pd[l] <= w + 1
    <2>1. nx[l] \in Nat /\ pd[l] \in Nat /\ nx[l] - pd[l] <= w /\ w < nx[l] + Late
        BY DEF AlarmFits, Typed
    <2>2. w + 1 <= nx[l] + Late /\ nx[l] - pd[l] <= w + 1
        BY <1>1, <2>1
    <2> QED BY <2>2 DEF InTime
<1> QED BY <1>2 DEF AlarmFits

\* A wake.
LEMMA AlarmRung ==
    ASSUME NEW nx, NEW pd, NEW lb, NEW w, Typed(nx, pd, lb, w, {}, {}),
           AlarmFits(nx, pd, lb, w, {}, {}),
           NEW due, due = {l \in LoopsOn : nx[l] <= w},
           NEW nx2, nx2 = [l \in LoopsOn |-> IF l \in due THEN w + pd[l] ELSE nx[l]]
    PROVE  Typed(nx2, pd, lb, w, due, {}) /\ AlarmFits(nx2, pd, lb, w, due, {})
<1>1. ASSUME NEW l \in LoopsOn
      PROVE  /\ nx[l] \in Nat /\ pd[l] \in Nat \ {0} /\ lb[l] \in Nat /\ w \in Nat
             /\ Begun(l, nx[l], pd[l], lb[l]) /\ InTime(l, nx[l], lb[l], w) /\ nx[l] - pd[l] <= w
             /\ Place(l) \in 1..N /\ N \in Nat /\ LengthOf(Place(l) - 1) \in Nat /\ LengthOf(Overrun(l)) \in Nat
    <2>1. Place(l) \in 1..N /\ N \in Nat /\ Place(l) - 1 \in Nat /\ Overrun(l) \in Nat
        BY Places DEF Overrun
    <2> QED BY <2>1, LongerTicks DEF Typed, AlarmFits
<1>2. Late \in Nat /\ Longest \in Nat
    BY ResidentAssumption DEF ResidentAssumption
<1>3. ASSUME NEW l \in due
      PROVE  /\ l \in LoopsOn /\ nx2[l] = w + pd[l] /\ nx2[l] - pd[l] = w /\ nx2[l] > w
             /\ RungInTime(l, nx2[l], pd[l], lb[l])
    <2>1. l \in LoopsOn /\ nx2[l] = w + pd[l] /\ nx[l] <= w
        OBVIOUS
    <2>2. nx2[l] - pd[l] = w /\ nx2[l] > w
        BY <1>1, <2>1
    <2> DEFINE T == LengthOf(Place(l) - 1)
               V == LengthOf(Overrun(l))
               n == nx[l]
               d == pd[l]
               b == lb[l]
    <2>3. /\ T \in Nat /\ V \in Nat /\ n \in Nat /\ d \in Nat /\ b \in Nat /\ w \in Nat
          /\ n - d <= b /\ b <= n - d + T /\ n <= w
          /\ w <= n + Late \/ w <= n + V \/ w <= b + Longest
        BY <1>1, <2>1 DEF Begun, InTime
    <2> HIDE DEF T, V, n, d, b
    <2>4. b + d <= w + T
        BY <2>3
    <2>5. w <= b + d + Late \/ w <= b + d + V \/ w <= b + Longest
        BY <1>2, <2>3
    <2> QED BY <2>1, <2>2, <2>4, <2>5 DEF RungInTime, T, V, d, b
<1>4. ASSUME NEW l \in LoopsOn \ due
      PROVE  nx2[l] = nx[l] /\ nx2[l] > w /\ nx2[l] - pd[l] <= w
    <2>1. nx2[l] = nx[l] /\ ~(nx[l] <= w)
        OBVIOUS
    <2> QED BY <1>1, <2>1
<1>5. ASSUME NEW l \in LoopsOn
      PROVE  nx2[l] \in Nat /\ nx2[l] > w /\ nx2[l] - pd[l] <= w
    <2>1. CASE l \in due
        BY <1>1, <1>3, <2>1
    <2>2. CASE l \notin due
        BY <1>1, <1>4, <2>2
    <2> QED BY <2>1, <2>2
<1>6. ASSUME NEW k \in LoopsOn, NEW l \in LoopsOn PROVE nx2[k] - pd[k] < nx2[l]
    BY <1>1, <1>5
<1>7. ASSUME NEW l \in due, NEW k \in due
      PROVE  nx2[l] - pd[l] = nx2[k] - pd[k] /\ w <= nx2[l] - pd[l] + LengthOf(Place(k) - 1)
    BY <1>1, <1>3
<1>8. Typed(nx2, pd, lb, w, due, {})
    BY <1>5 DEF Typed
<1> QED BY <1>1, <1>3, <1>4, <1>5, <1>6, <1>7, <1>8 DEF AlarmFits

\* The loop that runs next is not run within its period but for the ticks before it.
LEMMA AlarmRunsSoon ==
    ASSUME NEW nx, NEW pd, NEW lb, NEW w, NEW wk, Typed(nx, pd, lb, w, wk, {}),
           AlarmFits(nx, pd, lb, w, wk, {}), NEW c \in wk
    PROVE  pd[c] - (w - lb[c]) <= LengthOf(N - 1)
<1> DEFINE T == LengthOf(Place(c) - 1)
           n == nx[c]
           d == pd[c]
           b == lb[c]
<1>1. /\ c \in LoopsOn /\ n \in Nat /\ d \in Nat \ {0} /\ b \in Nat /\ w \in Nat
      /\ RungInTime(c, n, d, b) /\ n - d <= w
    BY DEF Typed, AlarmFits
<1>2. Place(c) \in 1..N /\ N \in Nat /\ Place(c) - 1 \in Nat /\ N - 1 \in Nat /\ Place(c) - 1 <= N - 1
    BY <1>1, Places
<1>3. T \in Nat /\ LengthOf(N - 1) \in Nat /\ T <= LengthOf(N - 1)
    BY <1>2, LongerTicks
<1>4. b + d <= n - d + T
    BY <1>1 DEF RungInTime
<1> HIDE DEF T, n, d, b
<1>5. d - (w - b) <= LengthOf(N - 1)
    BY <1>1, <1>3, <1>4
<1> QED BY <1>5 DEF d, b

\* The loop that runs next.
LEMMA AlarmRuns ==
    ASSUME NEW nx, NEW pd, NEW lb, NEW w, NEW wk, NEW tk, Typed(nx, pd, lb, w, wk, {}),
           AlarmFits(nx, pd, lb, w, wk, {}), NEW c \in wk, \A k \in wk : Place(c) <= Place(k),
           NEW lb2, lb2 = [lb EXCEPT ![c] = w], \A t \in tk : t.loop = c /\ t.since = w
    PROVE  /\ Typed(nx, pd, lb2, w, wk \ {c}, tk) /\ AlarmFits(nx, pd, lb2, w, wk \ {c}, tk)
<1> DEFINE T == LengthOf(Place(c) - 1)
           n == nx[c]
           d == pd[c]
           b == lb[c]
<1>1. /\ c \in LoopsOn /\ n \in Nat /\ d \in Nat \ {0} /\ b \in Nat /\ w \in Nat
      /\ RungInTime(c, n, d, b) /\ n - d <= w
      /\ \A l \in wk : nx[l] - pd[l] = n - d /\ w <= n - d + T
    BY DEF Typed, AlarmFits
<1>2. Place(c) \in 1..N /\ N \in Nat /\ Place(c) - 1 \in Nat /\ N - 1 \in Nat /\ Place(c) - 1 <= N - 1
    BY <1>1, Places
<1>3. T \in Nat /\ LengthOf(N - 1) \in Nat /\ T <= LengthOf(N - 1) /\ Longest \in Nat
    BY <1>2, LongerTicks
<1>4. lb2[c] = w /\ \A l \in LoopsOn : l # c => lb2[l] = lb[l]
    BY DEF Typed
<1> HIDE DEF T, n, d, b
<1>5. Begun(c, nx[c], pd[c], lb2[c]) /\ InTime(c, nx[c], lb2[c], w)
    <2>1. n - d <= w /\ w <= n - d + T
        BY <1>1
    <2>2. w <= w + Longest
        BY <1>1, <1>3
    <2> QED BY <1>4, <2>1, <2>2 DEF Begun, InTime, n, d, T
<1>6. ASSUME NEW l \in LoopsOn \ (wk \ {c})
      PROVE  Begun(l, nx[l], pd[l], lb2[l]) /\ InTime(l, nx[l], lb2[l], w)
    <2>1. CASE l = c
        BY <1>5, <2>1
    <2>2. CASE l # c
        BY <1>4, <2>2 DEF AlarmFits
    <2> QED BY <2>1, <2>2
<1>7. ASSUME NEW t \in tk PROVE TickFit(t, nx, pd, lb2, w, wk \ {c})
    <2>1. t.loop = c /\ t.since = w /\ t.since = lb2[t.loop] /\ w <= t.since + Longest
        BY <1>1, <1>3, <1>4
    <2>2. ASSUME NEW k \in wk \ {c}
          PROVE  Place(t.loop) < Place(k) /\ nx[k] - pd[k] = nx[t.loop] - pd[t.loop]
        <3>1. Place(k) \in 1..N /\ Place(k) # Place(c) /\ Place(c) <= Place(k)
            BY <1>1, Places DEF Typed
        <3>2. nx[k] - pd[k] = nx[c] - pd[c]
            BY <1>1 DEF n, d
        <3> QED BY <1>2, <2>1, <3>1, <3>2
    <2> QED BY <2>1, <2>2 DEF TickFit
<1>8. \A l \in wk \ {c} : RungInTime(l, nx[l], pd[l], lb2[l])
    BY <1>4 DEF AlarmFits, Typed
<1>9. Typed(nx, pd, lb2, w, wk \ {c}, tk)
    BY <1>1 DEF Typed
<1>10. AlarmFits(nx, pd, lb2, w, wk \ {c}, tk)
    BY <1>6, <1>7, <1>8 DEF AlarmFits
<1> QED BY <1>9, <1>10

\* An await of a tick returns.
LEMMA TicksReturn ==
    ASSUME NEW nx, NEW pd, NEW lb, NEW w, NEW wk, NEW tk, Typed(nx, pd, lb, w, wk, tk),
           NEW tk2, \A t \in tk2 : \E u \in tk : t.loop = u.loop /\ t.since = u.since
    PROVE  /\ Typed(nx, pd, lb, w, wk, tk2)
           /\ AlarmFits(nx, pd, lb, w, wk, tk) => AlarmFits(nx, pd, lb, w, wk, tk2)
<1>1. Typed(nx, pd, lb, w, wk, tk2)
    BY DEF Typed
<1>2. ASSUME AlarmFits(nx, pd, lb, w, wk, tk), NEW t \in tk2 PROVE TickFit(t, nx, pd, lb, w, wk)
    <2>1. PICK u \in tk : t.loop = u.loop /\ t.since = u.since
        OBVIOUS
    <2>2. TickFit(u, nx, pd, lb, w, wk)
        BY <1>2 DEF AlarmFits
    <2> QED BY <2>1, <2>2 DEF TickFit
<1> QED BY <1>1, <1>2 DEF AlarmFits

\* Whatever came before, no loop is overdue by more than the property says.
LEMMA AlarmOnTime ==
    ASSUME NEW nx, NEW pd, NEW lb, NEW w, NEW wk, NEW tk, Typed(nx, pd, lb, w, wk, tk),
           AlarmFits(nx, pd, lb, w, wk, tk), NEW l \in LoopsOn
    PROVE  w - lb[l] <= pd[l] + Late + LengthOf(TicksToWaitFor)
<1> DEFINE n == nx[l]
           d == pd[l]
           b == lb[l]
           p == Place(l)
           M == TicksToWaitFor
           T == LengthOf(p - 1)
           V == LengthOf(Overrun(l))
           B == LengthOf(M)
<1>1. n \in Nat /\ d \in Nat /\ b \in Nat /\ w \in Nat /\ Late \in Nat /\ Longest \in Nat
    BY ResidentAssumption DEF ResidentAssumption, Typed
<1>2. p \in 1..N /\ N \in Nat
    BY Places
<1>3. M = IF N >= 2 * (N - 1) THEN N ELSE 2 * (N - 1)
    BY <1>2, GreaterOf DEF TicksToWaitFor, N
<1>4. M \in Nat /\ p <= M /\ 1 <= M /\ Overrun(l) \in Nat /\ Overrun(l) + (p - 1) <= M /\ p - 1 \in Nat
    BY <1>2, <1>3 DEF Overrun
<1> HIDE DEF M, p
<1>5. V \in Nat /\ T \in Nat /\ B \in Nat /\ V + T <= B /\ V <= B /\ T <= B
    <2>1. LengthOf(Overrun(l) + (p - 1)) = V + T /\ V \in Nat /\ T \in Nat /\ B \in Nat
        BY <1>4, LongerTicks
    <2>2. Overrun(l) + (p - 1) \in Nat
        BY <1>4
    <2>3. LengthOf(Overrun(l) + (p - 1)) <= B
        BY <1>4, <2>2, LongerTicks
    <2> HIDE DEF V, T, B
    <2> QED BY <2>1, <2>3
<1>6. T + Longest <= B /\ Longest <= B
    <2>1. LengthOf((p - 1) + 1) = T + Longest
        BY <1>4, LongerTicks
    <2>2. (p - 1) + 1 = p /\ p \in Nat
        BY <1>2
    <2>3. LengthOf(p) <= B
        BY <1>4, <2>2, LongerTicks
    <2> HIDE DEF T, B
    <2> QED BY <1>1, <1>5, <2>1, <2>2, <2>3
<1>7. CASE l \in wk
    <2>0. RungInTime(l, n, d, b) /\ w <= n - d + LengthOf(Place(l) - 1)
        <3>1. \A a, k \in wk : w <= nx[a] - pd[a] + LengthOf(Place(k) - 1)
            BY DEF AlarmFits
        <3>2. RungInTime(l, n, d, b)
            BY <1>7 DEF AlarmFits
        <3>3. w <= nx[l] - pd[l] + LengthOf(Place(l) - 1)
            BY <1>7, <3>1
        <3> QED BY <3>2, <3>3
    <2>1. w <= n - d + T
        BY <2>0 DEF p
    <2>2. n - d <= b + d + Late \/ n - d <= b + d + V \/ n - d <= b + Longest
        BY <2>0 DEF RungInTime
    <2> HIDE DEF T, V, B, n, d, b
    <2>3. w - b <= d + Late + B
        BY <1>1, <1>5, <1>6, <2>1, <2>2
    <2> QED BY <2>3 DEF d, b, B, M
<1>8. CASE l \notin wk
    <2>1. n - d <= b /\ (w <= n + Late \/ w <= n + V \/ w <= b + Longest)
        BY <1>8 DEF AlarmFits, Begun, InTime
    <2> HIDE DEF T, V, B, n, d, b
    <2>2. w - b <= d + Late + B
        BY <1>1, <1>5, <1>6, <2>1
    <2> QED BY <2>2 DEF d, b, B, M
<1> QED BY <1>7, <1>8

\* With timers: a loop is due its period after it last began, and is late by no more
\* than a timer can be.
TimersFit(nx, pd, lb, w, wk) ==
    wk = {} /\ \A l \in LoopsOn : nx[l] = lb[l] + pd[l] /\ w <= nx[l] + Late
Hurry == IF driver = "alarm" THEN LengthOf(N - 1) ELSE 0
TimeInv ==
    /\ driver \in {"timers", "alarm"}
    /\ Typed(nextAt, period, lastBegan, wall, woken, ticking)
    /\ hurried \in [LoopsOn -> Int] /\ \A l \in LoopsOn : hurried[l] <= Hurry
    /\ driver = "alarm" => AlarmFits(nextAt, period, lastBegan, wall, woken, ticking)
    /\ driver = "timers" => TimersFit(nextAt, period, lastBegan, wall, woken)

\* A tick that begins no sooner than it may hurries nobody.
LEMMA BeginTickHurry ==
    ASSUME TimeInv, NEW l \in LoopsOn, BeginTick(l), driver' = driver,
           period[l] - (wall - lastBegan[l]) <= Hurry
    PROVE  /\ hurried' \in [LoopsOn -> Int] /\ \A k \in LoopsOn : hurried'[k] <= Hurry'
           /\ lastBegan' = [lastBegan EXCEPT ![l] = wall]
           /\ \A t \in ticking' : t \in ticking \/ (t.loop = l /\ t.since = wall)
<1> DEFINE x == period[l] - (wall - lastBegan[l])
<1>1. /\ hurried \in [LoopsOn -> Int] /\ \A k \in LoopsOn : hurried[k] <= Hurry
      /\ x \in Int
    BY DEF TimeInv, Typed
<1>2. /\ lastBegan' = [lastBegan EXCEPT ![l] = wall]
      /\ hurried' = [hurried EXCEPT ![l] = Max({hurried[l], x})]
    BY DEF BeginTick
<1>3. Max({hurried[l], x}) = IF hurried[l] >= x THEN hurried[l] ELSE x
    BY <1>1, GreaterOf
<1>4. Hurry' = Hurry
    BY DEF Hurry
<1>5. x <= Hurry
    OBVIOUS
<1> HIDE DEF x
<1>6. Max({hurried[l], x}) \in Int /\ Max({hurried[l], x}) <= Hurry
    BY <1>1, <1>3, <1>5
<1>7. hurried' \in [LoopsOn -> Int] /\ \A k \in LoopsOn : hurried'[k] <= Hurry'
    BY <1>1, <1>2, <1>4, <1>6
<1>8. \A t \in ticking' : t \in ticking \/ (t.loop = l /\ t.since = wall)
    BY DEF BeginTick, Tick, offerVars
<1> QED BY <1>2, <1>7, <1>8

LEMMA TimerFiresInTime ==
    ASSUME TimeInv, NEW l \in LoopsOn, TimerFires(l) PROVE TimeInv'
<1>1. /\ driver = "timers" /\ nextAt[l] <= wall /\ BeginTick(l)
      /\ nextAt' = [k \in LoopsOn |-> IF k \in {l} THEN wall + period[k] ELSE nextAt[k]]
      /\ driver' = driver /\ wall' = wall /\ period' = period /\ woken' = woken
    BY DEF TimerFires, Rearmed
<1>2. /\ Typed(nextAt, period, lastBegan, wall, woken, ticking)
      /\ TimersFit(nextAt, period, lastBegan, wall, woken) /\ Late \in Nat
    BY <1>1, ResidentAssumption DEF TimeInv, ResidentAssumption
<1>3. period[l] - (wall - lastBegan[l]) <= Hurry
    <2>1. /\ nextAt[l] = lastBegan[l] + period[l] /\ Hurry = 0
          /\ lastBegan[l] \in Nat /\ period[l] \in Nat /\ wall \in Nat
        BY <1>1, <1>2 DEF TimersFit, Typed, Hurry
    <2> QED BY <1>1, <2>1
<1>4. /\ hurried' \in [LoopsOn -> Int] /\ \A k \in LoopsOn : hurried'[k] <= Hurry'
      /\ lastBegan' = [lastBegan EXCEPT ![l] = wall]
      /\ \A t \in ticking' : t \in ticking \/ (t.loop = l /\ t.since = wall)
    BY <1>1, <1>3, BeginTickHurry
<1>5. Typed(nextAt, period, lastBegan, wall, woken, ticking)'
    BY <1>1, <1>2, <1>4 DEF Typed
<1>6. TimersFit(nextAt, period, lastBegan, wall, woken)'
    <2> SUFFICES ASSUME NEW k \in LoopsOn
                 PROVE  nextAt'[k] = lastBegan'[k] + period[k] /\ wall <= nextAt'[k] + Late
        BY <1>1, <1>2 DEF TimersFit
    <2>1. /\ nextAt[k] = lastBegan[k] + period[k] /\ wall <= nextAt[k] + Late
          /\ period[k] \in Nat /\ wall \in Nat /\ lastBegan \in [LoopsOn -> Nat]
        BY <1>2 DEF TimersFit, Typed
    <2>2. CASE k = l
        BY <1>1, <1>2, <1>4, <2>1, <2>2
    <2>3. CASE k # l
        BY <1>1, <1>4, <2>1, <2>3
    <2> QED BY <2>2, <2>3
<1> QED BY <1>1, <1>4, <1>5, <1>6 DEF TimeInv

LEMMA AlarmRingsInTime == ASSUME TimeInv, AlarmRings PROVE TimeInv'
<1>1. /\ driver = "alarm" /\ woken = {} /\ ticking = {}
      /\ woken' = DueLoops /\ nextAt' = [l \in LoopsOn |-> IF l \in DueLoops THEN wall + period[l] ELSE nextAt[l]]
      /\ driver' = driver /\ wall' = wall /\ period' = period /\ ticking' = ticking
      /\ lastBegan' = lastBegan /\ hurried' = hurried
    BY DEF AlarmRings, Batch, Rearmed
<1>2. /\ Typed(nextAt, period, lastBegan, wall, {}, {})
      /\ AlarmFits(nextAt, period, lastBegan, wall, {}, {})
    BY <1>1 DEF TimeInv
<1>3. DueLoops = {l \in LoopsOn : nextAt[l] <= wall}
    BY DEF DueLoops
<1> DEFINE due == DueLoops
           nx2 == [l \in LoopsOn |-> IF l \in due THEN wall + period[l] ELSE nextAt[l]]
<1>4. /\ Typed(nx2, period, lastBegan, wall, due, {})
      /\ AlarmFits(nx2, period, lastBegan, wall, due, {})
    BY <1>2, <1>3, AlarmRung
<1>5. nextAt' = nx2 /\ woken' = due
    BY <1>1
<1> HIDE DEF nx2, due
<1>6. /\ Typed(nextAt, period, lastBegan, wall, woken, ticking)'
      /\ AlarmFits(nextAt, period, lastBegan, wall, woken, ticking)'
    BY <1>1, <1>4, <1>5
<1>7. hurried' \in [LoopsOn -> Int] /\ \A l \in LoopsOn : hurried'[l] <= Hurry'
    BY <1>1 DEF TimeInv, Hurry
<1> QED BY <1>1, <1>6, <1>7 DEF TimeInv

LEMMA RunNextInTime == ASSUME TimeInv, RunNext PROVE TimeInv'
<1>1. PICK i \in DOMAIN LoopOrder :
            FirstOf(woken, i) /\ BeginTick(LoopOrder[i]) /\ woken' = woken \ {LoopOrder[i]}
    BY DEF RunNext
<1> DEFINE c == LoopOrder[i]
<1>2. /\ ticking = {} /\ driver' = driver /\ wall' = wall /\ period' = period /\ nextAt' = nextAt
    BY DEF RunNext
<1>3. c \in woken /\ c \in LoopsOn /\ woken \in SUBSET LoopsOn /\ Place(c) = i
    <2>1. c \in woken /\ woken \in SUBSET LoopsOn
        BY <1>1 DEF FirstOf, TimeInv, Typed
    <2>2. i \in 1..N
        BY <1>1, Places
    <2> QED BY <2>1, <2>2, Places
<1>4. \A k \in woken : Place(c) <= Place(k)
    BY <1>1, <1>3, FirstStands
<1>5. /\ driver = "alarm"
      /\ Typed(nextAt, period, lastBegan, wall, woken, {})
      /\ AlarmFits(nextAt, period, lastBegan, wall, woken, {})
    BY <1>2, <1>3 DEF TimeInv, TimersFit
<1> HIDE DEF c
<1>6. period[c] - (wall - lastBegan[c]) <= Hurry
    <2>1. period[c] - (wall - lastBegan[c]) <= LengthOf(N - 1)
        BY <1>3, <1>4, <1>5, AlarmRunsSoon
    <2> QED BY <1>5, <2>1 DEF Hurry
<1>7. /\ hurried' \in [LoopsOn -> Int] /\ \A k \in LoopsOn : hurried'[k] <= Hurry'
      /\ lastBegan' = [lastBegan EXCEPT ![c] = wall]
      /\ \A t \in ticking' : t \in ticking \/ (t.loop = c /\ t.since = wall)
    BY <1>1, <1>2, <1>3, <1>6, BeginTickHurry DEF c
<1>8. \A t \in ticking' : t.loop = c /\ t.since = wall
    BY <1>2, <1>7
<1>9. /\ Typed(nextAt, period, lastBegan', wall, woken \ {c}, ticking')
      /\ AlarmFits(nextAt, period, lastBegan', wall, woken \ {c}, ticking')
    BY <1>3, <1>4, <1>5, <1>7, <1>8, AlarmRuns
<1>10. /\ Typed(nextAt, period, lastBegan, wall, woken, ticking)'
       /\ AlarmFits(nextAt, period, lastBegan, wall, woken, ticking)'
    BY <1>1, <1>2, <1>9 DEF c
<1> QED BY <1>2, <1>5, <1>7, <1>10 DEF TimeInv

LEMMA AwaitsInTime ==
    ASSUME TimeInv, NEW t \in ticking, HubRuns(t) \/ TickEnds(t) PROVE TimeInv'
<1>1. UNCHANGED <<driver, wall, period, nextAt, woken, lastBegan, hurried>>
    BY DEF HubRuns, TickEnds
<1>2. \A x \in ticking' : \E u \in ticking : x.loop = u.loop /\ x.since = u.since
    <2>1. CASE HubRuns(t)
        <3> DEFINE r == [t EXCEPT !.left = Tail(@)]
        <3>1. ticking' = (ticking \ {t}) \cup {r}
            BY <2>1 DEF HubRuns
        <3>2. r.loop = t.loop /\ r.since = t.since
            OBVIOUS
        <3> HIDE DEF r
        <3> QED BY <3>1, <3>2
    <2>2. CASE TickEnds(t)
        BY <2>2 DEF TickEnds
    <2> QED BY <2>1, <2>2
<1>3. Typed(nextAt, period, lastBegan, wall, woken, ticking)
    BY DEF TimeInv
<1>4. /\ Typed(nextAt, period, lastBegan, wall, woken, ticking')
      /\ driver = "alarm" => AlarmFits(nextAt, period, lastBegan, wall, woken, ticking')
    BY <1>2, <1>3, TicksReturn DEF TimeInv
<1> QED BY <1>1, <1>4 DEF TimeInv, Hurry

LEMMA WallInTime == ASSUME TimeInv, WallAdvances PROVE TimeInv'
<1>1. /\ Punctual /\ wall' = wall + 1
      /\ UNCHANGED <<driver, period, nextAt, woken, ticking, lastBegan, hurried>>
    BY DEF WallAdvances
<1>2. Typed(nextAt, period, lastBegan, wall, woken, ticking) /\ Late \in Nat
    BY ResidentAssumption DEF ResidentAssumption, TimeInv
<1>3. Typed(nextAt, period, lastBegan, wall + 1, woken, ticking)
    BY <1>2 DEF Typed
<1>4. ASSUME driver = "alarm"
      PROVE  AlarmFits(nextAt, period, lastBegan, wall + 1, woken, ticking)
    <2>1. AlarmFits(nextAt, period, lastBegan, wall, woken, ticking)
        BY <1>4 DEF TimeInv
    <2>2. CASE ticking = {}
        <3>1. woken = {} /\ wall < WakeAt + Late
            BY <1>1, <1>4, <2>2 DEF Punctual
        <3>2. ASSUME NEW l \in LoopsOn PROVE wall < nextAt[l] + Late
            <4>1. nextAt \in [LoopsOn -> Nat] /\ wall \in Nat
                BY <1>2 DEF Typed
            <4>2. WakeAt \in Nat /\ WakeAt <= nextAt[l] /\ nextAt[l] \in Nat
                <5> DEFINE S == {nextAt[k] : k \in LoopsOn}
                <5>1. S \in SUBSET Nat /\ nextAt[l] \in S /\ WakeAt = Min(S)
                    BY <4>1 DEF WakeAt
                <5> HIDE DEF S
                <5>2. Min(S) \in Nat /\ Min(S) <= nextAt[l]
                    BY <5>1, LeastWake
                <5> QED BY <4>1, <5>1, <5>2
            <4> QED BY <1>2, <3>1, <4>1, <4>2
        <3> QED BY <1>2, <2>1, <2>2, <3>1, <3>2, AlarmWaits
    <2>3. CASE ticking # {}
        <3>1. PICK t \in ticking : TRUE
            BY <2>3
        <3>2. \A u \in ticking : wall < u.since + Longest
            BY <1>1 DEF Punctual
        <3> QED BY <1>2, <2>1, <3>1, <3>2, AlarmTicksOn
    <2> QED BY <2>2, <2>3
<1>5. ASSUME driver = "timers"
      PROVE  TimersFit(nextAt, period, lastBegan, wall + 1, woken)
    <2>1. TimersFit(nextAt, period, lastBegan, wall, woken)
        BY <1>5 DEF TimeInv
    <2>2. ASSUME NEW l \in LoopsOn PROVE wall + 1 <= nextAt[l] + Late
        <3>1. wall < nextAt[l] + Late /\ wall \in Nat /\ nextAt[l] \in Nat
            BY <1>1, <1>2, <1>5 DEF Punctual, Typed
        <3> QED BY <1>2, <3>1
    <2> QED BY <2>1, <2>2 DEF TimersFit
<1> QED BY <1>1, <1>3, <1>4, <1>5 DEF TimeInv, Hurry

LEMMA TimeStarts == ResidentInit => TimeInv
<1> SUFFICES ASSUME ResidentInit PROVE TimeInv
    OBVIOUS
<1>1. /\ driver \in {"timers", "alarm"} /\ wall = 0 /\ nextAt = period /\ woken = {} /\ ticking = {}
      /\ lastBegan = [l \in LoopsOn |-> 0] /\ hurried = [l \in LoopsOn |-> 0] /\ Late \in Nat
    BY ResidentAssumption DEF ResidentInit, ResidentAssumption
<1>2. period \in [LoopsOn -> Nat \ {0}]
    <2>1. PICK draw \in [LoopsOn -> Jitters] : period = [l \in LoopsOn |-> Interval[l] + draw[l]]
        BY DEF ResidentInit
    <2>2. ASSUME NEW l \in LoopsOn PROVE Interval[l] + draw[l] \in Nat \ {0}
        <3>1. Interval[l] \in Nat \ {0} /\ draw[l] \in Nat
            BY ResidentAssumption DEF ResidentAssumption
        <3> QED BY <3>1
    <2> QED BY <2>1, <2>2
<1>3. Typed(nextAt, period, lastBegan, wall, woken, ticking)
    BY <1>1, <1>2 DEF Typed
<1>4. ASSUME NEW l \in LoopsOn
      PROVE  /\ period[l] \in Nat \ {0} /\ LengthOf(Place(l) - 1) \in Nat /\ LengthOf(N - 1) \in Nat
             /\ nextAt[l] - period[l] = 0 /\ lastBegan[l] = 0
    <2>1. Place(l) \in 1..N /\ N \in Nat
        BY Places
    <2>2. Place(l) - 1 \in Nat /\ N - 1 \in Nat
        BY <2>1
    <2>3. LengthOf(Place(l) - 1) \in Nat /\ LengthOf(N - 1) \in Nat
        BY <2>2, LongerTicks
    <2>4. period[l] \in Nat \ {0}
        BY <1>2
    <2> QED BY <1>1, <2>3, <2>4
<1>5. AlarmFits(nextAt, period, lastBegan, wall, woken, ticking)
    <2>1. ASSUME NEW l \in LoopsOn
          PROVE  Begun(l, nextAt[l], period[l], lastBegan[l]) /\ InTime(l, nextAt[l], lastBegan[l], wall)
        <3>1. nextAt[l] \in Nat /\ wall = 0
            BY <1>1, <1>4
        <3> QED BY <1>1, <1>4, <3>1 DEF Begun, InTime
    <2>2. \A k, l \in LoopsOn : nextAt[k] - period[k] < nextAt[l] /\ nextAt[l] - period[l] <= wall
        BY <1>1, <1>4
    <2> QED BY <1>1, <2>1, <2>2 DEF AlarmFits
<1>6. TimersFit(nextAt, period, lastBegan, wall, woken)
    BY <1>1, <1>4 DEF TimersFit
<1>7. hurried \in [LoopsOn -> Int] /\ \A l \in LoopsOn : hurried[l] <= Hurry
    <2>1. ASSUME NEW l \in LoopsOn PROVE hurried[l] = 0 /\ 0 <= Hurry
        BY <1>1, <1>4 DEF Hurry
    <2> QED BY <1>1, <2>1
<1> QED BY <1>1, <1>3, <1>5, <1>6, <1>7 DEF TimeInv

\* Every step keeps the time and the turns.
LEMMA ScheduleKept ==
    TimeInv /\ TurnsInv /\ [ResidentNext]_residentVars => TimeInv' /\ TurnsInv'
<1> SUFFICES ASSUME TimeInv, TurnsInv, [ResidentNext]_residentVars PROVE TimeInv' /\ TurnsInv'
    OBVIOUS
<1> DEFINE SameTime == UNCHANGED timeVars /\ UNCHANGED offerVars
<1>1. ASSUME SameTime PROVE TimeInv' /\ TurnsInv'
    <2>1. TimeInv'
        BY <1>1 DEF timeVars, TimeInv, Hurry
    <2>2. TurnsInv'
        BY <1>1 DEF offerVars, TurnsInv
    <2> QED BY <2>1, <2>2
<1>2. ASSUME UNCHANGED offerVars PROVE TurnsInv'
    BY <1>2 DEF offerVars, TurnsInv
<1>3. ASSUME NEW l \in LoopsOn, TimerFires(l) PROVE TimeInv' /\ TurnsInv'
    <2>1. BeginTick(l)
        BY <1>3 DEF TimerFires
    <2> QED BY <1>3, <2>1, TimerFiresInTime, BeginTickTurns
<1>4. CASE AlarmRings
    <2>1. UNCHANGED offerVars
        BY <1>4 DEF AlarmRings
    <2> QED BY <1>2, <1>4, <2>1, AlarmRingsInTime
<1>5. CASE RunNext
    <2>1. PICK i \in DOMAIN LoopOrder : BeginTick(LoopOrder[i])
        BY <1>5 DEF RunNext
    <2> QED BY <1>5, <2>1, RunNextInTime, BeginTickTurns
<1>6. ASSUME NEW t \in ticking, HubRuns(t) \/ TickEnds(t) PROVE TimeInv' /\ TurnsInv'
    <2>1. UNCHANGED offerVars
        BY <1>6 DEF HubRuns, TickEnds
    <2> QED BY <1>2, <1>6, <2>1, AwaitsInTime
<1>7. CASE WallAdvances
    <2>1. UNCHANGED offerVars
        BY <1>7 DEF WallAdvances
    <2> QED BY <1>2, <1>7, <2>1, WallInTime
<1>8. ASSUME NEW x \in Posts, PostArrives(x) \/ PostHandled(x) PROVE SameTime
    BY <1>8 DEF PostArrives, PostHandled
<1>9. ASSUME Signal \/ SignalAgain \/ FlushBegins \/ FlushEnds PROVE SameTime
    BY <1>9 DEF Signal, SignalAgain, FlushBegins, FlushEnds, LeaveWith
<1>10. CASE UNCHANGED residentVars
    BY <1>1, <1>10 DEF residentVars
<1> HIDE DEF SameTime
<1> QED BY <1>1, <1>3, <1>4, <1>5, <1>6, <1>7, <1>8, <1>9, <1>10 DEF ResidentNext

LEMMA FairByThen == TimeInv /\ TurnsInv => ScheduleIsFair
<1> SUFFICES ASSUME TimeInv, TurnsInv PROVE ScheduleIsFair
    OBVIOUS
<1>1. Typed(nextAt, period, lastBegan, wall, woken, ticking)
    BY DEF TimeInv
<1>2. NoCatchingUp
    BY DEF NoCatchingUp, TimeInv, Hurry, LengthOf, N
<1>3. ASSUME NEW l \in LoopsOn
      PROVE  wall - lastBegan[l] <= period[l] + Late
                + IF driver = "alarm" THEN TicksToWaitFor * Longest ELSE 0
    <2>1. CASE driver = "alarm"
        <3>1. wall - lastBegan[l] <= period[l] + Late + LengthOf(TicksToWaitFor)
            BY <1>1, <2>1, AlarmOnTime DEF TimeInv
        <3> QED BY <2>1, <3>1 DEF LengthOf
    <2>2. CASE driver = "timers"
        <3>1. /\ nextAt[l] = lastBegan[l] + period[l] /\ wall <= nextAt[l] + Late
              /\ lastBegan[l] \in Nat /\ period[l] \in Nat /\ wall \in Nat /\ Late \in Nat
            BY <2>2, ResidentAssumption DEF ResidentAssumption, TimeInv, TimersFit, Typed
        <3>2. wall - lastBegan[l] <= period[l] + Late + 0
            BY <3>1
        <3> QED BY <2>2, <3>2
    <2> QED BY <2>1, <2>2 DEF TimeInv
<1>4. NoLoopStarves
    BY <1>3 DEF NoLoopStarves
<1> QED BY <1>2, <1>4, InTurns DEF ScheduleIsFair

\* However late timers, alarms and ticks are, no loop runs to catch up with what it
\* missed, none waits for longer than what was late, and the peers of a hub are
\* offered its digest in turns (schedule.ts, RoundRobin); for any number of loops,
\* hubs and peers.
THEOREM ScheduleStaysFair == ResidentSpec => []ScheduleIsFair
<1>1. ResidentInit => TimeInv /\ TurnsInv
    BY TimeStarts, TurnsStart
<1> QED BY <1>1, ScheduleKept, FairByThen, PTL DEF ResidentSpec
==============================================================================
