-------------------------- MODULE TaskExchangeProofs --------------------------
(***************************************************************************)
(* TLAPS proofs about TaskExchange, for every set of tasks and performers  *)
(* and every value of the bounds.                                          *)
(***************************************************************************)
EXTENDS TaskExchange, FiniteSetTheorems, SequenceTheorems, TLAPS

------------------------------------------------------------------------------
(* The chain only grows *)

\* The entries of the chain are activities.
LEMMA EntryIsAct ==
    ASSUME TypeOK
    PROVE  /\ Len(chain) \in Nat
           /\ \A i \in Ids : /\ i \in Nat \ {0} /\ i <= Len(chain) /\ chain[i] \in Act
                             /\ chain[i].task \in Tasks
                             /\ chain[i].performer \in Performers
                             /\ chain[i].re \in Nat
<1>1. chain \in Seq(Act) /\ Len(chain) \in Nat
  BY DEF TypeOK
<1>2. \A i \in Ids : i \in Nat \ {0} /\ i <= Len(chain) /\ chain[i] \in Act
  BY <1>1 DEF Ids
<1>3. \A a \in Act : a.task \in Tasks /\ a.performer \in Performers /\ a.re \in Nat
  BY DEF Act
<1>4. QED
  BY <1>1, <1>2, <1>3

\* One activity is appended.
LEMMA AppendExtends ==
    ASSUME TypeOK, NEW a \in Act, chain' = Append(chain, a)
    PROVE  /\ chain' \in Seq(Act)
           /\ Len(chain') = NewId /\ Ids' = Ids \cup {NewId}
           /\ \A i \in Ids : chain'[i] = chain[i]
           /\ chain'[NewId] = a
           /\ NewId \notin Ids
BY DEF TypeOK, Ids, NewId

LEMMA ReplyIsAct ==
    ASSUME TypeOK, NEW i \in Ids,
           NEW type \in {"Accept", "Reject", "Result", "Failure", "Missed"}
    PROVE  Reply(type, i) \in Act
BY EntryIsAct DEF Reply, Act

LEMMA OfferIsAct ==
    ASSUME NEW t \in Tasks, NEW p \in Performers
    PROVE  OfferTo(t, p) \in Act
BY DEF OfferTo, Act

LEMMA MissedIsAct ==
    ASSUME NEW t \in Tasks
    PROVE  MissedBy(t) \in Act
BY ExchangeAssumption DEF MissedBy, Act, ExchangeAssumption

\* Where the entries of a concatenation come from.
LEMMA ConcatEntries ==
    ASSUME NEW s \in Seq(Act), NEW u \in Seq(Act)
    PROVE  /\ s \o u \in Seq(Act)
           /\ Len(s) \in Nat /\ Len(u) \in Nat /\ Len(s \o u) = Len(s) + Len(u)
           /\ \A i \in 1..Len(s) : (s \o u)[i] = s[i]
           /\ \A n \in 1..Len(u) : (s \o u)[Len(s) + n] = u[n]
<1>1. /\ s \o u \in Seq(Act)
      /\ Len(s) \in Nat /\ Len(u) \in Nat /\ Len(s \o u) = Len(s) + Len(u)
  OBVIOUS
<1>2. \A i \in 1..Len(s) + Len(u) :
        (s \o u)[i] = IF i <= Len(s) THEN s[i] ELSE u[i - Len(s)]
  BY ConcatProperties
<1>3. ASSUME NEW n \in 1..Len(u) PROVE (s \o u)[Len(s) + n] = u[n]
  <2>1. Len(s) + n \in 1..Len(s) + Len(u) /\ ~(Len(s) + n <= Len(s))
        /\ (Len(s) + n) - Len(s) = n
    BY <1>1
  <2>2. QED
    BY <1>2, <2>1
<1>4. QED
  BY <1>1, <1>2, <1>3

\* The sweep's Errors: each task that is overdue has one, whatever the order.
LEMMA SweepExtends ==
    ASSUME TypeOK, NEW order \in Orderings(Overdue),
           chain' = chain \o [n \in DOMAIN order |-> MissedBy(order[n])]
    PROVE  /\ chain' \in Seq(Act)
           /\ Ids \subseteq Ids'
           /\ \A i \in Ids : chain'[i] = chain[i]
           /\ \A i \in Ids' \ Ids : chain'[i].type = "Missed"
           /\ \A t \in Overdue : \E i \in Ids' : chain'[i] = MissedBy(t)
<1> DEFINE k == Cardinality(Overdue)
           tail == [n \in DOMAIN order |-> MissedBy(order[n])]
<1>1. k \in Nat
  BY FS_Subset, FS_CardinalityType, ExchangeAssumption DEF Overdue, ExchangeAssumption
<1>2. order \in [1..k -> Overdue] /\ \A t \in Overdue : \E n \in 1..k : order[n] = t
  BY DEF Orderings
<1>3. \A n \in 1..k : order[n] \in Tasks /\ tail[n] = MissedBy(order[n])
  BY <1>2 DEF Overdue
<1>4. tail \in Seq(Act) /\ Len(tail) = k
  BY <1>1, <1>2, <1>3, MissedIsAct
<1> HIDE DEF tail, k
<1>5. chain \in Seq(Act) /\ chain' = chain \o tail
  BY DEF TypeOK, tail
<1>6. chain' \in Seq(Act) /\ Len(chain') = Len(chain) + k /\ Len(chain) \in Nat
  BY <1>4, <1>5, ConcatEntries
<1>E. /\ \A i \in 1..Len(chain) : chain'[i] = chain[i]
      /\ \A n \in 1..k : chain'[Len(chain) + n] = tail[n]
  <2>1. /\ \A i \in 1..Len(chain) : (chain \o tail)[i] = chain[i]
        /\ \A n \in 1..Len(tail) : (chain \o tail)[Len(chain) + n] = tail[n]
    BY <1>4, <1>5, ConcatEntries, Zenon
  <2>2. QED
    BY <1>4, <1>5, <2>1, Zenon
<1>7. Ids \subseteq Ids' /\ \A i \in Ids : chain'[i] = chain[i]
  BY <1>1, <1>6, <1>E DEF Ids
<1>8. \A i \in Ids' \ Ids : i - Len(chain) \in 1..k /\ chain'[i] = tail[i - Len(chain)]
  <2>1. SUFFICES ASSUME NEW i \in Ids' \ Ids
                 PROVE  i - Len(chain) \in 1..k /\ chain'[i] = tail[i - Len(chain)]
    OBVIOUS
  <2>2. i \in Nat /\ i > Len(chain) /\ i <= Len(chain) + k
    BY <1>1, <1>6 DEF Ids
  <2>3. i - Len(chain) \in 1..k /\ Len(chain) + (i - Len(chain)) = i
    BY <1>1, <1>6, <2>2
  <2>4. QED
    BY <1>E, <2>3
<1>9. \A i \in Ids' \ Ids : chain'[i].type = "Missed"
  <2>1. \A t \in Tasks : MissedBy(t).type = "Missed"
    BY DEF MissedBy
  <2>2. \A n \in 1..k : tail[n].type = "Missed"
    BY <1>3, <2>1
  <2>3. QED
    BY <1>8, <2>2
<1>10. ASSUME NEW t \in Overdue PROVE \E i \in Ids' : chain'[i] = MissedBy(t)
  <2>1. PICK n \in 1..k : order[n] = t
    BY <1>2
  <2>2. Len(chain) + n \in 1..Len(chain')
    BY <1>1, <1>6
  <2>3. chain'[Len(chain) + n] = MissedBy(t)
    BY <1>3, <1>E, <2>1
  <2>4. QED
    BY <2>2, <2>3 DEF Ids
<1>11. QED
  BY <1>6, <1>7, <1>9, <1>10

\* What every step does to the chain.
Grown == /\ chain' \in Seq(Act)
         /\ Ids \subseteq Ids'
         /\ \A i \in Ids : chain'[i] = chain[i]

LEMMA SameGrown == ASSUME TypeOK, UNCHANGED chain PROVE Grown /\ Ids' = Ids
BY DEF TypeOK, Grown, Ids

LEMMA AppendGrown ==
    ASSUME TypeOK, NEW a \in Act, chain' = Append(chain, a)
    PROVE  Grown
BY AppendExtends DEF Grown

LEMMA SweepGrown ==
    ASSUME TypeOK, Sweep
    PROVE  Grown
BY SweepExtends DEF Grown, Sweep

LEMMA GrownKeeps ==
    ASSUME TypeOK, Grown
    PROVE  /\ Offers \subseteq Offers'
           /\ Len(chain) <= Len(chain')
<1>1. Offers \subseteq Offers'
  BY DEF Grown, Offers
<1>2. Len(chain) \in Nat /\ Len(chain') \in Nat
  BY DEF TypeOK, Grown
<1>3. Len(chain) <= Len(chain')
  BY <1>2 DEF Grown, Ids
<1>4. QED
  BY <1>1, <1>3

------------------------------------------------------------------------------
(* Type correctness *)

LEMMA InitTyped == Init => TypeOK
BY ExchangeAssumption DEF Init, TypeOK, Ids, Offers, TaskState, ExchangeAssumption

LEMMA WindowIsNatural ==
    ASSUME TypeOK
    PROVE  WindowEnd \in Nat
BY ExchangeAssumption DEF TypeOK, WindowEnd, ExchangeAssumption

\* The three tables whose updates are a function of the old row stay typed.
LEMMA SeenTyped ==
    ASSUME TypeOK, Grown, NEW i \in Ids, seen' = MarkSeen(i)
    PROVE  DOMAIN seen' \subseteq Ids' /\ \A j \in DOMAIN seen' : seen'[j] \in Nat
BY WindowIsNatural DEF TypeOK, Grown, MarkSeen

LEMMA SeenSameTyped ==
    ASSUME TypeOK, Grown, UNCHANGED seen
    PROVE  DOMAIN seen' \subseteq Ids' /\ \A j \in DOMAIN seen' : seen'[j] \in Nat
BY DEF TypeOK, Grown

LEMMA CacheTyped ==
    ASSUME TypeOK, Grown, NEW t \in Tasks, NEW i \in Ids', cache' = CacheResult(t, i)
    PROVE  cache' \in [Tasks -> Nat] /\ \A u \in Tasks : cache'[u] <= Len(chain')
<1>1. i \in Nat /\ i <= Len(chain') /\ Len(chain') \in Nat
  BY DEF Grown, Ids
<1>2. \A u \in Tasks : cache[u] \in Nat /\ cache[u] <= Len(chain)
  BY DEF TypeOK
<1>3. Len(chain) <= Len(chain') /\ Len(chain) \in Nat
  BY GrownKeeps DEF TypeOK
<1>4. \A u \in Tasks : cache'[u] = cache[u] \/ cache'[u] = i
  BY DEF CacheResult, TypeOK
<1>5. cache' \in [Tasks -> Nat]
  BY <1>1 DEF CacheResult, TypeOK
<1>6. QED
  BY <1>1, <1>2, <1>3, <1>4, <1>5

LEMMA CacheSameTyped ==
    ASSUME TypeOK, Grown, UNCHANGED cache
    PROVE  cache' \in [Tasks -> Nat] /\ \A u \in Tasks : cache'[u] <= Len(chain')
<1>1. Len(chain) <= Len(chain') /\ Len(chain) \in Nat /\ Len(chain') \in Nat
  BY GrownKeeps DEF TypeOK, Grown
<1>2. QED
  BY <1>1 DEF TypeOK

\* What an action must still show once the chain has grown.
LEMMA RestTyped ==
    ASSUME TypeOK, Grown,
           queued' \subseteq Ids', running' \subseteq Offers',
           UNCHANGED seen \/ \E i \in Ids : seen' = MarkSeen(i),
           UNCHANGED cache \/ \E t \in Tasks, i \in Ids' : cache' = CacheResult(t, i),
           pend' \in [Tasks -> TaskState], due' \in [Tasks -> Nat],
           paused' \subseteq Performers,
           clock' \in Nat, kills' \in Nat, pauses' \in Nat
    PROVE  TypeOK'
<1>1. DOMAIN seen' \subseteq Ids' /\ \A j \in DOMAIN seen' : seen'[j] \in Nat
  BY SeenTyped, SeenSameTyped
<1>2. cache' \in [Tasks -> Nat] /\ \A u \in Tasks : cache'[u] <= Len(chain')
  BY CacheTyped, CacheSameTyped
<1>3. chain' \in Seq(Act)
  BY DEF Grown
<1>4. QED
  BY <1>1, <1>2, <1>3 DEF TypeOK

\* A kill forgets the running brains and the pauses.
LEMMA CrashTyped ==
    ASSUME TypeOK, Grown, Crash
    PROVE  /\ running' \subseteq Offers' /\ paused' \subseteq Performers
           /\ clock' \in Nat /\ kills' \in Nat /\ pauses' \in Nat
BY DEF TypeOK, Crash

LEMMA AliveTyped ==
    ASSUME TypeOK, Grown, UNCHANGED <<running, paused, clock, kills, pauses>>
    PROVE  /\ running' \subseteq Offers' /\ paused' \subseteq Performers
           /\ clock' \in Nat /\ kills' \in Nat /\ pauses' \in Nat
BY GrownKeeps DEF TypeOK

LEMMA DelegatorTyped ==
    ASSUME TypeOK, NEW t \in Tasks, NEW p \in Performers,
           Delegate(t, p) \/ \E enqueued \in BOOLEAN : KilledInDelegate(t, p, enqueued)
    PROVE  TypeOK'
<1>1. OfferTo(t, p) \in Act /\ chain' = Append(chain, OfferTo(t, p))
  BY OfferIsAct DEF Delegate, KilledInDelegate
<1>2. Grown /\ Ids' = Ids \cup {NewId} /\ Offers \subseteq Offers'
  BY <1>1, AppendGrown, AppendExtends, GrownKeeps
<1>3. queued' \subseteq Ids'
  BY <1>2 DEF TypeOK, Delegate, KilledInDelegate
<1>4. Deadline(t) \in Nat
  BY ExchangeAssumption DEF TypeOK, Deadline, ExchangeAssumption
<1>5. CASE Delegate(t, p)
  <2>1. pend' \in [Tasks -> TaskState] /\ due' \in [Tasks -> Nat]
    BY <1>4, <1>5 DEF TypeOK, Delegate, OpenRow, TaskState
  <2>2. QED
    BY <1>2, <1>3, <1>5, <2>1, RestTyped, AliveTyped DEF Delegate
<1>6. CASE \E enqueued \in BOOLEAN : KilledInDelegate(t, p, enqueued)
  <2>1. pend' \in [Tasks -> TaskState] /\ due' \in [Tasks -> Nat]
    BY <1>6 DEF TypeOK, KilledInDelegate
  <2>2. QED
    BY <1>2, <1>3, <1>6, <2>1, RestTyped, CrashTyped DEF KilledInDelegate
<1>7. QED
  BY <1>5, <1>6

LEMMA TakeAnswerTyped ==
    ASSUME TypeOK, NEW i \in Ids, NEW answered \in BOOLEAN, TakeAnswer(i, answered)
    PROVE  TypeOK'
<1>1. Grown /\ Ids' = Ids /\ Offers \subseteq Offers'
  BY SameGrown, GrownKeeps DEF TakeAnswer
<1>2. queued' \subseteq Ids' /\ running' \subseteq Offers'
  BY <1>1 DEF TypeOK, TakeAnswer, Settled
<1>3. StateAfter(chain[i].type) \in TaskState
  BY DEF StateAfter, TaskState
<1>4. pend' \in [Tasks -> TaskState]
  BY <1>3, EntryIsAct DEF TypeOK, TakeAnswer
<1>5. QED
  BY <1>1, <1>2, <1>4, RestTyped DEF TypeOK, TakeAnswer

LEMMA SweepTyped == ASSUME TypeOK, Sweep PROVE TypeOK'
<1>1. Grown /\ Ids \subseteq Ids' /\ Offers \subseteq Offers'
  BY SweepGrown, GrownKeeps DEF Grown
<1>2. queued' \subseteq Ids' /\ running' \subseteq Offers'
  BY <1>1 DEF TypeOK, Sweep
<1>3. pend' \in [Tasks -> TaskState]
  BY DEF TypeOK, Sweep, TaskState
<1>4. QED
  BY <1>1, <1>2, <1>3, RestTyped DEF TypeOK, Sweep

LEMMA KilledInSweepTyped ==
    ASSUME TypeOK, NEW t \in Tasks, KilledInSweep(t)
    PROVE  TypeOK'
<1>1. Grown /\ Ids \subseteq Ids'
  BY MissedIsAct, AppendGrown DEF KilledInSweep, PublishedFirst, Grown
<1>2. queued' \subseteq Ids' /\ running' \subseteq Offers' /\ paused' \subseteq Performers
  BY <1>1 DEF TypeOK, KilledInSweep, Crash
<1>3. QED
  BY <1>1, <1>2, RestTyped DEF TypeOK, KilledInSweep, PublishedFirst, Crash

\* The performer's steps that publish nothing.
LEMMA QuietTyped ==
    ASSUME TypeOK, NEW i \in Ids, NEW answered \in BOOLEAN,
           DropDuplicate(i) \/ Replay(i, answered) \/ KilledInReceive(i) \/ GiveUp(i)
    PROVE  TypeOK'
<1>1. Grown /\ Ids' = Ids /\ Offers \subseteq Offers'
  BY SameGrown, GrownKeeps DEF DropDuplicate, Replay, KilledInReceive, GiveUp
<1>2. CachedResult(chain[i].task, chain[i].performer) \in Ids \cup {0}
  BY EntryIsAct DEF TypeOK, CachedResult, Ids
<1>3. queued' \subseteq Ids'
  <2>1. queued \subseteq Ids'
    BY <1>1 DEF TypeOK
  <2>2. Settled(i, answered) \subseteq queued /\ Settled(i, TRUE) \subseteq queued
    BY DEF Settled
  <2>3. CASE Replay(i, answered)
    BY <1>1, <1>2, <2>1, <2>2, <2>3 DEF Replay
  <2>4. QED
    BY <2>1, <2>2, <2>3 DEF DropDuplicate, KilledInReceive, GiveUp
<1>4. Crash \/ UNCHANGED <<running, paused, clock, kills, pauses>>
  BY DEF DropDuplicate, Replay, KilledInReceive, GiveUp
<1>5. pend' \in [Tasks -> TaskState] /\ due' \in [Tasks -> Nat]
  BY DEF TypeOK, DropDuplicate, Replay, KilledInReceive, GiveUp
<1>6. UNCHANGED seen \/ seen' = MarkSeen(i)
  BY DEF DropDuplicate, Replay, TakeOffer, KilledInReceive, GiveUp
<1>7. UNCHANGED cache
  BY DEF DropDuplicate, Replay, KilledInReceive, GiveUp
<1>8. QED
  BY <1>1, <1>3, <1>4, <1>5, <1>6, <1>7, RestTyped, CrashTyped, AliveTyped

\* The performer's steps that answer an Offer.
LEMMA FirstReplyTyped ==
    ASSUME TypeOK, NEW i \in Ids, NEW answered \in BOOLEAN,
           Decline(i, answered) \/ Start(i) \/ KilledInFirstReply(i)
    PROVE  TypeOK'
<1>1. PICK type \in {"Accept", "Reject"} : chain' = Append(chain, Reply(type, i))
  BY DEF Decline, Start, KilledInFirstReply
<1>2. Grown /\ Ids' = Ids \cup {NewId} /\ Offers \subseteq Offers'
  BY <1>1, ReplyIsAct, AppendGrown, AppendExtends, GrownKeeps
<1>3. queued' \subseteq Ids'
  BY <1>2 DEF TypeOK, Decline, Start, KilledInFirstReply, Settled
<1>4. i \in Offers
  BY DEF Decline, Start, KilledInFirstReply, TakeOffer, Offers
<1>5. running' \subseteq Offers' /\ paused' \subseteq Performers /\ kills' \in Nat
  BY <1>2, <1>4 DEF TypeOK, Decline, Start, KilledInFirstReply, Crash
<1>6. QED
  BY <1>2, <1>3, <1>5, RestTyped
     DEF TypeOK, Decline, Start, KilledInFirstReply, TakeOffer, Crash

LEMMA OutcomeTyped ==
    ASSUME TypeOK, NEW i \in Ids, NEW ok \in BOOLEAN, NEW flag \in BOOLEAN,
           BrainReturns(i, ok, flag) \/ KilledInReply(i, ok, flag)
    PROVE  TypeOK'
<1>1. OutcomeType(ok) \in {"Accept", "Reject", "Result", "Failure", "Missed"}
      /\ chain' = Append(chain, Reply(OutcomeType(ok), i))
  BY DEF BrainReturns, KilledInReply, OutcomeType
<1>2. Grown /\ Ids' = Ids \cup {NewId} /\ Offers \subseteq Offers'
  BY <1>1, ReplyIsAct, AppendGrown, AppendExtends, GrownKeeps
<1>3. queued' \subseteq Ids' /\ running' \subseteq Offers' /\ paused' \subseteq Performers
  BY <1>2 DEF TypeOK, BrainReturns, KilledInReply, Settled, Crash
<1>4. UNCHANGED cache \/ \E t \in Tasks, j \in Ids' : cache' = CacheResult(t, j)
  BY <1>2, EntryIsAct DEF BrainReturns, KilledInReply
<1>5. QED
  BY <1>2, <1>3, <1>4, RestTyped DEF TypeOK, BrainReturns, KilledInReply, Crash

LEMMA AroundTyped ==
    ASSUME TypeOK, Kill \/ Tick \/ (\E p \in Performers : Pause(p)) \/ UNCHANGED vars
    PROVE  TypeOK'
<1> USE DEF durable
<1>1. Grown /\ Ids' = Ids /\ Offers \subseteq Offers'
  BY SameGrown, GrownKeeps DEF Kill, Tick, Pause, vars
<1>2. running' \subseteq Offers' /\ paused' \subseteq Performers /\ queued' \subseteq Ids'
  BY <1>1 DEF TypeOK, Kill, Crash, Tick, Pause, vars
<1>3. QED
  BY <1>1, <1>2, RestTyped DEF TypeOK, Kill, Crash, Tick, Pause, vars

LEMMA NextTyped == ASSUME TypeOK, [Next]_vars PROVE TypeOK'
<1>1. CASE \E t \in Tasks, p \in Performers :
             Delegate(t, p) \/ \E enqueued \in BOOLEAN : KilledInDelegate(t, p, enqueued)
  BY <1>1, DelegatorTyped
<1>2. CASE \E i \in Ids : Take(i) \/ Finish(i)
  BY <1>2, TakeAnswerTyped, QuietTyped, FirstReplyTyped, OutcomeTyped
     DEF Take, Finish, Answers
<1>3. CASE \E i \in Ids :
             \/ KilledInReceive(i) \/ KilledInFirstReply(i) \/ GiveUp(i)
             \/ \E ok, enqueued \in BOOLEAN : KilledInReply(i, ok, enqueued)
  BY <1>3, QuietTyped, FirstReplyTyped, OutcomeTyped
<1>4. CASE Sweep \/ \E t \in Tasks : KilledInSweep(t)
  BY <1>4, SweepTyped, KilledInSweepTyped
<1>5. CASE Kill \/ Tick \/ (\E p \in Performers : Pause(p)) \/ UNCHANGED vars
  BY <1>5, AroundTyped
<1>6. QED
  BY <1>1, <1>2, <1>3, <1>4, <1>5 DEF Next

\* Every reachable state is well typed, whatever the tasks, performers and bounds.
THEOREM TypeCorrect == Spec => []TypeOK
<1>1. Init => TypeOK
  BY InitTyped
<1>2. TypeOK /\ [Next]_vars => TypeOK'
  BY NextTyped
<1>3. QED
  BY <1>1, <1>2, PTL DEF Spec

------------------------------------------------------------------------------
(* The cached outcome and the evidence of a closed row *)

\* A returning brain is the only writer of the cache.
LEMMA NextCaches ==
    ASSUME TypeOK, [Next]_vars
    PROVE  UNCHANGED cache \/ \E t \in Tasks, i \in Nat : cache' = CacheResult(t, i)
<1>1. ASSUME NEW i \in Ids, NEW ok \in BOOLEAN, NEW answered \in BOOLEAN,
             BrainReturns(i, ok, answered)
      PROVE  \E t \in Tasks, j \in Nat : cache' = CacheResult(t, j)
  BY <1>1, EntryIsAct DEF BrainReturns, NewId
<1>2. CASE \E i \in Ids : Finish(i)
  BY <1>1, <1>2 DEF Finish, Answers
<1>3. CASE \E i \in Ids : Take(i)
  BY <1>3 DEF Take, DropDuplicate, Start, TakeAnswer, Decline, Replay
<1>4. CASE \E i \in Ids : 
             \/ KilledInReceive(i) \/ KilledInFirstReply(i) \/ GiveUp(i)
             \/ \E ok, enqueued \in BOOLEAN : KilledInReply(i, ok, enqueued)
  BY <1>4 DEF KilledInReceive, KilledInFirstReply, GiveUp, KilledInReply
<1>5. CASE ~(\E i \in Ids : Take(i) \/ Finish(i)) /\ ~(\E i \in Ids : 
             \/ KilledInReceive(i) \/ KilledInFirstReply(i) \/ GiveUp(i)
             \/ \E ok, enqueued \in BOOLEAN : KilledInReply(i, ok, enqueued))
  BY <1>5 DEF Next, Delegate, KilledInDelegate, Sweep, KilledInSweep, Kill, durable,
              Pause, Tick, vars
<1>6. QED
  BY <1>2, <1>3, <1>4, <1>5

\* The cached outcome of a task is never replaced.
THEOREM FirstOutcomeIsCached == Spec => CacheIsFinal
<1>1. TypeOK /\ [Next]_vars => [\A t \in Tasks : cache[t] # 0 => cache'[t] = cache[t]]_vars
  <2>1. SUFFICES ASSUME TypeOK, [Next]_vars, NEW t \in Tasks, cache[t] # 0
                 PROVE  cache'[t] = cache[t]
    OBVIOUS
  <2>2. CASE UNCHANGED cache
    BY <2>2
  <2>3. ASSUME NEW u \in Tasks, NEW i \in Nat, cache' = CacheResult(u, i)
        PROVE  cache'[t] = cache[t]
    BY <2>1, <2>3 DEF CacheResult, TypeOK
  <2>4. QED
    BY <2>1, <2>2, <2>3, NextCaches
<1>2. QED
  BY <1>1, TypeCorrect, PTL DEF Spec, CacheIsFinal

\* A row may close only over evidence; evidence never leaves the chain.
Evidence(t) ==
    /\ pend[t] = "completed" =>
        \E i \in Ids : chain[i].type = "Result" /\ chain[i].task = t
    /\ pend[t] = "failed" =>
        \E i \in Ids : chain[i].type \in {"Failure", "Missed"} /\ chain[i].task = t

LEMMA EvidenceStays ==
    ASSUME Grown, NEW t \in Tasks, Evidence(t), pend'[t] = pend[t]
    PROVE  Evidence(t)'
BY DEF Grown, Evidence

LEMMA EvidenceOfOpen ==
    ASSUME NEW t \in Tasks, pend'[t] \in {"none", "offered", "accepted"}
    PROVE  Evidence(t)'
BY DEF Evidence

LEMMA DelegatorEvidence ==
    ASSUME TypeOK, NEW u \in Tasks, NEW p \in Performers,
           Delegate(u, p) \/ \E enqueued \in BOOLEAN : KilledInDelegate(u, p, enqueued),
           NEW t \in Tasks, Evidence(t)
    PROVE  Evidence(t)'
<1>1. Grown
  BY OfferIsAct, AppendGrown DEF Delegate, KilledInDelegate
<1>2. pend'[t] = pend[t] \/ pend'[t] = "offered"
  BY DEF TypeOK, Delegate, KilledInDelegate, OpenRow
<1>3. QED
  BY <1>1, <1>2, EvidenceStays, EvidenceOfOpen

LEMMA AnswerEvidence ==
    ASSUME TypeOK, NEW i \in Ids, NEW answered \in BOOLEAN, TakeAnswer(i, answered),
           NEW t \in Tasks, Evidence(t)
    PROVE  Evidence(t)'
<1>1. Grown /\ Ids' = Ids /\ chain' = chain
  BY SameGrown DEF TakeAnswer
<1>2. CASE pend'[t] = pend[t]
  BY <1>1, <1>2, EvidenceStays
<1>3. CASE pend'[t] # pend[t]
  <2>1. chain[i].type \notin {"Reject", "Offer"} /\ chain[i].task = t
        /\ pend'[t] = StateAfter(chain[i].type)
    BY <1>3 DEF TypeOK, TakeAnswer
  <2>2. chain[i].type \in {"Accept", "Result", "Failure", "Missed"}
    BY <2>1, EntryIsAct DEF Act
  <2>3. QED
    BY <1>1, <2>1, <2>2 DEF StateAfter, Evidence
<1>4. QED
  BY <1>2, <1>3

LEMMA SweepEvidence ==
    ASSUME TypeOK, Sweep, NEW t \in Tasks, Evidence(t)
    PROVE  Evidence(t)'
<1>1. CASE t \in Overdue
  <2>1. \E i \in Ids' : chain'[i] = MissedBy(t)
    BY <1>1, SweepExtends DEF Sweep
  <2>2. pend'[t] = "failed"
    BY <1>1 DEF Sweep
  <2>3. QED
    BY <2>1, <2>2 DEF Evidence, MissedBy
<1>2. CASE t \notin Overdue
  BY <1>2, SweepGrown, EvidenceStays DEF Sweep
<1>3. QED
  BY <1>1, <1>2

LEMMA NextEvidence ==
    ASSUME TypeOK, [Next]_vars, NEW t \in Tasks, Evidence(t)
    PROVE  Evidence(t)'
<1>1. CASE \E u \in Tasks, p \in Performers :
             Delegate(u, p) \/ \E enqueued \in BOOLEAN : KilledInDelegate(u, p, enqueued)
  BY <1>1, DelegatorEvidence
<1>2. CASE Sweep
  BY <1>2, SweepEvidence
<1>3. CASE \E i \in Ids, answered \in BOOLEAN : TakeAnswer(i, answered)
  BY <1>3, AnswerEvidence
<1>4. ASSUME NEW i \in Ids, NEW flag \in BOOLEAN, NEW ok \in BOOLEAN,
             \/ DropDuplicate(i) \/ Replay(i, flag) \/ KilledInReceive(i) \/ GiveUp(i)
             \/ Decline(i, flag) \/ Start(i) \/ KilledInFirstReply(i)
             \/ BrainReturns(i, ok, flag) \/ KilledInReply(i, ok, flag)
      PROVE  Grown /\ UNCHANGED pend
  <2>1. UNCHANGED chain \/ \E type \in {"Accept", "Reject", "Result", "Failure", "Missed"} :
                              chain' = Append(chain, Reply(type, i))
    BY <1>4 DEF DropDuplicate, Replay, KilledInReceive, GiveUp, Decline, Start,
                KilledInFirstReply, BrainReturns, KilledInReply, OutcomeType
  <2>2. UNCHANGED pend
    BY <1>4 DEF DropDuplicate, Replay, KilledInReceive, GiveUp, Decline, Start,
                KilledInFirstReply, BrainReturns, KilledInReply
  <2>3. QED
    BY <2>1, <2>2, ReplyIsAct, AppendGrown, SameGrown
<1>5. CASE \E i \in Ids, flag, ok \in BOOLEAN :
             \/ DropDuplicate(i) \/ Replay(i, flag) \/ KilledInReceive(i) \/ GiveUp(i)
             \/ Decline(i, flag) \/ Start(i) \/ KilledInFirstReply(i)
             \/ BrainReturns(i, ok, flag) \/ KilledInReply(i, ok, flag)
  BY <1>4, <1>5, EvidenceStays
<1>6. ASSUME NEW u \in Tasks, KilledInSweep(u)
      PROVE  Grown /\ UNCHANGED pend
  BY <1>6, MissedIsAct, AppendGrown DEF KilledInSweep, PublishedFirst
<1>7. CASE Kill \/ Tick \/ (\E p \in Performers : Pause(p)) \/ UNCHANGED vars
  BY <1>7, SameGrown, EvidenceStays DEF Kill, Tick, Pause, durable, vars
<1>8. QED
  BY <1>1, <1>2, <1>3, <1>5, <1>6, <1>7, EvidenceStays DEF Next, Take, Finish, Answers

\* A completed task has a Result on the chain and a failed one an Error, whatever
\* was lost, killed, paused or sent again.
THEOREM ClosedHasEvidence == Spec => []ClosedWithEvidence
<1>1. Init => ClosedWithEvidence
  BY DEF Init, ClosedWithEvidence
<1>2. TypeOK /\ ClosedWithEvidence /\ [Next]_vars => ClosedWithEvidence'
  <2>1. ClosedWithEvidence <=> \A t \in Tasks : Evidence(t)
    BY DEF ClosedWithEvidence, Evidence
  <2>2. (\A t \in Tasks : Evidence(t))' => ClosedWithEvidence'
    BY DEF ClosedWithEvidence, Evidence
  <2>3. QED
    BY <2>1, <2>2, NextEvidence
<1>3. QED
  BY <1>1, <1>2, TypeCorrect, PTL DEF Spec

------------------------------------------------------------------------------
(* One answer per Offer *)

\* A window opened now ends after every instant the clock can show.
LEMMA OpenWindows ==
    ASSUME SeenTtl > MaxTime, TypeOK, WindowsOpen, NEW i, seen' = MarkSeen(i), UNCHANGED clock
    PROVE  /\ WindowsOpen'
           /\ DOMAIN seen' = DOMAIN seen \cup {i}
<1>1. WindowEnd = MaxTime + 1
  BY ExchangeAssumption DEF TypeOK, WindowEnd, ExchangeAssumption
<1>2. \A j \in DOMAIN seen' : seen'[j] = seen[j] \/ seen'[j] = WindowEnd
  BY DEF MarkSeen
<1>3. DOMAIN seen' = DOMAIN seen \cup {i}
  BY DEF MarkSeen
<1>4. \A j \in DOMAIN seen' : seen'[j] > MaxTime
  BY <1>1, <1>3, ExchangeAssumption DEF MarkSeen, WindowsOpen, ExchangeAssumption
<1>5. QED
  BY <1>3, <1>4 DEF WindowsOpen

LEMMA NotSeen ==
    ASSUME TypeOK, WindowsOpen, NEW i, ~HasSeen(i)
    PROVE  i \notin DOMAIN seen
BY ExchangeAssumption DEF TypeOK, WindowsOpen, HasSeen, ExchangeAssumption

\* A step that answers no Offer.
Silent == /\ Grown
          /\ \A i \in Ids' \ Ids : chain'[i].type \in {"Offer", "Missed"}
          /\ running' \subseteq running
          /\ DOMAIN seen \subseteq DOMAIN seen'

LEMMA SilentAnswers ==
    ASSUME AnswersInv, Silent, WindowsOpen'
    PROVE  AnswersInv'
<1>1. \A i \in Ids' : IsReply(i)' => i \in Ids /\ IsReply(i) /\ chain'[i] = chain[i]
  BY DEF Silent, Grown, IsReply, FirstReply, IsOutcome
<1>2. RepliesSeen'
  BY <1>1 DEF AnswersInv, RepliesSeen, Silent
<1>3. RunningUnanswered'
  BY <1>1 DEF AnswersInv, RunningUnanswered, Silent
<1>4. OneAnswerPerOffer'
  BY <1>1 DEF AnswersInv, OneAnswerPerOffer, IsReply, FirstReply, IsOutcome
<1>5. QED
  BY <1>2, <1>3, <1>4 DEF AnswersInv

\* The chain after one reply to Offer i.
Answered(i, type) == chain' = Append(chain, Reply(type, i))

LEMMA ReplyEntries ==
    ASSUME TypeOK, NEW i \in Ids,
           NEW type \in {"Accept", "Reject", "Result", "Failure"}, Answered(i, type)
    PROVE  \E n \in Nat :
           /\ Ids' = Ids \cup {n} /\ n \notin Ids
           /\ \A j \in Ids : chain'[j] = chain[j] /\ j < n
           /\ chain'[n].type = type /\ chain'[n].re = i
           /\ \A j \in Ids : (IsReply(j)' <=> IsReply(j)) /\ (FirstReply(j)' <=> FirstReply(j))
                             /\ (IsOutcome(j)' <=> IsOutcome(j))
<1>1. Reply(type, i) \in Act
  BY ReplyIsAct
<1>2. /\ Ids' = Ids \cup {NewId} /\ NewId \notin Ids
      /\ \A j \in Ids : chain'[j] = chain[j]
      /\ chain'[NewId] = Reply(type, i)
  BY <1>1, AppendExtends DEF Answered
<1>3. NewId \in Nat /\ \A j \in Ids : j < NewId
  BY EntryIsAct DEF NewId
<1>4. Reply(type, i).type = type /\ Reply(type, i).re = i
  BY DEF Reply
<1>5. QED
  BY <1>2, <1>3, <1>4 DEF IsReply, FirstReply, IsOutcome

LEMMA FirstReplyAnswers ==
    ASSUME SeenTtl > MaxTime, TypeOK, AnswersInv, NEW i \in Ids, ~HasSeen(i),
           seen' = MarkSeen(i), UNCHANGED clock,
           NEW type \in {"Accept", "Reject"}, Answered(i, type),
           running' \subseteq running \/ (type = "Accept" /\ running' \subseteq running \cup {i})
    PROVE  AnswersInv'
<1>1. WindowsOpen' /\ DOMAIN seen' = DOMAIN seen \cup {i} /\ i \notin DOMAIN seen
  BY OpenWindows, NotSeen DEF AnswersInv
<1>2. PICK n \in Nat :
      /\ Ids' = Ids \cup {n} /\ n \notin Ids
      /\ \A j \in Ids : chain'[j] = chain[j] /\ j < n
      /\ chain'[n].type = type /\ chain'[n].re = i
      /\ \A j \in Ids : (IsReply(j)' <=> IsReply(j)) /\ (FirstReply(j)' <=> FirstReply(j))
                        /\ (IsOutcome(j)' <=> IsOutcome(j))
  BY ReplyEntries
<1>3. \A j \in Ids : IsReply(j) => chain[j].re # i
  BY <1>1 DEF AnswersInv, RepliesSeen
<1>4. RepliesSeen'
  BY <1>1, <1>2 DEF AnswersInv, RepliesSeen
<1>5. RunningUnanswered'
  <2>1. SUFFICES ASSUME NEW k \in running'
                 PROVE  /\ k \in DOMAIN seen'
                        /\ \A j \in Ids' : IsReply(j)' /\ chain'[j].re = k
                                            => chain'[j].type = "Accept"
    BY DEF RunningUnanswered
  <2>2. CASE k = i /\ type = "Accept"
    BY <1>1, <1>2, <1>3, <2>2
  <2>3. CASE k \in running
    <3>1. k \in DOMAIN seen /\ k # i
      BY <1>1, <2>3 DEF AnswersInv, RunningUnanswered
    <3>2. QED
      BY <1>1, <1>2, <2>3, <3>1 DEF AnswersInv, RunningUnanswered
  <2>4. QED
    BY <2>1, <2>2, <2>3
<1>6. OneAnswerPerOffer'
  <2>1. ~IsOutcome(n)' /\ FirstReply(n)'
    BY <1>2 DEF IsOutcome, FirstReply
  <2>2. SUFFICES ASSUME NEW j \in Ids', NEW k \in Ids'
                 PROVE  /\ (FirstReply(j)' /\ FirstReply(k)' /\ chain'[j].re = chain'[k].re)
                              => j = k
                        /\ (IsOutcome(j)' /\ IsOutcome(k)' /\ chain'[j].re = chain'[k].re)
                              => j = k
                        /\ (IsOutcome(j)' /\ FirstReply(k)' /\ chain'[j].re = chain'[k].re)
                              => chain'[k].type = "Accept" /\ k < j
    BY DEF OneAnswerPerOffer
  <2>3. CASE j \in Ids /\ k \in Ids
    <3>1. (FirstReply(j)' <=> FirstReply(j)) /\ (FirstReply(k)' <=> FirstReply(k))
          /\ (IsOutcome(j)' <=> IsOutcome(j)) /\ (IsOutcome(k)' <=> IsOutcome(k))
          /\ chain'[j] = chain[j] /\ chain'[k] = chain[k]
      BY <1>2, <2>3
    <3>2. QED
      BY <2>3, <3>1, Zenon DEF AnswersInv, OneAnswerPerOffer
  <2>4. CASE j = n /\ k = n
    BY <2>1, <2>4
  <2>5. CASE (j = n /\ k \in Ids) \/ (j \in Ids /\ k = n)
    BY <1>2, <1>3, <2>1, <2>5 DEF IsReply
  <2>6. QED
    BY <1>2, <2>3, <2>4, <2>5
<1>7. QED
  BY <1>1, <1>4, <1>5, <1>6 DEF AnswersInv

LEMMA OutcomeAnswers ==
    ASSUME TypeOK, AnswersInv, NEW i \in running, UNCHANGED <<seen, clock>>,
           NEW type \in {"Result", "Failure"}, Answered(i, type),
           running' \subseteq running \ {i}
    PROVE  AnswersInv'
<1>1. i \in Ids /\ i \in DOMAIN seen
      /\ \A j \in Ids : IsReply(j) /\ chain[j].re = i => chain[j].type = "Accept"
  BY DEF TypeOK, Offers, AnswersInv, RunningUnanswered
<1>2. PICK n \in Nat :
      /\ Ids' = Ids \cup {n} /\ n \notin Ids
      /\ \A j \in Ids : chain'[j] = chain[j] /\ j < n
      /\ chain'[n].type = type /\ chain'[n].re = i
      /\ \A j \in Ids : (IsReply(j)' <=> IsReply(j)) /\ (FirstReply(j)' <=> FirstReply(j))
                        /\ (IsOutcome(j)' <=> IsOutcome(j))
  BY <1>1, ReplyEntries
<1>3. WindowsOpen'
  BY DEF AnswersInv, WindowsOpen
<1>4. RepliesSeen'
  BY <1>1, <1>2 DEF AnswersInv, RepliesSeen
<1>5. RunningUnanswered'
  BY <1>2 DEF AnswersInv, RunningUnanswered
<1>6. OneAnswerPerOffer'
  <2>1. IsOutcome(n)' /\ ~FirstReply(n)'
    BY <1>2 DEF IsOutcome, FirstReply
  <2>2. \A j \in Ids : IsOutcome(j) => chain[j].re # i
    BY <1>1 DEF IsOutcome, IsReply
  <2>3. \A j \in Ids : FirstReply(j) /\ chain[j].re = i => chain[j].type = "Accept"
    BY <1>1 DEF IsReply
  <2>4. SUFFICES ASSUME NEW j \in Ids', NEW k \in Ids'
                 PROVE  /\ (FirstReply(j)' /\ FirstReply(k)' /\ chain'[j].re = chain'[k].re)
                              => j = k
                        /\ (IsOutcome(j)' /\ IsOutcome(k)' /\ chain'[j].re = chain'[k].re)
                              => j = k
                        /\ (IsOutcome(j)' /\ FirstReply(k)' /\ chain'[j].re = chain'[k].re)
                              => chain'[k].type = "Accept" /\ k < j
    BY DEF OneAnswerPerOffer
  <2>5. CASE j \in Ids /\ k \in Ids
    <3>1. (FirstReply(j)' <=> FirstReply(j)) /\ (FirstReply(k)' <=> FirstReply(k))
          /\ (IsOutcome(j)' <=> IsOutcome(j)) /\ (IsOutcome(k)' <=> IsOutcome(k))
          /\ chain'[j] = chain[j] /\ chain'[k] = chain[k]
      BY <1>2, <2>5
    <3>2. QED
      BY <2>5, <3>1, Zenon DEF AnswersInv, OneAnswerPerOffer
  <2>6. CASE j = n /\ k = n
    BY <2>1, <2>6
  <2>7. CASE (j = n /\ k \in Ids) \/ (j \in Ids /\ k = n)
    BY <1>2, <2>1, <2>2, <2>3, <2>7
  <2>8. QED
    BY <1>2, <2>5, <2>6, <2>7
<1>7. QED
  BY <1>3, <1>4, <1>5, <1>6 DEF AnswersInv

LEMMA WindowsStayOpen ==
    ASSUME WindowsOpen, UNCHANGED <<seen, clock>>
    PROVE  WindowsOpen' /\ DOMAIN seen' = DOMAIN seen
BY DEF WindowsOpen

\* An appended Offer or Missed answers nothing.
LEMMA SilentAppend ==
    ASSUME TypeOK, NEW a \in Act, a.type \in {"Offer", "Missed"}, chain' = Append(chain, a),
           running' \subseteq running, DOMAIN seen \subseteq DOMAIN seen'
    PROVE  Silent
BY AppendGrown, AppendExtends DEF Silent

LEMMA SilentSame ==
    ASSUME TypeOK, UNCHANGED chain, running' \subseteq running, DOMAIN seen \subseteq DOMAIN seen'
    PROVE  Silent
BY SameGrown DEF Silent

LEMMA DelegatorAnswers ==
    ASSUME TypeOK, AnswersInv, NEW t \in Tasks, NEW p \in Performers,
           Delegate(t, p) \/ \E enqueued \in BOOLEAN : KilledInDelegate(t, p, enqueued)
    PROVE  AnswersInv'
<1>1. OfferTo(t, p) \in Act /\ OfferTo(t, p).type = "Offer"
      /\ chain' = Append(chain, OfferTo(t, p))
  BY OfferIsAct DEF OfferTo, Delegate, KilledInDelegate
<1>2. running' \subseteq running /\ UNCHANGED <<seen, clock>>
  BY DEF Delegate, KilledInDelegate, Crash
<1>3. WindowsOpen' /\ DOMAIN seen' = DOMAIN seen
  BY <1>2, WindowsStayOpen DEF AnswersInv
<1>4. QED
  BY <1>1, <1>2, <1>3, SilentAppend, SilentAnswers

LEMMA SweepAnswers ==
    ASSUME TypeOK, AnswersInv, Sweep \/ \E t \in Tasks : KilledInSweep(t)
    PROVE  AnswersInv'
<1>1. running' \subseteq running /\ UNCHANGED <<seen, clock>>
  BY DEF Sweep, KilledInSweep, Crash
<1>2. WindowsOpen' /\ DOMAIN seen' = DOMAIN seen
  BY <1>1, WindowsStayOpen DEF AnswersInv
<1>3. CASE Sweep
  BY <1>1, <1>2, <1>3, SweepExtends, SweepGrown, SilentAnswers DEF Sweep, Silent
<1>4. ASSUME NEW t \in Tasks, KilledInSweep(t) PROVE AnswersInv'
  <2>1. MissedBy(t) \in Act /\ MissedBy(t).type = "Missed"
        /\ chain' = Append(chain, MissedBy(t))
    BY <1>4, MissedIsAct DEF KilledInSweep, PublishedFirst, MissedBy
  <2>2. QED
    BY <1>1, <1>2, <2>1, SilentAppend, SilentAnswers
<1>5. QED
  BY <1>3, <1>4

\* Steps that leave the chain alone; some mark an activity as seen.
LEMMA QuietAnswers ==
    ASSUME SeenTtl > MaxTime, TypeOK, AnswersInv, UNCHANGED <<chain, clock>>,
           running' \subseteq running,
           UNCHANGED seen \/ \E i \in Ids : seen' = MarkSeen(i)
    PROVE  AnswersInv'
<1>1. WindowsOpen' /\ DOMAIN seen \subseteq DOMAIN seen'
  BY OpenWindows, WindowsStayOpen DEF AnswersInv
<1>2. QED
  BY <1>1, SilentSame, SilentAnswers

LEMMA TickAnswers == ASSUME TypeOK, AnswersInv, Tick PROVE AnswersInv'
<1>1. clock' <= MaxTime
  BY ExchangeAssumption DEF TypeOK, Tick, ExchangeAssumption
<1>2. UNCHANGED <<chain, seen, running>>
  BY DEF Tick, durable
<1>3. WindowsOpen'
  BY <1>1, <1>2 DEF AnswersInv, WindowsOpen
<1>4. QED
  BY <1>2, <1>3, SilentSame, SilentAnswers

LEMMA PerformerAnswers ==
    ASSUME SeenTtl > MaxTime, TypeOK, AnswersInv, NEW i \in Ids,
           NEW ok \in BOOLEAN, NEW flag \in BOOLEAN,
           \/ Decline(i, flag) \/ Start(i) \/ KilledInFirstReply(i)
           \/ BrainReturns(i, ok, flag) \/ KilledInReply(i, ok, flag)
    PROVE  AnswersInv'
<1>1. CASE Decline(i, flag) \/ KilledInFirstReply(i)
  <2>1. ~HasSeen(i) /\ seen' = MarkSeen(i) /\ UNCHANGED clock /\ running' \subseteq running
    BY <1>1 DEF Decline, KilledInFirstReply, TakeOffer, Crash
  <2>2. \E type \in {"Accept", "Reject"} : Answered(i, type)
    BY <1>1 DEF Decline, KilledInFirstReply, Answered
  <2>3. QED
    BY <2>1, <2>2, FirstReplyAnswers
<1>2. CASE Start(i)
  <2>1. ~HasSeen(i) /\ seen' = MarkSeen(i) /\ UNCHANGED clock
        /\ running' = running \cup {i} /\ Answered(i, "Accept")
    BY <1>2 DEF Start, TakeOffer, Answered
  <2>2. QED
    BY <2>1, FirstReplyAnswers
<1>3. CASE BrainReturns(i, ok, flag) \/ KilledInReply(i, ok, flag)
  <2>1. UNCHANGED <<seen, clock>> /\ i \in running /\ running' \subseteq running \ {i}
        /\ Answered(i, OutcomeType(ok)) /\ OutcomeType(ok) \in {"Result", "Failure"}
    BY <1>3 DEF BrainReturns, KilledInReply, Crash, Answered, OutcomeType
  <2>2. QED
    BY <2>1, OutcomeAnswers
<1>4. QED
  BY <1>1, <1>2, <1>3

LEMMA NextAnswers ==
    ASSUME SeenTtl > MaxTime, TypeOK, AnswersInv, [Next]_vars
    PROVE  AnswersInv'
<1>1. CASE \E t \in Tasks, p \in Performers :
             Delegate(t, p) \/ \E enqueued \in BOOLEAN : KilledInDelegate(t, p, enqueued)
  BY <1>1, DelegatorAnswers
<1>2. CASE Sweep \/ \E t \in Tasks : KilledInSweep(t)
  BY <1>2, SweepAnswers
<1>3. ASSUME NEW i \in Ids, NEW flag \in BOOLEAN,
             DropDuplicate(i) \/ Replay(i, flag) \/ TakeAnswer(i, flag)
             \/ KilledInReceive(i) \/ GiveUp(i)
      PROVE  AnswersInv'
  <2>1. UNCHANGED <<chain, clock>> /\ running' \subseteq running
        /\ (UNCHANGED seen \/ seen' = MarkSeen(i))
    BY <1>3 DEF DropDuplicate, Replay, TakeOffer, TakeAnswer, KilledInReceive, GiveUp, Crash
  <2>2. QED
    BY <2>1, QuietAnswers
<1>4. CASE \E i \in Ids : Take(i) \/ Finish(i)
  BY <1>3, <1>4, PerformerAnswers DEF Take, Finish, Answers
<1>5. CASE \E i \in Ids :
             \/ KilledInReceive(i) \/ KilledInFirstReply(i) \/ GiveUp(i)
             \/ \E ok, enqueued \in BOOLEAN : KilledInReply(i, ok, enqueued)
  BY <1>3, <1>5, PerformerAnswers
<1>6. CASE Kill \/ (\E p \in Performers : Pause(p)) \/ UNCHANGED vars
  BY <1>6, QuietAnswers DEF Kill, Crash, Pause, durable, vars
<1>7. CASE Tick
  BY <1>7, TickAnswers
<1>8. QED
  BY <1>1, <1>2, <1>4, <1>5, <1>6, <1>7 DEF Next

\* What was answered was marked seen before, and an Offer being performed has been
\* accepted and not yet answered, while no window ends within MaxTime.
THEOREM AnswersStand ==
    ASSUME SeenTtl > MaxTime
    PROVE  Spec => []AnswersInv
<1>1. Init => AnswersInv
  BY ExchangeAssumption DEF Init, AnswersInv, WindowsOpen, RepliesSeen, RunningUnanswered,
     OneAnswerPerOffer, Ids, ExchangeAssumption
<1>2. TypeOK /\ AnswersInv /\ [Next]_vars => AnswersInv'
  BY NextAnswers
<1>3. QED
  BY <1>1, <1>2, TypeCorrect, PTL DEF Spec

\* While redelivery lasts no longer than the seen-id window, the performer answers
\* every Offer at most once, for any number of tasks, performers, Offers and kills.
THEOREM AnswersOnce ==
    ASSUME SeenTtl > MaxTime
    PROVE  Spec => []OneAnswerPerOffer
<1>1. AnswersInv => OneAnswerPerOffer
  BY DEF AnswersInv
<1>2. QED
  BY <1>1, AnswersStand, PTL

------------------------------------------------------------------------------
(* What can open a closed row again *)

\* Everything but the receipt of an answer keeps a closed row closed.
LEMMA RowStaysClosed ==
    ASSUME TypeOK, [Next]_vars, NEW t \in Tasks, Closed(t),
           ~ \E i \in Ids, answered \in BOOLEAN : TakeAnswer(i, answered)
    PROVE  Closed(t)'
<1>1. ASSUME NEW u \in Tasks, NEW p \in Performers, NEW enqueued \in BOOLEAN,
             Delegate(u, p) \/ KilledInDelegate(u, p, enqueued)
      PROVE  pend'[t] = pend[t]
  BY <1>1 DEF TypeOK, Closed, Delegate, KilledInDelegate, OpenRow
<1>2. CASE Sweep
  BY <1>2 DEF TypeOK, Closed, Sweep
<1>3. ASSUME NEW i \in Ids, NEW flag \in BOOLEAN, NEW ok \in BOOLEAN,
             \/ DropDuplicate(i) \/ Replay(i, flag) \/ KilledInReceive(i) \/ GiveUp(i)
             \/ Decline(i, flag) \/ Start(i) \/ KilledInFirstReply(i)
             \/ BrainReturns(i, ok, flag) \/ KilledInReply(i, ok, flag)
      PROVE  pend'[t] = pend[t]
  BY <1>3 DEF DropDuplicate, Replay, KilledInReceive, GiveUp, Decline, Start,
              KilledInFirstReply, BrainReturns, KilledInReply
<1>4. CASE \/ Kill \/ Tick \/ (\E p \in Performers : Pause(p)) \/ UNCHANGED vars
           \/ \E u \in Tasks : KilledInSweep(u)
  BY <1>4 DEF Kill, Tick, Pause, KilledInSweep, PublishedFirst, durable, vars, Closed
<1>5. pend'[t] = pend[t] => Closed(t)'
  BY DEF Closed
<1>6. QED
  BY <1>1, <1>2, <1>3, <1>4, <1>5 DEF Next, Take, Finish, Answers

\* An answer that opens a closed row is an Accept of its task, on its way until now.
LEMMA AnswerReopens ==
    ASSUME TypeOK, NEW i \in Ids, NEW answered \in BOOLEAN, TakeAnswer(i, answered),
           NEW t \in Tasks, Closed(t), ~Closed(t)'
    PROVE  pend'[t] = "accepted" /\ AcceptUnderWay(t)
<1>1. pend'[t] # pend[t]
  BY DEF Closed
<1>2. /\ i \in queued /\ ~HasSeen(i) /\ chain[i].type \notin {"Reject", "Offer"}
      /\ chain[i].task = t /\ pend'[t] = StateAfter(chain[i].type)
  BY <1>1 DEF TypeOK, TakeAnswer
<1>3. chain[i].type \in {"Accept", "Result", "Failure", "Missed"}
  BY <1>2, EntryIsAct DEF Act
<1>4. chain[i].type = "Accept"
  BY <1>2, <1>3 DEF StateAfter, Closed
<1>5. QED
  BY <1>2, <1>4 DEF StateAfter, AcceptUnderWay

\* The delegator's row, once closed, is opened again by a late Accept alone: not by
\* sending the task again, the sweep, a second outcome or a kill.
THEOREM OnlyAcceptReopens == Spec => ReopenedByAcceptOnly
<1>1. TypeOK /\ [Next]_vars =>
        [\A t \in Tasks : Closed(t) /\ ~Closed(t)' =>
             pend'[t] = "accepted" /\ AcceptUnderWay(t)]_vars
  BY RowStaysClosed, AnswerReopens
<1>2. QED
  BY <1>1, TypeCorrect, PTL DEF Spec, ReopenedByAcceptOnly
------------------------------------------------------------------------------
(* Whatever was answered is replayed *)

\* A step that appends no outcome and leaves the cache alone.
LEMMA CachedStays ==
    ASSUME TypeOK, OutcomesCached, kills' = kills, UNCHANGED cache, Ids \subseteq Ids',
           \A i \in Ids : chain'[i] = chain[i],
           \A i \in Ids' \ Ids : chain'[i].type \notin {"Result", "Failure"}
    PROVE  OutcomesCached'
BY DEF OutcomesCached, IsOutcome

\* Publishing anything but an outcome is such a step.
LEMMA AppendCached ==
    ASSUME TypeOK, OutcomesCached, kills' = kills, UNCHANGED cache,
           NEW a \in Act, a.type \notin {"Result", "Failure"}, chain' = Append(chain, a)
    PROVE  OutcomesCached'
BY AppendExtends, CachedStays

LEMMA SameCached ==
    ASSUME TypeOK, OutcomesCached, kills' = kills, UNCHANGED <<cache, chain>>
    PROVE  OutcomesCached'
BY CachedStays DEF Ids

\* The sweep publishes Errors of its own, which are no outcomes.
LEMMA SweepCached == ASSUME TypeOK, OutcomesCached, Sweep PROVE OutcomesCached'
<1>1. PICK order \in Orderings(Overdue) :
          chain' = chain \o [n \in DOMAIN order |-> MissedBy(order[n])]
  BY DEF Sweep
<1>2. \A i \in Ids' \ Ids : chain'[i].type = "Missed"
  BY <1>1, SweepExtends DEF MissedBy
<1>3. Ids \subseteq Ids' /\ \A i \in Ids : chain'[i] = chain[i]
  BY <1>1, SweepExtends
<1>4. UNCHANGED <<cache, kills>>
  BY DEF Sweep
<1>5. QED
  BY <1>2, <1>3, <1>4, CachedStays

\* A brain that returns caches what it publishes, unless the task has a cached outcome.
LEMMA ReturnCached ==
    ASSUME TypeOK, OutcomesCached, NEW i \in Ids, NEW ok \in BOOLEAN,
           NEW answered \in BOOLEAN, BrainReturns(i, ok, answered)
    PROVE  OutcomesCached'
<1>1. SUFFICES ASSUME kills = 0, NEW j \in Ids', IsOutcome(j)'
               PROVE  cache'[chain'[j].task] # 0
  BY DEF OutcomesCached, BrainReturns
<1>2. PICK a \in Act : a = Reply(OutcomeType(ok), i)
  BY ReplyIsAct DEF OutcomeType
<1>3. /\ Ids' = Ids \cup {NewId} /\ chain'[NewId] = a
      /\ \A n \in Ids : chain'[n] = chain[n]
  BY <1>2, AppendExtends DEF BrainReturns
<1>4. a.task = chain[i].task /\ chain[i].task \in Tasks /\ NewId # 0
  BY <1>2, EntryIsAct DEF Reply, NewId
<1>5. \A t \in Tasks : /\ cache[t] # 0 => cache'[t] # 0
                       /\ t = chain[i].task => cache'[t] # 0
  BY <1>4 DEF BrainReturns, CacheResult, TypeOK
<1>6. CASE j = NewId
  BY <1>3, <1>4, <1>5, <1>6
<1>7. CASE j \in Ids
  <2>1. chain'[j] = chain[j] /\ chain[j].task \in Tasks /\ IsOutcome(j)
    BY <1>1, <1>3, <1>7, EntryIsAct DEF IsOutcome
  <2>2. cache[chain[j].task] # 0
    BY <1>1, <1>7, <2>1 DEF OutcomesCached
  <2>3. QED
    BY <1>5, <2>1, <2>2
<1>8. QED
  BY <1>3, <1>6, <1>7

\* A kill ends what is claimed.
LEMMA CrashCached == ASSUME TypeOK, Crash PROVE OutcomesCached'
BY DEF TypeOK, Crash, OutcomesCached

\* While the process lives, whatever was answered is cached.
THEOREM AnsweredIsCached == Spec => []OutcomesCached
<1>1. Init => OutcomesCached
  BY DEF Init, OutcomesCached, Ids
<1>2. TypeOK /\ OutcomesCached /\ [Next]_vars => OutcomesCached'
  <2> SUFFICES ASSUME TypeOK, OutcomesCached, [Next]_vars PROVE OutcomesCached'
    OBVIOUS
  <2>1. ASSUME NEW t \in Tasks, NEW p \in Performers, Delegate(t, p)
        PROVE  OutcomesCached'
    <3>1. OfferTo(t, p) \in Act /\ OfferTo(t, p).type = "Offer"
      BY OfferIsAct DEF OfferTo
    <3>2. chain' = Append(chain, OfferTo(t, p)) /\ UNCHANGED <<cache, kills>>
      BY <2>1 DEF Delegate
    <3>3. QED
      BY <3>1, <3>2, AppendCached
  <2>2. ASSUME NEW i \in Ids, NEW answered \in BOOLEAN,
               \/ Decline(i, answered) \/ Start(i)
        PROVE  OutcomesCached'
    <3>1. \E type \in {"Accept", "Reject"} : chain' = Append(chain, Reply(type, i))
      BY <2>2 DEF Decline, Start
    <3>2. UNCHANGED <<cache, kills>>
      BY <2>2 DEF Decline, Start
    <3>3. \A type \in {"Accept", "Reject"} : Reply(type, i) \in Act /\ Reply(type, i).type = type
      BY ReplyIsAct DEF Reply
    <3>4. QED
      BY <3>1, <3>2, <3>3, AppendCached
  <2>3. ASSUME NEW i \in Ids, NEW answered \in BOOLEAN,
               \/ DropDuplicate(i) \/ Replay(i, answered) \/ TakeAnswer(i, answered) \/ GiveUp(i)
        PROVE  OutcomesCached'
    <3>1. UNCHANGED <<cache, chain, kills>>
      BY <2>3 DEF DropDuplicate, Replay, TakeAnswer, GiveUp
    <3>2. QED
      BY <3>1, SameCached
  <2>4. CASE Tick \/ (\E p \in Performers : Pause(p)) \/ UNCHANGED vars
    <3>1. UNCHANGED <<cache, chain, kills>>
      BY <2>4 DEF Tick, Pause, durable, vars
    <3>2. QED
      BY <3>1, SameCached
  <2>5. ASSUME NEW i \in Ids, NEW ok \in BOOLEAN, NEW enqueued \in BOOLEAN,
               \/ KilledInReceive(i) \/ KilledInFirstReply(i)
               \/ KilledInReply(i, ok, enqueued)
        PROVE  OutcomesCached'
    BY <2>5, CrashCached DEF KilledInReceive, KilledInFirstReply, KilledInReply
  <2>6. ASSUME NEW t \in Tasks, NEW p \in Performers, NEW enqueued \in BOOLEAN,
               KilledInDelegate(t, p, enqueued)
        PROVE  OutcomesCached'
    BY <2>6, CrashCached DEF KilledInDelegate
  <2>7. CASE Sweep
    BY <2>7, SweepCached
  <2>8. CASE Kill \/ \E t \in Tasks : KilledInSweep(t)
    BY <2>8, CrashCached DEF Kill, KilledInSweep
  <2>9. ASSUME NEW i \in Ids, Take(i) \/ Finish(i) PROVE OutcomesCached'
    BY <2>2, <2>3, <2>9, ReturnCached DEF Take, Finish, Answers
  <2>10. QED
    BY <2>1, <2>3, <2>4, <2>5, <2>6, <2>7, <2>8, <2>9 DEF Next
<1>3. QED
  BY <1>1, <1>2, TypeCorrect, PTL DEF Spec

\* A performer that answered a task is not made to perform it again while the process
\* lives, unless another agent of the instance answered that task first.
THEOREM AnsweredStaysAnswered == Spec => AnsweredIsReplayed
<1>1. TypeOK /\ OutcomesCached /\ [Next]_vars =>
          [kills = 0 => \A i \in running' \ running :
               LET t == chain[i].task  p == chain[i].performer IN
               Outcomes(t, p) # {} => CachedOfAnother(t, p)]_vars
  <2> SUFFICES ASSUME TypeOK, OutcomesCached, Next, kills = 0, NEW i \in running' \ running,
                      Outcomes(chain[i].task, chain[i].performer) # {}
               PROVE  CachedOfAnother(chain[i].task, chain[i].performer)
    BY DEF vars
  <2>1. i \in Ids /\ Start(i)
    <3>1. ASSUME NEW j \in Ids, Take(j) PROVE running' = running \/ Start(j)
      BY <3>1 DEF Take, DropDuplicate, TakeAnswer, Decline, Replay
    <3>2. ASSUME NEW j \in Ids, Finish(j) PROVE running' \subseteq running
      BY <3>2 DEF Finish, BrainReturns
    <3>3. ASSUME NEW j \in Ids, NEW ok \in BOOLEAN, NEW enqueued \in BOOLEAN,
                 \/ KilledInReceive(j) \/ KilledInFirstReply(j) \/ GiveUp(j)
                 \/ KilledInReply(j, ok, enqueued)
          PROVE  running' \subseteq running
      BY <3>3 DEF KilledInReceive, KilledInFirstReply, GiveUp, KilledInReply, Crash
    <3>4. ASSUME NEW t \in Tasks, NEW p \in Performers, NEW enqueued \in BOOLEAN,
                 Delegate(t, p) \/ KilledInDelegate(t, p, enqueued)
          PROVE  running' \subseteq running
      BY <3>4 DEF Delegate, KilledInDelegate, Crash
    <3>5. ASSUME \/ Sweep \/ Kill \/ Tick \/ \E p \in Performers : Pause(p)
                 \/ \E t \in Tasks : KilledInSweep(t)
          PROVE  running' \subseteq running
      BY <3>5 DEF Sweep, KilledInSweep, Kill, Pause, Tick, Crash
    <3>6. \E j \in Ids : Start(j)
      BY <3>1, <3>2, <3>3, <3>4, <3>5 DEF Next
    <3>7. ASSUME NEW j \in Ids, Start(j) PROVE i = j
      BY <3>7 DEF Start
    <3>8. QED
      BY <3>6, <3>7
  <2>2. PICK j \in Ids : IsOutcome(j) /\ chain[j].task = chain[i].task
    BY DEF Outcomes
  <2>3. cache[chain[i].task] # 0
    BY <2>2 DEF OutcomesCached
  <2>4. CachedResult(chain[i].task, chain[i].performer) = 0
    BY <2>1 DEF Start
  <2>5. chain[cache[chain[i].task]].performer # chain[i].performer
    <3>1. chain[i].task \in Tasks
      BY <2>1, EntryIsAct
    <3>2. QED
      BY <2>3, <2>4, <3>1 DEF CachedResult, TypeOK
  <2>6. QED
    BY <2>3, <2>5 DEF CachedOfAnother
<1>2. QED
  BY <1>1, TypeCorrect, AnsweredIsCached, PTL DEF Spec, AnsweredIsReplayed
=============================================================================
