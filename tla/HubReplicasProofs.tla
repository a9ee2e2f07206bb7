------------------------ MODULE HubReplicasProofs ------------------------
(***************************************************************************)
(* TLAPS proofs about HubReplicas, for every set of replicas, instances,   *)
(* agents and signed activities, whatever is sent to whom, lost, repeated  *)
(* or reordered, and wherever processes are killed.                        *)
(***************************************************************************)
EXTENDS HubReplicas, FiniteSetTheorems, WellFoundedInduction, TLAPS

------------------------------------------------------------------------------
(* The numbers of a set in order: what Place counts and Ascending lists *)

LessThan == {ss \in Nat \X Nat : ss[1] < ss[2]}
LEMMA LeastNatural ==
    ASSUME NEW S \in SUBSET Nat, S # {}
    PROVE  \E i \in S : \A j \in S : i <= j
<1>1. IsWellFoundedOn(LessThan, Nat)
    BY NatLessThanWellFounded DEF OpToRel, LessThan
<1>2. PICK i \in S : \A j \in S : <<j, i>> \notin LessThan
    BY <1>1, WFMin
<1>3. ASSUME NEW j \in S PROVE i <= j
    <2>1. i \in Nat /\ j \in Nat /\ ~(j < i)
        BY <1>2 DEF LessThan
    <2> QED BY <2>1
<1> QED BY <1>3

UpTo(S, N) == S \in SUBSET Nat /\ \A j \in S : 1 <= j /\ j <= N
Below(S, k) == {j \in S : j <= k}
Rank(S, k) == Cardinality(Below(S, k))

LEMMA UpToFinite ==
    ASSUME NEW N \in Nat, NEW S, UpTo(S, N)
    PROVE  IsFiniteSet(S) /\ Cardinality(S) \in Nat
<1>1. S \in SUBSET Nat /\ \A j \in S : j <= N
    BY DEF UpTo
<1>2. IsFiniteSet(S)
    BY <1>1, FS_BoundedSetOfNaturals
<1> QED BY <1>2, FS_CardinalityType

LEMMA RankTyped ==
    ASSUME NEW N \in Nat, NEW S, UpTo(S, N), NEW k \in Nat
    PROVE  /\ IsFiniteSet(Below(S, k)) /\ Below(S, k) \in SUBSET S
           /\ Rank(S, k) \in Nat /\ Rank(S, k) <= Cardinality(S)
<1>1. Below(S, k) \in SUBSET S
    BY DEF Below
<1>2. IsFiniteSet(Below(S, k)) /\ Cardinality(Below(S, k)) <= Cardinality(S)
    BY <1>1, UpToFinite, FS_Subset
<1>3. Cardinality(Below(S, k)) \in Nat
    BY <1>2, FS_CardinalityType
<1> QED BY <1>1, <1>2, <1>3 DEF Rank

\* The next number is counted one more if it is in the set.
LEMMA RankNext ==
    ASSUME NEW N \in Nat, NEW S, UpTo(S, N), NEW k \in Nat
    PROVE  Rank(S, k + 1) = IF k + 1 \in S THEN Rank(S, k) + 1 ELSE Rank(S, k)
<1>1. \A j \in S : j \in Nat /\ (j <= k + 1 <=> j <= k \/ j = k + 1)
    BY DEF UpTo
<1>2. IsFiniteSet(Below(S, k)) /\ k + 1 \notin Below(S, k)
    BY RankTyped DEF Below
<1>3. CASE k + 1 \in S
    <2>1. Below(S, k + 1) = Below(S, k) \cup {k + 1}
        BY <1>1, <1>3 DEF Below
    <2>2. Cardinality(Below(S, k) \cup {k + 1}) = Cardinality(Below(S, k)) + 1
        BY <1>2, FS_AddElement
    <2> QED BY <1>3, <2>1, <2>2 DEF Rank
<1>4. CASE k + 1 \notin S
    <2>1. Below(S, k + 1) = Below(S, k)
        BY <1>1, <1>4 DEF Below
    <2> QED BY <1>4, <2>1 DEF Rank
<1> QED BY <1>3, <1>4

\* Every place up to the size of a set is that of one of its members.
LEMMA RankMeets ==
    ASSUME NEW N \in Nat, NEW S, UpTo(S, N), NEW n \in 1..Cardinality(S)
    PROVE  \E k \in S : Rank(S, k) = n
<1>1. PICK B : B = {m \in Nat : Rank(S, m) >= n}
    OBVIOUS
<1>a. \A j \in S : j <= N /\ j \in Nat /\ ~(j <= 0)
    BY DEF UpTo
<1>2. Cardinality(S) \in Nat /\ n \in Nat /\ 1 <= n /\ n <= Cardinality(S)
    BY UpToFinite
<1>3. N \in B
    <2>2. Below(S, N) = S
        BY <1>a DEF Below
    <2>3. Rank(S, N) = Cardinality(S)
        BY <2>2 DEF Rank
    <2> QED BY <1>1, <1>2, <2>3
<1>4. PICK m \in B : \A j \in B : m <= j
    <2>1. B \in SUBSET Nat /\ B # {}
        BY <1>1, <1>3
    <2> QED BY <2>1, LeastNatural
<1>5. m \in Nat /\ Rank(S, m) >= n
    BY <1>1, <1>4
<1>6. m # 0
    <2>1. Below(S, 0) = {}
        BY <1>a DEF Below
    <2>2. Rank(S, 0) = 0
        BY <2>1, FS_EmptySet DEF Rank
    <2> QED BY <1>2, <1>5, <2>2
<1>7. PICK k \in Nat : m = k + 1
    <2>1. m - 1 \in Nat /\ m = (m - 1) + 1
        BY <1>5, <1>6
    <2> QED BY <2>1
<1>8. ~(Rank(S, k) >= n)
    <2>1. k \notin B
        BY <1>4, <1>7
    <2> QED BY <1>1, <2>1
<1>9. Rank(S, k) \in Nat
    BY RankTyped
<1>10. Rank(S, m) = IF m \in S THEN Rank(S, k) + 1 ELSE Rank(S, k)
    BY <1>7, RankNext
<1>11. m \in S
    BY <1>2, <1>5, <1>8, <1>9, <1>10
<1>12. Rank(S, m) = n
    BY <1>2, <1>5, <1>8, <1>9, <1>10
<1> QED BY <1>11, <1>12

\* A later member has a greater place.
LEMMA RankApart ==
    ASSUME NEW N \in Nat, NEW S, UpTo(S, N), NEW j \in S, NEW k \in S, j < k
    PROVE  Rank(S, j) < Rank(S, k)
<1>1. j \in Nat /\ k \in Nat /\ \A i \in S : i \in Nat
    BY DEF UpTo
<1>2. IsFiniteSet(Below(S, j)) /\ IsFiniteSet(Below(S, k))
    BY <1>1, RankTyped
<1>3. Below(S, j) \in SUBSET Below(S, k) /\ k \in Below(S, k) /\ k \notin Below(S, j)
    <2>1. \A i \in S : i <= j => i <= k
        BY <1>1
    <2>2. k <= k /\ ~(k <= j)
        BY <1>1
    <2> QED BY <2>1, <2>2 DEF Below
<1>4. /\ Cardinality(Below(S, j)) <= Cardinality(Below(S, k))
      /\ Cardinality(Below(S, j)) # Cardinality(Below(S, k))
    <2>1. PICK P, Q : P = Below(S, j) /\ Q = Below(S, k)
        OBVIOUS
    <2>2. IsFiniteSet(Q) /\ P \in SUBSET Q /\ P # Q
        BY <1>2, <1>3, <2>1
    <2>3. Cardinality(P) <= Cardinality(Q) /\ Cardinality(Q) # Cardinality(P)
        BY <2>2, FS_Subset
    <2> QED BY <2>1, <2>3
<1>5. Cardinality(Below(S, j)) \in Nat /\ Cardinality(Below(S, k)) \in Nat
    BY <1>2, FS_CardinalityType
<1> QED BY <1>4, <1>5 DEF Rank

LEMMA RankIsOne ==
    ASSUME NEW N \in Nat, NEW S, UpTo(S, N), NEW j \in S, NEW k \in S, Rank(S, j) = Rank(S, k)
    PROVE  j = k
<1>1. j \in Nat /\ k \in Nat
    BY DEF UpTo
<1>2. Rank(S, j) \in Nat
    BY <1>1, RankTyped
<1>3. ~(j < k)
    <2> SUFFICES ASSUME j < k PROVE FALSE
        OBVIOUS
    <2>1. Rank(S, j) < Rank(S, k)
        BY RankApart
    <2> QED BY <1>2, <2>1
<1>4. ~(k < j)
    <2> SUFFICES ASSUME k < j PROVE FALSE
        OBVIOUS
    <2>1. Rank(S, k) < Rank(S, j)
        BY RankApart
    <2> QED BY <1>2, <2>1
<1> QED BY <1>1, <1>3, <1>4

LEMMA AscendingLists ==
    ASSUME NEW N \in Nat, NEW S, UpTo(S, N)
    PROVE  /\ DOMAIN Ascending(S) = 1..Cardinality(S) /\ Cardinality(S) \in Nat
           /\ \A n \in 1..Cardinality(S) : Ascending(S)[n] \in S
           /\ \A k \in S : \E n \in 1..Cardinality(S) : Ascending(S)[n] = k
<1>1. Cardinality(S) \in Nat
    BY UpToFinite
<1>2. Ascending(S) = [n \in 1..Cardinality(S) |-> CHOOSE k \in S : Rank(S, k) = n]
    BY DEF Ascending, Rank, Below
<1>3. ASSUME NEW n \in 1..Cardinality(S)
      PROVE  Ascending(S)[n] \in S /\ Rank(S, Ascending(S)[n]) = n
    <2>1. \E k \in S : Rank(S, k) = n
        BY RankMeets
    <2>2. Ascending(S)[n] = CHOOSE k \in S : Rank(S, k) = n
        BY <1>2
    <2> QED BY <2>1, <2>2, Zenon
<1>4. ASSUME NEW k \in S PROVE \E n \in 1..Cardinality(S) : Ascending(S)[n] = k
    <2>1. k \in Nat
        BY DEF UpTo
    <2>2. IsFiniteSet(Below(S, k)) /\ k \in Below(S, k)
        BY <2>1, RankTyped DEF Below
    <2>3. Rank(S, k) # 0
        BY <2>2, FS_EmptySet DEF Rank
    <2>4. Rank(S, k) \in Nat /\ Rank(S, k) <= Cardinality(S)
        BY <2>1, RankTyped
    <2>5. PICK n \in 1..Cardinality(S) : n = Rank(S, k)
        BY <1>1, <2>3, <2>4
    <2>6. Ascending(S)[n] \in S /\ Rank(S, Ascending(S)[n]) = Rank(S, k)
        BY <1>3, <2>5
    <2> QED BY <2>6, RankIsOne
<1> QED BY <1>1, <1>2, <1>3, <1>4
------------------------------------------------------------------------------
(* Digests and their answers *)

Key(s, k) == <<s[k].store, s[k].origin>>
At(s, x) == {k \in DOMAIN s : Key(s, k) = x}
Origins == Stores \X (Instances \cup Agents)

LEMMA RowTyped ==
    ASSUME NEW s \in Seq(Row), NEW k \in DOMAIN s
    PROVE  /\ s[k].store \in Stores /\ s[k].origin \in Instances \cup Agents /\ s[k].act \in Acts
           /\ Key(s, k) \in Origins /\ k \in 1..Len(s) /\ k \in At(s, Key(s, k))
<1>1. s[k] \in Row /\ k \in 1..Len(s)
    OBVIOUS
<1>2. s[k].store \in Stores /\ s[k].origin \in Instances \cup Agents /\ s[k].act \in Acts
    BY <1>1 DEF Row
<1> QED BY <1>1, <1>2 DEF Key, Origins, At

LEMMA AtTyped ==
    ASSUME NEW s \in Seq(Row), NEW x
    PROVE  Len(s) \in Nat /\ UpTo(At(s, x), Len(s)) /\ IsFiniteSet(At(s, x))
<1>1. Len(s) \in Nat /\ DOMAIN s = 1..Len(s)
    OBVIOUS
<1>2. UpTo(At(s, x), Len(s))
    BY <1>1 DEF UpTo, At
<1> QED BY <1>1, <1>2, UpToFinite

\* A row's place is its rank among the rows of its store and origin.
LEMMA PlaceRanks ==
    ASSUME NEW s \in Seq(Row), NEW k \in DOMAIN s
    PROVE  Place(s, k) = Rank(At(s, Key(s, k)), k)
<1>1. Len(s) \in Nat /\ DOMAIN s = 1..Len(s) /\ k \in 1..Len(s)
    OBVIOUS
<1>2. ASSUME NEW j
      PROVE  j \in {i \in 1..k : s[i].store = s[k].store /\ s[i].origin = s[k].origin}
                <=> j \in Below(At(s, Key(s, k)), k)
    <2>1. j \in 1..k <=> j \in 1..Len(s) /\ j <= k
        BY <1>1
    <2>2. s[j].store = s[k].store /\ s[j].origin = s[k].origin <=> Key(s, j) = Key(s, k)
        BY DEF Key
    <2> QED BY <1>1, <2>1, <2>2 DEF Below, At
<1>3. {i \in 1..k : s[i].store = s[k].store /\ s[i].origin = s[k].origin}
          = Below(At(s, Key(s, k)), k)
    BY <1>2, Zenon
<1> QED BY <1>3, Zenon DEF Place, Rank

\* A digest counts the rows of each store and origin.
LEMMA VectorCounts ==
    ASSUME NEW s \in Seq(Row), NEW x \in Origins
    PROVE  Vector(s)[x] = Cardinality(At(s, x))
BY Zenon DEF Vector, Origins, At, Key

\* An answer lists activities of the rows, one for each row it starts at.
LEMMA BehindLists ==
    ASSUME NEW s \in Seq(Row), NEW remote
    PROVE  /\ Behind(s, remote) \in Seq(Acts)
           /\ \A k \in Once(s, Late(s, remote)) :
                  \E n \in DOMAIN Behind(s, remote) : Behind(s, remote)[n] = s[k].act
<1>1. PICK K : K = Once(s, Late(s, remote))
    OBVIOUS
<1>2. K \in SUBSET DOMAIN s /\ DOMAIN s = 1..Len(s) /\ Len(s) \in Nat
    BY <1>1 DEF Once, Late
<1>3. UpTo(K, Len(s))
    BY <1>2 DEF UpTo
<1>4. PICK order : order = Ascending(K)
    OBVIOUS
<1>5. /\ DOMAIN order = 1..Cardinality(K) /\ Cardinality(K) \in Nat
      /\ \A n \in 1..Cardinality(K) : order[n] \in K
      /\ \A k \in K : \E n \in 1..Cardinality(K) : order[n] = k
    BY <1>2, <1>3, <1>4, AscendingLists
<1>6. Behind(s, remote) = [n \in DOMAIN order |-> s[order[n]].act]
    BY <1>1, <1>4 DEF Behind
<1>7. \A n \in 1..Cardinality(K) : s[order[n]].act \in Acts
    <2>1. \A k \in DOMAIN s : s[k].act \in Acts
        BY RowTyped
    <2> QED BY <1>2, <1>5, <2>1
<1>8. Behind(s, remote) \in Seq(Acts)
    BY <1>5, <1>6, <1>7
<1> QED BY <1>1, <1>5, <1>6, <1>8

\* The answer to the digest of one whose rows agree, place by place, with those of the
\* replica that answers carries every activity the other has no row of.
LEMMA AnswerComplete ==
    ASSUME NEW s \in Seq(Row), NEW u \in Seq(Row),
           \A k \in DOMAIN u : \E j \in DOMAIN s :
               s[j] = u[k] /\ Place(s, j) = Place(u, k),
           NEW a \in Acted(s), a \notin Acted(u)
    PROVE  a \in ToSet(Behind(s, Vector(u)))
<1>1. ASSUME NEW k \in DOMAIN s, s[k].act = a PROVE k \in Late(s, Vector(u))
    <2>1. PICK x : x = Key(s, k)
        OBVIOUS
    <2>2. x \in Origins /\ k \in At(s, x) /\ k \in Nat
        BY <2>1, RowTyped
    <2>3. PICK n : n = Rank(At(s, x), k)
        OBVIOUS
    <2>4. UpTo(At(s, x), Len(s)) /\ UpTo(At(u, x), Len(u)) /\ Len(s) \in Nat /\ Len(u) \in Nat
        BY AtTyped
    <2>5. n \in Nat /\ n # 0
        <3>1. n \in Nat /\ IsFiniteSet(Below(At(s, x), k))
            BY <2>2, <2>3, <2>4, RankTyped
        <3>2. k \in Below(At(s, x), k)
            BY <2>2 DEF Below
        <3> QED BY <2>3, <3>1, <3>2, FS_EmptySet DEF Rank
    <2>6. Cardinality(At(u, x)) \in Nat
        BY <2>4, UpToFinite
    <2>7. n > Cardinality(At(u, x))
        <3> SUFFICES ASSUME n <= Cardinality(At(u, x)) PROVE FALSE
            BY <2>5, <2>6
        <3>1. n \in 1..Cardinality(At(u, x))
            BY <2>5, <2>6
        <3>2. PICK i \in At(u, x) : Rank(At(u, x), i) = n
            BY <2>4, <3>1, RankMeets
        <3>3. i \in DOMAIN u /\ Key(u, i) = x
            BY <3>2 DEF At
        <3>4. PICK j \in DOMAIN s : s[j] = u[i] /\ Place(s, j) = Place(u, i)
            BY <3>3
        <3>5. Key(s, j) = x
            BY <3>3, <3>4 DEF Key
        <3>6. Rank(At(s, x), j) = n
            BY <3>2, <3>3, <3>4, <3>5, PlaceRanks
        <3>7. j \in At(s, x)
            BY <3>5 DEF At
        <3>8. j = k
            BY <2>2, <2>3, <2>4, <3>6, <3>7, RankIsOne
        <3>9. u[i].act = a
            BY <1>1, <3>4, <3>8
        <3> QED BY <3>3, <3>9 DEF Acted
    <2>8. Place(s, k) = n /\ Vector(u)[x] = Cardinality(At(u, x))
        BY <2>1, <2>2, <2>3, PlaceRanks, VectorCounts
    <2>9. Place(s, k) > Vector(u)[<<s[k].store, s[k].origin>>]
        BY <2>1, <2>7, <2>8 DEF Key
    <2> QED BY <2>9 DEF Late
<1>2. PICK K : K = {k \in DOMAIN s : s[k].act = a}
    OBVIOUS
<1>3. PICK k \in K : \A j \in K : k <= j
    <2>1. K \in SUBSET Nat /\ K # {}
        BY <1>2 DEF Acted
    <2> QED BY <2>1, LeastNatural
<1>4. k \in DOMAIN s /\ s[k].act = a /\ k \in Late(s, Vector(u))
    BY <1>1, <1>2, <1>3
<1>5. k \in Once(s, Late(s, Vector(u)))
    <2>1. \A j \in Late(s, Vector(u)) : s[j].act = s[k].act => k <= j
        BY <1>2, <1>3, <1>4 DEF Late
    <2> QED BY <1>4, <2>1 DEF Once
<1>6. PICK n \in DOMAIN Behind(s, Vector(u)) : Behind(s, Vector(u))[n] = a
    BY <1>4, <1>5, BehindLists
<1> QED BY <1>6 DEF ToSet
------------------------------------------------------------------------------
(* What the handlers write *)

Envelope == [store : Stores, adds : SUBSET Acts, tombs : SUBSET Acts, regs : SUBSET Registers]

\* The moves a handler may write for activity a, and when.
Sound(r, a, m) ==
    \/ Act[a].kind = "Follow" /\ m = Move("seats", None, {a}, {}, {})
    \/ /\ Act[a].kind = "Undo"
       /\ \/ m = Move("seats", None, {}, SeatTags(r, Act[a].by), {})
          \/ \E g \in Dependants(r, Act[a].by) : m = Removal(r, g)
    \/ /\ Act[a].kind = "Enroll"
       /\ OwnAgent(a) /\ (SeatRequired => HasSeat(r, Act[a].by))
       /\ \/ m = Move("membership", None, {a}, {}, {})
          \/ m = Move("capabilities", None, {}, {}, {})
          \/ \E name \in {"role", "instance"} : m = Register(name, Act[a].on)
    \/ Act[a].kind \in {"Unenroll", "Expel"} /\ m = Removal(r, Act[a].on)
    \/ Act[a].kind = "Transfer" /\ m = Register("transfer", Act[a].by)
    \/ /\ Act[a].kind = "Asset"
       /\ LET held == reg[r][<<"asset", Act[a].on>>] IN held = None \/ Act[held].says = Act[a].says
       /\ m = Move("assets", None, {}, {}, {<<"asset", Act[a].on>>})
    \/ Act[a].kind = "Delta" /\ m = Move("app", None, {a}, Act[a].names, {})

\* The members of a finite set in a sequence: all of them, and no other.
LEMMA ListsMembers ==
    ASSUME NEW S, IsFiniteSet(S)
    PROVE  /\ SetToSeq(S) \in Seq(S)
           /\ \A x \in S : \E k \in DOMAIN SetToSeq(S) : SetToSeq(S)[k] = x
<1>1. PICK c : c = Cardinality(S)
    OBVIOUS
<1>2. c \in Nat /\ ExistsBijection(1..c, S)
    BY <1>1, FS_CardinalityType
<1>3. PICK f : f \in Bijection(1..c, S)
    BY <1>2 DEF ExistsBijection
<1>4. f \in [1..c -> S] /\ IsInjective(f)
    BY <1>3 DEF Bijection, Injection, IsInjective
<1>5. SetToSeq(S) = CHOOSE g \in [1..c -> S] : IsInjective(g)
    BY <1>1, Zenon DEF SetToSeq
<1>6. PICK h : h = SetToSeq(S)
    OBVIOUS
<1>7. h \in [1..c -> S] /\ IsInjective(h)
    BY <1>4, <1>5, <1>6, Zenon
<1>8. h \in Injection(1..c, S)
    BY <1>7 DEF Injection, IsInjective
<1>9. IsFiniteSet(1..c) /\ Cardinality(1..c) = c
    <2>1. Cardinality(1..c) = IF 1 > c THEN 0 ELSE c - 1 + 1
        BY <1>2, FS_Interval
    <2> QED BY <1>2, <2>1, FS_Interval
<1>10. h \in Surjection(1..c, S)
    <2>1. Cardinality(1..c) = Cardinality(S)
        BY <1>1, <1>9
    <2> QED BY <1>8, <2>1, FS_Injection
<1>11. \A x \in S : \E k \in 1..c : h[k] = x
    BY <1>10 DEF Surjection
<1> QED BY <1>2, <1>6, <1>7, <1>11

LEMMA DependantsListed ==
    ASSUME NEW r \in Replicas, NEW i
    PROVE  /\ SetToSeq(Dependants(r, i)) \in Seq(Dependants(r, i))
           /\ \A g \in Dependants(r, i) :
                  \E k \in DOMAIN SetToSeq(Dependants(r, i)) : SetToSeq(Dependants(r, i))[k] = g
<1>1. Dependants(r, i) \in SUBSET Agents
    BY DEF Dependants, Members
<1>2. IsFiniteSet(Dependants(r, i))
    BY <1>1, ReplicaAssumption, FS_Subset DEF ReplicaAssumption
<1> QED BY <1>2, ListsMembers

LEMMA ConcatLists ==
    ASSUME NEW T, NEW s \in Seq(T), NEW u \in Seq(T)
    PROVE  /\ s \o u \in Seq(T) /\ Len(s) \in Nat /\ Len(u) \in Nat
           /\ Len(s \o u) = Len(s) + Len(u)
           /\ \A k \in 1..Len(s) : (s \o u)[k] = s[k]
           /\ \A k \in 1..Len(u) : (s \o u)[Len(s) + k] = u[k]
<1>1. /\ s \o u \in Seq(T) /\ Len(s) \in Nat /\ Len(u) \in Nat
      /\ Len(s \o u) = Len(s) + Len(u)
    OBVIOUS
<1>2. ASSUME NEW k \in 1..Len(s) PROVE (s \o u)[k] = s[k]
    <2>1. k \in 1..(Len(s) + Len(u)) /\ k <= Len(s)
        BY <1>1
    <2> QED BY <2>1
<1>3. ASSUME NEW k \in 1..Len(u) PROVE (s \o u)[Len(s) + k] = u[k]
    <2>1. /\ Len(s) + k \in 1..(Len(s) + Len(u)) /\ ~(Len(s) + k <= Len(s))
          /\ (Len(s) + k) - Len(s) = k
        BY <1>1
    <2> QED BY <2>1
<1> QED BY <1>1, <1>2, <1>3

\* What an Undo's handler writes, if anything: the seat first, then a removal of each.
LEMMA UndoWrites ==
    ASSUME NEW r \in Replicas, NEW a \in Acts, UndoMoves(r, a) # <<>>
    PROVE  LET i == Act[a].by  ms == UndoMoves(r, a) IN
           /\ \E T : ms \in Seq(T)
           /\ Len(ms) \in Nat \ {0} /\ DOMAIN ms = 1..Len(ms)
           /\ ms[1] = Move("seats", None, {}, SeatTags(r, i), {})
           /\ \A k \in 2..Len(ms) : \E g \in Dependants(r, i) : ms[k] = Removal(r, g)
           /\ \A g \in Dependants(r, i) : \E k \in 2..Len(ms) : ms[k] = Removal(r, g)
<1>1. PICK i, D, gone : i = Act[a].by /\ D = Dependants(r, i) /\ gone = SetToSeq(D)
    OBVIOUS
<1>2. gone \in Seq(D) /\ \A g \in D : \E k \in DOMAIN gone : gone[k] = g
    BY <1>1, DependantsListed
<1>3. PICK one, more : /\ one = <<Move("seats", None, {}, SeatTags(r, i), {})>>
                       /\ more = [k \in DOMAIN gone |-> Removal(r, gone[k])]
    OBVIOUS
<1>4. UndoMoves(r, a) = one \o more
    BY <1>1, <1>3 DEF UndoMoves
<1>5. PICK T : T = {one[1]} \cup {Removal(r, g) : g \in D}
    OBVIOUS
<1>6. one \in Seq(T) /\ Len(one) = 1 /\ one[1] = Move("seats", None, {}, SeatTags(r, i), {})
    BY <1>3, <1>5
<1>7. more \in Seq(T) /\ Len(more) = Len(gone) /\ \A k \in 1..Len(gone) : more[k] = Removal(r, gone[k])
    BY <1>2, <1>3, <1>5
<1>8. PICK ms : ms = one \o more
    OBVIOUS
<1>9. /\ Len(ms) = 1 + Len(gone) /\ DOMAIN ms = 1..Len(ms) /\ Len(gone) \in Nat
      /\ ms[1] = one[1]
      /\ \A k \in 2..Len(ms) : k - 1 \in 1..Len(gone) /\ ms[k] = more[k - 1]
    <2>1. Len(gone) \in Nat
        BY <1>2
    <2>2. /\ ms \in Seq(T) /\ Len(ms) = 1 + Len(more)
          /\ \A k \in 1..1 : ms[k] = one[k]
          /\ \A k \in 1..Len(more) : ms[1 + k] = more[k]
        <3>1. one \in Seq(T) /\ more \in Seq(T)
            BY <1>6, <1>7
        <3>2. /\ one \o more \in Seq(T)
              /\ Len(one \o more) = Len(one) + Len(more)
              /\ \A k \in 1..Len(one) : (one \o more)[k] = one[k]
              /\ \A k \in 1..Len(more) : (one \o more)[Len(one) + k] = more[k]
            BY <3>1, ConcatLists
        <3>3. /\ ms \in Seq(T)
              /\ Len(ms) = Len(one) + Len(more)
              /\ \A k \in 1..Len(one) : ms[k] = one[k]
              /\ \A k \in 1..Len(more) : ms[Len(one) + k] = more[k]
            BY <1>8, <3>2
        <3> QED BY <1>6, <3>3
    <2>3. DOMAIN ms = 1..Len(ms)
        BY <2>2
    <2>4. ASSUME NEW k \in 2..Len(ms) PROVE k - 1 \in 1..Len(gone) /\ ms[k] = more[k - 1]
        <3>1. k - 1 \in 1..Len(gone) /\ 1 + (k - 1) = k
            BY <1>7, <2>1, <2>2
        <3> QED BY <1>7, <2>2, <3>1
    <2>5. Len(ms) = 1 + Len(gone) /\ ms[1] = one[1]
        BY <1>7, <2>2
    <2> QED BY <2>1, <2>3, <2>4, <2>5
<1>10. ASSUME NEW k \in 2..Len(ms) PROVE \E g \in D : ms[k] = Removal(r, g)
    <2>1. k - 1 \in 1..Len(gone) /\ ms[k] = Removal(r, gone[k - 1])
        BY <1>7, <1>9
    <2> QED BY <1>2, <2>1
<1>11. ASSUME NEW g \in D PROVE \E k \in 2..Len(ms) : ms[k] = Removal(r, g)
    <2>1. PICK j \in 1..Len(gone) : gone[j] = g
        BY <1>2
    <2>2. j + 1 \in 2..Len(ms) /\ (j + 1) - 1 = j
        BY <1>9
    <2>3. ms[j + 1] = more[j]
        BY <1>9, <2>2
    <2> QED BY <1>7, <2>1, <2>2, <2>3
<1>12. UndoMoves(r, a) = ms /\ i = Act[a].by /\ D = Dependants(r, i)
    BY <1>1, <1>4, <1>8
<1>13. Len(ms) \in Nat \ {0} /\ ms[1] = Move("seats", None, {}, SeatTags(r, i), {})
    BY <1>6, <1>9
<1>14. ms \in Seq(T)
    BY <1>6, <1>7, <1>8, ConcatLists
<1> QED BY <1>9, <1>10, <1>11, <1>12, <1>13, <1>14

\* Every activity is of a kind, and says what its kind says.
LEMMA ActTyped ==
    ASSUME NEW a \in Acts
    PROVE  /\ Act[a].kind \in Kinds /\ Act[a].at \in Nat /\ Act[a].by \in Instances \cup Agents
           /\ Act[a].kind \in {"Enroll", "Unenroll", "Expel"} => Act[a].on \in Agents
           /\ Act[a].kind = "Delta" => Act[a].names \subseteq OfKind("Delta")
           /\ a # None
BY ReplicaAssumption DEF ReplicaAssumption, OfKind

LEMMA OneMove ==
    ASSUME NEW m
    PROVE  <<m>> \in Seq({m}) /\ Len(<<m>>) = 1 /\ DOMAIN <<m>> = 1..1 /\ <<m>>[1] = m
OBVIOUS

LEMMA MovesSound ==
    ASSUME NEW r \in Replicas, NEW a \in Acts
    PROVE  /\ \E T : Moves(r, a) \in Seq(T)
           /\ Len(Moves(r, a)) \in Nat /\ DOMAIN Moves(r, a) = 1..Len(Moves(r, a))
           /\ \A k \in 1..Len(Moves(r, a)) : Sound(r, a, Moves(r, a)[k])
<1>1. Act[a].kind \in Kinds
    BY ActTyped
<1>2. CASE Moves(r, a) = <<>>
    <2>1. <<>> \in Seq({}) /\ Len(<<>>) = 0 /\ DOMAIN <<>> = 1..0
        OBVIOUS
    <2> QED BY <1>2, <2>1
<1>a. ASSUME NEW m, Sound(r, a, m), Moves(r, a) = <<m>>
      PROVE  /\ \E T : Moves(r, a) \in Seq(T)
             /\ Len(Moves(r, a)) \in Nat /\ DOMAIN Moves(r, a) = 1..Len(Moves(r, a))
             /\ \A k \in 1..Len(Moves(r, a)) : Sound(r, a, Moves(r, a)[k])
    <2>1. \A k \in 1..1 : k = 1
        OBVIOUS
    <2>2. PICK ms : ms = Moves(r, a)
        OBVIOUS
    <2>3. ms \in Seq({m}) /\ Len(ms) = 1 /\ DOMAIN ms = 1..1 /\ ms[1] = m
        BY <1>a, <2>2, OneMove
    <2>4. \A k \in 1..1 : Sound(r, a, ms[k])
        BY <1>a, <2>1, <2>3
    <2>5. Len(ms) \in Nat /\ DOMAIN ms = 1..Len(ms) /\ \A k \in 1..Len(ms) : Sound(r, a, ms[k])
        BY <2>3, <2>4
    <2> QED BY <2>2, <2>3, <2>5
<1>3. CASE Act[a].kind = "Follow" /\ Moves(r, a) # <<>>
    <2>1. Moves(r, a) = <<Move("seats", None, {a}, {}, {})>>
        BY <1>3 DEF Moves, FollowMoves
    <2> QED BY <1>a, <1>3, <2>1 DEF Sound
<1>4. CASE Act[a].kind = "Undo" /\ Moves(r, a) # <<>>
    <2>1. Moves(r, a) = UndoMoves(r, a)
        BY <1>4 DEF Moves
    <2>2. PICK ms : ms = Moves(r, a)
        OBVIOUS
    <2>3. /\ \E T : ms \in Seq(T)
          /\ Len(ms) \in Nat \ {0} /\ DOMAIN ms = 1..Len(ms)
          /\ ms[1] = Move("seats", None, {}, SeatTags(r, Act[a].by), {})
          /\ \A k \in 2..Len(ms) : \E g \in Dependants(r, Act[a].by) : ms[k] = Removal(r, g)
        BY <1>4, <2>1, <2>2, UndoWrites
    <2>4. ASSUME NEW k \in 1..Len(ms) PROVE Sound(r, a, ms[k])
        <3>1. k = 1 \/ k \in 2..Len(ms)
            BY <2>3
        <3> QED BY <1>4, <2>3, <3>1 DEF Sound
    <2> QED BY <2>2, <2>3, <2>4
<1>5. CASE Act[a].kind = "Enroll" /\ Moves(r, a) # <<>>
    <2>1. PICK m1, m2, m3, m4 : /\ m1 = Move("membership", None, {a}, {}, {})
                                /\ m2 = Move("capabilities", None, {}, {}, {})
                                /\ m3 = Register("role", Act[a].on)
                                /\ m4 = Register("instance", Act[a].on)
        OBVIOUS
    <2>2. /\ Moves(r, a) = <<m1, m2, m3, m4>>
          /\ OwnAgent(a) /\ (SeatRequired => HasSeat(r, Act[a].by))
        BY <1>5, <2>1 DEF Moves, EnrollMoves
    <2>3. Sound(r, a, m1) /\ Sound(r, a, m2) /\ Sound(r, a, m3) /\ Sound(r, a, m4)
        BY <1>5, <2>1, <2>2 DEF Sound
    <2>4. \A k \in 1..4 : Sound(r, a, <<m1, m2, m3, m4>>[k])
        BY <2>3
    <2>5. /\ Len(<<m1, m2, m3, m4>>) = 4 /\ DOMAIN <<m1, m2, m3, m4>> = 1..4
          /\ <<m1, m2, m3, m4>> \in Seq({m1, m2, m3, m4})
        OBVIOUS
    <2> QED BY <2>2, <2>4, <2>5
<1>6. CASE Act[a].kind \in {"Unenroll", "Expel"} /\ Moves(r, a) # <<>>
    <2>1. Moves(r, a) = <<Removal(r, Act[a].on)>>
        BY <1>6 DEF Moves, UnenrollMoves, ExpelMoves
    <2> QED BY <1>a, <1>6, <2>1 DEF Sound
<1>7. CASE Act[a].kind = "Transfer" /\ Moves(r, a) # <<>>
    <2>1. Moves(r, a) = <<Register("transfer", Act[a].by)>>
        BY <1>7 DEF Moves, TransferMoves
    <2> QED BY <1>a, <1>7, <2>1 DEF Sound
<1>8. CASE Act[a].kind = "Asset" /\ Moves(r, a) # <<>>
    <2>1. /\ Moves(r, a) = <<Move("assets", None, {}, {}, {<<"asset", Act[a].on>>})>>
          /\ LET held == reg[r][<<"asset", Act[a].on>>] IN held = None \/ Act[held].says = Act[a].says
        BY <1>8 DEF Moves, AssetMoves
    <2> QED BY <1>a, <1>8, <2>1 DEF Sound
<1>9. CASE Act[a].kind = "Delta" /\ Moves(r, a) # <<>>
    <2>1. Moves(r, a) = <<Move("app", None, {a}, Act[a].names, {})>>
        BY <1>9 DEF Moves, DeltaMoves
    <2> QED BY <1>a, <1>9, <2>1 DEF Sound
<1> QED BY <1>1, <1>2, <1>3, <1>4, <1>5, <1>6, <1>7, <1>8, <1>9 DEF Kinds

LEMMA SoundTyped ==
    ASSUME TypeOK, NEW r \in Replicas, NEW a \in Acts, NEW m, Sound(r, a, m)
    PROVE  m \in Envelope
<1>1. /\ Live(r) \in SUBSET Acts
      /\ \A i : SeatTags(r, i) \in SUBSET Acts
      /\ \A g : Removal(r, g).tombs \in SUBSET Acts /\ EnrollTags(r, g) \in SUBSET Acts
    BY DEF TypeOK, Live, SeatTags, EnrollTags, Removal, Move
<1>2. \A name \in {"seats", "membership", "capabilities", "assets", "app"} : <<name, None>> \in Stores
    BY DEF Stores
<1>3. \A name \in {"role", "instance"} : \A g \in Agents :
          <<name, g>> \in Stores /\ <<name, g>> \in Registers
    BY DEF Stores, Registers
<1>4. \A i \in Instances \cup Agents : <<"transfer", i>> \in Stores /\ <<"transfer", i>> \in Registers
    BY DEF Stores, Registers
<1>5. Act[a].kind = "Asset" => <<"asset", Act[a].on>> \in Registers
    BY DEF Registers, OfKind
<1>6. Act[a].kind = "Delta" => Act[a].names \in SUBSET Acts
    BY ActTyped DEF OfKind
<1>7. ASSUME NEW name, NEW subject, NEW adds \in SUBSET Acts, NEW tombs \in SUBSET Acts,
             NEW regs \in SUBSET Registers, <<name, subject>> \in Stores
      PROVE  Move(name, subject, adds, tombs, regs) \in Envelope
    BY <1>7 DEF Move, Envelope
<1>8. CASE Act[a].kind = "Follow"
    BY <1>2, <1>7, <1>8 DEF Sound
<1>9. CASE Act[a].kind = "Undo"
    BY <1>1, <1>2, <1>7, <1>9 DEF Sound, Removal
<1>10. CASE Act[a].kind = "Enroll"
    <2>1. \/ m = Move("membership", None, {a}, {}, {})
          \/ m = Move("capabilities", None, {}, {}, {})
          \/ \E name \in {"role", "instance"} : m = Register(name, Act[a].on)
        BY <1>10 DEF Sound
    <2>2. Move("membership", None, {a}, {}, {}) \in Envelope
        BY <1>2, <1>7
    <2>3. Move("capabilities", None, {}, {}, {}) \in Envelope
        BY <1>2, <1>7
    <2>4. ASSUME NEW name \in {"role", "instance"} PROVE Register(name, Act[a].on) \in Envelope
        <3>1. Act[a].on \in Agents
            BY <1>10, ActTyped
        <3>2. {<<name, Act[a].on>>} \in SUBSET Registers /\ <<name, Act[a].on>> \in Stores
            BY <1>3, <3>1
        <3> QED BY <1>7, <3>2 DEF Register
    <2> QED BY <2>1, <2>2, <2>3, <2>4
<1>11. CASE Act[a].kind \in {"Unenroll", "Expel"}
    BY <1>1, <1>2, <1>7, <1>11 DEF Sound, Removal
<1>12. CASE Act[a].kind = "Transfer"
    BY <1>4, <1>7, <1>12, ActTyped DEF Sound, Register
<1>13. CASE Act[a].kind = "Asset"
    BY <1>2, <1>5, <1>7, <1>13 DEF Sound
<1>14. CASE Act[a].kind = "Delta"
    BY <1>2, <1>6, <1>7, <1>14 DEF Sound
<1> QED BY <1>8, <1>9, <1>10, <1>11, <1>12, <1>13, <1>14, ActTyped DEF Kinds

\* What a handler that is done has written: an Undo, a removal of every dependant;
\* an Enroll, both registers.
Complete(r, a, ms) ==
    ms # <<>> =>
        /\ Act[a].kind = "Undo" =>
              \A g \in Dependants(r, Act[a].by) : \E k \in 1..Len(ms) : ms[k] = Removal(r, g)
        /\ Act[a].kind = "Enroll" =>
              \A name \in {"role", "instance"} : \E k \in 1..Len(ms) : ms[k] = Register(name, Act[a].on)

\* A Follow and an Enroll write their tag first.
TagFirst(a, ms) ==
    Act[a].kind \in {"Follow", "Enroll"} /\ 1 <= Len(ms) => ms[1].adds = {a} /\ ms[1].regs = {}

LEMMA MovesComplete ==
    ASSUME NEW r \in Replicas, NEW a \in Acts
    PROVE  Complete(r, a, Moves(r, a)) /\ TagFirst(a, Moves(r, a))
<1>1. CASE Moves(r, a) = <<>>
    <2>1. ~(1 <= Len(<<>>))
        OBVIOUS
    <2> QED BY <1>1, <2>1 DEF Complete, TagFirst
<1>2. CASE Act[a].kind = "Undo" /\ Moves(r, a) # <<>>
    <2>1. Moves(r, a) = UndoMoves(r, a)
        BY <1>2 DEF Moves
    <2>2. PICK ms : ms = Moves(r, a)
        OBVIOUS
    <2>3. /\ Len(ms) \in Nat
          /\ \A g \in Dependants(r, Act[a].by) : \E k \in 2..Len(ms) : ms[k] = Removal(r, g)
        BY <1>2, <2>1, <2>2, UndoWrites
    <2>4. \A k \in 2..Len(ms) : k \in 1..Len(ms)
        BY <2>3
    <2> QED BY <1>2, <2>2, <2>3, <2>4 DEF Complete, TagFirst
<1>3. CASE Act[a].kind = "Enroll" /\ Moves(r, a) # <<>>
    <2>1. PICK m1, m2, m3, m4 : /\ m1 = Move("membership", None, {a}, {}, {})
                                /\ m2 = Move("capabilities", None, {}, {}, {})
                                /\ m3 = Register("role", Act[a].on)
                                /\ m4 = Register("instance", Act[a].on)
        OBVIOUS
    <2>2. Moves(r, a) = <<m1, m2, m3, m4>>
        BY <1>3, <2>1 DEF Moves, EnrollMoves
    <2>3. PICK ms : ms = <<m1, m2, m3, m4>>
        OBVIOUS
    <2>4. Len(ms) = 4 /\ ms[1] = m1 /\ ms[3] = m3 /\ ms[4] = m4
        BY <2>3
    <2>5. 3 \in 1..Len(ms) /\ 4 \in 1..Len(ms)
        BY <2>4
    <2>6. m1.adds = {a} /\ m1.regs = {}
        BY <2>1 DEF Move
    <2> QED BY <1>3, <2>1, <2>2, <2>3, <2>4, <2>5, <2>6 DEF Complete, TagFirst
<1>4. CASE Act[a].kind = "Follow" /\ Moves(r, a) # <<>>
    <2>1. Moves(r, a) = <<Move("seats", None, {a}, {}, {})>>
        BY <1>4 DEF Moves, FollowMoves
    <2>2. Moves(r, a)[1] = Move("seats", None, {a}, {}, {})
        BY <2>1
    <2>3. Moves(r, a)[1].adds = {a} /\ Moves(r, a)[1].regs = {}
        BY <2>2 DEF Move
    <2> QED BY <1>4, <2>3 DEF Complete, TagFirst
<1>5. CASE Act[a].kind \notin {"Undo", "Enroll", "Follow"}
    BY <1>5 DEF Complete, TagFirst
<1> QED BY <1>1, <1>2, <1>3, <1>4, <1>5

------------------------------------------------------------------------------
(* A handler's step, whole or cut short: what it leaves in the store *)

\* The handler of a wrote moves ms at r, the first n of them with their rows.
Handled(r, a, ms, n) ==
    /\ ms \in Seq(Envelope) /\ n \in Nat /\ n <= Len(ms) /\ Len(ms) <= n + 1
    /\ \A k \in 1..Len(ms) : Sound(r, a, ms[k])
    /\ TagFirst(a, ms)
    /\ Persist(r, a, ms, n)

LEMMA DispatchHandles ==
    ASSUME TypeOK, NEW r \in Replicas, NEW a \in Acts, Dispatch(r, a)
    PROVE  \E ms : /\ ms = Moves(r, a) /\ Handled(r, a, ms, Len(ms)) /\ Complete(r, a, ms)
                   /\ roles' = [roles EXCEPT ![r] = RolesAfter(r, a, ms)]
<1>1. PICK ms : ms = Moves(r, a)
    OBVIOUS
<1>2. /\ \E T : ms \in Seq(T)
      /\ Len(ms) \in Nat /\ DOMAIN ms = 1..Len(ms)
      /\ \A k \in 1..Len(ms) : Sound(r, a, ms[k])
    BY <1>1, MovesSound
<1>3. \A k \in 1..Len(ms) : ms[k] \in Envelope
    BY <1>2, SoundTyped
<1>4. ms \in Seq(Envelope)
    BY <1>2, <1>3
<1>5. /\ Persist(r, a, ms, Len(ms))
      /\ roles' = [roles EXCEPT ![r] = RolesAfter(r, a, ms)]
    BY <1>1, Zenon DEF Dispatch
<1>6. Complete(r, a, ms) /\ TagFirst(a, ms)
    BY <1>1, MovesComplete
<1>7. Len(ms) <= Len(ms) /\ Len(ms) <= Len(ms) + 1
    BY <1>2
<1> QED BY <1>1, <1>2, <1>4, <1>5, <1>6, <1>7 DEF Handled

LEMMA KilledHandles ==
    ASSUME TypeOK, NEW r \in Replicas, NEW a \in Acts, KilledInHandler(r, a)
    PROVE  \E ms, n : Handled(r, a, ms, n)
<1>1. PICK all : all = Moves(r, a)
    OBVIOUS
<1>2. /\ \E T : all \in Seq(T)
      /\ Len(all) \in Nat /\ DOMAIN all = 1..Len(all)
      /\ \A k \in 1..Len(all) : Sound(r, a, all[k])
    BY <1>1, MovesSound
<1>3. PICK k \in DOMAIN all : \E n \in 0..Len(all) :
          n \in {k - 1, k} /\ n < Len(all) /\ Persist(r, a, SubSeq(all, 1, k), n)
    BY <1>1, Zenon DEF KilledInHandler
<1>4. PICK n \in 0..Len(all) :
          n \in {k - 1, k} /\ n < Len(all) /\ Persist(r, a, SubSeq(all, 1, k), n)
    BY <1>3
<1>5. PICK ms : ms = SubSeq(all, 1, k)
    OBVIOUS
<1>6. /\ k \in 1..Len(all) /\ k \in Nat /\ n \in Nat /\ n <= k /\ k <= n + 1
    BY <1>2, <1>3, <1>4
<1>7. \A j \in 1..Len(all) : all[j] \in Envelope
    BY <1>2, SoundTyped
<1>8. all \in Seq(Envelope)
    BY <1>2, <1>7
<1>9. /\ ms \in Seq(Envelope) /\ Len(ms) = k
      /\ \A j \in 1..k : ms[j] = all[j]
    BY <1>2, <1>5, <1>6, <1>8
<1>10. \A j \in 1..Len(ms) : Sound(r, a, ms[j])
    BY <1>2, <1>6, <1>9
<1>11. TagFirst(a, ms)
    <2>1. TagFirst(a, all)
        BY <1>1, MovesComplete
    <2>2. 1 <= Len(all) /\ 1 \in 1..k
        BY <1>2, <1>6
    <2> QED BY <1>9, <2>1, <2>2 DEF TagFirst
<1> QED BY <1>4, <1>5, <1>6, <1>9, <1>10, <1>11 DEF Handled

\* What a move adds is the activity itself.
LEMMA SoundAdds ==
    ASSUME NEW r \in Replicas, NEW a \in Acts, NEW m, Sound(r, a, m), NEW e \in m.adds
    PROVE  e = a /\ Act[a].kind \in {"Follow", "Enroll", "Delta"}
BY DEF Sound, Move, Register, Removal

\* What a move tombstones, and what lets it.
Buries(r, a, e) ==
    \/ Act[a].kind = "Undo" /\ e \in SeatTags(r, Act[a].by)
    \/ Act[a].kind = "Undo" /\ \E g \in Dependants(r, Act[a].by) : e \in EnrollTags(r, g)
    \/ Act[a].kind \in {"Unenroll", "Expel"} /\ e \in EnrollTags(r, Act[a].on)
    \/ Act[a].kind = "Delta" /\ Act[e].kind = "Delta"

LEMMA SoundTombs ==
    ASSUME NEW r \in Replicas, NEW a \in Acts, NEW m, Sound(r, a, m), NEW e \in m.tombs
    PROVE  Buries(r, a, e)
<1>1. Act[a].kind = "Delta" => \A t \in Act[a].names : Act[t].kind = "Delta"
    BY ActTyped DEF OfKind
<1> QED BY <1>1 DEF Sound, Move, Register, Removal, Buries

\* A move of register x leaves a row that counts as a write of x, and no other does.
WritesTo(a, s, x) ==
    \/ s = x
    \/ x[1] = "asset" /\ Act[a].kind = "Asset" /\ Act[a].on = x[2]

LEMMA SoundRegs ==
    ASSUME NEW r \in Replicas, NEW a \in Acts, NEW m, Sound(r, a, m), NEW x \in Registers
    PROVE  x \in m.regs <=> WritesTo(a, m.store, x)
<1>1. x[1] \in {"role", "instance", "transfer", "asset"} /\ x = <<x[1], x[2]>>
    BY DEF Registers
<1>2. \A name \in {"seats", "membership", "capabilities", "assets", "app"} : <<name, None>> # x
    BY <1>1
<1>3. CASE Act[a].kind = "Follow"
    BY <1>2, <1>3 DEF Sound, Move, WritesTo
<1>4. CASE Act[a].kind = "Undo"
    BY <1>2, <1>4 DEF Sound, Move, Removal, WritesTo
<1>5. CASE Act[a].kind = "Enroll"
    BY <1>2, <1>5 DEF Sound, Move, Register, WritesTo
<1>6. CASE Act[a].kind \in {"Unenroll", "Expel"}
    BY <1>2, <1>6 DEF Sound, Move, Removal, WritesTo
<1>7. CASE Act[a].kind = "Transfer"
    BY <1>2, <1>7 DEF Sound, Move, Register, WritesTo
<1>8. CASE Act[a].kind = "Asset"
    <2>1. m = Move("assets", None, {}, {}, {<<"asset", Act[a].on>>})
        BY <1>8 DEF Sound
    <2>2. m.store = <<"assets", None>> /\ m.regs = {<<"asset", Act[a].on>>}
        BY <2>1 DEF Move
    <2>3. x = <<"asset", Act[a].on>> <=> x[1] = "asset" /\ x[2] = Act[a].on
        BY <1>1
    <2> QED BY <1>2, <1>8, <2>2, <2>3 DEF WritesTo
<1>9. CASE Act[a].kind = "Delta"
    BY <1>2, <1>9 DEF Sound, Move, WritesTo
<1> QED BY <1>3, <1>4, <1>5, <1>6, <1>7, <1>8, <1>9, ActTyped DEF Kinds

LEMMA MovesTyped ==
    ASSUME NEW ms \in Seq(Envelope)
    PROVE  /\ Len(ms) \in Nat /\ DOMAIN ms = 1..Len(ms)
           /\ \A k \in 1..Len(ms) : ms[k].store \in Stores /\ ms[k].tombs \in SUBSET Acts
<1>1. Len(ms) \in Nat /\ DOMAIN ms = 1..Len(ms) /\ \A k \in 1..Len(ms) : ms[k] \in Envelope
    OBVIOUS
<1>2. \A m \in Envelope : m.store \in Stores /\ m.tombs \in SUBSET Acts
    BY DEF Envelope
<1> QED BY <1>1, <1>2

\* No other replica is touched.
LEMMA OthersStay ==
    ASSUME TypeOK, NEW r \in Replicas, NEW a, NEW ms, NEW n, Persist(r, a, ms, n),
           NEW p \in Replicas \ {r}
    PROVE  tags'[p] = tags[p] /\ dead'[p] = dead[p] /\ reg'[p] = reg[p] /\ rows'[p] = rows[p]
BY DEF TypeOK, Persist

LEMMA TagsGrow ==
    ASSUME TypeOK, NEW r \in Replicas, NEW a \in Acts, NEW ms, NEW n, Handled(r, a, ms, n)
    PROVE  /\ tags' \in [Replicas -> SUBSET Acts] /\ tags[r] \subseteq tags'[r]
           /\ \A e \in tags'[r] \ tags[r] :
                  e = a /\ Act[a].kind \in {"Follow", "Enroll", "Delta"} /\ 1 <= Len(ms)
           /\ \A k \in 1..Len(ms) : ms[k].adds \subseteq tags'[r]
<1>1. tags' = [tags EXCEPT ![r] = Tagged(r, ms)] /\ tags \in [Replicas -> SUBSET Acts]
    BY DEF Handled, Persist, TypeOK
<1>2. DOMAIN ms = 1..Len(ms)
    BY DEF Handled
<1>3. \A e : e \in Tagged(r, ms) <=> e \in tags[r] \/ \E k \in 1..Len(ms) : e \in ms[k].adds
    BY <1>2 DEF Tagged
<1>4. \A k \in 1..Len(ms) : \A e \in ms[k].adds : e = a /\ Act[a].kind \in {"Follow", "Enroll", "Delta"}
    BY SoundAdds DEF Handled
<1>5. Tagged(r, ms) \in SUBSET Acts
    BY <1>1, <1>3, <1>4
<1>6. \A k \in 1..Len(ms) : 1 <= Len(ms)
    BY MovesTyped DEF Handled
<1> QED BY <1>1, <1>3, <1>4, <1>5, <1>6

LEMMA TombsGrow ==
    ASSUME TypeOK, NEW r \in Replicas, NEW a \in Acts, NEW ms, NEW n, Handled(r, a, ms, n)
    PROVE  /\ dead' \in [Replicas -> SUBSET Acts] /\ dead[r] \subseteq dead'[r]
           /\ \A e \in dead'[r] \ dead[r] : Buries(r, a, e) /\ 1 <= Len(ms)
           /\ \A k \in 1..Len(ms) : ms[k].tombs \subseteq dead'[r]
<1>1. dead' = [dead EXCEPT ![r] = Dead(r, ms)] /\ dead \in [Replicas -> SUBSET Acts]
    BY DEF Handled, Persist, TypeOK
<1>2. DOMAIN ms = 1..Len(ms) /\ \A k \in 1..Len(ms) : ms[k].tombs \in SUBSET Acts
    BY MovesTyped DEF Handled
<1>3. \A e : e \in Dead(r, ms) <=> e \in dead[r] \/ \E k \in 1..Len(ms) : e \in ms[k].tombs
    BY <1>2 DEF Dead
<1>4. \A k \in 1..Len(ms) : \A e \in ms[k].tombs : Buries(r, a, e)
    BY SoundTombs DEF Handled
<1>5. Dead(r, ms) \in SUBSET Acts
    BY <1>1, <1>2, <1>3
<1>6. \A k \in 1..Len(ms) : 1 <= Len(ms)
    BY MovesTyped DEF Handled
<1> QED BY <1>1, <1>3, <1>4, <1>5, <1>6

\* A register is merged with the activity if a move is of it, and else left.
Touches(ms, x) == \E k \in 1..Len(ms) : x \in ms[k].regs
LEMMA RegistersMerge ==
    ASSUME TypeOK, NEW r \in Replicas, NEW a \in Acts, NEW ms, NEW n, Handled(r, a, ms, n)
    PROVE  /\ reg' \in [Replicas -> [Registers -> Acts \cup {None}]]
           /\ \A x \in Registers :
                  reg'[r][x] = IF Touches(ms, x) THEN Merged(reg[r][x], a) ELSE reg[r][x]
<1>1. PICK f : f = [x \in Registers |->
                      IF x \in UNION {ms[k].regs : k \in DOMAIN ms} THEN Merged(reg[r][x], a)
                      ELSE reg[r][x]]
    OBVIOUS
<1>2. reg' = [reg EXCEPT ![r] = f] /\ reg \in [Replicas -> [Registers -> Acts \cup {None}]]
    BY <1>1, Zenon DEF Handled, Persist, TypeOK
<1>3. DOMAIN ms = 1..Len(ms)
    BY DEF Handled
<1>4. \A x : x \in UNION {ms[k].regs : k \in DOMAIN ms} <=> Touches(ms, x)
    BY <1>3 DEF Touches
<1>5. \A x \in Registers : f[x] = IF Touches(ms, x) THEN Merged(reg[r][x], a) ELSE reg[r][x]
    BY <1>1, <1>4
<1>6. f \in [Registers -> Acts \cup {None}]
    BY <1>1, <1>2 DEF Merged
<1> QED BY <1>2, <1>5, <1>6

\* The rows a replica had stay; the new ones are of the activity, one for a move.
LEMMA RowsAppend ==
    ASSUME TypeOK, NEW r \in Replicas, NEW a \in Acts, NEW ms, NEW n, Handled(r, a, ms, n)
    PROVE  /\ rows' \in [Replicas -> Seq(Row)]
           /\ Len(rows[r]) \in Nat /\ Len(rows'[r]) = Len(rows[r]) + n
           /\ \A k \in 1..Len(rows[r]) : rows'[r][k] = rows[r][k]
           /\ \A k \in 1..n : /\ rows'[r][Len(rows[r]) + k].store = ms[k].store
                              /\ rows'[r][Len(rows[r]) + k].act = a
<1>1. PICK u : u = SubSeq(RowsOf(a, ms), 1, n)
    OBVIOUS
<1>2. rows' = [rows EXCEPT ![r] = rows[r] \o u] /\ rows \in [Replicas -> Seq(Row)]
    BY <1>1 DEF Handled, Persist, TypeOK, Recorded
<1>3. ms \in Seq(Envelope) /\ n \in Nat /\ n <= Len(ms) /\ Len(ms) \in Nat /\ DOMAIN ms = 1..Len(ms)
    BY DEF Handled
<1>4. Act[a].by \in Instances \cup Agents
    BY ActTyped
<1>5. PICK w : w = RowsOf(a, ms)
    OBVIOUS
<1>6. w = [k \in 1..Len(ms) |-> [store |-> ms[k].store, origin |-> Act[a].by, act |-> a]]
    BY <1>3, <1>5 DEF RowsOf
<1>7. \A k \in 1..Len(ms) : [store |-> ms[k].store, origin |-> Act[a].by, act |-> a] \in Row
    BY <1>3, <1>4, MovesTyped DEF Row
<1>8. w \in Seq(Row) /\ Len(w) = Len(ms)
    BY <1>3, <1>6, <1>7
<1>9. u = SubSeq(w, 1, n) /\ n <= Len(w)
    BY <1>1, <1>3, <1>5, <1>8
<1>10. u \in Seq(Row) /\ Len(u) = n /\ \A k \in 1..n : u[k] = w[k]
    BY <1>3, <1>8, <1>9
<1>11. \A k \in 1..n : u[k] = [store |-> ms[k].store, origin |-> Act[a].by, act |-> a]
    <2>1. \A k \in 1..n : k \in 1..Len(ms)
        BY <1>3
    <2>2. \A k \in 1..Len(ms) : w[k] = [store |-> ms[k].store, origin |-> Act[a].by, act |-> a]
        BY <1>6
    <2> QED BY <1>10, <2>1, <2>2
<1>a. ASSUME NEW k \in 1..n PROVE u[k].store = ms[k].store /\ u[k].act = a
    <2>1. u[k] = [store |-> ms[k].store, origin |-> Act[a].by, act |-> a]
        BY <1>11
    <2> QED BY <2>1
<1>12. rows[r] \in Seq(Row)
    BY <1>2
<1>13. PICK t : t = rows[r]
    OBVIOUS
<1>14. /\ t \o u \in Seq(Row) /\ Len(t) \in Nat
       /\ Len(t \o u) = Len(t) + Len(u)
       /\ \A k \in 1..Len(t) : (t \o u)[k] = t[k]
       /\ \A k \in 1..Len(u) : (t \o u)[Len(t) + k] = u[k]
    <2>1. t \in Seq(Row) /\ u \in Seq(Row)
        BY <1>10, <1>12, <1>13
    <2> QED BY <2>1, ConcatLists
<1>15. rows'[r] = t \o u
    BY <1>2, <1>13
<1>16. rows' \in [Replicas -> Seq(Row)]
    BY <1>2, <1>13, <1>14
<1>17. /\ Len(rows'[r]) = Len(t) + n
       /\ \A k \in 1..Len(t) : rows'[r][k] = t[k]
       /\ \A k \in 1..n : rows'[r][Len(t) + k] = u[k]
    BY <1>10, <1>14, <1>15
<1> QED BY <1>a, <1>13, <1>14, <1>16, <1>17
------------------------------------------------------------------------------
(* The steps there are: a handler done, a handler cut, or none *)

Done(r, a, ms) ==
    /\ Handled(r, a, ms, Len(ms)) /\ Complete(r, a, ms)
    /\ roles' = [roles EXCEPT ![r] = RolesAfter(r, a, ms)]
    /\ seen' = [seen EXCEPT ![r] = @ \cup {a}]
    /\ torn' = torn

Cut(r, a, ms, n) ==
    /\ Handled(r, a, ms, n)
    /\ roles' = [roles EXCEPT ![r] = Hydrated(r, reg'[r])]
    /\ seen' = [seen EXCEPT ![r] = {}]
    /\ torn' = [torn EXCEPT ![r] = @ \cup {a}]

Quiet ==
    /\ UNCHANGED <<tags, dead, reg, rows, torn>>
    /\ \/ roles' = roles /\ seen' = seen
       \/ \E r \in Replicas : /\ roles' = [roles EXCEPT ![r] = Hydrated(r, reg[r])]
                              /\ seen' = [seen EXCEPT ![r] = {}]

LEMMA DispatchDone ==
    ASSUME TypeOK, NEW r \in Replicas, NEW a \in Acts, Dispatch(r, a)
    PROVE  \E ms : Done(r, a, ms)
<1>1. PICK ms : /\ ms = Moves(r, a) /\ Handled(r, a, ms, Len(ms)) /\ Complete(r, a, ms)
                /\ roles' = [roles EXCEPT ![r] = RolesAfter(r, a, ms)]
    BY DispatchHandles
<1>2. seen' = [seen EXCEPT ![r] = @ \cup {a}] /\ torn' = torn
    BY DEF Dispatch
<1> QED BY <1>1, <1>2 DEF Done

\* What a replica takes from a batch is an activity.
LEMMA BatchTyped ==
    ASSUME TypeOK, NEW r \in Replicas, NEW batch \in work[r], NEW k \in Unseen(r, batch)
    PROVE  batch[k] \in Acts
<1>1. batch \in Seq(Acts) /\ k \in DOMAIN batch
    BY DEF TypeOK, Unseen
<1> QED BY <1>1

LEMMA StepCases ==
    ASSUME TypeOK, [Next]_vars
    PROVE  \/ Quiet
           \/ \E r \in Replicas, a \in Acts : \E ms : Done(r, a, ms)
           \/ \E r \in Replicas, a \in Acts : \E ms, n : Cut(r, a, ms, n)
<1>1. CASE UNCHANGED vars
    BY <1>1 DEF vars, store, memory, Quiet
<1>2. ASSUME NEW r \in Replicas, NEW a \in Acts, Receive(r, a) PROVE \E ms : Done(r, a, ms)
    BY <1>2, DispatchDone DEF Receive
<1>3. ASSUME NEW r \in Replicas, NEW a \in Acts, KilledInHandler(r, a)
      PROVE  \E ms, n : Cut(r, a, ms, n)
    <2>1. PICK ms, n : Handled(r, a, ms, n)
        BY <1>3, KilledHandles
    <2>2. /\ roles' = [roles EXCEPT ![r] = Hydrated(r, reg'[r])]
          /\ seen' = [seen EXCEPT ![r] = {}]
          /\ torn' = [torn EXCEPT ![r] = @ \cup {a}]
        BY <1>3 DEF KilledInHandler, Restarted
    <2> QED BY <2>1, <2>2 DEF Cut
<1>4. ASSUME NEW r \in Replicas, TakeNext(r)
      PROVE  \E a \in Acts : \E ms : Done(r, a, ms)
    <2>1. PICK batch \in work[r] : \E k \in Unseen(r, batch) : Dispatch(r, batch[k])
        BY <1>4 DEF TakeNext
    <2>2. PICK k \in Unseen(r, batch) : Dispatch(r, batch[k])
        BY <2>1
    <2>3. batch[k] \in Acts
        BY BatchTyped
    <2> QED BY <2>2, <2>3, DispatchDone
<1>5. ASSUME NEW r \in Replicas, TakeDeltas(r) \/ DropBatch(r) \/ Answer(r) PROVE Quiet
    BY <1>5 DEF TakeDeltas, DropBatch, Answer, Quiet, store, memory
<1>6. ASSUME NEW r \in Replicas, NEW p \in Replicas, Offer(r, p) PROVE Quiet
    BY <1>6 DEF Offer, Quiet, store, memory
<1>7. ASSUME NEW r \in Replicas, Freeze(r) \/ Archive(r) PROVE Quiet
    BY <1>7 DEF Freeze, Archive, Close, Quiet
<1>8. ASSUME NEW r \in Replicas, Restart(r) PROVE Quiet
    BY <1>8 DEF Restart, Restarted, Quiet
<1> QED BY <1>1, <1>2, <1>3, <1>4, <1>5, <1>6, <1>7, <1>8 DEF Next

------------------------------------------------------------------------------
(* The shape of the state *)

LEMMA HandledTyped ==
    ASSUME TypeOK, NEW r \in Replicas, NEW a \in Acts, NEW ms, NEW n, Handled(r, a, ms, n)
    PROVE  /\ tags' \in [Replicas -> SUBSET Acts] /\ dead' \in [Replicas -> SUBSET Acts]
           /\ reg' \in [Replicas -> [Registers -> Acts \cup {None}]]
           /\ rows' \in [Replicas -> Seq(Row)]
BY TagsGrow, TombsGrow, RegistersMerge, RowsAppend

LEMMA HydratedTyped ==
    ASSUME NEW r \in Replicas, NEW f \in [Registers -> Acts \cup {None}]
    PROVE  Hydrated(r, f) \in [Agents -> Acts \cup {None}]
<1>1. \A g \in Agents : <<"role", g>> \in Registers
    BY DEF Registers
<1> QED BY <1>1 DEF Hydrated

LEMMA RolesTyped ==
    ASSUME TypeOK, NEW r \in Replicas, NEW a \in Acts, NEW ms
    PROVE  RolesAfter(r, a, ms) \in [Agents -> Acts \cup {None}]
BY DEF TypeOK, RolesAfter, Merged

\* What is sent in answer is a sequence of activities.
LEMMA DispatchTyped ==
    ASSUME TypeOK, NEW r \in Replicas, NEW a \in Acts, Dispatch(r, a),
           work' \in [Replicas -> SUBSET Seq(Acts)]
    PROVE  TypeOK'
<1>1. PICK ms : Done(r, a, ms)
    BY DispatchDone
<1>2. /\ tags' \in [Replicas -> SUBSET Acts] /\ dead' \in [Replicas -> SUBSET Acts]
      /\ reg' \in [Replicas -> [Registers -> Acts \cup {None}]]
      /\ rows' \in [Replicas -> Seq(Row)]
    BY <1>1, HandledTyped DEF Done
<1>3. roles' \in [Replicas -> [Agents -> Acts \cup {None}]]
    BY <1>1, RolesTyped DEF Done, TypeOK
<1>4. seen' \in [Replicas -> SUBSET Acts] /\ torn' \in [Replicas -> SUBSET Acts]
    BY <1>1 DEF Done, TypeOK
<1>5. /\ sent' \in Directs /\ closed' \in [Replicas -> SUBSET Commands]
      /\ status' \in [Replicas -> {"active", "frozen", "archived"}]
      /\ offers' \in Nat /\ restarts' \in Nat
    BY DEF Dispatch, TypeOK
<1>6. ASSUME NEW m \in net', m.kind = "deltas" PROVE m.acts \in Seq(Acts)
    <2>1. m \in net \/ \E p \in Peers(r) : m = Deltas(p, Behind(rows'[r], NoRows))
        BY DEF Dispatch, Pushed
    <2>2. rows'[r] \in Seq(Row)
        BY <1>2
    <2>3. Behind(rows'[r], NoRows) \in Seq(Acts)
        BY <2>2, BehindLists
    <2> QED BY <1>6, <2>1, <2>3 DEF TypeOK, Deltas
<1> QED BY <1>2, <1>3, <1>4, <1>5, <1>6 DEF TypeOK

LEMMA RecoveredTyped ==
    ASSUME TypeOK, NEW r \in Replicas
    PROVE  Recovered(r) \in {"active", "frozen", "archived"}
<1>1. closed[r] \in SUBSET {"freeze", "archive"}
    BY DEF TypeOK, Commands
<1>2. "archive" \in closed[r] \/ closed[r] = {"freeze"} \/ closed[r] = {}
    BY <1>1
<1> QED BY <1>2 DEF Recovered

\* A restart keeps the shape, whatever it finds in the store.
LEMMA RestartedTyped ==
    ASSUME TypeOK, NEW r \in Replicas, Restarted(r),
           tags' \in [Replicas -> SUBSET Acts], dead' \in [Replicas -> SUBSET Acts],
           reg' \in [Replicas -> [Registers -> Acts \cup {None}]],
           rows' \in [Replicas -> Seq(Row)], torn' \in [Replicas -> SUBSET Acts]
    PROVE  TypeOK'
<1>1. roles' \in [Replicas -> [Agents -> Acts \cup {None}]]
    <2>1. Hydrated(r, reg'[r]) \in [Agents -> Acts \cup {None}]
        BY HydratedTyped
    <2> QED BY <2>1 DEF Restarted, TypeOK
<1>2. status' \in [Replicas -> {"active", "frozen", "archived"}]
    BY RecoveredTyped DEF Restarted, TypeOK
<1>3. /\ seen' \in [Replicas -> SUBSET Acts] /\ work' \in [Replicas -> SUBSET Seq(Acts)]
      /\ sent' \in Directs /\ closed' \in [Replicas -> SUBSET Commands]
      /\ offers' \in Nat /\ restarts' \in Nat
      /\ \A m \in net' : m.kind = "deltas" => m.acts \in Seq(Acts)
    BY DEF Restarted, TypeOK
<1> QED BY <1>1, <1>2, <1>3 DEF TypeOK

LEMMA TypeInit ==
    ASSUME Init PROVE TypeOK
<1>1. <<>> \in Seq(Row)
    OBVIOUS
<1> QED BY <1>1 DEF Init, TypeOK

LEMMA TypeStep ==
    ASSUME TypeOK, [Next]_vars PROVE TypeOK'
<1>1. CASE UNCHANGED vars
    BY <1>1 DEF vars, store, memory, TypeOK
<1>2. ASSUME NEW r \in Replicas, NEW a \in Acts, Receive(r, a) PROVE TypeOK'
    <2>1. work' \in [Replicas -> SUBSET Seq(Acts)]
        BY <1>2 DEF Receive, TypeOK
    <2> QED BY <1>2, <2>1, DispatchTyped DEF Receive
<1>3. ASSUME NEW r \in Replicas, NEW a \in Acts, KilledInHandler(r, a) PROVE TypeOK'
    <2>1. PICK ms, n : Handled(r, a, ms, n)
        BY <1>3, KilledHandles
    <2>2. Restarted(r) /\ torn' \in [Replicas -> SUBSET Acts]
        BY <1>3 DEF KilledInHandler, TypeOK
    <2> QED BY <2>1, <2>2, HandledTyped, RestartedTyped
<1>4. ASSUME NEW r \in Replicas, TakeNext(r) PROVE TypeOK'
    <2>1. PICK batch \in work[r] : \E k \in Unseen(r, batch) :
              /\ Dispatch(r, batch[k])
              /\ work' = [work EXCEPT ![r] = IF Unseen(r, batch)' = {} THEN @ \ {batch} ELSE @]
        BY <1>4 DEF TakeNext
    <2>2. PICK k \in Unseen(r, batch) :
              /\ Dispatch(r, batch[k])
              /\ work' = [work EXCEPT ![r] = IF Unseen(r, batch)' = {} THEN @ \ {batch} ELSE @]
        BY <2>1
    <2>3. work' \in [Replicas -> SUBSET Seq(Acts)]
        BY <2>2 DEF TypeOK
    <2>4. batch[k] \in Acts
        BY BatchTyped
    <2> QED BY <2>2, <2>3, <2>4, DispatchTyped
<1>5. ASSUME NEW r \in Replicas, TakeDeltas(r) PROVE TypeOK'
    <2>1. PICK m \in net : /\ m.kind = "deltas" /\ work' = [work EXCEPT ![r] = @ \cup {m.acts}]
                           /\ UNCHANGED <<sent, store, status, roles, seen, net, offers, restarts, torn>>
        BY <1>5 DEF TakeDeltas
    <2>2. work' \in [Replicas -> SUBSET Seq(Acts)]
        BY <2>1 DEF TypeOK
    <2> QED BY <2>1, <2>2 DEF TypeOK, store
<1>6. ASSUME NEW r \in Replicas, DropBatch(r) PROVE TypeOK'
    <2>1. work' \in [Replicas -> SUBSET Seq(Acts)]
        BY <1>6 DEF DropBatch, TypeOK
    <2> QED BY <1>6, <2>1 DEF DropBatch, TypeOK, store
<1>7. ASSUME NEW r \in Replicas, NEW p \in Replicas, Offer(r, p) PROVE TypeOK'
    <2>1. ASSUME NEW m \in net', m.kind = "deltas" PROVE m.acts \in Seq(Acts)
        <3>1. Offered(r, p, Vector(rows[r])).kind = "digest"
            BY DEF Offered
        <3> QED BY <1>7, <2>1, <3>1 DEF Offer, TypeOK
    <2>2. offers' \in Nat
        BY <1>7 DEF Offer, TypeOK
    <2> QED BY <1>7, <2>1, <2>2 DEF Offer, TypeOK, store, memory
<1>8. ASSUME NEW r \in Replicas, Answer(r) PROVE TypeOK'
    <2>1. PICK d \in net : /\ net' = (net \ {d}) \cup {Deltas(d.from, Behind(rows[r], d.vector))}
                           /\ UNCHANGED <<sent, store, memory, offers, restarts, torn>>
        BY <1>8 DEF Answer
    <2>2. ASSUME NEW m \in net', m.kind = "deltas" PROVE m.acts \in Seq(Acts)
        <3>1. rows[r] \in Seq(Row)
            BY DEF TypeOK
        <3>2. Behind(rows[r], d.vector) \in Seq(Acts)
            BY <3>1, BehindLists
        <3>3. m \in net \/ m.acts = Behind(rows[r], d.vector)
            BY <2>1 DEF Deltas
        <3> QED BY <2>2, <3>2, <3>3 DEF TypeOK
    <2> QED BY <2>1, <2>2 DEF TypeOK, store, memory
<1>9. ASSUME NEW r \in Replicas, Freeze(r) \/ Archive(r) PROVE TypeOK'
    <2>1. \E command \in Commands, state \in {"frozen", "archived"} : Close(r, command, state)
        BY <1>9 DEF Freeze, Archive, Commands
    <2>2. PICK command \in Commands, state \in {"frozen", "archived"} : Close(r, command, state)
        BY <2>1
    <2>3. /\ status' \in [Replicas -> {"active", "frozen", "archived"}]
          /\ closed' \in [Replicas -> SUBSET Commands]
        BY <2>2 DEF Close, TypeOK
    <2>4. UNCHANGED <<sent, tags, dead, reg, rows, roles, seen, work, net, offers, restarts, torn>>
        BY <2>2 DEF Close
    <2> QED BY <2>3, <2>4 DEF TypeOK
<1>10. ASSUME NEW r \in Replicas, Restart(r) PROVE TypeOK'
    <2>1. UNCHANGED <<tags, dead, reg, rows, torn>> /\ Restarted(r)
        BY <1>10 DEF Restart
    <2> QED BY <2>1, RestartedTyped DEF TypeOK
<1> QED BY <1>1, <1>2, <1>3, <1>4, <1>5, <1>6, <1>7, <1>8, <1>9, <1>10 DEF Next

\* The tables and the memory of every replica keep their shape (hub/hub.ts over
\* crdt/store.ts), whatever comes in whatever order.
THEOREM TypeCorrect == Spec => []TypeOK
BY TypeInit, TypeStep, PTL DEF Spec

------------------------------------------------------------------------------
(* Everything held has a row, or was torn *)

\* A write that was done leaves a row; one that was cut, a mark in the history.
LEMMA RowsKept ==
    ASSUME TypeOK, NEW r \in Replicas, NEW a \in Acts, NEW ms, NEW n, Handled(r, a, ms, n)
    PROVE  /\ Acted(rows[r]) \subseteq Acted(rows'[r])
           /\ \A e \in Acted(rows'[r]) \ Acted(rows[r]) : e = a /\ 1 <= n
           /\ 1 <= n => a \in Acted(rows'[r])
<1>1. rows[r] \in Seq(Row) /\ rows'[r] \in Seq(Row) /\ n \in Nat
    BY RowsAppend DEF TypeOK, Handled
<1>2. PICK N : N = Len(rows[r])
    OBVIOUS
<1>3. /\ N \in Nat /\ Len(rows'[r]) = N + n
      /\ \A k \in 1..N : rows'[r][k] = rows[r][k]
      /\ \A k \in 1..n : rows'[r][N + k].act = a
    <2>2. \A k \in 1..n : rows'[r][Len(rows[r]) + k].act = a
        BY RowsAppend
    <2>3. /\ Len(rows[r]) \in Nat /\ Len(rows'[r]) = Len(rows[r]) + n
          /\ \A k \in 1..Len(rows[r]) : rows'[r][k] = rows[r][k]
        BY RowsAppend
    <2> QED BY <1>2, <2>2, <2>3
<1>4. DOMAIN rows[r] = 1..N /\ DOMAIN rows'[r] = 1..(N + n)
    BY <1>1, <1>2, <1>3
<1>5. \A k \in 1..N : k \in 1..(N + n)
    BY <1>1, <1>3
<1>6. ASSUME NEW k \in 1..(N + n), ~(k \in 1..N) PROVE rows'[r][k].act = a /\ 1 <= n
    <2>1. n \in Nat /\ N \in Nat
        BY <1>1, <1>3
    <2>2. k - N \in 1..n /\ N + (k - N) = k /\ 1 <= n
        BY <1>6, <2>1
    <2>3. rows'[r][N + (k - N)].act = a
        BY <1>3, <2>2
    <2> QED BY <2>2, <2>3
<1>7. Acted(rows[r]) \subseteq Acted(rows'[r])
    BY <1>3, <1>4, <1>5 DEF Acted
<1>8. ASSUME NEW e \in Acted(rows'[r]) \ Acted(rows[r]) PROVE e = a /\ 1 <= n
    <2>1. PICK k \in 1..(N + n) : rows'[r][k].act = e
        BY <1>4, <1>8 DEF Acted
    <2>2. CASE k \in 1..N
        BY <1>3, <1>4, <1>8, <2>1, <2>2 DEF Acted
    <2>3. CASE ~(k \in 1..N)
        BY <1>6, <2>1, <2>3
    <2> QED BY <2>2, <2>3
<1>9. ASSUME 1 <= n PROVE a \in Acted(rows'[r])
    <2>1. N + 1 \in 1..(N + n) /\ 1 \in 1..n
        BY <1>1, <1>3, <1>9
    <2> QED BY <1>3, <1>4, <2>1 DEF Acted
<1> QED BY <1>7, <1>8, <1>9

Kept(r, e) == e \in Acted(rows[r]) \/ e \in torn[r]
LEMMA HeldMeans ==
    ASSUME TypeOK
    PROVE  HeldHasRows <=>
               \A r \in Replicas :
                   /\ \A e \in tags[r] : Kept(r, e)
                   /\ \A x \in Registers : reg[r][x] # None => Kept(r, reg[r][x])
<1>1. \A r \in Replicas : \A e \in tags[r] : e # None
    BY ReplicaAssumption DEF TypeOK, ReplicaAssumption
<1> QED BY <1>1 DEF HeldHasRows, Kept

\* What is newly held after a handler's step is its activity, and it has moves.
LEMMA NewlyHeld ==
    ASSUME TypeOK, NEW r \in Replicas, NEW a \in Acts, NEW ms, NEW n, Handled(r, a, ms, n)
    PROVE  /\ \A e \in tags'[r] : e \in tags[r] \/ (e = a /\ 1 <= Len(ms))
           /\ \A x \in Registers :
                  reg'[r][x] = reg[r][x] \/ (reg'[r][x] = a /\ Touches(ms, x) /\ 1 <= Len(ms))
<1>1. \A e \in tags'[r] : e \in tags[r] \/ (e = a /\ 1 <= Len(ms))
    BY TagsGrow
<1>2. \A x \in Registers : reg'[r][x] = IF Touches(ms, x) THEN Merged(reg[r][x], a) ELSE reg[r][x]
    BY RegistersMerge
<1>3. \A x : Touches(ms, x) => 1 <= Len(ms)
    BY MovesTyped DEF Touches, Handled
<1> QED BY <1>1, <1>2, <1>3 DEF Merged

LEMMA HeldStep ==
    ASSUME TypeOK, HeldHasRows, [Next]_vars PROVE HeldHasRows'
<1>1. TypeOK'
    BY TypeStep
<1>2. \A r \in Replicas :
          /\ \A e \in tags[r] : Kept(r, e)
          /\ \A x \in Registers : reg[r][x] # None => Kept(r, reg[r][x])
    BY HeldMeans
<1>3. CASE Quiet
    BY <1>3 DEF Quiet, HeldHasRows
<1>4. ASSUME NEW r \in Replicas, NEW a \in Acts, NEW ms, NEW n, Handled(r, a, ms, n),
             1 <= Len(ms) => Kept(r, a)',
             \A p \in Replicas : torn[p] \subseteq torn'[p]
      PROVE  HeldHasRows'
    <2>1. ASSUME NEW p \in Replicas, NEW e, Kept(p, e) PROVE Kept(p, e)'
        <3>1. CASE p = r
            BY <1>4, <2>1, <3>1, RowsKept DEF Kept
        <3>2. CASE p # r
            <4>1. rows'[p] = rows[p]
                BY <1>4, <3>2, OthersStay DEF Handled
            <4>2. Acted(rows'[p]) = Acted(rows[p])
                BY <4>1
            <4> QED BY <1>4, <2>1, <4>2 DEF Kept
        <3> QED BY <3>1, <3>2
    <2>2. ASSUME NEW p \in Replicas PROVE \A e \in tags'[p] : Kept(p, e)'
        <3>1. \A e \in tags'[p] : e \in tags[p] \/ (p = r /\ e = a /\ 1 <= Len(ms))
            BY <1>4, NewlyHeld, OthersStay DEF Handled
        <3> QED BY <1>2, <1>4, <2>1, <3>1
    <2>3. ASSUME NEW p \in Replicas, NEW x \in Registers, reg'[p][x] # None
          PROVE  Kept(p, reg[p][x])'
        <3>1. reg'[p][x] = reg[p][x] \/ (p = r /\ reg'[p][x] = a /\ 1 <= Len(ms))
            BY <1>4, NewlyHeld, OthersStay DEF Handled
        <3>2. CASE reg'[p][x] = reg[p][x]
            <4>1. Kept(p, reg[p][x])
                BY <1>2, <2>3, <3>2
            <4>2. PICK e : e = reg[p][x]
                OBVIOUS
            <4>3. e \in Acted(rows'[p]) \/ e \in torn'[p]
                BY <2>1, <4>1, <4>2 DEF Kept
            <4> QED BY <3>2, <4>2, <4>3 DEF Kept
        <3>3. CASE p = r /\ reg'[p][x] = a /\ 1 <= Len(ms)
            BY <1>4, <3>3 DEF Kept
        <3> QED BY <3>1, <3>2, <3>3
    <2> QED BY <2>2, <2>3 DEF HeldHasRows, Kept
<1>5. ASSUME NEW r \in Replicas, NEW a \in Acts, NEW ms, Done(r, a, ms) PROVE HeldHasRows'
    <2>1. 1 <= Len(ms) => Kept(r, a)'
        BY <1>5, RowsKept DEF Done, Kept
    <2> QED BY <1>4, <1>5, <2>1 DEF Done
<1>6. ASSUME NEW r \in Replicas, NEW a \in Acts, NEW ms, NEW n, Cut(r, a, ms, n)
      PROVE  HeldHasRows'
    <2>1. a \in torn'[r] /\ \A p \in Replicas : torn[p] \subseteq torn'[p]
        BY <1>6 DEF Cut, TypeOK
    <2> QED BY <1>4, <1>6, <2>1 DEF Cut, Kept
<1> QED BY <1>3, <1>5, <1>6, StepCases

LEMMA HandsOnStands ==
    ASSUME TypeOK, HeldHasRows PROVE HandsOn
<1>1. ASSUME NEW r \in Replicas, NEW p \in Replicas, OnlyBehind(p, r)
      PROVE  Acted(rows[r]) \ Acted(rows[p]) \subseteq ToSet(Behind(rows[r], Vector(rows[p])))
    <2>1. rows[r] \in Seq(Row) /\ rows[p] \in Seq(Row)
        BY DEF TypeOK
    <2>2. \A k \in DOMAIN rows[p] : \E j \in DOMAIN rows[r] :
              rows[r][j] = rows[p][k] /\ Place(rows[r], j) = Place(rows[p], k)
        BY <1>1 DEF OnlyBehind
    <2>3. ASSUME NEW a \in Acted(rows[r]), a \notin Acted(rows[p])
          PROVE  a \in ToSet(Behind(rows[r], Vector(rows[p])))
        BY <2>1, <2>2, <2>3, AnswerComplete
    <2> QED BY <2>3
<1>2. BehindIsAnswered
    BY <1>1 DEF BehindIsAnswered
<1> QED BY <1>2 DEF HandsOn

\* Whatever a replica holds it has a row for, unless a kill came between the two
\* statements (crdt/store.ts apply), and the answer to the digest of a replica that is
\* only behind (onDigestOffer, activitiesBehind) carries all that it lacks.
THEOREM HandsOnToWhoIsBehind == Spec => []HandsOn
<1>1. Init => TypeOK /\ HeldHasRows
    <2> SUFFICES ASSUME Init PROVE TypeOK /\ HeldHasRows
        OBVIOUS
    <2> QED BY TypeInit DEF Init, HeldHasRows
<1>2. TypeOK /\ HeldHasRows /\ [Next]_vars => TypeOK' /\ HeldHasRows'
    BY TypeStep, HeldStep
<1>3. TypeOK /\ HeldHasRows => HandsOn
    BY HandsOnStands
<1> QED BY <1>1, <1>2, <1>3, PTL DEF Spec

------------------------------------------------------------------------------
(* Members, their registers, and the seats that let them in *)

SeatAt(r) ==
    /\ \A e \in tags[r] : Act[e].kind = "Enroll" => OwnAgent(e)
    /\ \A g \in Agents : \A name \in {"role", "instance"} :
          reg[r][<<name, g>>] # None => reg[r][<<name, g>>] \in Enrolls(g) /\ OwnAgent(reg[r][<<name, g>>])
    /\ \A g \in Members(r) : reg[r][<<"instance", g>>] # None \/ torn[r] \cap Enrolls(g) # {}

SeatedAt(r) ==
    SeatRequired => \A g \in Members(r) : HasSeat(r, OperatedBy[g]) \/ TornFor(r, g)

\* A replica no step is of.
Same(p) ==
    /\ tags'[p] = tags[p] /\ dead'[p] = dead[p] /\ reg'[p] = reg[p] /\ rows'[p] = rows[p]
    /\ torn'[p] = torn[p]

LEMMA SameSeats ==
    ASSUME NEW p \in Replicas, Same(p) PROVE (SeatAt(p) => SeatAt(p)') /\ (SeatedAt(p) => SeatedAt(p)')
BY DEF Same, SeatAt, SeatedAt, Members, EnrollTags, Live, HasSeat, SeatTags, TornFor

LEMMA OthersSame ==
    ASSUME TypeOK, NEW r \in Replicas, NEW a \in Acts, NEW ms, NEW n, Done(r, a, ms) \/ Cut(r, a, ms, n),
           NEW p \in Replicas \ {r}
    PROVE  Same(p) /\ roles'[p] = roles[p] /\ seen'[p] = seen[p]
<1>1. \E k : Persist(r, a, ms, k)
    BY DEF Done, Cut, Handled
<1>2. tags'[p] = tags[p] /\ dead'[p] = dead[p] /\ reg'[p] = reg[p] /\ rows'[p] = rows[p]
    BY <1>1, OthersStay
<1>3. torn'[p] = torn[p] /\ roles'[p] = roles[p] /\ seen'[p] = seen[p]
    BY DEF Done, Cut, TypeOK
<1> QED BY <1>2, <1>3 DEF Same

\* A role or instance register is moved by an Enroll of its agent, and by one whole.
LEMMA TouchedByEnroll ==
    ASSUME NEW r \in Replicas, NEW a \in Acts, NEW ms, NEW n, Handled(r, a, ms, n),
           NEW g, NEW name \in {"role", "instance"}, Touches(ms, <<name, g>>)
    PROVE  Act[a].kind = "Enroll" /\ Act[a].on = g
<1>1. PICK k \in 1..Len(ms) : <<name, g>> \in ms[k].regs
    BY DEF Touches
<1>2. PICK m : m = ms[k]
    OBVIOUS
<1>3. Sound(r, a, m) /\ <<name, g>> \in m.regs
    BY <1>1, <1>2 DEF Handled
<1>4. CASE Act[a].kind \in {"Follow", "Undo", "Unenroll", "Expel", "Delta"}
    <2>1. m.regs = {}
        BY <1>3, <1>4 DEF Sound, Move, Removal
    <2> QED BY <1>3, <2>1
<1>5. CASE Act[a].kind \in {"Transfer", "Asset"}
    <2>1. \A x \in m.regs : x[1] \in {"transfer", "asset"}
        BY <1>3, <1>5 DEF Sound, Move, Register
    <2>2. <<name, g>>[1] = name
        OBVIOUS
    <2> QED BY <1>3, <2>1, <2>2
<1>6. CASE Act[a].kind = "Enroll"
    <2>1. \A x \in m.regs : x[2] = Act[a].on
        BY <1>3, <1>6 DEF Sound, Move, Register
    <2>2. <<name, g>>[2] = g
        OBVIOUS
    <2> QED BY <1>3, <1>6, <2>1, <2>2
<1> QED BY <1>4, <1>5, <1>6, ActTyped DEF Kinds

LEMMA EnrollTouches ==
    ASSUME NEW r \in Replicas, NEW a \in Acts, NEW ms, Complete(r, a, ms), 1 <= Len(ms),
           Act[a].kind = "Enroll", NEW name \in {"role", "instance"}
    PROVE  Touches(ms, <<name, Act[a].on>>)
<1>1. ms # <<>>
    OBVIOUS
<1>2. PICK k \in 1..Len(ms) : ms[k] = Register(name, Act[a].on)
    BY <1>1 DEF Complete
<1>3. <<name, Act[a].on>> \in ms[k].regs
    BY <1>2 DEF Register, Move
<1> QED BY <1>3 DEF Touches

\* An Enroll that moves anything is of an agent its sender operates, from a seat.
LEMMA EnrollsOwn ==
    ASSUME NEW r \in Replicas, NEW a \in Acts, NEW ms, NEW n, Handled(r, a, ms, n),
           Act[a].kind = "Enroll", 1 <= Len(ms)
    PROVE  OwnAgent(a) /\ (SeatRequired => HasSeat(r, Act[a].by)) /\ a \in Enrolls(Act[a].on)
<1>1. 1 \in 1..Len(ms)
    BY MovesTyped DEF Handled
<1>2. Sound(r, a, ms[1])
    BY <1>1 DEF Handled
<1> QED BY <1>2 DEF Sound, Enrolls, OfKind

\* Who is a member after a handler's step was one before, or is enrolled by it.
LEMMA MembersComeByEnroll ==
    ASSUME TypeOK, NEW r \in Replicas, NEW a \in Acts, NEW ms, NEW n, Handled(r, a, ms, n),
           NEW g \in Agents
    PROVE  /\ \A e \in EnrollTags(r, g)' :
                  e \in EnrollTags(r, g) \/ (e = a /\ a \in Enrolls(g) /\ 1 <= Len(ms))
           /\ g \in Members(r)' => g \in Members(r) \/ (a \in Enrolls(g) /\ 1 <= Len(ms))
<1>1. dead[r] \subseteq dead'[r] /\ tags'[r] \in SUBSET Acts
    BY TombsGrow, TagsGrow
<1>2. \A e \in tags'[r] \ tags[r] : e = a /\ 1 <= Len(ms)
    BY TagsGrow
<1>3. ASSUME NEW e \in EnrollTags(r, g)'
      PROVE  e \in EnrollTags(r, g) \/ (e = a /\ a \in Enrolls(g) /\ 1 <= Len(ms))
    BY <1>1, <1>2, <1>3 DEF EnrollTags, Live, Enrolls, OfKind
<1> QED BY <1>3 DEF Members

LEMMA SeatDone ==
    ASSUME TypeOK, NEW r \in Replicas, NEW a \in Acts, NEW ms, NEW n, Handled(r, a, ms, n),
           torn[r] \subseteq torn'[r], a \in torn'[r] \/ Complete(r, a, ms),
           SeatAt(r)
    PROVE  SeatAt(r)'
<1>1. \A e \in tags'[r] : e \in tags[r] \/ (e = a /\ 1 <= Len(ms))
    BY NewlyHeld
<1>2. \A e \in tags'[r] : Act[e].kind = "Enroll" => OwnAgent(e)
    BY <1>1, EnrollsOwn DEF SeatAt
<1>3. ASSUME NEW g \in Agents, NEW name \in {"role", "instance"}, reg'[r][<<name, g>>] # None
      PROVE  reg'[r][<<name, g>>] \in Enrolls(g) /\ OwnAgent(reg'[r][<<name, g>>])
    <2>1. <<name, g>> \in Registers
        BY DEF Registers
    <2>2. \/ reg'[r][<<name, g>>] = reg[r][<<name, g>>]
          \/ reg'[r][<<name, g>>] = a /\ Touches(ms, <<name, g>>) /\ 1 <= Len(ms)
        BY <2>1, NewlyHeld
    <2>3. CASE reg'[r][<<name, g>>] = reg[r][<<name, g>>]
        BY <1>3, <2>3 DEF SeatAt
    <2>4. CASE reg'[r][<<name, g>>] = a /\ Touches(ms, <<name, g>>) /\ 1 <= Len(ms)
        <3>1. Act[a].kind = "Enroll" /\ Act[a].on = g
            BY <2>4, TouchedByEnroll
        <3> QED BY <2>4, <3>1, EnrollsOwn
    <2> QED BY <2>2, <2>3, <2>4
<1>4. ASSUME NEW g \in Members(r)'
      PROVE  reg'[r][<<"instance", g>>] # None \/ torn'[r] \cap Enrolls(g) # {}
    <2>1. g \in Agents /\ <<"instance", g>> \in Registers
        BY <1>4 DEF Members, Registers
    <2>2. reg'[r][<<"instance", g>>] = IF Touches(ms, <<"instance", g>>)
                                       THEN Merged(reg[r][<<"instance", g>>], a)
                                       ELSE reg[r][<<"instance", g>>]
        BY <2>1, RegistersMerge
    <2>3. CASE g \in Members(r)
        <3>1. reg[r][<<"instance", g>>] # None \/ torn[r] \cap Enrolls(g) # {}
            BY <2>3 DEF SeatAt
        <3>2. a # None
            BY ActTyped
        <3> QED BY <2>2, <3>1, <3>2 DEF Merged
    <2>4. CASE a \in Enrolls(g) /\ 1 <= Len(ms)
        <3>1. CASE a \in torn'[r]
            BY <2>4, <3>1
        <3>2. CASE Complete(r, a, ms)
            <4>1. Touches(ms, <<"instance", g>>)
                BY <2>4, <3>2, EnrollTouches DEF Enrolls, OfKind
            <4> QED BY <2>2, <4>1, ActTyped DEF Merged
        <3> QED BY <3>1, <3>2
    <2> QED BY <1>4, <2>1, <2>3, <2>4, MembersComeByEnroll
<1> QED BY <1>2, <1>3, <1>4 DEF SeatAt

\* Only an Undo of a seat takes the seat.
LEMMA SeatStays ==
    ASSUME TypeOK, NEW r \in Replicas, NEW a \in Acts, NEW ms, NEW n, Handled(r, a, ms, n),
           NEW i, HasSeat(r, i), ~(Act[a].kind = "Undo" /\ Act[a].by = i /\ 1 <= Len(ms))
    PROVE  HasSeat(r, i)'
<1>1. PICK s \in SeatTags(r, i) : TRUE
    BY DEF HasSeat
<1>2. s \in tags[r] /\ s \notin dead[r] /\ Act[s].kind = "Follow" /\ Act[s].by = i
    BY <1>1 DEF SeatTags, Live
<1>3. s \in tags'[r]
    BY <1>2, TagsGrow
<1>4. s \notin dead'[r]
    <2> SUFFICES ASSUME s \in dead'[r] PROVE FALSE
        OBVIOUS
    <2>1. Buries(r, a, s) /\ 1 <= Len(ms)
        BY <1>2, TombsGrow
    <2> QED BY <1>2, <2>1 DEF Buries, SeatTags, EnrollTags
<1>5. s \in SeatTags(r, i)'
    BY <1>2, <1>3, <1>4 DEF SeatTags, Live
<1> QED BY <1>5 DEF HasSeat

\* A removal leaves no live tag of the agent, unless the activity itself is one.
LEMMA RemovalEmpties ==
    ASSUME TypeOK, NEW r \in Replicas, NEW a \in Acts, NEW ms, NEW n, Handled(r, a, ms, n),
           NEW g \in Agents, NEW k \in 1..Len(ms), ms[k] = Removal(r, g), Act[a].kind # "Enroll"
    PROVE  g \notin Members(r)'
<1> SUFFICES ASSUME g \in Members(r)' PROVE FALSE
    OBVIOUS
<1>1. PICK e \in EnrollTags(r, g)' : TRUE
    BY DEF Members
<1>2. e \in EnrollTags(r, g)
    BY <1>1, MembersComeByEnroll DEF Enrolls, OfKind
<1>3. e \in ms[k].tombs
    BY <1>2 DEF Removal, Move
<1>4. e \in dead'[r]
    BY <1>3, TombsGrow
<1> QED BY <1>1, <1>4 DEF EnrollTags, Live

\* The agents of an instance, members by registers all there, are its dependants.
LEMMA DependsOn ==
    ASSUME NEW r \in Replicas, SeatAt(r), NEW g \in Members(r),
           reg[r][<<"instance", g>>] # None
    PROVE  g \in Agents /\ g \in Dependants(r, OperatedBy[g])
<1>1. g \in Agents
    BY DEF Members
<1>2. PICK h : h = reg[r][<<"instance", g>>]
    OBVIOUS
<1>3. h \in Enrolls(g) /\ OwnAgent(h)
    BY <1>1, <1>2 DEF SeatAt
<1>4. Act[h].by = OperatedBy[g]
    BY <1>3 DEF Enrolls, OwnAgent
<1>5. InstanceOf(r, g) = OperatedBy[g]
    BY <1>2, <1>4 DEF InstanceOf
<1> QED BY <1>1, <1>5 DEF Dependants

LEMMA SeatedDone ==
    ASSUME TypeOK, NEW r \in Replicas, NEW a \in Acts, NEW ms, NEW n, Handled(r, a, ms, n),
           torn[r] \subseteq torn'[r], a \in torn'[r] \/ Complete(r, a, ms),
           SeatAt(r), SeatedAt(r)
    PROVE  SeatedAt(r)'
<1> SUFFICES ASSUME SeatRequired, NEW g \in Members(r)'
             PROVE  HasSeat(r, OperatedBy[g])' \/ TornFor(r, g)'
    BY DEF SeatedAt
<1>1. g \in Agents
    BY DEF Members
<1>2. ASSUME TornFor(r, g) PROVE TornFor(r, g)'
    BY <1>2 DEF TornFor
<1>3. CASE a \in Enrolls(g) /\ 1 <= Len(ms)
    <2>1. Act[a].kind = "Enroll" /\ Act[a].on = g
        BY <1>3 DEF Enrolls, OfKind
    <2>2. OwnAgent(a) /\ HasSeat(r, Act[a].by)
        BY <1>3, <2>1, EnrollsOwn
    <2>3. HasSeat(r, OperatedBy[g])
        BY <2>1, <2>2 DEF OwnAgent
    <2> QED BY <2>1, <2>3, SeatStays
<1>4. CASE g \in Members(r) /\ ~(Act[a].kind = "Undo" /\ Act[a].by = OperatedBy[g] /\ 1 <= Len(ms))
    <2>1. HasSeat(r, OperatedBy[g]) \/ TornFor(r, g)
        BY <1>4 DEF SeatedAt
    <2> QED BY <1>2, <1>4, <2>1, SeatStays
<1>5. CASE g \in Members(r) /\ Act[a].kind = "Undo" /\ Act[a].by = OperatedBy[g] /\ 1 <= Len(ms)
    <2>1. CASE a \in torn'[r]
        BY <1>5, <2>1 DEF TornFor
    <2>2. CASE torn[r] \cap Enrolls(g) # {}
        <3>1. TornFor(r, g)
            BY <2>2 DEF TornFor, Enrolls, OfKind
        <3> QED BY <1>2, <3>1
    <2>3. CASE reg[r][<<"instance", g>>] # None /\ Complete(r, a, ms)
        <3>1. g \in Dependants(r, Act[a].by)
            BY <1>5, <2>3, DependsOn
        <3>2. ms # <<>>
            BY <1>5
        <3>3. PICK k \in 1..Len(ms) : ms[k] = Removal(r, g)
            BY <1>5, <2>3, <3>1, <3>2 DEF Complete
        <3>4. g \notin Members(r)'
            BY <1>1, <1>5, <3>3, RemovalEmpties
        <3> QED BY <3>4
    <2> QED BY <1>5, <2>1, <2>2, <2>3 DEF SeatAt
<1> QED BY <1>1, <1>3, <1>4, <1>5, MembersComeByEnroll
------------------------------------------------------------------------------
(* Rows: what an added tag and a tombstone leave behind *)

RowAt(r) == \A e \in Acted(rows[r]) : Act[e].kind \in {"Follow", "Enroll"} => e \in tags[r]

LEMMA RowDone ==
    ASSUME TypeOK, NEW r \in Replicas, NEW a \in Acts, NEW ms, NEW n, Handled(r, a, ms, n),
           RowAt(r)
    PROVE  RowAt(r)'
<1> SUFFICES ASSUME NEW e \in Acted(rows'[r]), Act[e].kind \in {"Follow", "Enroll"}
             PROVE  e \in tags'[r]
    BY DEF RowAt
<1>1. CASE e \in Acted(rows[r])
    BY <1>1, TagsGrow DEF RowAt
<1>2. CASE e \notin Acted(rows[r])
    <2>1. e = a /\ 1 <= n
        BY <1>2, RowsKept
    <2>2. 1 \in 1..Len(ms) /\ 1 <= Len(ms)
        BY <2>1, MovesTyped DEF Handled
    <2>3. ms[1].adds = {a}
        BY <2>1, <2>2 DEF Handled, TagFirst
    <2>4. ms[1].adds \subseteq tags'[r]
        BY <2>2, TagsGrow
    <2> QED BY <2>1, <2>3, <2>4
<1> QED BY <1>1, <1>2

\* b has a row after one of a.
Before(r, a, b) ==
    \E i, j \in DOMAIN rows[r] : i < j /\ rows[r][i].act = a /\ rows[r][j].act = b

\* Rows keep their order, and the activity's come last.
LEMMA BeforeSteps ==
    ASSUME TypeOK, NEW r \in Replicas, NEW a \in Acts, NEW ms, NEW n, Handled(r, a, ms, n),
           NEW d, NEW e, d # e
    PROVE  Before(r, d, e)' <=> Before(r, d, e) \/ (d \in Acted(rows[r]) /\ e = a /\ 1 <= n)
<1>1. PICK N, s, u : N = Len(rows[r]) /\ s = rows[r] /\ u = rows'[r]
    OBVIOUS
<1>2. /\ N \in Nat /\ n \in Nat /\ Len(u) = N + n
      /\ \A k \in 1..N : u[k] = s[k]
      /\ \A k \in 1..n : u[N + k].act = a
    <2>1. /\ Len(rows[r]) \in Nat /\ Len(rows'[r]) = Len(rows[r]) + n
          /\ \A k \in 1..Len(rows[r]) : rows'[r][k] = rows[r][k]
        BY RowsAppend
    <2>2. \A k \in 1..n : rows'[r][Len(rows[r]) + k].act = a
        BY RowsAppend
    <2>3. n \in Nat
        BY DEF Handled
    <2> QED BY <1>1, <2>1, <2>2, <2>3
<1>3. s \in Seq(Row) /\ u \in Seq(Row)
    BY <1>1, RowsAppend DEF TypeOK
<1>4. DOMAIN s = 1..N /\ DOMAIN u = 1..(N + n)
    BY <1>1, <1>2, <1>3
<1>5. ASSUME NEW k \in 1..(N + n), ~(k \in 1..N) PROVE u[k].act = a /\ 1 <= n
    <2>1. k - N \in 1..n /\ N + (k - N) = k /\ 1 <= n
        BY <1>2, <1>5
    <2>2. u[N + (k - N)].act = a
        BY <1>2, <2>1
    <2> QED BY <2>1, <2>2
<1>6. ASSUME Before(r, d, e)' PROVE Before(r, d, e) \/ (d \in Acted(rows[r]) /\ e = a /\ 1 <= n)
    <2>1. PICK i \in 1..(N + n), j \in 1..(N + n) : i < j /\ u[i].act = d /\ u[j].act = e
        BY <1>1, <1>4, <1>6 DEF Before
    <2>2. i \in 1..N
        <3> SUFFICES ASSUME ~(i \in 1..N) PROVE FALSE
            OBVIOUS
        <3>1. ~(j \in 1..N)
            BY <1>2, <2>1
        <3> QED BY <1>5, <2>1, <3>1
    <2>3. s[i].act = d
        BY <1>2, <2>1, <2>2
    <2>4. CASE j \in 1..N
        <3>1. s[j].act = e
            BY <1>2, <2>1, <2>4
        <3> QED BY <1>1, <1>4, <2>1, <2>2, <2>3, <2>4, <3>1 DEF Before
    <2>5. CASE ~(j \in 1..N)
        <3>1. e = a /\ 1 <= n
            BY <1>5, <2>1, <2>5
        <3>2. d \in Acted(s)
            BY <1>4, <2>2, <2>3 DEF Acted
        <3> QED BY <1>1, <3>1, <3>2
    <2> QED BY <2>4, <2>5
<1>7. ASSUME Before(r, d, e) PROVE Before(r, d, e)'
    <2>1. PICK i \in 1..N, j \in 1..N : i < j /\ s[i].act = d /\ s[j].act = e
        BY <1>1, <1>4, <1>7 DEF Before
    <2>2. u[i].act = d /\ u[j].act = e /\ i \in 1..(N + n) /\ j \in 1..(N + n)
        BY <1>2, <2>1
    <2> QED BY <1>1, <1>4, <2>1, <2>2 DEF Before
<1>8. ASSUME d \in Acted(rows[r]), e = a, 1 <= n PROVE Before(r, d, e)'
    <2>1. PICK i \in 1..N : s[i].act = d
        BY <1>1, <1>4, <1>8 DEF Acted
    <2>2. i \in 1..(N + n) /\ N + 1 \in 1..(N + n) /\ 1 \in 1..n /\ i < N + 1
        BY <1>2, <1>8, <2>1
    <2>3. u[i].act = d /\ u[N + 1].act = e
        BY <1>2, <1>8, <2>1, <2>2
    <2> QED BY <1>1, <1>4, <2>2, <2>3 DEF Before
<1> QED BY <1>6, <1>7, <1>8

------------------------------------------------------------------------------
(* Tombstones: who is removed, by the order of the rows *)

LiveAt(r) ==
    torn[r] = {} => \A e \in OfKind("Enroll") : e \in dead[r] <=> RemovedAfter(r, e)

LEMMA RemovedMeans ==
    ASSUME NEW r \in Replicas, NEW e
    PROVE  RemovedAfter(r, e) <=> \E d : Before(r, e, d) /\ Removes(d, e)
BY DEF RemovedAfter, Before

\* No Enroll removes anything.
LEMMA EnrollsRemoveNone ==
    ASSUME NEW d, NEW e, Removes(d, e) PROVE Act[d].kind \in {"Unenroll", "Expel", "Undo"}
BY DEF Removes

LEMMA RemovedSteps ==
    ASSUME TypeOK, NEW r \in Replicas, NEW a \in Acts, NEW ms, NEW n, Handled(r, a, ms, n),
           NEW e \in OfKind("Enroll")
    PROVE  RemovedAfter(r, e)' <=>
               RemovedAfter(r, e) \/ (e \in Acted(rows[r]) /\ Removes(a, e) /\ 1 <= n)
<1>1. Act[e].kind = "Enroll"
    BY DEF OfKind
<1>2. \A d : Removes(d, e) => d # e
    BY <1>1, EnrollsRemoveNone
<1>3. RemovedAfter(r, e)' <=> \E d : Before(r, e, d)' /\ Removes(d, e)
    BY DEF RemovedAfter, Before
<1>4. \A d : d # e => (Before(r, e, d)' <=> Before(r, e, d) \/ (e \in Acted(rows[r]) /\ d = a /\ 1 <= n))
    BY BeforeSteps
<1> QED BY <1>2, <1>3, <1>4, RemovedMeans

\* Nothing is tombstoned that was not live.
LEMMA LiveDone ==
    ASSUME TypeOK, NEW r \in Replicas, NEW a \in Acts, NEW ms, Done(r, a, ms),
           SeatAt(r), RowAt(r), LiveAt(r), \A e \in tags[r] : Kept(r, e)
    PROVE  LiveAt(r)'
<1> SUFFICES ASSUME torn[r] = {}, NEW e \in OfKind("Enroll")
             PROVE  e \in dead'[r] <=> RemovedAfter(r, e)'
    BY DEF LiveAt, Done
<1>1. Handled(r, a, ms, Len(ms)) /\ Complete(r, a, ms) /\ Len(ms) \in Nat
    BY MovesTyped DEF Done, Handled
<1>2. Act[e].kind = "Enroll" /\ e \in Acts /\ Act[e].on \in Agents
    BY ActTyped DEF OfKind
<1>3. e \in dead[r] <=> RemovedAfter(r, e)
    BY DEF LiveAt
<1>4. RemovedAfter(r, e)' <=>
          RemovedAfter(r, e) \/ (e \in Acted(rows[r]) /\ Removes(a, e) /\ 1 <= Len(ms))
    BY <1>1, RemovedSteps
<1>5. ASSUME e \in dead'[r], e \notin dead[r]
      PROVE  e \in Acted(rows[r]) /\ Removes(a, e) /\ 1 <= Len(ms)
    <2>1. Buries(r, a, e) /\ 1 <= Len(ms)
        BY <1>1, <1>5, TombsGrow
    <2>2. e \in tags[r]
        BY <1>2, <2>1 DEF Buries, SeatTags, EnrollTags, Live
    <2>3. e \in Acted(rows[r])
        BY <2>2 DEF Kept
    <2>4. CASE Act[a].kind \in {"Unenroll", "Expel"} /\ e \in EnrollTags(r, Act[a].on)
        BY <2>1, <2>3, <2>4 DEF EnrollTags, Removes
    <2>5. CASE Act[a].kind = "Undo" /\ \E g \in Dependants(r, Act[a].by) : e \in EnrollTags(r, g)
        <3>1. PICK g \in Dependants(r, Act[a].by) : e \in EnrollTags(r, g)
            BY <2>5
        <3>2. Act[e].on = g /\ g \in Agents /\ InstanceOf(r, g) = Act[a].by
            BY <3>1 DEF EnrollTags, Dependants, Members
        <3>3. Act[a].by # None
            BY ActTyped, ReplicaAssumption DEF ReplicaAssumption
        <3>4. PICK h : h = reg[r][<<"instance", g>>]
            OBVIOUS
        <3>5. h # None /\ Act[h].by = Act[a].by
            BY <3>2, <3>3, <3>4 DEF InstanceOf
        <3>6. h \in Enrolls(g) /\ OwnAgent(h)
            BY <3>2, <3>4, <3>5 DEF SeatAt
        <3>7. Act[h].by = OperatedBy[g]
            BY <3>6 DEF Enrolls, OwnAgent
        <3>8. Act[e].by = OperatedBy[g]
            BY <1>2, <2>2, <3>2 DEF SeatAt, OwnAgent
        <3> QED BY <2>1, <2>3, <2>5, <3>5, <3>7, <3>8 DEF Removes
    <2> QED BY <1>2, <2>1, <2>4, <2>5 DEF Buries, SeatTags
<1>6. ASSUME e \in Acted(rows[r]), Removes(a, e), 1 <= Len(ms)
      PROVE  e \in dead'[r]
    <2>1. e \in tags[r]
        BY <1>2, <1>6 DEF RowAt
    <2>2. PICK g : g = Act[e].on
        OBVIOUS
    <2>3. CASE e \in dead[r]
        BY <1>1, <2>3, TombsGrow
    <2>4. CASE e \in EnrollTags(r, g)
        <3>1. g \in Members(r)
            BY <1>2, <2>2, <2>4 DEF Members
        <3>2. \E k \in 1..Len(ms) : ms[k] = Removal(r, g)
            <4>1. CASE Act[a].kind \in {"Unenroll", "Expel"} /\ Act[a].on = g
                <5>1. 1 \in 1..Len(ms)
                    BY <1>1, <1>6
                <5>2. Sound(r, a, ms[1])
                    BY <1>1, <5>1 DEF Handled
                <5>3. ms[1] = Removal(r, g)
                    BY <4>1, <5>2 DEF Sound
                <5> QED BY <5>1, <5>3
            <4>2. CASE Act[a].kind = "Undo" /\ Act[a].by = Act[e].by
                <5>1. reg[r][<<"instance", g>>] # None
                    BY <3>1 DEF SeatAt
                <5>2. Act[e].by = OperatedBy[g]
                    BY <1>2, <2>1, <2>2 DEF SeatAt, OwnAgent
                <5>3. g \in Dependants(r, Act[a].by)
                    BY <3>1, <4>2, <5>1, <5>2, DependsOn
                <5>4. ms # <<>>
                    BY <1>6
                <5> QED BY <1>1, <4>2, <5>3, <5>4 DEF Complete
            <4> QED BY <1>6, <2>2, <4>1, <4>2 DEF Removes
        <3>3. PICK k \in 1..Len(ms) : ms[k] = Removal(r, g)
            BY <3>2
        <3>4. e \in ms[k].tombs
            BY <2>4, <3>3 DEF Removal, Move
        <3> QED BY <1>1, <3>4, TombsGrow
    <2> QED BY <1>2, <2>1, <2>2, <2>3, <2>4 DEF EnrollTags, Live
<1>7. dead[r] \subseteq dead'[r]
    BY <1>1, TombsGrow
<1> QED BY <1>3, <1>4, <1>5, <1>6, <1>7

------------------------------------------------------------------------------
(* Registers: what was written decides, in whatever order *)

LEMMA NodeTyped ==
    ASSUME NEW a \in Acts
    PROVE  Node(a) \in Nat /\ Act[a].at \in Nat
BY ActTyped, ReplicaAssumption DEF Node, ReplicaAssumption

LEMMA WinsOrders ==
    ASSUME NEW a \in Acts, NEW b \in Acts, NEW h \in Acts
    PROVE  /\ ~Wins(a, a)
           /\ Wins(a, b) => ~Wins(b, a)
           /\ Wins(a, b) /\ Wins(b, h) => Wins(a, h)
           /\ Wins(a, h) /\ ~Wins(b, h) => ~Wins(b, a)
           /\ ~Wins(a, b) /\ ~Wins(b, a) => Act[a].at = Act[b].at /\ Node(a) = Node(b)
<1>1. /\ Node(a) \in Nat /\ Node(b) \in Nat /\ Node(h) \in Nat
      /\ Act[a].at \in Nat /\ Act[b].at \in Nat /\ Act[h].at \in Nat
    BY NodeTyped
<1> QED BY <1>1 DEF Wins

\* Of two Enrolls one wins.
LEMMA EnrollsDecide ==
    ASSUME NEW a \in OfKind("Enroll"), NEW b \in OfKind("Enroll"), a # b, ~Wins(a, b)
    PROVE  Wins(b, a)
<1>1. Node(a) = Digest[a] /\ Node(b) = Digest[b] /\ a \in Acts /\ b \in Acts
    BY DEF OfKind, Node
<1>2. Node(a) # Node(b)
    BY <1>1, ReplicaAssumption DEF ReplicaAssumption
<1> QED BY <1>1, <1>2, WinsOrders

RegAt(r) ==
    torn[r] = {} =>
        \A x \in Registers :
            /\ reg[r][x] = None => Writers(r, x) = {}
            /\ reg[r][x] # None => reg[r][x] \in Writers(r, x)
            /\ \A b \in Writers(r, x) : ~Wins(b, reg[r][x])

LEMMA WritersMeans ==
    ASSUME NEW r \in Replicas, NEW x, NEW b
    PROVE  b \in Writers(r, x) <=>
               \E k \in DOMAIN rows[r] : rows[r][k].act = b /\ WritesTo(b, rows[r][k].store, x)
BY DEF Writers, WritesTo

LEMMA WritersTyped ==
    ASSUME TypeOK, NEW r \in Replicas, NEW x PROVE Writers(r, x) \in SUBSET Acts
<1>1. rows[r] \in Seq(Row)
    BY DEF TypeOK
<1> QED BY <1>1, RowTyped, WritersMeans

\* A handler that is done is a writer of the registers it moved, and of no other.
LEMMA WritersStep ==
    ASSUME TypeOK, NEW r \in Replicas, NEW a \in Acts, NEW ms, Handled(r, a, ms, Len(ms)),
           NEW x \in Registers, NEW b
    PROVE  b \in Writers(r, x)' <=> b \in Writers(r, x) \/ (b = a /\ Touches(ms, x))
<1>1. PICK N, L, s, u : N = Len(rows[r]) /\ L = Len(ms) /\ s = rows[r] /\ u = rows'[r]
    OBVIOUS
<1>2. /\ N \in Nat /\ L \in Nat /\ Len(u) = N + L
      /\ \A k \in 1..N : u[k] = s[k]
      /\ \A k \in 1..L : u[N + k].store = ms[k].store /\ u[N + k].act = a
    <2>1. /\ Len(rows[r]) \in Nat /\ Len(rows'[r]) = Len(rows[r]) + Len(ms)
          /\ \A k \in 1..Len(rows[r]) : rows'[r][k] = rows[r][k]
        BY RowsAppend
    <2>2. \A k \in 1..Len(ms) : /\ rows'[r][Len(rows[r]) + k].store = ms[k].store
                                /\ rows'[r][Len(rows[r]) + k].act = a
        BY RowsAppend
    <2>3. Len(ms) \in Nat
        BY DEF Handled
    <2> QED BY <1>1, <2>1, <2>2, <2>3
<1>3. s \in Seq(Row) /\ u \in Seq(Row)
    BY <1>1, RowsAppend DEF TypeOK
<1>4. DOMAIN s = 1..N /\ DOMAIN u = 1..(N + L)
    BY <1>1, <1>2, <1>3
<1>5. \A k \in 1..L : x \in ms[k].regs <=> WritesTo(a, ms[k].store, x)
    BY <1>1, SoundRegs DEF Handled
<1>6. b \in Writers(r, x)' <=> \E k \in 1..(N + L) : u[k].act = b /\ WritesTo(b, u[k].store, x)
    BY <1>1, <1>4 DEF Writers, WritesTo
<1>7. b \in Writers(r, x) <=> \E k \in 1..N : s[k].act = b /\ WritesTo(b, s[k].store, x)
    BY <1>1, <1>4, WritersMeans
<1>8. ASSUME b \in Writers(r, x)' PROVE b \in Writers(r, x) \/ (b = a /\ Touches(ms, x))
    <2>1. PICK k \in 1..(N + L) : u[k].act = b /\ WritesTo(b, u[k].store, x)
        BY <1>6, <1>8
    <2>2. CASE k \in 1..N
        BY <1>2, <1>7, <2>1, <2>2
    <2>3. CASE ~(k \in 1..N)
        <3>1. k - N \in 1..L /\ N + (k - N) = k
            BY <1>2, <2>1, <2>3
        <3>2. u[N + (k - N)].store = ms[k - N].store /\ u[N + (k - N)].act = a
            BY <1>2, <3>1
        <3>3. b = a /\ WritesTo(a, ms[k - N].store, x)
            BY <2>1, <3>1, <3>2
        <3>4. x \in ms[k - N].regs
            BY <1>5, <3>1, <3>3
        <3> QED BY <1>1, <3>1, <3>3, <3>4 DEF Touches
    <2> QED BY <2>2, <2>3
<1>9. ASSUME b \in Writers(r, x) PROVE b \in Writers(r, x)'
    <2>1. PICK k \in 1..N : s[k].act = b /\ WritesTo(b, s[k].store, x)
        BY <1>7, <1>9
    <2>2. k \in 1..(N + L) /\ u[k] = s[k]
        BY <1>2, <2>1
    <2> QED BY <1>6, <2>1, <2>2
<1>10. ASSUME b = a, Touches(ms, x) PROVE b \in Writers(r, x)'
    <2>1. PICK k \in 1..L : x \in ms[k].regs
        BY <1>1, <1>10 DEF Touches
    <2>2. WritesTo(a, ms[k].store, x)
        BY <1>5, <2>1
    <2>3. N + k \in 1..(N + L)
        BY <1>2, <2>1
    <2>4. u[N + k].store = ms[k].store /\ u[N + k].act = a
        BY <1>2, <2>1
    <2> QED BY <1>6, <1>10, <2>2, <2>3, <2>4
<1> QED BY <1>8, <1>9, <1>10

LEMMA RegDone ==
    ASSUME TypeOK, NEW r \in Replicas, NEW a \in Acts, NEW ms, Done(r, a, ms), RegAt(r)
    PROVE  RegAt(r)'
<1> SUFFICES ASSUME torn[r] = {}, NEW x \in Registers
             PROVE  /\ reg'[r][x] = None => Writers(r, x)' = {}
                    /\ reg'[r][x] # None => reg'[r][x] \in Writers(r, x)'
                    /\ \A b \in Writers(r, x)' : ~Wins(b, reg'[r][x])
    BY DEF RegAt, Done
<1>1. Handled(r, a, ms, Len(ms)) /\ a # None
    BY ActTyped DEF Done
<1>2. \A b : b \in Writers(r, x)' <=> b \in Writers(r, x) \/ (b = a /\ Touches(ms, x))
    BY <1>1, WritersStep
<1>3. reg'[r][x] = IF Touches(ms, x) THEN Merged(reg[r][x], a) ELSE reg[r][x]
    BY <1>1, RegistersMerge
<1>4. PICK h : h = reg[r][x]
    OBVIOUS
<1>5. /\ h = None => Writers(r, x) = {}
      /\ h # None => h \in Writers(r, x)
      /\ \A b \in Writers(r, x) : ~Wins(b, h)
    BY <1>4 DEF RegAt
<1>6. Writers(r, x) \in SUBSET Acts
    BY WritersTyped
<1>7. CASE ~Touches(ms, x)
    BY <1>2, <1>3, <1>4, <1>5, <1>7
<1>8. CASE Touches(ms, x) /\ h = None
    <2>1. reg'[r][x] = a
        BY <1>3, <1>4, <1>8 DEF Merged
    <2>2. ~Wins(a, a)
        BY WinsOrders
    <2> QED BY <1>1, <1>2, <1>5, <1>8, <2>1, <2>2
<1>9. CASE Touches(ms, x) /\ h # None /\ Wins(a, h)
    <2>1. reg'[r][x] = a
        BY <1>3, <1>4, <1>9 DEF Merged
    <2>2. ~Wins(a, a) /\ \A b \in Writers(r, x) : ~Wins(b, a)
        BY <1>5, <1>6, <1>9, WinsOrders
    <2> QED BY <1>1, <1>2, <1>9, <2>1, <2>2
<1>10. CASE Touches(ms, x) /\ h # None /\ ~Wins(a, h)
    <2>1. reg'[r][x] = h
        BY <1>3, <1>4, <1>10 DEF Merged
    <2> QED BY <1>2, <1>5, <1>10, <2>1
<1> QED BY <1>7, <1>8, <1>9, <1>10

------------------------------------------------------------------------------
(* Roles in memory, against the registers of the store *)

RoleReg(r, g) == reg[r][<<"role", g>>]
RoleOk(r, g, M, R) ==
    /\ R # None => R \in Acted(rows[r])
    /\ M # R =>
        /\ R # None /\ RemovedAfter(r, R)
        /\ M = None => g \notin Members(r)
        /\ M # None => Wins(R, M) /\ Before(r, R, M) /\ M \in Enrolls(g)
RoleAt(r) == \A g \in Agents : RoleOk(r, g, roles[r][g], RoleReg(r, g))

LEMMA RoleTyped ==
    ASSUME TypeOK, NEW r \in Replicas, SeatAt(r), NEW g \in Agents
    PROVE  /\ <<"role", g>> \in Registers /\ RoleReg(r, g) \in Acts \cup {None}
           /\ RoleReg(r, g) # None => RoleReg(r, g) \in Enrolls(g) /\ OwnAgent(RoleReg(r, g))
<1>1. <<"role", g>> \in Registers
    BY DEF Registers
<1>2. RoleReg(r, g) \in Acts \cup {None}
    BY <1>1 DEF TypeOK, RoleReg
<1>3. RoleReg(r, g) # None => RoleReg(r, g) \in Enrolls(g) /\ OwnAgent(RoleReg(r, g))
    BY DEF SeatAt, RoleReg
<1> QED BY <1>1, <1>2, <1>3

\* A role register that is moved has a row by then: it is not the first of the moves.
LEMMA RoleHasRow ==
    ASSUME TypeOK, NEW r \in Replicas, NEW a \in Acts, NEW ms, NEW n, Handled(r, a, ms, n),
           NEW g \in Agents, Touches(ms, <<"role", g>>)
    PROVE  1 <= n /\ a \in Acted(rows'[r])
<1>1. Act[a].kind = "Enroll"
    BY TouchedByEnroll
<1>2. PICK k \in 1..Len(ms) : <<"role", g>> \in ms[k].regs
    BY DEF Touches
<1>3. Len(ms) \in Nat /\ n \in Nat /\ Len(ms) <= n + 1
    BY MovesTyped DEF Handled
<1>4. ms[1].regs = {}
    BY <1>1, <1>2, <1>3 DEF Handled, TagFirst
<1>5. k # 1
    BY <1>2, <1>4
<1>6. 1 <= n
    BY <1>2, <1>3, <1>5
<1> QED BY <1>6, RowsKept

\* What held of an agent's role stays, where neither its register nor its role moves.
LEMMA RoleStays ==
    ASSUME TypeOK, NEW r \in Replicas, NEW a \in Acts, NEW ms, NEW n, Handled(r, a, ms, n),
           NEW g \in Agents, NEW M \in Acts \cup {None}, NEW R \in Enrolls(g) \cup {None},
           RoleOk(r, g, M, R), g \in Members(r)' => g \in Members(r) \/ M # None
    PROVE  RoleOk(r, g, M, R)'
<1>1. R # None => R \in Acted(rows'[r])
    BY RowsKept DEF RoleOk
<1>2. ASSUME M # R PROVE R # None /\ RemovedAfter(r, R)'
    <2>1. R # None /\ RemovedAfter(r, R)
        BY <1>2 DEF RoleOk
    <2>2. R \in OfKind("Enroll")
        BY <2>1 DEF Enrolls
    <2> QED BY <2>1, <2>2, RemovedSteps
<1>3. ASSUME M # R, M # None PROVE Wins(R, M) /\ Before(r, R, M)' /\ M \in Enrolls(g)
    <2>1. Wins(R, M) /\ Before(r, R, M) /\ M \in Enrolls(g)
        BY <1>3 DEF RoleOk
    <2> QED BY <1>3, <2>1, BeforeSteps
<1>4. ASSUME M # R, M = None PROVE g \notin Members(r)'
    BY <1>4 DEF RoleOk
<1> QED BY <1>1, <1>2, <1>3, <1>4 DEF RoleOk

\* A role cleared along with the membership is older than its removal.
LEMMA RoleCleared ==
    ASSUME TypeOK, NEW r \in Replicas, NEW a \in Acts, NEW ms, NEW n, Handled(r, a, ms, n), 1 <= n,
           NEW g \in Agents, NEW R \in Enrolls(g) \cup {None}, NEW k \in 1..Len(ms),
           ms[k] = Removal(r, g), Act[a].kind # "Enroll",
           R # None => R \in Acted(rows[r]) /\ Removes(a, R)
    PROVE  RoleOk(r, g, None, R)'
<1>1. g \notin Members(r)'
    BY RemovalEmpties
<1>2. ASSUME R # None PROVE R \in Acted(rows'[r]) /\ RemovedAfter(r, R)'
    <2>1. R \in OfKind("Enroll")
        BY <1>2 DEF Enrolls
    <2> QED BY <1>2, <2>1, RowsKept, RemovedSteps
<1> QED BY <1>1, <1>2 DEF RoleOk

\* The Enroll of an agent moves its role in memory and in the store.
LEMMA RoleEnrolled ==
    ASSUME TypeOK, NEW r \in Replicas, NEW a \in Acts, NEW ms, NEW n, Handled(r, a, ms, n),
           NEW g \in Agents, a \in Enrolls(g), 1 <= n, a \in Acted(rows'[r]),
           NEW M \in Acts \cup {None}, NEW R \in Enrolls(g) \cup {None},
           RoleOk(r, g, M, R)
    PROVE  RoleOk(r, g, Merged(M, a), Merged(R, a))'
<1>0. a \in OfKind("Enroll") /\ a # None /\ None \notin Acts
    BY ReplicaAssumption DEF Enrolls, ReplicaAssumption
<1>1. CASE Merged(M, a) = Merged(R, a)
    <2>1. Merged(R, a) \in {R, a}
        BY DEF Merged
    <2>2. R # None => R \in Acted(rows'[r])
        BY RowsKept DEF RoleOk
    <2> QED BY <1>1, <2>1, <2>2 DEF RoleOk
<1>2. CASE Merged(M, a) # Merged(R, a)
    <2>1. M # R /\ R # None /\ R \in OfKind("Enroll") /\ R \in Acts
        BY <1>2 DEF RoleOk, Enrolls, OfKind
    <2>2. M # None => Wins(R, M)
        BY <2>1 DEF RoleOk
    <2>3. ~Wins(a, R)
        <3> SUFFICES ASSUME Wins(a, R) PROVE FALSE
            OBVIOUS
        <3>1. Merged(R, a) = a
            BY DEF Merged
        <3>2. M # None => Wins(a, M)
            BY <2>1, <2>2, WinsOrders
        <3>3. Merged(M, a) = a
            BY <3>2 DEF Merged
        <3> QED BY <1>2, <3>1, <3>3
    <2>4. Merged(R, a) = R
        BY <2>1, <2>3 DEF Merged
    <2>5. CASE Merged(M, a) = a
        <3>1. a # R
            BY <1>2, <2>4, <2>5
        <3>2. Wins(R, a)
            BY <1>0, <2>1, <2>3, <3>1, EnrollsDecide
        <3>3. R \in Acted(rows[r]) /\ RemovedAfter(r, R)
            BY <2>1 DEF RoleOk
        <3>4. Before(r, R, a)' /\ RemovedAfter(r, R)' /\ R \in Acted(rows'[r])
            BY <2>1, <3>1, <3>3, BeforeSteps, RemovedSteps, RowsKept
        <3> QED BY <1>0, <2>1, <2>4, <2>5, <3>2, <3>4 DEF RoleOk
    <2>6. CASE Merged(M, a) = M /\ M # None
        <3>1. RoleOk(r, g, M, R)'
            BY <2>6, RoleStays
        <3> QED BY <2>4, <2>6, <3>1
    <2> QED BY <2>5, <2>6 DEF Merged
<1> QED BY <1>1, <1>2

LEMMA RoleDone ==
    ASSUME TypeOK, NEW r \in Replicas, NEW a \in Acts, NEW ms, Done(r, a, ms),
           SeatAt(r), RoleAt(r)
    PROVE  RoleAt(r)'
<1>1. Handled(r, a, ms, Len(ms)) /\ Complete(r, a, ms) /\ Len(ms) \in Nat
    BY MovesTyped DEF Done, Handled
<1>2. ms = <<>> <=> ~(1 <= Len(ms))
    <2>1. ms \in Seq(Envelope)
        BY <1>1 DEF Handled
    <2> QED BY <1>1, <2>1
<1>3. ASSUME NEW g \in Agents PROVE RoleOk(r, g, roles[r][g], RoleReg(r, g))'
    <2>1. PICK M, R, M1, R1 : /\ M = roles[r][g] /\ R = RoleReg(r, g)
                              /\ M1 = roles'[r][g] /\ R1 = reg'[r][<<"role", g>>]
        OBVIOUS
    <2>2. /\ <<"role", g>> \in Registers /\ R \in Acts \cup {None} /\ M \in Acts \cup {None}
          /\ R # None => R \in Enrolls(g) /\ OwnAgent(R)
        BY <2>1, RoleTyped DEF TypeOK
    <2>3. RoleOk(r, g, M, R)
        BY <2>1 DEF RoleAt
    <2>4. R1 = IF Touches(ms, <<"role", g>>) THEN Merged(R, a) ELSE R
        BY <1>1, <2>1, <2>2, RegistersMerge DEF RoleReg
    <2>5. M1 = RolesAfter(r, a, ms)[g] /\ M = roles[r][g]
        BY <2>1 DEF Done, TypeOK
    <2>6. SUFFICES RoleOk(r, g, M1, R1)'
        BY <2>1 DEF RoleOk, RoleReg
    <2>7. CASE a \in Enrolls(g) /\ 1 <= Len(ms)
        <3>1. Act[a].kind = "Enroll" /\ Act[a].on = g
            BY <2>7 DEF Enrolls, OfKind
        <3>2. Touches(ms, <<"role", g>>)
            BY <1>1, <2>7, <3>1, EnrollTouches
        <3>3. M1 = Merged(M, a)
            BY <1>2, <2>5, <2>7, <3>1 DEF RolesAfter
        <3>4. a \in Acted(rows'[r])
            BY <1>1, <2>7, RowsKept
        <3>5. RoleOk(r, g, Merged(M, a), Merged(R, a))'
            BY <1>1, <2>2, <2>3, <2>7, <3>4, RoleEnrolled
        <3> QED BY <2>4, <3>2, <3>3, <3>5
    <2>8. CASE ~(a \in Enrolls(g) /\ 1 <= Len(ms))
        <3>1. ~Touches(ms, <<"role", g>>)
            <4> SUFFICES ASSUME Touches(ms, <<"role", g>>) PROVE FALSE
                OBVIOUS
            <4>1. Act[a].kind = "Enroll" /\ Act[a].on = g
                BY <1>1, TouchedByEnroll
            <4>2. 1 <= Len(ms)
                BY <1>1, RoleHasRow
            <4> QED BY <2>8, <4>1, <4>2 DEF Enrolls, OfKind
        <3>2. R1 = R
            BY <2>4, <3>1
        <3>3. g \in Members(r)' => g \in Members(r)
            BY <1>1, <2>8, MembersComeByEnroll
        <3>4. CASE M1 = M
            <4>1. RoleOk(r, g, M, R)'
                BY <1>1, <2>2, <2>3, <3>3, RoleStays
            <4> QED BY <3>2, <3>4, <4>1
        <3>5. CASE M1 # M
            <4>1. /\ M1 = None /\ 1 <= Len(ms)
                  /\ \/ Act[a].kind \in {"Unenroll", "Expel"} /\ Act[a].on = g
                     \/ Act[a].kind = "Undo" /\ g \in Dependants(r, Act[a].by)
                <5>1. ~(Act[a].kind = "Enroll" /\ Act[a].on = g /\ 1 <= Len(ms))
                    BY <2>8 DEF Enrolls, OfKind
                <5> QED BY <1>2, <2>5, <3>5, <5>1 DEF RolesAfter
            <4>2. CASE Act[a].kind \in {"Unenroll", "Expel"} /\ Act[a].on = g
                <5>1. 1 \in 1..Len(ms)
                    BY <1>1, <4>1
                <5>2. Sound(r, a, ms[1])
                    BY <1>1, <5>1 DEF Handled
                <5>3. ms[1] = Removal(r, g)
                    BY <4>2, <5>2 DEF Sound
                <5>4. R # None => R \in Acted(rows[r]) /\ Removes(a, R)
                    BY <2>2, <2>3, <4>2 DEF RoleOk, Removes, Enrolls
                <5>5. RoleOk(r, g, None, R)'
                    BY <1>1, <2>2, <4>1, <4>2, <5>1, <5>3, <5>4, RoleCleared
                <5> QED BY <3>2, <4>1, <5>5
            <4>3. CASE Act[a].kind = "Undo" /\ g \in Dependants(r, Act[a].by)
                <5>1. PICK k \in 1..Len(ms) : ms[k] = Removal(r, g)
                    BY <1>1, <1>2, <4>1, <4>3 DEF Complete
                <5>2. Act[a].by = OperatedBy[g]
                    <6>1. PICK h : h = reg[r][<<"instance", g>>]
                        OBVIOUS
                    <6>2. h # None /\ Act[h].by = Act[a].by
                        BY <4>3, <6>1, ActTyped, ReplicaAssumption
                           DEF Dependants, InstanceOf, ReplicaAssumption
                    <6>3. h \in Enrolls(g) /\ OwnAgent(h)
                        BY <6>1, <6>2 DEF SeatAt
                    <6> QED BY <6>2, <6>3 DEF Enrolls, OwnAgent
                <5>3. R # None => Act[R].by = OperatedBy[g]
                    BY <2>2 DEF Enrolls, OwnAgent
                <5>4. R # None => R \in Acted(rows[r]) /\ Removes(a, R)
                    BY <2>3, <4>3, <5>2, <5>3 DEF RoleOk, Removes
                <5>5. RoleOk(r, g, None, R)'
                    BY <1>1, <2>2, <4>1, <4>3, <5>1, <5>4, RoleCleared
                <5> QED BY <3>2, <4>1, <5>5
            <4> QED BY <4>1, <4>2, <4>3
        <3> QED BY <3>4, <3>5
    <2> QED BY <2>7, <2>8
<1> QED BY <1>3 DEF RoleAt

LEMMA RoleCut ==
    ASSUME TypeOK, NEW r \in Replicas, NEW a \in Acts, NEW ms, NEW n, Cut(r, a, ms, n),
           SeatAt(r), RoleAt(r)
    PROVE  RoleAt(r)'
<1>1. Handled(r, a, ms, n)
    BY DEF Cut
<1>2. ASSUME NEW g \in Agents PROVE RoleOk(r, g, roles[r][g], RoleReg(r, g))'
    <2>1. PICK R1 : R1 = reg'[r][<<"role", g>>]
        OBVIOUS
    <2>2. roles'[r][g] = R1
        BY <2>1 DEF Cut, Hydrated, TypeOK
    <2>3. <<"role", g>> \in Registers
        BY DEF Registers
    <2>4. R1 = RoleReg(r, g) \/ (R1 = a /\ Touches(ms, <<"role", g>>))
        BY <1>1, <2>1, <2>3, NewlyHeld DEF RoleReg
    <2>5. R1 # None => R1 \in Acted(rows'[r])
        <3>1. RoleReg(r, g) # None => RoleReg(r, g) \in Acted(rows[r])
            BY DEF RoleAt, RoleOk
        <3>2. Acted(rows[r]) \subseteq Acted(rows'[r])
            BY <1>1, RowsKept
        <3> QED BY <1>1, <2>4, <3>1, <3>2, RoleHasRow
    <2> QED BY <2>1, <2>2, <2>5 DEF RoleOk, RoleReg
<1> QED BY <1>2 DEF RoleAt

------------------------------------------------------------------------------
(* All of it together: the invariant of every replica *)

ReplicaInv ==
    /\ TypeOK /\ HeldHasRows
    /\ \A r \in Replicas :
          SeatAt(r) /\ SeatedAt(r) /\ RowAt(r) /\ LiveAt(r) /\ RegAt(r) /\ RoleAt(r)

LEMMA SameStays ==
    ASSUME NEW p \in Replicas, Same(p), SeatAt(p), SeatedAt(p), RowAt(p), LiveAt(p), RegAt(p)
    PROVE  SeatAt(p)' /\ SeatedAt(p)' /\ RowAt(p)' /\ LiveAt(p)' /\ RegAt(p)'
<1>1. SeatAt(p)' /\ SeatedAt(p)'
    BY SameSeats
<1>2. RowAt(p)'
    BY DEF Same, RowAt
<1>3. \A e : RemovedAfter(p, e)' <=> RemovedAfter(p, e)
    BY DEF Same, RemovedAfter
<1>4. LiveAt(p)'
    BY <1>3 DEF Same, LiveAt
<1>5. \A x : Writers(p, x)' = Writers(p, x)
    BY DEF Same, Writers
<1>6. RegAt(p)'
    BY <1>5 DEF Same, RegAt
<1> QED BY <1>1, <1>2, <1>4, <1>6

LEMMA SameRoles ==
    ASSUME NEW p \in Replicas, Same(p), RoleAt(p),
           roles'[p] = roles[p] \/ \A g \in Agents : roles'[p][g] = RoleReg(p, g)
    PROVE  RoleAt(p)'
<1>1. \A e : RemovedAfter(p, e)' <=> RemovedAfter(p, e)
    BY DEF Same, RemovedAfter
<1>2. \A d, e : Before(p, d, e)' <=> Before(p, d, e)
    BY DEF Same, Before
<1>3. Members(p)' = Members(p) /\ Acted(rows'[p]) = Acted(rows[p])
    BY DEF Same, Members, EnrollTags, Live
<1>4. ASSUME NEW g \in Agents PROVE RoleOk(p, g, roles[p][g], RoleReg(p, g))'
    <2>1. PICK M, R, M1 : M = roles[p][g] /\ R = RoleReg(p, g) /\ M1 = roles'[p][g]
        OBVIOUS
    <2>2. RoleOk(p, g, M, R) /\ (M1 = M \/ M1 = R)
        BY <2>1 DEF RoleAt
    <2>3. RoleReg(p, g)' = R
        BY <2>1 DEF RoleReg, Same
    <2>4. RoleOk(p, g, M1, R)'
        BY <1>1, <1>2, <1>3, <2>2 DEF RoleOk
    <2> QED BY <2>1, <2>3, <2>4 DEF RoleOk
<1> QED BY <1>4 DEF RoleAt

LEMMA ReplicaInit ==
    ASSUME Init PROVE ReplicaInv
<1>1. TypeOK /\ HeldHasRows
    BY TypeInit DEF Init, HeldHasRows
<1>2. ASSUME NEW r \in Replicas
      PROVE  SeatAt(r) /\ SeatedAt(r) /\ RowAt(r) /\ LiveAt(r) /\ RegAt(r) /\ RoleAt(r)
    <2>1. tags[r] = {} /\ dead[r] = {} /\ rows[r] = <<>> /\ torn[r] = {}
        BY <1>2 DEF Init
    <2>2. \A x \in Registers : reg[r][x] = None
        BY <1>2 DEF Init
    <2>3. \A g \in Agents : <<"role", g>> \in Registers /\ <<"instance", g>> \in Registers
        BY DEF Registers
    <2>4. Members(r) = {} /\ Acted(rows[r]) = {} /\ DOMAIN rows[r] = {}
        BY <2>1 DEF Members, EnrollTags, Live, Acted
    <2>5. SeatAt(r) /\ SeatedAt(r)
        BY <2>1, <2>2, <2>3, <2>4 DEF SeatAt, SeatedAt
    <2>6. RowAt(r) /\ LiveAt(r)
        BY <2>1, <2>4 DEF RowAt, LiveAt, RemovedAfter
    <2>7. RegAt(r)
        BY <2>2, <2>4 DEF RegAt, Writers
    <2>8. \A g \in Agents : roles[r][g] = None /\ RoleReg(r, g) = None
        BY <1>2, <2>2, <2>3 DEF Init, RoleReg
    <2>9. RoleAt(r)
        BY <2>8 DEF RoleAt, RoleOk
    <2> QED BY <2>5, <2>6, <2>7, <2>9
<1> QED BY <1>1, <1>2 DEF ReplicaInv

LEMMA ReplicaStep ==
    ASSUME ReplicaInv, [Next]_vars PROVE ReplicaInv'
<1>1. TypeOK /\ HeldHasRows /\ TypeOK' /\ HeldHasRows'
    BY TypeStep, HeldStep DEF ReplicaInv
<1>2. ASSUME NEW p \in Replicas
      PROVE  SeatAt(p) /\ SeatedAt(p) /\ RowAt(p) /\ LiveAt(p) /\ RegAt(p) /\ RoleAt(p)
    BY <1>2 DEF ReplicaInv
<1>3. SUFFICES ASSUME NEW p \in Replicas
               PROVE  /\ SeatAt(p)' /\ SeatedAt(p)' /\ RowAt(p)'
                      /\ LiveAt(p)' /\ RegAt(p)' /\ RoleAt(p)'
    BY <1>1 DEF ReplicaInv
<1>4. ASSUME Same(p), roles'[p] = roles[p] \/ \A g \in Agents : roles'[p][g] = RoleReg(p, g)
      PROVE  SeatAt(p)' /\ SeatedAt(p)' /\ RowAt(p)' /\ LiveAt(p)' /\ RegAt(p)' /\ RoleAt(p)'
    BY <1>2, <1>4, SameStays, SameRoles
<1>5. CASE Quiet
    <2>1. Same(p)
        BY <1>5 DEF Quiet, Same
    <2>2. roles'[p] = roles[p] \/ \A g \in Agents : roles'[p][g] = RoleReg(p, g)
        BY <1>1, <1>5 DEF Quiet, Hydrated, RoleReg, TypeOK
    <2> QED BY <1>4, <2>1, <2>2
<1>6. ASSUME NEW r \in Replicas, NEW a \in Acts, NEW ms, Done(r, a, ms)
      PROVE  SeatAt(p)' /\ SeatedAt(p)' /\ RowAt(p)' /\ LiveAt(p)' /\ RegAt(p)' /\ RoleAt(p)'
    <2>1. CASE p # r
        BY <1>1, <1>4, <1>6, <2>1, OthersSame
    <2>2. CASE p = r
        <3>1. Handled(p, a, ms, Len(ms)) /\ Complete(p, a, ms) /\ torn'[p] = torn[p]
            BY <1>6, <2>2 DEF Done
        <3>2. SeatAt(p)' /\ SeatedAt(p)' /\ RowAt(p)'
            BY <1>1, <1>2, <3>1, SeatDone, SeatedDone, RowDone
        <3>3. \A e \in tags[p] : Kept(p, e)
            BY <1>1, HeldMeans
        <3>4. LiveAt(p)'
            BY <1>1, <1>2, <1>6, <2>2, <3>3, LiveDone
        <3>5. RegAt(p)' /\ RoleAt(p)'
            BY <1>1, <1>2, <1>6, <2>2, RegDone, RoleDone
        <3> QED BY <3>2, <3>4, <3>5
    <2> QED BY <2>1, <2>2
<1>7. ASSUME NEW r \in Replicas, NEW a \in Acts, NEW ms, NEW n, Cut(r, a, ms, n)
      PROVE  SeatAt(p)' /\ SeatedAt(p)' /\ RowAt(p)' /\ LiveAt(p)' /\ RegAt(p)' /\ RoleAt(p)'
    <2>1. CASE p # r
        BY <1>1, <1>4, <1>7, <2>1, OthersSame
    <2>2. CASE p = r
        <3>1. Handled(p, a, ms, n) /\ torn[p] \subseteq torn'[p] /\ a \in torn'[p]
            BY <1>1, <1>7, <2>2 DEF Cut, TypeOK
        <3>2. SeatAt(p)' /\ SeatedAt(p)' /\ RowAt(p)'
            BY <1>1, <1>2, <3>1, SeatDone, SeatedDone, RowDone
        <3>3. LiveAt(p)' /\ RegAt(p)'
            BY <3>1 DEF LiveAt, RegAt
        <3>4. RoleAt(p)'
            BY <1>1, <1>2, <1>7, <2>2, RoleCut
        <3> QED BY <3>2, <3>3, <3>4
    <2> QED BY <2>1, <2>2
<1> QED BY <1>1, <1>5, <1>6, <1>7, StepCases

LEMMA ReplicasStand == Spec => []ReplicaInv
<1>1. Init => ReplicaInv
    BY ReplicaInit
<1>2. ReplicaInv /\ [Next]_vars => ReplicaInv'
    BY ReplicaStep
<1> QED BY <1>1, <1>2, PTL DEF Spec

\* Every member's instance holds a live seat (onEnroll and onUndo with the seat policy,
\* hub/seats.ts), save where a kill cut the Enroll or the Undo in two.
THEOREM MembersStandSeated == Spec => []MembersAreSeated
<1>1. ReplicaInv => MembersAreSeated
    BY DEF ReplicaInv, SeatedAt, MembersAreSeated
<1> QED BY <1>1, ReplicasStand, PTL

LEMMA MembersSettled ==
    ASSUME ReplicaInv PROVE SameOrderSameMembers
<1> SUFFICES ASSUME NEW r \in Replicas, NEW p \in Replicas, torn[r] = {}, torn[p] = {},
                    tags[r] \cap OfKind("Enroll") = tags[p] \cap OfKind("Enroll"),
                    \A e \in tags[r] \cap OfKind("Enroll") : RemovedAfter(r, e) <=> RemovedAfter(p, e)
             PROVE  Members(r) = Members(p)
    BY DEF SameOrderSameMembers
<1>1. \A e \in OfKind("Enroll") : /\ e \in dead[r] <=> RemovedAfter(r, e)
                                  /\ e \in dead[p] <=> RemovedAfter(p, e)
    BY DEF ReplicaInv, LiveAt
<1>2. tags[r] \in SUBSET Acts /\ tags[p] \in SUBSET Acts
    BY DEF ReplicaInv, TypeOK
<1>3. ASSUME NEW g \in Agents PROVE EnrollTags(r, g) = EnrollTags(p, g)
    <2>1. \A e : e \in EnrollTags(r, g) <=>
              e \in tags[r] \cap OfKind("Enroll") /\ e \notin dead[r] /\ Act[e].on = g
        BY <1>2 DEF EnrollTags, Live, OfKind
    <2>2. \A e : e \in EnrollTags(p, g) <=>
              e \in tags[p] \cap OfKind("Enroll") /\ e \notin dead[p] /\ Act[e].on = g
        BY <1>2 DEF EnrollTags, Live, OfKind
    <2>3. \A e \in tags[r] \cap OfKind("Enroll") : e \in dead[r] <=> e \in dead[p]
        BY <1>1
    <2> QED BY <2>1, <2>2, <2>3
<1> QED BY <1>3 DEF Members

LEMMA RegistersSettled ==
    ASSUME ReplicaInv PROVE RegistersAgree
<1> SUFFICES ASSUME NEW r \in Replicas, NEW p \in Replicas, NEW x \in Registers,
                    reg[r][x] # reg[p][x], torn[r] = {}, torn[p] = {},
                    Writers(r, x) = Writers(p, x)
             PROVE  Tied(Writers(r, x))
    BY DEF RegistersAgree
<1>1. PICK a, b, W : a = reg[r][x] /\ b = reg[p][x] /\ W = Writers(r, x)
    OBVIOUS
<1>2. /\ a = None => W = {}
      /\ a # None => a \in W
      /\ \A d \in W : ~Wins(d, a)
    BY <1>1 DEF ReplicaInv, RegAt
<1>3. /\ b = None => W = {}
      /\ b # None => b \in W
      /\ \A d \in W : ~Wins(d, b)
    BY <1>1 DEF ReplicaInv, RegAt
<1>4. a \in W /\ b \in W /\ a # b
    BY <1>1, <1>2, <1>3
<1>5. a \in Acts /\ b \in Acts
    BY <1>1, <1>4, WritersTyped DEF ReplicaInv
<1>6. Act[a].at = Act[b].at /\ Node(a) = Node(b)
    BY <1>2, <1>3, <1>4, <1>5, WinsOrders
<1> QED BY <1>1, <1>4, <1>6 DEF Tied

LEMMA RolesSettled ==
    ASSUME ReplicaInv PROVE RolesSurvive
<1> SUFFICES ASSUME NEW r \in Replicas, NEW g \in Members(r),
                    roles[r][g] # reg[r][<<"role", g>>]
             PROVE  OlderTakenLater(r, g)
    BY DEF RolesSurvive
<1>1. g \in Agents
    BY DEF Members
<1>2. PICK M, R : M = roles[r][g] /\ R = RoleReg(r, g)
    OBVIOUS
<1>3. RoleOk(r, g, M, R) /\ M # R
    BY <1>1, <1>2 DEF ReplicaInv, RoleAt, RoleReg
<1>4. /\ R # None /\ RemovedAfter(r, R) /\ M # None
      /\ Wins(R, M) /\ Before(r, R, M) /\ M \in Enrolls(g)
    BY <1>3 DEF RoleOk
<1>5. R \in Enrolls(g)
    BY <1>1, <1>2, <1>4, RoleTyped DEF ReplicaInv
<1> QED BY <1>4, <1>5 DEF Before, OlderTakenLater

\* Replicas agree on members and registers wherever the order that matters did, and a
\* restart changes a role only where an older Enroll was taken after a newer one's
\* removal (mergeORSet and wins, crdt/store.ts; hydrate, hub/hub.ts).
THEOREM ReplicasStandAgreed == Spec => []ReplicasAgree
<1>1. ReplicaInv => ReplicasAgree
    BY MembersSettled, RegistersSettled, RolesSettled DEF ReplicasAgree
<1> QED BY <1>1, ReplicasStand, PTL

------------------------------------------------------------------------------
(* What is dispatched again *)

\* An asset version is registered again only with its digest.
LEMMA AssetKept ==
    ASSUME TypeOK, NEW r \in Replicas, NEW a \in Acts, NEW ms, NEW n, Handled(r, a, ms, n)
    PROVE  AssetsStay(r)
<1> SUFFICES ASSUME NEW x \in Registers, x[1] = "asset", reg[r][x] # None, reg'[r][x] # reg[r][x]
             PROVE  Act[reg'[r][x]].says = Act[reg[r][x]].says
    BY DEF AssetsStay
<1>1. reg'[r][x] = a /\ Touches(ms, x)
    BY NewlyHeld
<1>2. PICK k \in 1..Len(ms) : x \in ms[k].regs
    BY <1>1 DEF Touches
<1>3. PICK m : m = ms[k]
    OBVIOUS
<1>4. Sound(r, a, m) /\ x \in m.regs
    BY <1>2, <1>3 DEF Handled
<1>5. Act[a].kind = "Asset"
    <2>1. Act[a].kind \in {"Follow", "Undo", "Unenroll", "Expel", "Delta"} => m.regs = {}
        BY <1>4 DEF Sound, Move, Removal
    <2>2. Act[a].kind \in {"Enroll", "Transfer"} => x[1] \in {"role", "instance", "transfer"}
        BY <1>4 DEF Sound, Move, Register
    <2> QED BY <1>4, <2>1, <2>2, ActTyped DEF Kinds
<1>6. /\ m = Move("assets", None, {}, {}, {<<"asset", Act[a].on>>})
      /\ LET held == reg[r][<<"asset", Act[a].on>>] IN held = None \/ Act[held].says = Act[a].says
    BY <1>4, <1>5 DEF Sound
<1>7. x = <<"asset", Act[a].on>>
    BY <1>4, <1>6 DEF Move
<1> QED BY <1>1, <1>6, <1>7

\* A Follow or an Enroll the replica has rows for is in its tags, and adds nothing.
LEMMA AddsKept ==
    ASSUME TypeOK, NEW r \in Replicas, NEW a \in Acts, NEW ms, Done(r, a, ms), RowAt(r)
    PROVE  AddsReplay(r)
<1> SUFFICES ASSUME NEW d \in seen'[r] \ seen[r], Act[d].kind \in {"Follow", "Enroll"},
                    d \in Acted(rows[r])
             PROVE  Live(r)' = Live(r)
    BY DEF AddsReplay
<1>1. d = a
    BY DEF Done, TypeOK
<1>2. Handled(r, a, ms, Len(ms)) /\ a \in tags[r]
    BY <1>1 DEF Done, RowAt
<1>3. tags'[r] = tags[r]
    <2>1. \A e \in tags'[r] : e \in tags[r] \/ e = a
        BY <1>2, NewlyHeld
    <2>2. tags[r] \subseteq tags'[r]
        BY <1>2, TagsGrow
    <2> QED BY <1>2, <2>1, <2>2
<1>4. dead'[r] = dead[r]
    <2>1. \A e : ~Buries(r, a, e)
        BY <1>1 DEF Buries
    <2> QED BY <1>2, <2>1, TombsGrow
<1> QED BY <1>3, <1>4 DEF Live

\* Dispatched again after a restart, and in whatever state: a Follow moves no seat and an
\* Enroll no member of a replica that has a row of it, and a registered asset version
\* keeps its digest (receive, hub/hub.ts; upsertAsset).  An Unenroll or an Undo that is
\* dispatched again does move members, once a newer Enroll is there.
THEOREM ReplaysAreSafe == Spec => ReplaysChangeNothing
<1>1. ASSUME ReplicaInv, [Next]_vars
      PROVE  [\A r \in Replicas : AddsReplay(r) /\ AssetsStay(r)]_vars
    <2>1. TypeOK /\ \A r \in Replicas : RowAt(r)
        BY <1>1 DEF ReplicaInv
    <2>2. ASSUME NEW r \in Replicas PROVE AddsReplay(r) /\ AssetsStay(r)
        <3>1. CASE Quiet
            <4>1. seen'[r] \subseteq seen[r] /\ reg'[r] = reg[r]
                BY <2>1, <3>1 DEF Quiet, TypeOK
            <4> QED BY <4>1 DEF AddsReplay, AssetsStay
        <3>2. ASSUME NEW p \in Replicas, NEW a \in Acts, NEW ms, Done(p, a, ms)
              PROVE  AddsReplay(r) /\ AssetsStay(r)
            <4>1. CASE p = r
                BY <2>1, <3>2, <4>1, AddsKept, AssetKept DEF Done
            <4>2. CASE p # r
                <5>1. Same(r) /\ seen'[r] = seen[r]
                    BY <2>1, <3>2, <4>2, OthersSame
                <5> QED BY <5>1 DEF Same, AddsReplay, AssetsStay
            <4> QED BY <4>1, <4>2
        <3>3. ASSUME NEW p \in Replicas, NEW a \in Acts, NEW ms, NEW n, Cut(p, a, ms, n)
              PROVE  AddsReplay(r) /\ AssetsStay(r)
            <4>1. CASE p = r
                <5>1. seen'[r] = {}
                    BY <2>1, <3>3, <4>1 DEF Cut, TypeOK
                <5>2. AssetsStay(r)
                    BY <2>1, <3>3, <4>1, AssetKept DEF Cut
                <5> QED BY <5>1, <5>2 DEF AddsReplay
            <4>2. CASE p # r
                <5>1. Same(r) /\ seen'[r] = seen[r]
                    BY <2>1, <3>3, <4>2, OthersSame
                <5> QED BY <5>1 DEF Same, AddsReplay, AssetsStay
            <4> QED BY <4>1, <4>2
        <3> QED BY <1>1, <2>1, <3>1, <3>2, <3>3, StepCases
    <2> QED BY <2>2
<1> QED BY <1>1, ReplicasStand, PTL DEF Spec, ReplaysChangeNothing
=============================================================================
