---------------------------- MODULE InstanceProofs ----------------------------
(***************************************************************************)
(* Theorems about three components of an instance, for every value of the  *)
(* constants: the seats it takes on hubs (Seating), the decisions of its   *)
(* operator (Approval) and what its settings promise (Charter).            *)
(***************************************************************************)
EXTENDS Seating, Approval, Charter, WellFoundedInduction, SequenceTheorems, TLAPS

LessThan == {x \in Nat \X Nat : x[1] < x[2]}
\* A set of places of a sequence has a least one.
LEMMA LeastPlace ==
    ASSUME NEW S \in SUBSET Nat, S # {}
    PROVE  Min(S) \in S /\ \A n \in S : Min(S) <= n
<1>1. IsWellFoundedOn(LessThan, Nat)
    BY NatLessThanWellFounded DEF OpToRel, LessThan
<1>2. PICK i \in S : \A j \in S : <<j, i>> \notin LessThan
    BY <1>1, WFMin
<1>3. ASSUME NEW j \in S PROVE i <= j
    <2>1. i \in Nat /\ j \in Nat /\ <<j, i>> \notin LessThan
        BY <1>2
    <2> QED BY <2>1 DEF LessThan
<1> QED BY <1>3 DEF Min

\* As has one bounded by n a greatest.
LEMMA GreatestPlace ==
    ASSUME NEW n \in Nat, NEW S \in SUBSET (1..n), S # {}
    PROVE  Max(S) \in S /\ \A k \in S : k <= Max(S)
<1> DEFINE Above == {m \in Nat : \A k \in S : k <= m}
<1>1. n \in Above /\ Above \in SUBSET Nat
    OBVIOUS
<1>2. Min(Above) \in Above /\ \A m \in Above : Min(Above) <= m
    BY <1>1, LeastPlace
<1>3. Min(Above) \in S
    <2> SUFFICES ASSUME Min(Above) \notin S PROVE FALSE
        OBVIOUS
    <2> DEFINE m == Min(Above) - 1
    <2>1. \A k \in S : k \in Nat /\ k >= 1 /\ k <= Min(Above) /\ k # Min(Above)
        BY <1>2
    <2>2. Min(Above) \in Nat
        BY <1>2
    <2>3. m \in Nat /\ \A k \in S : k <= m
        <3>1. PICK a \in S : TRUE
            OBVIOUS
        <3>2. Min(Above) >= 1
            BY <2>1, <2>2, <3>1
        <3>3. \A k \in S : k \in Nat /\ k <= Min(Above) - 1
            BY <2>1, <2>2
        <3> QED BY <2>2, <3>2, <3>3
    <2>4. m \in Above
        BY <2>3
    <2>5. Min(Above) <= m
        BY <1>2, <2>4
    <2> HIDE DEF Above
    <2> QED BY <2>2, <2>5
<1>4. \A k \in S : k <= Min(Above)
    BY <1>2
<1> HIDE DEF Above
<1>5. \E x \in S : \A k \in S : x >= k
    <2>1. \A k \in S : Min(Above) >= k
        BY <1>3, <1>4
    <2> QED BY <1>3, <2>1
<1>6. Max(S) \in S /\ \A k \in S : Max(S) >= k
    BY <1>5 DEF Max
<1> QED BY <1>6

------------------------------------------------------------------------------
(***************************************************************************)
(* Seats.  What an instance thinks of its seats and what the hubs think of *)
(* them agree in the end: SeatInv says of each hub what the activities it  *)
(* has met have made of its roster, in whatever order it met them.         *)
(***************************************************************************)
Verbs == {"follow", "unfollow", "enroll", "unenroll"}
Published == [verb : Verbs, hub : Hubs, agent : Crew \cup {NoAgent}, names : Nat]
TagSet == [added : SUBSET Nat, gone : SUBSET Nat]

\* What an Undo of a trail t names is the newest Follow nothing has undone.
Says(t, k, verb, h) == t[k].verb = verb /\ t[k].hub = h
UndoesTheFollow(t, k) ==
    /\ t[k].names \in 1..(k - 1)
    /\ Says(t, t[k].names, "follow", t[k].hub)
    /\ \A j \in t[k].names..(k - 1) : ~Says(t, j, "unfollow", t[k].hub)
TrailFit(t) ==
    t \in Seq(Published) /\ \A k \in DOMAIN t : t[k].verb = "unfollow" => UndoesTheFollow(t, k)

\* The hub h has met, of the trail, all up to some place.
MetInFull(t, h, met) == \A k \in met : \A j \in 1..k : t[j].hub = h => j \in met

\* The tags of a seat and of a crew are those of what was met.
TagsFit(t, met, s, verb) ==
    s.added \subseteq {k \in met : t[k].verb = verb} /\ s.gone \subseteq s.added

\* A seat's tag is gone if an Undo was met later; a member's, if that or an Unenroll.
SeatRight(t, met, s) ==
    \A k \in met : t[k].verb = "follow" =>
        (k \in s.gone <=> \E j \in met : j > k /\ t[j].verb = "unfollow")
Live(t, h, n) ==
    \E k \in 1..n : Says(t, k, "follow", h) /\ \A j \in k..n : ~Says(t, j, "unfollow", h)
Leaves(t, k, j) ==
    t[j].verb = "unfollow" \/ (t[j].verb = "unenroll" /\ t[j].agent = t[k].agent)
CrewRight(t, h, met, c) ==
    \A k \in met : t[k].verb = "enroll" =>
        /\ k \in c.added <=> Live(t, h, k)
        /\ k \in c.added => (k \in c.gone <=> \E j \in met : j > k /\ Leaves(t, k, j))

\* In whatever order: the tags are of what was met, and a crew has a seat.
TagsStand(t, met, s, c) ==
    /\ TagsFit(t, met, s, "follow") /\ TagsFit(t, met, c, "enroll")
    /\ \A k \in met : t[k].verb = "follow" => k \in s.added
    /\ Tags(c) # {} => Tags(s) # {}

\* All of one hub: what it met, what it remembers, its tags, its restarts.
HubFit(t, h, met, mem, s, c, n, late) ==
    /\ met \subseteq {k \in DOMAIN t : t[k].hub = h}
    /\ mem \subseteq met /\ (n = 0 => mem = met)
    /\ TagsStand(t, met, s, c)
    /\ h \notin late /\ MetInFull(t, h, met) =>
           SeatRight(t, met, s) /\ (n = 0 => CrewRight(t, h, met, c))

SeatTyped ==
    /\ seats \in [Hubs -> TagSet] /\ crew \in [Hubs -> TagSet]
    /\ heard \in [Hubs -> SUBSET Nat] /\ handled \in [Hubs -> SUBSET Nat]
    /\ reboots \in [Hubs -> Nat]

SeatInv ==
    /\ TrailFit(trail) /\ SeatTyped
    /\ \A h \in Hubs : HubFit(trail, h, handled[h], heard[h], seats[h], crew[h], reboots[h], overtaken)

------------------------------------------------------------------------------
(* One hub, one activity *)

\* An Undo met in its order finds the Follow it names alive.
LEMMA UndoFindsItsTag ==
    ASSUME NEW t, TrailFit(t), NEW h, NEW met \in SUBSET {k \in DOMAIN t : t[k].hub = h},
           NEW s, TagsFit(t, met, s, "follow"), \A k \in met : t[k].verb = "follow" => k \in s.added,
           SeatRight(t, met, s), NEW k \in DOMAIN t, t[k].hub = h, t[k].verb = "unfollow",
           \A j \in met : j < k, MetInFull(t, h, met \cup {k})
    PROVE  t[k].names \in s.added \ s.gone
<1> DEFINE f == t[k].names
<1>1. /\ DOMAIN t = 1..Len(t) /\ Len(t) \in Nat /\ f \in 1..(k - 1)
      /\ t[f].verb = "follow" /\ t[f].hub = h
      /\ \A j \in f..(k - 1) : ~(t[j].verb = "unfollow" /\ t[j].hub = h)
    BY DEF TrailFit, UndoesTheFollow, Says
<1> HIDE DEF f
<1>2. f \in 1..k /\ f # k /\ k \in met \cup {k}
    BY <1>1
<1>3. f \in met
    BY <1>1, <1>2 DEF MetInFull
<1>4. \A j \in met : j \in Nat /\ j < k /\ t[j].hub = h
    BY <1>1
<1>5. ~\E j \in met : j > f /\ t[j].verb = "unfollow"
    BY <1>1, <1>4
<1> QED BY <1>1, <1>3, <1>5 DEF SeatRight, f

\* Met a second time, it finds nothing.
LEMMA UndoFoundNoTag ==
    ASSUME NEW t, TrailFit(t), NEW h, NEW met \in SUBSET {k \in DOMAIN t : t[k].hub = h},
           NEW s, SeatRight(t, met, s), MetInFull(t, h, met), NEW k \in met,
           t[k].verb = "unfollow"
    PROVE  t[k].names \in s.gone
<1> DEFINE f == t[k].names
<1>1. /\ DOMAIN t = 1..Len(t) /\ Len(t) \in Nat /\ f \in 1..(k - 1)
      /\ t[f].verb = "follow" /\ t[f].hub = h
    BY DEF TrailFit, UndoesTheFollow, Says
<1> HIDE DEF f
<1>2. f \in 1..k /\ k > f
    BY <1>1
<1>3. f \in met
    BY <1>1, <1>2 DEF MetInFull
<1> QED BY <1>1, <1>2, <1>3 DEF SeatRight, f

\* Of the first n activities the hub has met all, but perhaps the last, an Enroll.
MetUpTo(t, h, met, n) ==
    /\ \A j \in met : j <= n
    /\ \A j \in 1..n : t[j].hub = h => j \in met \/ (j = n /\ t[n].verb = "enroll")

\* The hub has a seat where the trail, so far, follows it.
LEMMA SeatedIfLive ==
    ASSUME NEW t, TrailFit(t), NEW h, NEW met \in SUBSET {k \in DOMAIN t : t[k].hub = h},
           NEW s, TagsFit(t, met, s, "follow"), \A k \in met : t[k].verb = "follow" => k \in s.added,
           SeatRight(t, met, s), NEW n \in Nat, n <= Len(t),
           MetUpTo(t, h, met, n)
    PROVE  Tags(s) # {} <=> Live(t, h, n)
<1>1. DOMAIN t = 1..Len(t) /\ Len(t) \in Nat /\ \A k \in met : k \in 1..n /\ t[k].hub = h
    BY DEF TrailFit, MetUpTo
<1>2. ASSUME NEW k \in s.added \ s.gone PROVE Live(t, h, n)
    <2>1. k \in met /\ t[k].verb = "follow" /\ k \in 1..n /\ t[k].hub = h
        BY <1>1, <1>2 DEF TagsFit
    <2>2. \A j \in met : j > k => t[j].verb # "unfollow"
        BY <1>2, <2>1 DEF SeatRight
    <2>3. ASSUME NEW j \in k..n PROVE ~(t[j].verb = "unfollow" /\ t[j].hub = h)
        <3>1. j \in 1..n /\ (j = k \/ j > k)
            BY <2>1
        <3> QED BY <2>1, <2>2, <3>1 DEF MetUpTo
    <2> QED BY <2>1, <2>3 DEF Live, Says
<1>3. ASSUME Live(t, h, n) PROVE s.added \ s.gone # {}
    <2>1. PICK k \in 1..n : /\ t[k].verb = "follow" /\ t[k].hub = h
                            /\ \A j \in k..n : ~(t[j].verb = "unfollow" /\ t[j].hub = h)
        BY <1>3 DEF Live, Says
    <2>2. k \in met /\ k \in s.added
        BY <2>1 DEF MetUpTo
    <2>3. \A j \in met : j > k => t[j].verb # "unfollow"
        BY <1>1, <2>1
    <2>4. k \notin s.gone
        BY <2>1, <2>2, <2>3 DEF SeatRight
    <2> QED BY <2>2, <2>4
<1> QED BY <1>2, <1>3 DEF Tags

\* What one activity does to the tags of a hub, its places read off OnFollow and the rest.
Moved(t, h, k, s, c, s2, c2) ==
    \/ /\ t[k].verb = "follow" /\ s2.added = s.added \cup {k} /\ s2.gone = s.gone
       /\ c2 = c
    \/ /\ t[k].verb = "unfollow" /\ t[k].names \in Tags(s)
       /\ s2.added = s.added /\ s2.gone = s.gone \cup Tags(s)
       /\ c2.added = c.added /\ c2.gone = c.gone \cup Tags(c)
    \/ /\ t[k].verb = "unfollow" /\ t[k].names \notin Tags(s) /\ s2 = s /\ c2 = c
    \/ /\ t[k].verb = "enroll" /\ Tags(s) # {} /\ s2 = s
       /\ c2.added = c.added \cup {k} /\ c2.gone = c.gone
    \/ /\ t[k].verb = "enroll" /\ Tags(s) = {} /\ s2 = s /\ c2 = c
    \/ /\ t[k].verb = "unenroll" /\ s2 = s /\ c2.added = c.added
       /\ c2.gone = c.gone \cup {j \in Tags(c) : t[j].agent = t[k].agent}

\* In any order and however often, the tags stay those of what was met, and no agent
\* is a member without a seat.
LEMMA MovedFits ==
    ASSUME NEW t, NEW h, NEW met, NEW k \in DOMAIN t, t[k].hub = h, NEW s, NEW c, NEW s2, NEW c2,
           TagsStand(t, met, s, c), Moved(t, h, k, s, c, s2, c2)
    PROVE  TagsStand(t, met \cup {k}, s2, c2)
<1> USE DEF TagsStand
<1>1. TagsFit(t, met \cup {k}, s2, "follow")
    BY DEF TagsFit, Moved, Tags
<1>2. TagsFit(t, met \cup {k}, c2, "enroll")
    BY DEF TagsFit, Moved, Tags
<1>3. \A j \in met \cup {k} : t[j].verb = "follow" => j \in s2.added
    BY DEF Moved
<1>4. Tags(c2) # {} => Tags(s2) # {}
    <2>1. CASE t[k].verb = "follow"
        <3>1. c2 = c /\ s2.added = s.added \cup {k} /\ s2.gone = s.gone
            BY <2>1 DEF Moved
        <3> QED BY <3>1 DEF Tags
    <2>2. CASE t[k].verb # "follow"
        BY <2>2 DEF Moved, Tags
    <2> QED BY <2>1, <2>2
<1> QED BY <1>1, <1>2, <1>3, <1>4

\* Met in its order, what an activity does is what the trail says.
LEMMA MovedRight ==
    ASSUME NEW t, TrailFit(t), NEW h, NEW met \in SUBSET {k \in DOMAIN t : t[k].hub = h},
           NEW k \in DOMAIN t, t[k].hub = h, NEW s, NEW c, NEW s2, NEW c2,
           TagsStand(t, met, s, c), SeatRight(t, met, s), Moved(t, h, k, s, c, s2, c2),
           \A j \in met : j < k, MetInFull(t, h, met \cup {k})
    PROVE  /\ SeatRight(t, met \cup {k}, s2)
           /\ CrewRight(t, h, met, c) => CrewRight(t, h, met \cup {k}, c2)
<1>1. /\ DOMAIN t = 1..Len(t) /\ Len(t) \in Nat /\ k \in Nat /\ k <= Len(t) /\ k \notin met
      /\ \A j \in met : j \in Nat /\ j < k /\ ~(j > k)
    BY DEF TrailFit
<1>2. t[k].verb = "unfollow" => t[k].names \in Tags(s)
    BY UndoFindsItsTag DEF Tags, TagsStand
<1>3. t[k].verb = "enroll" => (Tags(s) # {} <=> Live(t, h, k))
    <2> SUFFICES ASSUME t[k].verb = "enroll" PROVE Tags(s) # {} <=> Live(t, h, k)
        OBVIOUS
    <2>1. \A j \in 1..k : t[j].hub = h => j \in met \/ (j = k /\ t[k].verb = "enroll")
        <3>1. k \in met \cup {k}
            OBVIOUS
        <3>2. \A j \in 1..k : t[j].hub = h => j \in met \cup {k}
            BY <3>1 DEF MetInFull
        <3> QED BY <3>2
    <2>2. \A j \in met : j <= k
        BY <1>1
    <2>3. MetUpTo(t, h, met, k)
        BY <2>1, <2>2 DEF MetUpTo
    <2> QED BY <1>1, <2>3, SeatedIfLive DEF TagsStand
<1>4. t[k].verb \in Verbs /\ k \notin s.added /\ k \notin s.gone /\ k \notin c.added /\ k \notin c.gone
    <2>1. t[k] \in Published
        BY DEF TrailFit
    <2> QED BY <1>1, <2>1 DEF TagsStand, TagsFit, Published
<1>5. SeatRight(t, met \cup {k}, s2)
    <2> SUFFICES ASSUME NEW i \in met \cup {k}, t[i].verb = "follow"
                 PROVE  i \in s2.gone <=> \E j \in met \cup {k} : j > i /\ t[j].verb = "unfollow"
        BY DEF SeatRight
    <2>1. CASE i = k
        <3>1. s2.gone = s.gone
            BY <2>1 DEF Moved
        <3> QED BY <1>1, <1>4, <2>1, <3>1
    <2>2. CASE i \in met /\ t[k].verb = "unfollow"
        <3>1. i \in s.added /\ s2.gone = s.gone \cup (s.added \ s.gone)
            BY <1>2, <2>2 DEF TagsStand, Moved, Tags
        <3>2. k > i
            BY <1>1, <2>2
        <3> QED BY <2>2, <3>1, <3>2
    <2>3. CASE i \in met /\ t[k].verb # "unfollow"
        <3>1. s2.gone = s.gone
            BY <2>3 DEF Moved
        <3> QED BY <2>3, <3>1 DEF SeatRight
    <2> QED BY <2>1, <2>2, <2>3
<1>6. ASSUME CrewRight(t, h, met, c) PROVE CrewRight(t, h, met \cup {k}, c2)
    <2> SUFFICES ASSUME NEW i \in met \cup {k}, t[i].verb = "enroll"
                 PROVE  /\ i \in c2.added <=> Live(t, h, i)
                        /\ i \in c2.added =>
                              (i \in c2.gone <=> \E j \in met \cup {k} : j > i /\ Leaves(t, i, j))
        BY DEF CrewRight
    <2>1. CASE i = k
        <3>1. c2.gone = c.gone /\ (k \in c2.added <=> Tags(s) # {})
            BY <1>4, <2>1 DEF Moved
        <3>2. ~\E j \in met \cup {k} : j > k /\ Leaves(t, i, j)
            BY <1>1
        <3> QED BY <1>3, <1>4, <2>1, <3>1, <3>2
    <2> SUFFICES ASSUME i \in met PROVE
                 /\ i \in c2.added <=> Live(t, h, i)
                 /\ i \in c2.added =>
                       (i \in c2.gone <=> \E j \in met \cup {k} : j > i /\ Leaves(t, i, j))
        BY <2>1
    <2>2. /\ i \in c.added <=> Live(t, h, i)
          /\ i \in c.added => (i \in c.gone <=> \E j \in met : j > i /\ Leaves(t, i, j))
        BY <1>6 DEF CrewRight
    <2>3. k > i /\ i # k
        BY <1>1
    <2>4. i \in c2.added <=> i \in c.added
        BY <2>3 DEF Moved
    <2>5. CASE Leaves(t, i, k)
        <3>1. i \in c.added => i \in c2.gone
            BY <1>2, <2>5 DEF Moved, Tags, Leaves
        <3> QED BY <2>2, <2>3, <2>4, <2>5, <3>1
    <2>6. CASE ~Leaves(t, i, k)
        <3>1. i \in c2.gone <=> i \in c.gone
            BY <2>6 DEF Moved, Tags, Leaves
        <3> QED BY <2>2, <2>3, <2>4, <2>6, <3>1
    <2> QED BY <2>5, <2>6
<1> QED BY <1>5, <1>6

\* A hub that takes an activity it does not remember still fits the trail.
LEMMA ArriveFits ==
    ASSUME NEW t, TrailFit(t), NEW h, NEW met, NEW mem, NEW s, NEW c, NEW n, NEW late,
           HubFit(t, h, met, mem, s, c, n, late),
           NEW k \in DOMAIN t, t[k].hub = h, k \notin mem,
           NEW s2, NEW c2, Moved(t, h, k, s, c, s2, c2),
           NEW late2, late2 = IF k \notin met /\ \E j \in met : j > k THEN late \cup {h} ELSE late
    PROVE  HubFit(t, h, met \cup {k}, mem \cup {k}, s2, c2, n, late2)
<1>1. /\ met \in SUBSET {i \in DOMAIN t : t[i].hub = h} /\ mem \subseteq met /\ (n = 0 => mem = met)
      /\ TagsStand(t, met, s, c)
    BY DEF HubFit
<1>2. DOMAIN t = 1..Len(t) /\ Len(t) \in Nat
    BY DEF TrailFit
<1>3. TagsStand(t, met \cup {k}, s2, c2)
    BY <1>1, MovedFits
<1>4. /\ met \cup {k} \subseteq {i \in DOMAIN t : t[i].hub = h}
      /\ mem \cup {k} \subseteq met \cup {k} /\ (n = 0 => mem \cup {k} = met \cup {k})
    BY <1>1
<1>5. ASSUME h \notin late2, MetInFull(t, h, met \cup {k})
      PROVE  SeatRight(t, met \cup {k}, s2) /\ (n = 0 => CrewRight(t, h, met \cup {k}, c2))
    <2>1. CASE k \notin met
        <3>1. h \notin late /\ \A j \in met : j < k
            BY <1>1, <1>2, <1>5, <2>1
        <3>2. MetInFull(t, h, met)
            BY <1>1, <1>2, <1>5, <3>1 DEF MetInFull
        <3>3. SeatRight(t, met, s) /\ (n = 0 => CrewRight(t, h, met, c))
            BY <3>1, <3>2 DEF HubFit
        <3> QED BY <1>1, <1>5, <3>1, <3>3, MovedRight
    <2>2. CASE k \in met
        <3>1. h \notin late /\ met \cup {k} = met /\ n # 0
            BY <1>1, <1>5, <2>2
        <3>2. MetInFull(t, h, met)
            BY <1>5, <3>1
        <3>3. SeatRight(t, met, s)
            BY <3>1, <3>2 DEF HubFit
        <3>4. t[k].verb = "unfollow" => t[k].names \notin Tags(s)
            BY <1>1, <2>2, <3>2, <3>3, UndoFoundNoTag DEF Tags
        <3>5. s2.gone = s.gone
            BY <3>4 DEF Moved
        <3>6. SeatRight(t, met, s2)
            BY <3>3, <3>5 DEF SeatRight
        <3> QED BY <3>1, <3>6
    <2> QED BY <2>1, <2>2
<1> QED BY <1>3, <1>4, <1>5 DEF HubFit

\* What is published next changes nothing of what was met.
LEMMA TrailGrows ==
    ASSUME NEW t, TrailFit(t), NEW e \in Published,
           e.verb = "unfollow" =>
               /\ e.names \in DOMAIN t /\ Says(t, e.names, "follow", e.hub)
               /\ \A j \in e.names..Len(t) : ~Says(t, j, "unfollow", e.hub)
    PROVE  /\ TrailFit(Append(t, e))
           /\ \A h, met, mem, s, c, n, late :
                  HubFit(t, h, met, mem, s, c, n, late)
                  => HubFit(Append(t, e), h, met, mem, s, c, n, late)
<1> DEFINE u == Append(t, e)
<1>1. /\ u \in Seq(Published) /\ DOMAIN t = 1..Len(t) /\ DOMAIN u = 1..(Len(t) + 1)
      /\ Len(t) \in Nat /\ u[Len(t) + 1] = e /\ \A k \in DOMAIN t : u[k] = t[k]
    BY DEF TrailFit
<1> HIDE DEF u
<1>2. TrailFit(u)
    <2> SUFFICES ASSUME NEW k \in DOMAIN u, u[k].verb = "unfollow" PROVE UndoesTheFollow(u, k)
        BY <1>1 DEF TrailFit
    <2>1. CASE k \in DOMAIN t
        <3>1. UndoesTheFollow(t, k) /\ k \in Nat /\ k <= Len(t)
            BY <1>1, <2>1 DEF TrailFit
        <3>2. \A j \in 1..(k - 1) : u[j] = t[j]
            BY <1>1, <3>1
        <3>3. \A j \in t[k].names..(k - 1) : j \in 1..(k - 1)
            BY <3>1 DEF UndoesTheFollow
        <3> QED BY <1>1, <2>1, <3>1, <3>2, <3>3 DEF UndoesTheFollow, Says
    <2>2. CASE k = Len(t) + 1
        <3>1. /\ e.names \in DOMAIN t /\ Says(t, e.names, "follow", e.hub)
              /\ \A j \in e.names..Len(t) : ~Says(t, j, "unfollow", e.hub)
            BY <1>1, <2>2
        <3>2. k - 1 = Len(t) /\ \A j \in e.names..Len(t) : u[j] = t[j]
            BY <1>1, <2>2, <3>1
        <3> QED BY <1>1, <2>2, <3>1, <3>2 DEF UndoesTheFollow, Says
    <2> QED BY <1>1, <2>1, <2>2
<1>3. ASSUME NEW h, NEW met, NEW mem, NEW s, NEW c, NEW n, NEW late,
             HubFit(t, h, met, mem, s, c, n, late)
      PROVE  HubFit(u, h, met, mem, s, c, n, late)
    <2>1. /\ met \subseteq {i \in DOMAIN t : t[i].hub = h} /\ mem \subseteq met /\ (n = 0 => mem = met)
          /\ TagsStand(t, met, s, c)
        BY <1>3 DEF HubFit
    <2>2. \A k \in met : k \in DOMAIN t /\ u[k] = t[k] /\ \A j \in 1..k : j \in DOMAIN t /\ u[j] = t[j]
        BY <1>1, <2>1
    <2>3. TagsStand(u, met, s, c)
        BY <2>1, <2>2 DEF TagsStand, TagsFit
    <2>4. met \subseteq {i \in DOMAIN u : u[i].hub = h}
        BY <1>1, <2>1
    <2>5. ASSUME h \notin late, MetInFull(u, h, met)
          PROVE  SeatRight(u, met, s) /\ (n = 0 => CrewRight(u, h, met, c))
        <3>1. MetInFull(t, h, met)
            BY <2>2, <2>5 DEF MetInFull
        <3>2. SeatRight(t, met, s) /\ (n = 0 => CrewRight(t, h, met, c))
            BY <1>3, <2>5, <3>1 DEF HubFit
        <3>3. SeatRight(u, met, s)
            BY <2>2, <3>2 DEF SeatRight
        <3>4. \A k \in met : Live(u, h, k) <=> Live(t, h, k)
            <4> SUFFICES ASSUME NEW k \in met PROVE Live(u, h, k) <=> Live(t, h, k)
                OBVIOUS
            <4>1. \A i \in 1..k : u[i] = t[i] /\ \A j \in i..k : u[j] = t[j]
                BY <1>1, <2>2
            <4> QED BY <4>1 DEF Live, Says
        <3>5. ASSUME n = 0 PROVE CrewRight(u, h, met, c)
            BY <2>2, <3>2, <3>4, <3>5 DEF CrewRight, Leaves
        <3> QED BY <3>3, <3>5
    <2> QED BY <2>1, <2>2, <2>3, <2>4, <2>5 DEF HubFit
<1> QED BY <1>2, <1>3 DEF u

------------------------------------------------------------------------------
LEMMA SeatStarts == SeatInit => SeatInv
<1> SUFFICES ASSUME SeatInit PROVE SeatInv
    OBVIOUS
<1>1. TrailFit(trail) /\ SeatTyped
    BY DEF SeatInit, TrailFit, SeatTyped, TagSet
<1>2. ASSUME NEW h \in Hubs
      PROVE  HubFit(trail, h, handled[h], heard[h], seats[h], crew[h], reboots[h], overtaken)
    <2>1. /\ handled[h] = {} /\ heard[h] = {} /\ seats[h] = [added |-> {}, gone |-> {}]
          /\ crew[h] = [added |-> {}, gone |-> {}]
        BY DEF SeatInit
    <2> QED BY <2>1 DEF HubFit, TagsStand, TagsFit, Tags, SeatRight, CrewRight
<1> QED BY <1>1, <1>2 DEF SeatInv

LEMMA PublishKeeps ==
    ASSUME SeatInv, NEW c \in Commands, ExecuteHubCommand(c)
    PROVE  SeatInv'
<1>1. PICK names \in {LatestFollow(c.hub), 0} :
          /\ PublishAsInstance(c.verb, c.hub, c.agent, names)
          /\ c.verb = "unfollow" => names = LatestFollow(c.hub) /\ names # 0
    BY DEF ExecuteHubCommand
<1>2. TrailFit(trail) /\ Len(trail) \in Nat /\ DOMAIN trail = 1..Len(trail)
    BY DEF SeatInv, TrailFit
<1>3. c.verb \in Verbs /\ c.hub \in Hubs /\ c.agent \in Crew \cup {NoAgent}
    BY DEF Commands, Verbs
<1>4. LatestFollow(c.hub) \in Nat /\ (LatestFollow(c.hub) # 0 =>
          /\ LatestFollow(c.hub) \in DOMAIN trail
          /\ Says(trail, LatestFollow(c.hub), "follow", c.hub)
          /\ \A j \in LatestFollow(c.hub)..Len(trail) : ~Says(trail, j, "unfollow", c.hub))
    <2> DEFINE live == {k \in DOMAIN trail : Said(k, "follow", c.hub) /\
                            \A j \in k..Len(trail) : ~Said(j, "unfollow", c.hub)}
    <2>1. LatestFollow(c.hub) = IF live = {} THEN 0 ELSE Max(live)
        BY DEF LatestFollow
    <2>2. live \in SUBSET (1..Len(trail))
        BY <1>2
    <2>3. live # {} => Max(live) \in live
        BY <1>2, <2>2, GreatestPlace
    <2>4. \A k \in live : /\ k \in DOMAIN trail /\ Says(trail, k, "follow", c.hub)
                          /\ \A j \in k..Len(trail) : ~Says(trail, j, "unfollow", c.hub)
        BY DEF Said, Says
    <2> HIDE DEF live
    <2>5. CASE live = {}
        BY <2>1, <2>5
    <2>6. CASE live # {}
        <3>1. LatestFollow(c.hub) \in live
            BY <2>1, <2>3, <2>6
        <3> QED BY <1>2, <2>4, <3>1
    <2> QED BY <2>5, <2>6
<1>5. PICK e \in Published : /\ e = [verb |-> c.verb, hub |-> c.hub, agent |-> c.agent, names |-> names]
                             /\ trail' = Append(trail, e)
    BY <1>1, <1>3, <1>4 DEF PublishAsInstance, Published
<1>6. e.verb = c.verb /\ e.hub = c.hub /\ e.names = names
    BY <1>5
<1>7. e.verb = "unfollow" =>
          /\ e.names \in DOMAIN trail /\ Says(trail, e.names, "follow", e.hub)
          /\ \A j \in e.names..Len(trail) : ~Says(trail, j, "unfollow", e.hub)
    BY <1>1, <1>4, <1>6
<1>8. /\ TrailFit(Append(trail, e))
      /\ \A h, met, mem, s, a, n, late :
             HubFit(trail, h, met, mem, s, a, n, late)
             => HubFit(Append(trail, e), h, met, mem, s, a, n, late)
    BY <1>2, <1>7, TrailGrows
<1>9. UNCHANGED <<seats, crew, heard, reboots, handled, overtaken>>
    BY <1>1 DEF PublishAsInstance
<1> QED BY <1>5, <1>8, <1>9 DEF SeatInv, SeatTyped

LEMMA ArriveKeeps ==
    ASSUME SeatInv, NEW k \in DOMAIN trail, Arrive(k)
    PROVE  SeatInv'
<1> DEFINE h == trail[k].hub
<1>1. /\ TrailFit(trail) /\ SeatTyped /\ trail[k] \in Published /\ h \in Hubs /\ k \in Nat
      /\ trail' = trail /\ reboots' = reboots
    <2>1. TrailFit(trail) /\ SeatTyped /\ trail' = trail /\ reboots' = reboots
        BY DEF SeatInv, Arrive
    <2>2. trail[k] \in Published /\ k \in Nat
        BY <2>1 DEF TrailFit
    <2> QED BY <2>1, <2>2 DEF Published
<1>2. /\ k \notin heard[h] /\ Dispatched(h, k)
      /\ heard' = [heard EXCEPT ![h] = @ \cup {k}]
      /\ handled' = [handled EXCEPT ![h] = @ \cup {k}]
      /\ overtaken' = IF k \notin handled[h] /\ \E j \in handled[h] : j > k
                      THEN overtaken \cup {h} ELSE overtaken
    BY DEF Arrive
<1>3. trail[k].verb \in Verbs
    BY <1>1 DEF Published
<1> HIDE DEF h
<1>4. seats[h] \in TagSet /\ crew[h] \in TagSet
    BY <1>1 DEF SeatTyped
<1>5. /\ Moved(trail, h, k, seats[h], crew[h], seats'[h], crew'[h])
      /\ seats'[h] \in TagSet /\ crew'[h] \in TagSet
      /\ seats' = [seats EXCEPT ![h] = seats'[h]] /\ crew' = [crew EXCEPT ![h] = crew'[h]]
    <2>1. CASE trail[k].verb = "follow"
        <3>1. seats' = [seats EXCEPT ![h] = AddTag(seats[h], k)] /\ crew' = crew
            BY <1>2, <2>1 DEF Dispatched, OnFollow
        <3> QED BY <1>1, <1>4, <2>1, <3>1 DEF Moved, AddTag, TagSet, SeatTyped
    <2>2. CASE trail[k].verb = "unfollow" /\ trail[k].names \in Tags(seats[h])
        <3>1. /\ seats' = [seats EXCEPT ![h] = Tombstone(seats[h], Tags(seats[h]))]
              /\ crew' = [crew EXCEPT ![h] = Tombstone(crew[h], Tags(crew[h]))]
            BY <1>2, <2>2 DEF Dispatched, OnUndoFollow
        <3>2. Tags(seats[h]) \in SUBSET Nat /\ Tags(crew[h]) \in SUBSET Nat
            BY <1>4 DEF Tags, TagSet
        <3> QED BY <1>1, <1>4, <2>2, <3>1, <3>2 DEF Moved, Tombstone, TagSet, SeatTyped
    <2>3. CASE trail[k].verb = "unfollow" /\ trail[k].names \notin Tags(seats[h])
        <3>1. seats' = seats /\ crew' = crew
            BY <1>2, <2>3 DEF Dispatched, OnUndoFollow
        <3> QED BY <1>1, <1>4, <2>3, <3>1 DEF Moved, SeatTyped
    <2>4. CASE trail[k].verb = "enroll" /\ Tags(seats[h]) # {}
        <3>1. seats' = seats /\ crew' = [crew EXCEPT ![h] = AddTag(crew[h], k)]
            BY <1>2, <2>4 DEF Dispatched, OnEnroll, Seated
        <3> QED BY <1>1, <1>4, <2>4, <3>1 DEF Moved, AddTag, TagSet, SeatTyped
    <2>5. CASE trail[k].verb = "enroll" /\ Tags(seats[h]) = {}
        <3>1. seats' = seats /\ crew' = crew
            BY <1>1, <1>2, <1>4, <2>5 DEF Dispatched, OnEnroll, Seated, SeatTyped
        <3> QED BY <1>1, <1>4, <2>5, <3>1 DEF Moved, SeatTyped
    <2>6. CASE trail[k].verb = "unenroll"
        <3>1. /\ seats' = seats
              /\ crew' = [crew EXCEPT ![h] = Tombstone(crew[h], CrewTags(h, trail[k].agent))]
            BY <1>2, <2>6 DEF Dispatched, OnUnenroll
        <3>2. CrewTags(h, trail[k].agent) \in SUBSET Nat
            BY <1>4 DEF CrewTags, Tags, TagSet
        <3> QED BY <1>1, <1>4, <2>6, <3>1, <3>2
                DEF Moved, Tombstone, CrewTags, TagSet, SeatTyped
    <2> QED BY <1>3, <2>1, <2>2, <2>3, <2>4, <2>5, <2>6 DEF Verbs
<1>6. SeatTyped'
    BY <1>1, <1>2, <1>5 DEF SeatTyped
<1>7. HubFit(trail, h, handled[h] \cup {k}, heard[h] \cup {k}, seats'[h], crew'[h], reboots[h], overtaken')
    <2>1. HubFit(trail, h, handled[h], heard[h], seats[h], crew[h], reboots[h], overtaken)
        BY <1>1 DEF SeatInv, h
    <2> QED BY <1>1, <1>2, <1>5, <2>1, ArriveFits DEF h
<1>8. ASSUME NEW g \in Hubs
      PROVE  HubFit(trail, g, handled'[g], heard'[g], seats'[g], crew'[g], reboots[g], overtaken')
    <2>1. CASE g = h
        <3>1. handled'[g] = handled[h] \cup {k} /\ heard'[g] = heard[h] \cup {k}
            BY <1>1, <1>2, <2>1 DEF SeatTyped
        <3> QED BY <1>7, <2>1, <3>1
    <2>2. CASE g # h
        <3>1. /\ handled'[g] = handled[g] /\ heard'[g] = heard[g]
              /\ seats'[g] = seats[g] /\ crew'[g] = crew[g]
              /\ g \notin overtaken' => g \notin overtaken
            BY <1>1, <1>2, <1>5, <2>2 DEF SeatTyped
        <3>2. HubFit(trail, g, handled[g], heard[g], seats[g], crew[g], reboots[g], overtaken)
            BY DEF SeatInv
        <3> QED BY <3>1, <3>2 DEF HubFit
    <2> QED BY <2>1, <2>2
<1> QED BY <1>1, <1>6, <1>8 DEF SeatInv

LEMMA RestartKeeps ==
    ASSUME SeatInv, NEW h \in Hubs, RestartHub(h)
    PROVE  SeatInv'
<1>1. /\ UNCHANGED <<trail, seats, crew, handled, overtaken>>
      /\ reboots' = [reboots EXCEPT ![h] = @ + 1] /\ heard' = [heard EXCEPT ![h] = {}]
    BY DEF RestartHub
<1>2. SeatTyped'
    BY <1>1 DEF SeatInv, SeatTyped
<1>3. ASSUME NEW g \in Hubs
      PROVE  HubFit(trail, g, handled[g], heard'[g], seats[g], crew[g], reboots'[g], overtaken)
    <2>1. HubFit(trail, g, handled[g], heard[g], seats[g], crew[g], reboots[g], overtaken)
        BY DEF SeatInv
    <2>2. CASE g = h
        <3>1. heard'[g] = {} /\ reboots'[g] # 0
            BY <1>1, <2>2 DEF SeatInv, SeatTyped
        <3> QED BY <2>1, <3>1 DEF HubFit
    <2>3. CASE g # h
        <3>1. heard'[g] = heard[g] /\ reboots'[g] = reboots[g]
            BY <1>1, <2>3 DEF SeatInv, SeatTyped
        <3> QED BY <2>1, <3>1
    <2> QED BY <2>2, <2>3
<1> QED BY <1>1, <1>2, <1>3 DEF SeatInv

\* What the invariant says of a hub that met the whole chain in its order.
LEMMA EndsAgree == SeatInv => SeatEndsAgree
<1> SUFFICES ASSUME SeatInv PROVE SeatEndsAgree
    OBVIOUS
<1>1. TrailFit(trail) /\ DOMAIN trail = 1..Len(trail) /\ Len(trail) \in Nat
    BY DEF SeatInv, TrailFit
<1>2. ASSUME NEW h \in Hubs
      PROVE  HubFit(trail, h, handled[h], heard[h], seats[h], crew[h], reboots[h], overtaken)
    BY DEF SeatInv
<1>3. ASSUME NEW h \in Hubs, MetAll(h)
      PROVE  /\ handled[h] = {k \in DOMAIN trail : trail[k].hub = h}
             /\ h \notin overtaken /\ SeatRight(trail, handled[h], seats[h])
             /\ reboots[h] = 0 => CrewRight(trail, h, handled[h], crew[h])
             /\ Seated(h) <=> Live(trail, h, Len(trail))
    <2>1. handled[h] = {k \in DOMAIN trail : trail[k].hub = h} /\ h \notin overtaken
        BY <1>2, <1>3 DEF MetAll, HubFit
    <2>2. MetInFull(trail, h, handled[h])
        BY <1>1, <2>1 DEF MetInFull
    <2>3. /\ SeatRight(trail, handled[h], seats[h])
          /\ reboots[h] = 0 => CrewRight(trail, h, handled[h], crew[h])
          /\ TagsFit(trail, handled[h], seats[h], "follow")
          /\ \A k \in handled[h] : trail[k].verb = "follow" => k \in seats[h].added
        BY <1>2, <2>1, <2>2 DEF HubFit, TagsStand
    <2>4. MetUpTo(trail, h, handled[h], Len(trail))
        <3>1. \A j \in handled[h] : j <= Len(trail)
            BY <1>1, <2>1
        <3>2. \A j \in 1..Len(trail) : trail[j].hub = h => j \in handled[h]
            BY <1>1, <2>1
        <3> QED BY <3>1, <3>2 DEF MetUpTo
    <2>5. Tags(seats[h]) # {} <=> Live(trail, h, Len(trail))
        <3> DEFINE met == handled[h]
                   s == seats[h]
                   n == Len(trail)
        <3>1. /\ met \in SUBSET {k \in DOMAIN trail : trail[k].hub = h} /\ n \in Nat /\ n <= Len(trail)
              /\ MetUpTo(trail, h, met, n) /\ TrailFit(trail)
              /\ TagsFit(trail, met, s, "follow") /\ SeatRight(trail, met, s)
              /\ \A k \in met : trail[k].verb = "follow" => k \in s.added
            BY <1>1, <2>1, <2>3, <2>4
        <3> HIDE DEF met, s, n
        <3>2. Tags(s) # {} <=> Live(trail, h, n)
            BY <3>1, SeatedIfLive
        <3> QED BY <3>2 DEF met, s, n
    <2> QED BY <2>1, <2>3, <2>5 DEF Seated
<1>4. ASSUME NEW h \in Hubs, NEW n PROVE h \in FollowingAt(n) <=> Live(trail, h, n)
    BY DEF FollowingAt, Live, Said, Says
<1>5. SeatFollowsTheTrail
    BY <1>3, <1>4 DEF SeatFollowsTheTrail, Following
<1>6. ASSUME NEW h \in Hubs, MetAll(h), reboots[h] = 0, NEW a \in Crew
      PROVE  a \in MembersAt(h) <=> a \in Enrolled(h)
    <2>1. /\ handled[h] = {k \in DOMAIN trail : trail[k].hub = h}
          /\ CrewRight(trail, h, handled[h], crew[h])
        BY <1>3, <1>6
    <2>2. TagsFit(trail, handled[h], crew[h], "enroll")
        BY <1>2 DEF HubFit, TagsStand
    <2>3. a \in MembersAt(h) <=> \E k \in crew[h].added \ crew[h].gone : trail[k].agent = a
        BY DEF MembersAt, CrewTags, Tags
    <2>4. ASSUME NEW k \in DOMAIN trail
          PROVE  (k \in crew[h].added \ crew[h].gone /\ trail[k].agent = a)
                 <=> /\ Said(k, "enroll", h) /\ trail[k].agent = a /\ h \in FollowingAt(k)
                     /\ \A j \in k..Len(trail) : ~Said(j, "unfollow", h)
                            /\ ~(Said(j, "unenroll", h) /\ trail[j].agent = a)
        <3>1. CASE ~Said(k, "enroll", h)
            BY <2>1, <2>2, <3>1 DEF TagsFit, Said
        <3>2. CASE Said(k, "enroll", h) /\ trail[k].agent = a
            <4>1. /\ k \in handled[h] /\ trail[k].verb = "enroll"
                BY <2>1, <3>2 DEF Said
            <4>2. /\ k \in crew[h].added <=> h \in FollowingAt(k)
                  /\ k \in crew[h].added =>
                        (k \in crew[h].gone <=> \E j \in handled[h] : j > k /\ Leaves(trail, k, j))
                BY <1>4, <2>1, <4>1 DEF CrewRight
            <4>3. (\E j \in handled[h] : j > k /\ Leaves(trail, k, j))
                  <=> ~\A j \in k..Len(trail) : ~Said(j, "unfollow", h)
                            /\ ~(Said(j, "unenroll", h) /\ trail[j].agent = a)
                <5>1. \A j : j \in handled[h] /\ j > k /\ Leaves(trail, k, j)
                          <=> /\ j \in k..Len(trail)
                              /\ Said(j, "unfollow", h) \/ (Said(j, "unenroll", h) /\ trail[j].agent = a)
                    BY <1>1, <2>1, <3>2, <4>1 DEF Leaves, Said
                <5> QED BY <5>1
            <4> QED BY <3>2, <4>2, <4>3
        <3> QED BY <3>1, <3>2
    <2>5. crew[h].added \subseteq DOMAIN trail
        BY <2>1, <2>2 DEF TagsFit
    <2> QED BY <2>3, <2>4, <2>5 DEF Enrolled
<1>7. CrewFollowsTheTrail
    BY <1>6 DEF CrewFollowsTheTrail, MembersAt, Enrolled
<1>8. NoSeatNoCrew
    BY <1>2 DEF NoSeatNoCrew, HubFit, TagsStand, MembersAt, CrewTags, Seated
<1> QED BY <1>5, <1>7, <1>8 DEF SeatEndsAgree

\* A hub's tags and the instance's own chain say the same of a seat and of its crew,
\* once the hub met the chain in its order, whatever was delivered twice; and without
\* a seat no agent is a member (hub/seats.ts, instance/following.ts).
THEOREM SeatsAgree == SeatSpec => []SeatEndsAgree
<1>1. SeatInv /\ [SeatNext]_seatVars => SeatInv'
    <2> SUFFICES ASSUME SeatInv, [SeatNext]_seatVars PROVE SeatInv'
        OBVIOUS
    <2>1. ASSUME UNCHANGED <<trail, seats, crew, heard, reboots, handled, overtaken>> PROVE SeatInv'
        BY <2>1 DEF SeatInv, SeatTyped
    <2>2. CASE UNCHANGED seatVars
        BY <2>1, <2>2 DEF seatVars
    <2>3. CASE \E k \in DOMAIN trail : ArriveAgain(k)
        BY <2>1, <2>3 DEF ArriveAgain
    <2> QED BY <2>2, <2>3, PublishKeeps, ArriveKeeps, RestartKeeps DEF SeatNext
<1> QED BY <1>1, SeatStarts, EndsAgree, PTL DEF SeatSpec

------------------------------------------------------------------------------
(***************************************************************************)
(* Decisions.  One decision of an approver sets in motion one action, the  *)
(* one pinned on the thread then: ApprovalInv says of every entry of the   *)
(* record what the entries before it made of it.                           *)
(***************************************************************************)
Entries ==
    [kind : {"offer", "intent", "result"}, thread : Threads, pin : Pins, at : Nat,
     actor : Authors, action : Actions \cup {""}, decision : Decisions \cup {""},
     by : Approvers \cup {""}, reconciles : Nat]
Asking ==
    [actor : Actors, thread : Threads, decision : Decisions, by : Approvers, intent : Nat,
     since : Nat, state : {"acting", "told", "lost"}]

SameDecision(x, y) == x.thread = y.thread /\ x.actor = y.actor /\ x.decision = y.decision

\* What was set in motion on a thread went by the policy pinned on it then.
IntentsPinned(b) ==
    \A k \in DOMAIN b : b[k].kind = "intent" =>
        b[k].action \in Actions /\ b[k].action = PolicyOf(b, k - 1, b[k].thread)

\* A result says whose and what decision it is that it reconciles.
ResultsFit(b) ==
    \A k \in DOMAIN b : b[k].kind = "result" =>
        /\ b[k].reconciles \in DOMAIN b
        /\ b[b[k].reconciles].kind = "intent"
        /\ SameDecision(b[k], b[b[k].reconciles])

OneIntentEach(b) ==
    \A i, k \in DOMAIN b :
        b[i].kind = "intent" /\ b[k].kind = "intent" /\ i # k /\ SameDecision(b[i], b[k])
            => b[i].action # b[k].action

GoodBook(b) == b \in Seq(Entries) /\ IntentsPinned(b) /\ ResultsFit(b) /\ OneIntentEach(b)

\* What an approval that was answered claims of the record, and one that waits.
Told(b, x) ==
    \E k \in DOMAIN b :
        /\ b[k].kind = "result" /\ SameDecision(b[k], x)
        /\ b[b[k].reconciles].action = PolicyOf(b, x.since, x.thread)
Awaited(b, x) ==
    /\ x.intent \in DOMAIN b
    /\ b[x.intent].kind = "intent"
    /\ SameDecision(x, b[x.intent])
    /\ b[x.intent].action = PolicyOf(b, x.since, x.thread)
Honest(b, x) ==
    /\ x \in Asking /\ x.since <= Len(b)
    /\ x.state = "told" => Told(b, x)
    /\ x.state = "acting" => Awaited(b, x)

ApprovalInv ==
    /\ GoodBook(book)
    /\ asks \in Seq(Asking)
    /\ \A q \in DOMAIN asks : Honest(book, asks[q])

\* Of two entries one sorts first, and of any entries one before all the others: by
\* instant, then by the author's address, then by place.
LEMMA SortsOnce ==
    ASSUME NEW b \in Seq(Entries), NEW i \in DOMAIN b, NEW k \in DOMAIN b, i # k
    PROVE  ~(Sorts(b, i, k) /\ Sorts(b, k, i))
<1>0. b[i] \in Entries /\ b[k] \in Entries /\ i \in Nat /\ k \in Nat
    OBVIOUS
<1>1. /\ b[i].at \in Nat /\ b[k].at \in Nat /\ b[i].actor \in Authors /\ b[k].actor \in Authors
      /\ i \in Nat /\ k \in Nat
    BY <1>0 DEF Entries
<1>2. Rank[b[i].actor] \in Nat /\ Rank[b[k].actor] \in Nat
    BY <1>1, ApprovalAssumption DEF ApprovalAssumption
<1> QED BY <1>1, <1>2 DEF Sorts

LEMMA SomeIsFirst ==
    ASSUME NEW b \in Seq(Entries), NEW S \in SUBSET (DOMAIN b), S # {}
    PROVE  First(b, S) \in S /\ \A k \in S \ {First(b, S)} : Sorts(b, First(b, S), k)
<1>0. \A k \in S : k \in Nat /\ b[k] \in Entries
    OBVIOUS
<1>1. \A k \in S : k \in Nat /\ b[k].at \in Nat /\ b[k].actor \in Authors
    BY <1>0 DEF Entries
<1>2. \A k \in S : Rank[b[k].actor] \in Nat
    BY <1>1, ApprovalAssumption DEF ApprovalAssumption
<1>3. PICK e : e \in {b[k].at : k \in S} /\ \A n \in {b[k].at : k \in S} : e <= n
    <2>1. {b[k].at : k \in S} \in SUBSET Nat /\ {b[k].at : k \in S} # {}
        BY <1>1
    <2> QED BY <2>1, LeastPlace
<1> DEFINE Early == {k \in S : b[k].at = e}
<1>4. PICK r : r \in {Rank[b[k].actor] : k \in Early} /\ \A n \in {Rank[b[k].actor] : k \in Early} : r <= n
    <2>1. {Rank[b[k].actor] : k \in Early} \in SUBSET Nat /\ {Rank[b[k].actor] : k \in Early} # {}
        BY <1>2, <1>3
    <2> QED BY <2>1, LeastPlace
<1> DEFINE OfFirst == {k \in Early : Rank[b[k].actor] = r}
<1>5. PICK f : f \in OfFirst /\ \A n \in OfFirst : f <= n
    <2>1. OfFirst \in SUBSET Nat /\ OfFirst # {}
        BY <1>1, <1>4
    <2> QED BY <2>1, LeastPlace
<1>6. ASSUME NEW k \in S \ {f} PROVE Sorts(b, f, k)
    <2>1. /\ b[f].at = e /\ e \in Nat /\ b[k].at \in Nat /\ e <= b[k].at
          /\ Rank[b[f].actor] = r /\ r \in Nat /\ Rank[b[k].actor] \in Nat
          /\ b[k].at = e => r <= Rank[b[k].actor]
          /\ b[k].at = e /\ Rank[b[k].actor] = r => f <= k
          /\ f \in Nat /\ k \in Nat /\ f # k
        BY <1>1, <1>2, <1>3, <1>4, <1>5
    <2>2. Rank[b[k].actor] = r => b[k].actor = b[f].actor
        BY <1>1, <1>5, <2>1, ApprovalAssumption DEF ApprovalAssumption
    <2>3. CASE b[k].at # e
        BY <2>1, <2>3 DEF Sorts
    <2>4. CASE b[k].at = e /\ Rank[b[k].actor] # r
        BY <2>1, <2>4 DEF Sorts
    <2>5. CASE b[k].at = e /\ Rank[b[k].actor] = r
        BY <2>1, <2>2, <2>5 DEF Sorts
    <2> QED BY <2>3, <2>4, <2>5
<1>7. f \in S
    BY <1>5
<1> QED BY <1>6, <1>7 DEF First

LEMMA FirstIs ==
    ASSUME NEW b \in Seq(Entries), NEW S \in SUBSET (DOMAIN b), NEW f \in S,
           \A k \in S \ {f} : Sorts(b, f, k)
    PROVE  First(b, S) = f
<1>1. First(b, S) \in S /\ \A k \in S \ {First(b, S)} : Sorts(b, First(b, S), k)
    BY SomeIsFirst
<1>2. ASSUME First(b, S) # f PROVE FALSE
    <2> DEFINE g == First(b, S)
    <2>1. g \in DOMAIN b /\ f \in DOMAIN b /\ g # f /\ Sorts(b, g, f) /\ Sorts(b, f, g)
        BY <1>1, <1>2
    <2> HIDE DEF g
    <2> QED BY <2>1, SortsOnce
<1> QED BY <1>2

\* c holds what b does where b has it: what was pinned on a thread at a length stays so.
LEMMA PolicyStays ==
    ASSUME NEW b \in Seq(Entries), NEW c \in Seq(Entries), NEW n \in Nat, NEW t,
           \A k \in DOMAIN b : k \in DOMAIN c /\ c[k] = b[k],
           \A k \in DOMAIN c : k <= n => k \in DOMAIN b
    PROVE  PolicyOf(c, n, t) = PolicyOf(b, n, t)
<1>1. PinsOf(c, n, t) = PinsOf(b, n, t)
    BY DEF PinsOf
<1> DEFINE S == PinsOf(b, n, t)
           f == First(b, S)
<1>2. S \in SUBSET (DOMAIN b) /\ S \in SUBSET (DOMAIN c)
    BY DEF PinsOf
<1> HIDE DEF S
<1>3. ASSUME S # {} PROVE First(c, S) = f /\ f \in DOMAIN b
    <2>1. f \in S /\ \A k \in S \ {f} : Sorts(b, f, k)
        BY <1>2, <1>3, SomeIsFirst
    <2> HIDE DEF f
    <2>2. ASSUME NEW k \in S \ {f} PROVE Sorts(c, f, k)
        <3>1. c[k] = b[k] /\ c[f] = b[f]
            BY <1>2, <2>1
        <3>2. Sorts(b, f, k)
            BY <2>1
        <3> QED BY <3>1, <3>2 DEF Sorts
    <2>3. First(c, S) = f
        BY <1>2, <2>1, <2>2, FirstIs
    <2> QED BY <1>2, <2>1, <2>3
<1>4. S # {} => c[First(c, S)].pin = b[First(b, S)].pin
    BY <1>3
<1> QED BY <1>1, <1>4 DEF PolicyOf, S

\* The policy of a thread is another at k than it was at i only if a pin was recorded
\* in between that sorts before all there were.
LEMMA PolicyMoves ==
    ASSUME NEW b \in Seq(Entries), NEW i \in Nat, NEW k \in Nat, i <= k, NEW t,
           PinsOf(b, i, t) # {}, PolicyOf(b, k, t) # PolicyOf(b, i, t)
    PROVE  \E j \in PinsOf(b, k, t) : j > i /\ \A m \in PinsOf(b, j - 1, t) : Sorts(b, j, m)
<1> DEFINE S == PinsOf(b, i, t)
           T == PinsOf(b, k, t)
           f == First(b, T)
<1>1. DOMAIN b \in SUBSET Nat
    OBVIOUS
<1>2. S \in SUBSET (DOMAIN b) /\ T \in SUBSET (DOMAIN b) /\ S \subseteq T /\ \A j \in T : j <= i => j \in S
    BY <1>1 DEF PinsOf
<1>3. \A j \in T : \A m \in PinsOf(b, j - 1, t) : m \in T \ {j}
    BY <1>1 DEF PinsOf
<1>4. S # {} /\ T # {} /\ PolicyOf(b, i, t) = b[First(b, S)].pin /\ PolicyOf(b, k, t) = b[f].pin
    BY <1>2 DEF PolicyOf
<1> HIDE DEF S, T
<1>5. f \in T /\ \A m \in T \ {f} : Sorts(b, f, m)
    BY <1>2, <1>4, SomeIsFirst
<1> HIDE DEF f
<1>6. ASSUME f <= i PROVE FALSE
    <2>1. f \in S /\ \A m \in S \ {f} : Sorts(b, f, m)
        BY <1>2, <1>5, <1>6
    <2>2. First(b, S) = f
        BY <1>2, <2>1, FirstIs
    <2> QED BY <1>4, <2>2
<1>7. f > i
    BY <1>1, <1>2, <1>5, <1>6
<1>8. \A m \in PinsOf(b, f - 1, t) : Sorts(b, f, m)
    BY <1>3, <1>5
<1> QED BY <1>5, <1>7, <1>8 DEF T

\* A record b that grew to c has the policies it had.
PoliciesStay(b, c) == \A n \in 0..Len(b) : \A t : PolicyOf(c, n, t) = PolicyOf(b, n, t)

\* What an entry e must be to follow what a record b holds.
Follows(b, e) ==
    /\ e.kind = "intent" =>
          /\ e.action \in Actions /\ e.action = PolicyOf(b, Len(b), e.thread)
          /\ \A k \in DOMAIN b : b[k].kind = "intent" /\ SameDecision(b[k], e) => b[k].action # e.action
    /\ e.kind = "result" =>
          /\ e.reconciles \in DOMAIN b /\ b[e.reconciles].kind = "intent"
          /\ SameDecision(e, b[e.reconciles])

\* An entry that fits the record leaves it a good one, and whatever was told or is
\* awaited of it stays true.
LEMMA BookGrows ==
    ASSUME NEW b, GoodBook(b), NEW e \in Entries, Follows(b, e), NEW c, c = Append(b, e)
    PROVE  /\ GoodBook(c)
           /\ Len(c) = Len(b) + 1 /\ Len(c) \in DOMAIN c /\ c[Len(c)] = e
           /\ \A k \in DOMAIN b : k \in DOMAIN c /\ c[k] = b[k]
           /\ PoliciesStay(b, c)
           /\ \A x \in Asking : Honest(b, x) => Honest(c, x)
<1>1. /\ Len(c) = Len(b) + 1 /\ DOMAIN b = 1..Len(b) /\ DOMAIN c = 1..Len(c)
      /\ Len(b) \in Nat /\ \A k \in DOMAIN b : k \in DOMAIN c /\ c[k] = b[k]
      /\ c[Len(c)] = e /\ c \in Seq(Entries)
      /\ \A k \in DOMAIN b : b[k] \in Entries
    BY DEF GoodBook
<1>2. \A k \in DOMAIN c : k \in DOMAIN b \/ k = Len(c)
    BY <1>1
<1>3. \A n \in 0..Len(b) : \A t : PolicyOf(c, n, t) = PolicyOf(b, n, t)
    <2> SUFFICES ASSUME NEW n \in 0..Len(b), NEW t PROVE PolicyOf(c, n, t) = PolicyOf(b, n, t)
        OBVIOUS
    <2>1. b \in Seq(Entries) /\ c \in Seq(Entries) /\ n \in Nat
        BY <1>1 DEF GoodBook
    <2>2. \A k \in DOMAIN b : k \in DOMAIN c /\ c[k] = b[k]
        BY <1>1
    <2>3. \A k \in DOMAIN c : k <= n => k \in DOMAIN b
        BY <1>1
    <2> QED BY <2>1, <2>2, <2>3, PolicyStays
<1>4. IntentsPinned(c)
    <2> SUFFICES ASSUME NEW k \in DOMAIN c, c[k].kind = "intent"
                 PROVE  c[k].action \in Actions /\ c[k].action = PolicyOf(c, k - 1, c[k].thread)
        BY DEF IntentsPinned
    <2>1. k - 1 \in 0..Len(b)
        BY <1>1
    <2>2. c[k].action \in Actions /\ c[k].action = PolicyOf(b, k - 1, c[k].thread)
        BY <1>1, <1>2 DEF GoodBook, IntentsPinned, Follows
    <2> QED BY <1>3, <2>1, <2>2
<1>5. ResultsFit(c)
    <2> SUFFICES ASSUME NEW k \in DOMAIN c, c[k].kind = "result"
                 PROVE  /\ c[k].reconciles \in DOMAIN c
                        /\ c[c[k].reconciles].kind = "intent"
                        /\ SameDecision(c[k], c[c[k].reconciles])
        BY DEF ResultsFit
    <2>1. /\ c[k].reconciles \in DOMAIN b
          /\ b[c[k].reconciles].kind = "intent"
          /\ SameDecision(c[k], b[c[k].reconciles])
        BY <1>1, <1>2 DEF GoodBook, ResultsFit, Follows
    <2> QED BY <2>1, <1>1
<1>6. OneIntentEach(c)
    BY <1>1, <1>2 DEF GoodBook, OneIntentEach, SameDecision, Follows
<1>7. ASSUME NEW x \in Asking, x.since <= Len(b)
      PROVE  PolicyOf(c, x.since, x.thread) = PolicyOf(b, x.since, x.thread)
    <2>1. x.since \in 0..Len(b)
        BY <1>1, <1>7 DEF Asking
    <2> QED BY <1>3, <2>1
<1>8. ASSUME NEW x \in Asking, x.since <= Len(b), Told(b, x) PROVE Told(c, x)
    <2>1. PICK k \in DOMAIN b :
              /\ b[k].kind = "result" /\ SameDecision(b[k], x)
              /\ b[b[k].reconciles].action = PolicyOf(b, x.since, x.thread)
        BY <1>8 DEF Told
    <2>2. b[k].reconciles \in DOMAIN b
        BY <2>1 DEF GoodBook, ResultsFit
    <2>3. /\ k \in DOMAIN c /\ c[k] = b[k] /\ c[b[k].reconciles] = b[b[k].reconciles]
        BY <2>2, <1>1
    <2> QED BY <1>7, <1>8, <2>1, <2>3 DEF Told
<1>9. ASSUME NEW x \in Asking, x.since <= Len(b), Awaited(b, x) PROVE Awaited(c, x)
    BY <1>1, <1>7, <1>9 DEF Awaited
<1>10. ASSUME NEW x \in Asking, Honest(b, x) PROVE Honest(c, x)
    <2>1. x.since \in Nat /\ x.since <= Len(b)
        BY <1>10 DEF Honest, Asking
    <2>2. x.since <= Len(c)
        BY <1>1, <2>1
    <2> QED BY <1>8, <1>9, <1>10, <2>1, <2>2 DEF Honest
<1> QED BY <1>1, <1>3, <1>4, <1>5, <1>6, <1>10 DEF GoodBook, PoliciesStay

\* asks grows by one ask, of which what it says holds.
LEMMA AskKeeps ==
    ASSUME asks \in Seq(Asking), GoodBook(book'), \A q \in DOMAIN asks : Honest(book', asks[q]),
           NEW x, Honest(book', x), asks' = Append(asks, x)
    PROVE  ApprovalInv'
<1>1. x \in Asking
    BY DEF Honest
<1>2. /\ asks' \in Seq(Asking)
      /\ \A q \in DOMAIN asks' : asks'[q] = x \/ (q \in DOMAIN asks /\ asks'[q] = asks[q])
    BY <1>1
<1> QED BY <1>2 DEF ApprovalInv

LEMMA ApprovalStarts == ApprovalInit => ApprovalInv
<1> SUFFICES ASSUME ApprovalInit PROVE ApprovalInv
    OBVIOUS
<1>1. book = <<>> /\ asks = <<>>
    BY DEF ApprovalInit
<1>2. book \in Seq(Entries) /\ asks \in Seq(Asking) /\ DOMAIN book = {} /\ DOMAIN asks = {}
    BY <1>1
<1>3. IntentsPinned(book) /\ ResultsFit(book) /\ OneIntentEach(book)
    BY <1>2 DEF IntentsPinned, ResultsFit, OneIntentEach
<1> QED BY <1>2, <1>3 DEF ApprovalInv, GoodBook

LEMMA OfferOnKeeps ==
    ASSUME ApprovalInv, NEW a \in Authors, NEW t \in Threads, NEW pin \in Pins,
           NEW at \in 1..LastInstant, OfferOn(a, t, pin, at)
    PROVE  ApprovalInv'
<1> DEFINE e == OfferEntry(a, t, pin, at)
<1>0. at \in Nat
    <2>1. LastInstant \in Nat
        BY ApprovalAssumption DEF ApprovalAssumption
    <2> QED BY <2>1
<1>1. e \in Entries /\ e.kind = "offer"
    BY <1>0 DEF OfferEntry, BlankEntry, Entries, Pins
<1>2. book' = Append(book, e) /\ asks' = asks
    BY DEF OfferOn
<1> HIDE DEF e
<1>3. GoodBook(book') /\ \A x \in Asking : Honest(book, x) => Honest(book', x)
    BY <1>1, <1>2, BookGrows DEF ApprovalInv, Follows
<1>4. \A q \in DOMAIN asks : asks[q] \in Asking
    BY DEF ApprovalInv
<1> QED BY <1>2, <1>3, <1>4 DEF ApprovalInv

LEMMA ApproveKeeps ==
    ASSUME ApprovalInv, NEW n \in Actors, NEW t \in Threads, NEW d \in Decisions,
           NEW c \in Approvers, Approve(n, t, d, c)
    PROVE  ApprovalInv'
<1>1. PICK action \in Actions \cap {PinnedPolicy(t)} :
      \E mine \in {IntentsUnder(n, t, d, action)} :
        IF mine # {} /\ HasReceipt(Min(mine))
        THEN Ask(n, t, d, c, Min(mine), "told") /\ UNCHANGED book
        ELSE IF mine # {} THEN Ask(n, t, d, c, Min(mine), "acting") /\ UNCHANGED book
        ELSE /\ Ask(n, t, d, c, Len(book) + 1, "acting")
             /\ book' = Append(book, IntentEntry(n, t, d, action))
    BY DEF Approve
<1> DEFINE mine == IntentsUnder(n, t, d, action)
           x(i, state) == [actor |-> n, thread |-> t, decision |-> d, by |-> c, intent |-> i,
                           since |-> Len(book), state |-> state]
<1>2. action = PolicyOf(book, Len(book), t) /\ action \in Actions
    BY DEF PinnedPolicy
<1>3. DOMAIN book = 1..Len(book) /\ Len(book) \in Nat /\ GoodBook(book) /\ asks \in Seq(Asking)
    BY DEF ApprovalInv, GoodBook
<1>4. \A k : k \in mine <=> /\ k \in DOMAIN book /\ book[k].kind = "intent"
                            /\ book[k].thread = t /\ book[k].actor = n /\ book[k].decision = d
                            /\ book[k].action = action
    BY DEF IntentsUnder, OfKindIn
<1>5. mine \in SUBSET Nat
    BY <1>3, <1>4
<1>6. mine # {} => Min(mine) \in mine
    BY <1>5, LeastPlace
<1> HIDE DEF mine
<1>7. CASE mine # {} /\ HasReceipt(Min(mine))
    <2>1. asks' = Append(asks, x(Min(mine), "told")) /\ book' = book
        BY <1>1, <1>7 DEF mine, Ask
    <2>2. PICK k \in DOMAIN book : book[k].kind = "result" /\ book[k].reconciles = Min(mine)
        BY <1>7 DEF HasReceipt, OfKindIn
    <2>3. SameDecision(book[k], x(Min(mine), "told"))
          /\ book[book[k].reconciles].action = PolicyOf(book, Len(book), t)
        BY <2>2, <1>2, <1>3, <1>4, <1>6, <1>7 DEF GoodBook, ResultsFit, SameDecision
    <2>4. Told(book, x(Min(mine), "told"))
        BY <2>2, <2>3 DEF Told
    <2>5. Min(mine) \in Nat
        BY <1>5, <1>6, <1>7
    <2>6. \A q \in DOMAIN asks : Honest(book, asks[q])
        BY DEF ApprovalInv
    <2>7. Honest(book, x(Min(mine), "told"))
        BY <1>3, <2>4, <2>5 DEF Honest, Asking
    <2> QED BY <1>3, <2>1, <2>6, <2>7, AskKeeps
<1>8. CASE mine # {} /\ ~HasReceipt(Min(mine))
    <2>1. asks' = Append(asks, x(Min(mine), "acting")) /\ book' = book
        BY <1>1, <1>8 DEF mine, Ask
    <2>2. Awaited(book, x(Min(mine), "acting"))
        BY <1>2, <1>4, <1>6, <1>8 DEF Awaited, SameDecision
    <2>3. Min(mine) \in Nat
        BY <1>5, <1>6, <1>8
    <2>4. \A q \in DOMAIN asks : Honest(book, asks[q])
        BY DEF ApprovalInv
    <2>5. Honest(book, x(Min(mine), "acting"))
        BY <1>3, <2>2, <2>3 DEF Honest, Asking
    <2> QED BY <1>3, <2>1, <2>4, <2>5, AskKeeps
<1>9. CASE mine = {}
    <2> DEFINE e == IntentEntry(n, t, d, action)
    <2>1. asks' = Append(asks, x(Len(book) + 1, "acting")) /\ book' = Append(book, e)
        BY <1>1, <1>9 DEF mine, Ask
    <2>2. /\ e \in Entries /\ e.kind = "intent" /\ e.thread = t /\ e.actor = n
          /\ e.decision = d /\ e.action = action
        BY <1>2, ApprovalAssumption
        DEF IntentEntry, BlankEntry, Entries, Pins, ApprovalAssumption
    <2> HIDE DEF e
    <2>3. \A k \in DOMAIN book :
              book[k].kind = "intent" /\ SameDecision(book[k], e) => book[k].action # e.action
        BY <1>4, <1>9, <2>2 DEF SameDecision
    <2>3a. Follows(book, e)
        BY <1>2, <2>2, <2>3 DEF Follows
    <2>4. /\ GoodBook(book') /\ Len(book') = Len(book) + 1 /\ Len(book') \in DOMAIN book'
          /\ book'[Len(book')] = e /\ \A y \in Asking : Honest(book, y) => Honest(book', y)
          /\ PoliciesStay(book, book')
        BY <1>3, <2>1, <2>2, <2>3a, BookGrows
    <2>5. Awaited(book', x(Len(book) + 1, "acting"))
        <3>1. Len(book) \in 0..Len(book)
            BY <1>3
        <3>2. PolicyOf(book', Len(book), t) = action
            BY <1>2, <2>4, <3>1 DEF PoliciesStay
        <3> QED BY <1>3, <2>2, <2>4, <3>2 DEF Awaited, SameDecision
    <2>6. \A q \in DOMAIN asks : Honest(book', asks[q])
        <3>1. \A q \in DOMAIN asks : asks[q] \in Asking /\ Honest(book, asks[q])
            BY DEF ApprovalInv
        <3> QED BY <2>4, <3>1
    <2>7. Honest(book', x(Len(book) + 1, "acting"))
        BY <1>3, <2>4, <2>5 DEF Honest, Asking
    <2> QED BY <1>3, <2>1, <2>4, <2>6, <2>7, AskKeeps
<1> QED BY <1>7, <1>8, <1>9

LEMMA ReconcileKeeps ==
    ASSUME ApprovalInv, NEW q \in DOMAIN asks, Reconcile(q)
    PROVE  ApprovalInv'
<1>0. PICK e \in {ResultEntry(asks[q].by, asks[q].intent)} : book' = Append(book, e)
    BY DEF Reconcile
<1> DEFINE old == asks[q]
           x == [asks[q] EXCEPT !.state = "told"]
<1>1. /\ old \in Asking /\ old.since <= Len(book) /\ Awaited(book, old) /\ GoodBook(book)
      /\ asks' = [asks EXCEPT ![q] = x] /\ \A r \in DOMAIN asks : Honest(book, asks[r])
    BY DEF Reconcile, ApprovalInv, Honest
<1>2. /\ old.intent \in DOMAIN book /\ book[old.intent] \in Entries
      /\ book[old.intent].kind = "intent" /\ SameDecision(old, book[old.intent])
      /\ book[old.intent].action = PolicyOf(book, old.since, old.thread)
    BY <1>1 DEF Awaited, GoodBook
<1>3. DOMAIN book \subseteq Nat
    BY <1>1 DEF GoodBook
<1>4. /\ e \in Entries /\ e.kind = "result" /\ e.reconciles = old.intent
      /\ SameDecision(e, book[old.intent])
    <2>1. /\ e.kind = "result" /\ e.thread = book[old.intent].thread /\ e.actor = book[old.intent].actor
          /\ e.decision = book[old.intent].decision /\ e.reconciles = old.intent
        BY DEF ResultEntry, BlankEntry
    <2>2. /\ book[old.intent].thread \in Threads /\ book[old.intent].actor \in Authors
          /\ book[old.intent].decision \in Decisions \cup {""} /\ old.by \in Approvers /\ old.intent \in Nat
        BY <1>1, <1>2, <1>3 DEF Entries, Asking
    <2>3. e = [kind |-> "result", thread |-> book[old.intent].thread, pin |-> NoPin, at |-> 0,
               actor |-> book[old.intent].actor, action |-> "",
               decision |-> book[old.intent].decision, by |-> old.by, reconciles |-> old.intent]
        BY DEF ResultEntry, BlankEntry
    <2>4. e \in Entries
        BY <2>2, <2>3 DEF Entries, Pins
    <2> QED BY <2>1, <2>4 DEF SameDecision
<1>5. x \in Asking /\ x.state = "told" /\ x.thread = old.thread /\ x.since = old.since /\ SameDecision(e, x)
    BY <1>1, <1>2, <1>4 DEF Asking, SameDecision
<1>6. /\ asks' \in Seq(Asking) /\ DOMAIN asks' = DOMAIN asks
      /\ \A r \in DOMAIN asks : asks'[r] = IF r = q THEN x ELSE asks[r]
    BY <1>1, <1>5 DEF ApprovalInv
<1> HIDE DEF x, old
<1>7. /\ GoodBook(book') /\ Len(book') = Len(book) + 1 /\ Len(book') \in DOMAIN book' /\ book'[Len(book')] = e
      /\ \A k \in DOMAIN book : k \in DOMAIN book' /\ book'[k] = book[k]
      /\ PoliciesStay(book, book')
      /\ \A y \in Asking : Honest(book, y) => Honest(book', y)
    <2>1. Follows(book, e)
        BY <1>2, <1>4 DEF Follows
    <2>2. GoodBook(book) /\ e \in Entries /\ book' = Append(book, e)
        BY <1>0, <1>1, <1>4
    <2>3. /\ GoodBook(book') /\ Len(book') = Len(book) + 1 /\ Len(book') \in DOMAIN book' /\ book'[Len(book')] = e
          /\ PoliciesStay(book, book') /\ \A y \in Asking : Honest(book, y) => Honest(book', y)
        BY <2>1, <2>2, BookGrows
    <2>4. \A k \in DOMAIN book : k \in DOMAIN book' /\ book'[k] = book[k]
        BY <2>2 DEF GoodBook
    <2> QED BY <2>3, <2>4
<1>8. book'[old.intent].action = PolicyOf(book', x.since, x.thread)
    <2>1. Len(book) \in Nat /\ old.since \in Nat
        BY <1>1 DEF GoodBook, Asking
    <2>2. old.since \in 0..Len(book)
        BY <1>1, <2>1
    <2> QED BY <1>2, <1>5, <1>7, <2>2 DEF PoliciesStay
<1>9. Honest(book', x)
    <2>1. Len(book) \in Nat /\ old.since \in Nat
        BY <1>1 DEF GoodBook, Asking
    <2>2. x.since <= Len(book')
        BY <1>1, <1>5, <1>7, <2>1
    <2>3. Told(book', x)
        BY <1>4, <1>5, <1>7, <1>8 DEF Told
    <2> QED BY <1>5, <2>2, <2>3 DEF Honest
<1>10. \A r \in DOMAIN asks' : Honest(book', asks'[r])
    BY <1>1, <1>6, <1>7, <1>9 DEF ApprovalInv
<1> QED BY <1>6, <1>7, <1>10 DEF ApprovalInv

LEMMA LostKeeps ==
    ASSUME ApprovalInv, CallersLost
    PROVE  ApprovalInv'
<1>1. /\ book' = book
      /\ asks' = [q \in DOMAIN asks |->
                    IF asks[q].state = "acting" THEN [asks[q] EXCEPT !.state = "lost"] ELSE asks[q]]
    BY DEF CallersLost
<1>2. \A q \in DOMAIN asks : asks[q] \in Asking /\ Honest(book, asks[q])
    BY DEF ApprovalInv
<1>3. /\ DOMAIN asks' = DOMAIN asks
      /\ \A q \in DOMAIN asks : /\ asks'[q] \in Asking /\ asks'[q].since = asks[q].since
                                /\ \/ asks'[q] = asks[q]
                                   \/ asks'[q].state = "lost"
    BY <1>1, <1>2 DEF Asking
<1>4. DOMAIN asks = 1..Len(asks) /\ Len(asks) \in Nat
    BY DEF ApprovalInv
<1>5. asks' \in [1..Len(asks) -> Asking]
    BY <1>1, <1>3, <1>4
<1>6. asks' \in Seq(Asking)
    BY <1>4, <1>5, SeqDef
<1>7. \A q \in DOMAIN asks' : Honest(book, asks'[q])
    BY <1>2, <1>3 DEF Honest
<1> QED BY <1>1, <1>6, <1>7 DEF ApprovalInv

\* Whatever is asked, by whomever, whatever the clock says and wherever the process is
\* killed: an agent has one intent for a decision under one policy (instance/external.ts
\* actuate), and who is told a decision is approved is told what the record says
\* (ports/approval.ts).
THEOREM DecisionsStand == ApprovalSpec => []DecidedOnce
<1>1. ApprovalInv /\ [ApprovalNext]_approvalVars => ApprovalInv'
    <2> SUFFICES ASSUME ApprovalInv, [ApprovalNext]_approvalVars PROVE ApprovalInv'
        OBVIOUS
    <2>1. CASE UNCHANGED approvalVars
        BY <2>1 DEF approvalVars, ApprovalInv
    <2> QED BY <2>1, OfferOnKeeps, ApproveKeeps, ReconcileKeeps, LostKeeps DEF ApprovalNext
<1>2. ApprovalInv => DecidedOnce
    <2> SUFFICES ASSUME ApprovalInv PROVE DecidedOnce
        OBVIOUS
    <2>1. GoodBook(book) /\ book \in Seq(Entries) /\ DOMAIN book = 1..Len(book) /\ Len(book) \in Nat
        BY DEF ApprovalInv, GoodBook
    <2>2. ASSUME NEW k \in DOMAIN book, NEW i \in 1..(k - 1),
                 book[i].kind = "intent", book[k].kind = "intent", SameDecision(book[i], book[k])
          PROVE  /\ book[i].action # book[k].action
                 /\ \E j \in PinsOf(book, k, book[k].thread) :
                       j > i /\ \A m \in PinsOf(book, j - 1, book[k].thread) : Sorts(book, j, m)
        <3> DEFINE t == book[k].thread
        <3>1. i \in DOMAIN book /\ i \in Nat /\ k \in Nat /\ i < k /\ i - 1 \in Nat /\ k - 1 \in Nat /\ i - 1 <= k - 1
            BY <2>1
        <3>2. /\ book[i].action \in Actions /\ book[i].action = PolicyOf(book, i - 1, t)
              /\ book[k].action = PolicyOf(book, k - 1, t)
            BY <2>1, <2>2, <3>1 DEF GoodBook, IntentsPinned, SameDecision
        <3>3. book[i].action # book[k].action
            BY <2>1, <2>2, <3>1 DEF GoodBook, OneIntentEach
        <3>4. PinsOf(book, i - 1, t) # {}
            BY <3>2, ApprovalAssumption DEF PolicyOf, NoPin, ApprovalAssumption
        <3> HIDE DEF t
        <3>5. PICK j \in PinsOf(book, k - 1, t) :
                  j > i - 1 /\ \A m \in PinsOf(book, j - 1, t) : Sorts(book, j, m)
            BY <2>1, <3>1, <3>2, <3>3, <3>4, PolicyMoves
        <3>6. j \in PinsOf(book, k, t) /\ j \in Nat /\ book[j].kind = "offer"
            BY <2>1, <3>1, <3>5 DEF PinsOf
        <3>7. j > i
            BY <2>2, <3>1, <3>5, <3>6
        <3> QED BY <3>3, <3>5, <3>6, <3>7 DEF t
    <2>3. OneIntentPerDecision
        BY <2>2 DEF OneIntentPerDecision, SameDecision
    <2>4. ToldIsOnRecord
        BY DEF ApprovalInv, Honest, Told, SameDecision, ToldIsOnRecord
    <2> QED BY <2>3, <2>4 DEF DecidedOnce
<1> QED BY <1>1, <1>2, ApprovalStarts, PTL DEF ApprovalSpec

------------------------------------------------------------------------------
(***************************************************************************)
(* Settings.  CharterInv says what each command, at each of its steps, has *)
(* read, has open and has done.                                            *)
(***************************************************************************)
\* What a command has read, at each step of it.
Steps == {"off", "load", "crew", "open", "mint", "up", "validate", "probe", "fetch"}
Holding == {"mint", "up", "fetch"}      \* those that have the store open
Crewed == {"open", "mint", "up"}        \* those that settled on a crew
Files == {s.agents : s \in Versions}
Stages ==
    [at : Steps, cmd : {"none", "serve", "export", "check"}, read : Versions \cup {Nothing}, file : Files \cup {Nothing}]
StageFit(x) ==
    /\ x.at \notin {"off", "load"} => x.read \in Versions /\ ~LoadThrows(x.read)
    /\ x.at \in {"open", "mint", "up", "probe", "fetch"} => x.file \in Files
    /\ x.at \in Crewed => (x.read.named => ~Flawed(x.file))
Staged ==
    /\ settings \in Versions
    /\ stage \in [Windows -> Stages]
    /\ \A w \in Windows : StageFit(stage[w])

\* One command at a time has the store, and only after it had the instance's key.
Locked ==
    /\ opened \in Windows \cup {"nobody"}
    /\ \A w \in Windows : stage[w].at \in Holding <=> opened = w
    /\ opened # "nobody" => InstanceKey \in minted

Admissions == [act : {"Vouch", "Disown"}, agent : STRING]
Admitted ==
    /\ admissions \in Seq(Admissions)
    /\ \A i \in DOMAIN admissions : admissions[i].agent \in minted /\ InstanceKey \in minted

\* What an agent did, it did as the crew and the policy then had it.
DeedFit(d) ==
    /\ d.read \in Versions
    /\ d.read.named => ~Flawed(d.file)
    /\ d.what = "Result" =>
           /\ d.by \in DOMAIN Hired(d.read, d.file)
           /\ d.made \in MadeBy(Hired(d.read, d.file)[d.by])
    /\ d.what = "Act" => d.made \in AssemblePolicy(d.read).controllers
Signatures == STRING \cup {"stub", "unsaid"}     \* the provers do not know a literal for a string
Deeds == [by : STRING, what : {"Result", "Act"}, made : Signatures, read : Versions, file : Files]
Done == deeds \in Seq(Deeds) /\ \A i \in DOMAIN deeds : DeedFit(deeds[i])

BundleFit ==
    bundle # Nothing =>
        /\ bundle.policy = AssemblePolicy(bundle.read)
        /\ \A d \in bundle.deeds : DeedFit(d)
        /\ bundle.crew \subseteq bundle.roster
        /\ bundle.intact => bundle.roster = bundle.crew

\* What was cleared loads, and what was refused was refused for what it says.
WhatWasRead(x) == \E s, f \in Versions : x = [s EXCEPT !.agents = f.agents]
VerdictsFit ==
    /\ cleared # Nothing =>
           WhatWasRead(cleared) /\ ~LoadThrows(cleared) /\ AgentsCheck(cleared, cleared.agents)
    /\ refusal # Nothing =>
           /\ Threw(refusal)
           /\ refusal.why = "settings" => LoadThrows(refusal.of)
           /\ refusal.why = "agents" => ~AgentsCheck(refusal.of, refusal.of.agents)

\* Who answers has a crew with keys.
Keyed ==
    \A w \in Windows : stage[w].at = "up" => DOMAIN Hired(stage[w].read, stage[w].file) \subseteq minted

\* Until the operator edits, every command read the settings as they are.
Unedited ==
    /\ edits \in Nat
    /\ edits = 0 =>
           /\ \A w \in Windows :
                  /\ stage[w].at \notin {"off", "load"} => stage[w].read = settings
                  /\ stage[w].at \in Crewed => stage[w].file = settings.agents
           /\ \A i \in DOMAIN admissions :
                  admissions[i].agent \in DOMAIN Hired(settings, settings.agents)

CharterInv ==
    /\ Staged /\ Locked /\ Admitted /\ VouchedOnce /\ Done /\ BundleFit /\ VerdictsFit /\ Unedited
    /\ Keyed

------------------------------------------------------------------------------
(* Of the settings *)

LEMMA SettingsAreSomething ==
    /\ Nothing \notin Settings
    /\ \A x : WhatWasRead(x) => x \in Settings
<1>1. Nothing \notin Settings
    <2> SUFFICES ASSUME Nothing \in Settings PROVE FALSE
        OBVIOUS
    <2>1. DOMAIN Nothing = {"none"}
        BY DEF Nothing
    <2>2. "named" \in DOMAIN Nothing
        BY DEF Settings
    <2> QED BY <2>1, <2>2
<1>2. ASSUME NEW x, WhatWasRead(x) PROVE x \in Settings
    <2>1. PICK s \in Settings, f \in Settings : x = [s EXCEPT !.agents = f.agents]
        BY <1>2, CharterAssumption DEF WhatWasRead, CharterAssumption
    <2>2. f.agents \in AgentsFiles
        BY DEF Settings
    <2> QED BY <2>1, <2>2 DEF Settings
<1> QED BY <1>1, <1>2

\* The file of agents is no part of what loadConfig throws on.
LEMMA AsReadKeeps ==
    ASSUME NEW s \in Versions, NEW file \in Files, NEW x, x = [s EXCEPT !.agents = file]
    PROVE  /\ WhatWasRead(x) /\ x.agents = file
           /\ LoadThrows(x) <=> LoadThrows(s)
           /\ x.named = s.named
<1>1. s \in Settings
    BY CharterAssumption DEF CharterAssumption
<1>2. x.agents = file /\ x.wrong = s.wrong /\ x.policy = s.policy /\ x.named = s.named
    BY <1>1 DEF Settings
<1>3. WhatWasRead(x)
    BY DEF WhatWasRead, Files
<1> QED BY <1>2, <1>3 DEF LoadThrows

\* A crew has names, and what its agents sign as made by is a word.
LEMMA CrewNamed ==
    ASSUME NEW s \in Versions, NEW file \in Files
    PROVE  DOMAIN Hired(s, file) \subseteq STRING
<1>1. PICK f \in Versions : file = f.agents
    BY DEF Files
<1>2. file \in AgentsFiles
    BY <1>1, CharterAssumption DEF CharterAssumption, Settings
<1>3. DOMAIN Registered(file.entries) \subseteq STRING
    <2> DEFINE Entry == [name : STRING, brain : STRING, persona : BOOLEAN, sound : BOOLEAN]
               es == file.entries
    <2>1. es \in Seq(Entry)
        BY <1>2 DEF AgentsFiles
    <2> HIDE DEF es
    <2>2. \A i \in DOMAIN es : es[i].name \in STRING
        <3> HIDE DEF Entry
        <3>1. \A i \in DOMAIN es : es[i] \in Entry
            BY <2>1
        <3>2. \A e \in Entry : e.name \in STRING
            BY DEF Entry
        <3> QED BY <3>1, <3>2
    <2> QED BY <2>2 DEF Registered, es
<1>4. DOMAIN DemoCrew(s) \subseteq STRING
    BY CharterAssumption DEF CharterAssumption, DemoCrew
<1> QED BY <1>3, <1>4 DEF Hired

\* An agent of a file has the brain of one of its entries.
LEMMA BrainOfAnEntry ==
    ASSUME NEW es, NEW n \in DOMAIN Registered(es)
    PROVE  \E e \in Range(es) : Registered(es)[n] = e.brain
<1>1. PICK i \in DOMAIN es : es[i].name = n
    BY DEF Registered
<1>2. \E e \in Range(es) : e.name = n
    BY <1>1 DEF Range
<1>3. (CHOOSE e \in Range(es) : e.name = n) \in Range(es)
    BY <1>2
<1> QED BY <1>3 DEF Registered

\* "What Results actually carry": what the crew of some settings makes with the model
\* it asked for, the policy derived from them lists.
LEMMA PolicyListsWhatIsMade ==
    ASSUME NEW s, s.named => ~Flawed(s.agents), s.policy.brains = Unstated,
           NEW n, n \in DOMAIN Hired(s, s.agents), NEW made, made \in MadeBy(Hired(s, s.agents)[n]),
           made # "unsaid", Hired(s, s.agents)[n] = "llm" => made = s.model
    PROVE  made \in AssemblePolicy(s).brains
<1> DEFINE kind == Hired(s, s.agents)[n]
<1>1. kind \in {"llm", "stub"} /\ (kind = "stub" => made = "stub")
    BY DEF MadeBy
<1>2. AssemblePolicy(s).brains = DefaultBrains(s)
    BY DEF AssemblePolicy
<1>3. CASE s.named
    <2>1. PICK e \in Range(s.agents.entries) : kind = e.brain
        BY <1>3, BrainOfAnEntry DEF Hired
    <2>2. DefaultBrains(s) = DerivedBrains(s)
        BY <1>3 DEF DefaultBrains
    <2>3. kind \in {b.brain : b \in Range(s.agents.entries)}
        BY <2>1
    <2> QED BY <1>1, <1>2, <2>2, <2>3 DEF DerivedBrains
<1>4. CASE ~s.named
    <2>1. kind = IF s.brain = "llm" THEN "llm" ELSE "silent"
        BY <1>4 DEF Hired, DemoCrew
    <2>2. s.brain = "llm" /\ kind = "llm"
        BY <1>1, <2>1
    <2>3. DefaultBrains(s) = {s.model}
        BY <1>4, <2>2 DEF DefaultBrains
    <2> QED BY <1>2, <2>2, <2>3
<1> QED BY <1>3, <1>4

------------------------------------------------------------------------------
(* What the invariant says *)

LEMMA CharterInvHolds == CharterInv => CharterHolds
<1> SUFFICES ASSUME CharterInv PROVE CharterHolds
    OBVIOUS
<1>1. CharterTypeOK
    BY DEF CharterInv, Staged, Stages, Steps, StageFit, Locked, Holding, Admitted, VerdictsFit,
           CharterTypeOK
<1>2. ReplayBlamesEdits
    <2> SUFFICES ASSUME bundle # Nothing, NEW d \in Unlisted(bundle), ~Excused(d, bundle) PROVE FALSE
        BY DEF ReplayBlamesEdits, CharterInv, BundleFit
    <2>1. /\ d \in bundle.deeds /\ DeedFit(d) /\ d.read = bundle.read
          /\ d.read \in Versions /\ bundle.policy = AssemblePolicy(d.read) /\ (d.read.named => d.file = d.read.agents)
        BY DEF CharterInv, BundleFit, DeedFit, Unlisted, Excused
    <2>2. CASE d.what = "Act"
        BY <2>1, <2>2 DEF Unlisted, DeedFit
    <2>3. CASE d.what = "Result"
        <3>1. /\ d.made # "unsaid" /\ d.made \notin AssemblePolicy(d.read).brains
              /\ d.read.policy.brains = Unstated
              /\ Hired(d.read, d.file)[d.by] = "llm" => d.made = d.read.model
            BY <2>1, <2>3 DEF Unlisted, Excused
        <3>2. Hired(d.read, d.file) = Hired(d.read, d.read.agents)
            BY <2>1 DEF Hired
        <3>3. /\ d.by \in DOMAIN Hired(d.read, d.read.agents)
              /\ d.made \in MadeBy(Hired(d.read, d.read.agents)[d.by])
              /\ d.read.named => ~Flawed(d.read.agents)
            BY <2>1, <2>3, <3>2 DEF DeedFit
        <3>4. Hired(d.read, d.read.agents)[d.by] = "llm" => d.made = d.read.model
            BY <3>1, <3>2
        <3> QED BY <3>1, <3>3, <3>4, PolicyListsWhatIsMade
    <2> QED BY <2>2, <2>3 DEF Unlisted
<1>3. ClearedSettingsBoot
    <2> SUFFICES ASSUME refusal # Nothing, refusal.of = cleared
                 PROVE  refusal.why \in {"endpoint", "locked"}
        BY DEF ClearedSettingsBoot
    <2>1. Threw(refusal)
        BY DEF CharterInv, VerdictsFit
    <2>2. cleared # Nothing
        BY <2>1, SettingsAreSomething DEF Threw, WhatWasRead
    <2>3. ~LoadThrows(cleared) /\ AgentsCheck(cleared, cleared.agents)
        BY <2>2 DEF CharterInv, VerdictsFit
    <2>4. refusal.why # "settings" /\ refusal.why # "agents"
        BY <2>3 DEF CharterInv, VerdictsFit
    <2> QED BY <2>1, <2>4 DEF Threw
<1> QED BY <1>1, <1>2, <1>3 DEF CharterInv, CharterHolds

LEMMA CharterStarts == CharterInit => CharterInv
<1> SUFFICES ASSUME CharterInit PROVE CharterInv
    OBVIOUS
<1>1. \A w \in Windows : stage[w].at = "off"
    BY DEF CharterInit, Idle
<1>2. Staged
    <2>1. Idle \in Stages
        BY DEF Idle, Stages, Steps
    <2> QED BY <1>1, <2>1 DEF CharterInit, Staged, StageFit, Crewed
<1>3. Locked
    BY <1>1 DEF CharterInit, Locked, Holding, Windows
<1>4. Admitted /\ VouchedOnce
    BY DEF CharterInit, Admitted, VouchedOnce
<1>5. Done
    BY DEF CharterInit, Done
<1>6. Unedited /\ Keyed
    BY <1>1 DEF CharterInit, Unedited, Crewed, Keyed
<1> QED BY <1>2, <1>3, <1>4, <1>5, <1>6 DEF CharterInit, CharterInv, BundleFit, VerdictsFit

------------------------------------------------------------------------------
(* A command moves from one step to the next *)

LEMMA MoveKeeps ==
    ASSUME CharterInv, NEW w \in Windows, NEW x \in Stages, StageFit(x),
           stage' = [stage EXCEPT ![w] = x], settings' = settings, edits' = edits,
           opened' = IF x.at \in Holding THEN w ELSE IF opened = w THEN "nobody" ELSE opened,
           x.at \in Holding => opened \in {w, "nobody"} /\ InstanceKey \in minted',
           minted \subseteq minted', admissions' = admissions,
           x.at = "up" => DOMAIN Hired(x.read, x.file) \subseteq minted',
           edits = 0 => /\ x.at \notin {"off", "load"} => x.read = settings
                        /\ x.at \in Crewed => x.file = settings.agents
    PROVE  Staged' /\ Locked' /\ Admitted' /\ VouchedOnce' /\ Unedited' /\ Keyed'
<1>1. /\ stage \in [Windows -> Stages] /\ stage' \in [Windows -> Stages] /\ stage'[w] = x
      /\ \A v \in Windows : v # w => stage'[v] = stage[v]
    BY DEF CharterInv, Staged
<1>2. Staged'
    BY <1>1 DEF CharterInv, Staged
<1>3. Locked'
    <2>1. opened' \in Windows \cup {"nobody"} /\ w # "nobody"
        BY DEF CharterInv, Locked, Windows
    <2>2. \A v \in Windows : stage'[v].at \in Holding <=> opened' = v
        <3> SUFFICES ASSUME NEW v \in Windows PROVE stage'[v].at \in Holding <=> opened' = v
            OBVIOUS
        <3>1. stage[v].at \in Holding <=> opened = v
            BY DEF CharterInv, Locked
        <3>2. v # "nobody" /\ w # "nobody"
            BY DEF Windows
        <3>3. CASE v = w
            BY <1>1, <3>1, <3>2, <3>3
        <3>4. CASE v # w
            BY <1>1, <3>1, <3>2, <3>4
        <3> QED BY <3>3, <3>4
    <2>3. opened' # "nobody" => InstanceKey \in minted'
        BY DEF CharterInv, Locked
    <2> QED BY <2>1, <2>2, <2>3 DEF Locked
<1>4. Admitted' /\ VouchedOnce'
    BY DEF CharterInv, Admitted, VouchedOnce
<1>5. Unedited'
    BY <1>1 DEF CharterInv, Unedited
<1>6. Keyed'
    BY <1>1 DEF CharterInv, Keyed
<1> QED BY <1>2, <1>3, <1>4, <1>5, <1>6

\* Off, or at the door: nothing is read yet.
LEMMA IdleFits ==
    /\ Idle \in Stages /\ StageFit(Idle) /\ Idle.at = "off"
    /\ \A c \in {"serve", "export", "check"} : LET x == [Idle EXCEPT !.at = "load", !.cmd = c]
         IN  x \in Stages /\ StageFit(x) /\ x.at = "load"
BY DEF Idle, Stages, Steps, StageFit, Crewed

LEMMA EditKeeps ==
    ASSUME CharterInv, Edit PROVE CharterInv'
<1>1. /\ settings' \in Versions /\ edits' = edits + 1
      /\ UNCHANGED <<stage, opened, minted, admissions, deeds, bundle, cleared, refusal>>
    BY DEF Edit
<1>2. Staged' /\ Locked' /\ Admitted' /\ VouchedOnce'
    BY <1>1 DEF CharterInv, Staged, Locked, Admitted, VouchedOnce
<1>3. Done' /\ BundleFit' /\ VerdictsFit'
    BY <1>1 DEF CharterInv, Done, BundleFit, VerdictsFit
<1>4. Unedited' /\ Keyed'
    BY <1>1 DEF CharterInv, Unedited, Keyed
<1> QED BY <1>2, <1>3, <1>4 DEF CharterInv

LEMMA BeginKeeps ==
    ASSUME CharterInv, NEW w \in Windows, Begin(w) PROVE CharterInv'
<1>1. PICK c \in {"serve", "export", "check"} :
          stage' = [stage EXCEPT ![w] = [Idle EXCEPT !.at = "load", !.cmd = c]]
    BY DEF Begin
<1>2. /\ UNCHANGED <<settings, opened, minted, admissions, deeds, bundle, cleared, refusal, edits>>
      /\ opened # w
    BY DEF Begin, CharterInv, Locked, Holding
<1>3. PICK x \in Stages : StageFit(x) /\ x.at = "load" /\ stage' = [stage EXCEPT ![w] = x]
    BY <1>1, IdleFits
<1>4. Staged' /\ Locked' /\ Admitted' /\ VouchedOnce' /\ Unedited' /\ Keyed'
    BY <1>2, <1>3, MoveKeeps DEF Holding, Crewed
<1> QED BY <1>2, <1>4 DEF CharterInv, Done, BundleFit, VerdictsFit

\* A command that throws before it works leaves what it threw for.
LEMMA ThrowsKeeps ==
    ASSUME CharterInv, NEW w \in Windows, stage[w].at \notin Holding,
           NEW why \in {"settings", "agents", "endpoint", "locked"}, NEW of, WhatWasRead(of),
           Throws(w, why, of), why = "settings" => LoadThrows(of),
           why = "agents" => ~AgentsCheck(of, of.agents),
           UNCHANGED <<settings, opened, minted, admissions, deeds, bundle, cleared, edits>>
    PROVE  CharterInv'
<1>1. stage' = [stage EXCEPT ![w] = Idle] /\ opened # w
    BY DEF Throws, CharterInv, Locked
<1>2. Staged' /\ Locked' /\ Admitted' /\ VouchedOnce' /\ Unedited' /\ Keyed'
    BY <1>1, IdleFits, MoveKeeps DEF Holding, Crewed
<1>3. refusal' = [why |-> why, of |-> of]
    BY DEF Throws
<1>4. VerdictsFit'
    BY <1>3 DEF CharterInv, VerdictsFit, Threw, WhatWasRead
<1> QED BY <1>2, <1>4 DEF CharterInv, Done, BundleFit

LEMMA LoadConfigKeeps ==
    ASSUME CharterInv, NEW w \in Windows, LoadConfig(w) PROVE CharterInv'
<1>1. /\ stage[w].at = "load" /\ settings \in Versions /\ stage[w] \in Stages
      /\ UNCHANGED <<settings, opened, minted, admissions, deeds, bundle, cleared, edits>>
      /\ stage[w].at \notin Holding /\ opened # w
    BY DEF LoadConfig, CharterInv, Staged, Locked, Holding
<1>2. CASE LoadThrows(settings) /\ Throws(w, "settings", settings)
    <2>1. WhatWasRead(settings)
        <3>1. settings \in Settings
            BY <1>1, CharterAssumption DEF CharterAssumption
        <3>2. settings = [settings EXCEPT !.agents = settings.agents]
            BY <3>1 DEF Settings
        <3> QED BY <1>1, <3>2 DEF WhatWasRead
    <2> QED BY <1>1, <1>2, <2>1, ThrowsKeeps
<1>3. CASE /\ ~LoadThrows(settings) /\ UNCHANGED refusal
           /\ stage' = [stage EXCEPT ![w].read = settings,
                                     ![w].at = IF stage[w].cmd = "check" THEN "validate" ELSE "crew"]
    <2> DEFINE x == [stage[w] EXCEPT !.read = settings,
                                     !.at = IF stage[w].cmd = "check" THEN "validate" ELSE "crew"]
    <2>1. /\ x \in Stages /\ x.read = settings /\ x.at \in {"validate", "crew"}
          /\ stage' = [stage EXCEPT ![w] = x]
        BY <1>1, <1>3 DEF Stages, Steps, CharterInv, Staged
    <2>2. StageFit(x)
        BY <1>1, <1>3, <2>1 DEF StageFit, Crewed
    <2> HIDE DEF x
    <2>3. Staged' /\ Locked' /\ Admitted' /\ VouchedOnce' /\ Unedited' /\ Keyed'
        BY <1>1, <2>1, <2>2, MoveKeeps DEF Holding, Crewed
    <2> QED BY <1>1, <1>3, <2>3 DEF CharterInv, Done, BundleFit, VerdictsFit
<1> QED BY <1>2, <1>3 DEF LoadConfig

LEMMA CollectKeeps ==
    ASSUME CharterInv, NEW w \in Windows, Collect(w) PROVE CharterInv'
<1>1. /\ stage[w].at = "crew" /\ settings \in Versions /\ stage[w] \in Stages
      /\ UNCHANGED <<settings, opened, minted, admissions, deeds, bundle, cleared, edits>>
      /\ stage[w].at \notin Holding /\ opened # w
      /\ stage[w].read \in Versions /\ ~LoadThrows(stage[w].read) /\ settings.agents \in Files
    BY DEF Collect, CharterInv, Staged, StageFit, Locked, Holding, Files
<1>2. /\ WhatWasRead(AsRead(w, settings.agents)) /\ AsRead(w, settings.agents).agents = settings.agents
      /\ AsRead(w, settings.agents).named = stage[w].read.named
    BY <1>1, AsReadKeeps DEF AsRead
<1>3. CASE /\ stage[w].read.named /\ Flawed(settings.agents)
           /\ Throws(w, "agents", AsRead(w, settings.agents))
    BY <1>1, <1>2, <1>3, ThrowsKeeps DEF AgentsCheck
<1>4. CASE Throws(w, "endpoint", AsRead(w, settings.agents))
    BY <1>1, <1>2, <1>4, ThrowsKeeps
<1>5. CASE /\ stage[w].read.named => ~Flawed(settings.agents)
           /\ stage' = [stage EXCEPT ![w].file = settings.agents, ![w].at = "open"]
           /\ UNCHANGED refusal
    <2> DEFINE x == [stage[w] EXCEPT !.file = settings.agents, !.at = "open"]
    <2>1. /\ x \in Stages /\ x.file = settings.agents /\ x.at = "open" /\ x.read = stage[w].read
          /\ stage' = [stage EXCEPT ![w] = x]
        BY <1>1, <1>5 DEF Stages, Steps, CharterInv, Staged
    <2>2. StageFit(x)
        BY <1>1, <1>5, <2>1 DEF StageFit, Crewed
    <2>3. edits = 0 => x.read = settings
        BY <1>1, <2>1 DEF CharterInv, Unedited
    <2> HIDE DEF x
    <2>4. Staged' /\ Locked' /\ Admitted' /\ VouchedOnce' /\ Unedited' /\ Keyed'
        BY <1>1, <2>1, <2>2, <2>3, MoveKeeps DEF Holding, Crewed
    <2> QED BY <1>1, <1>5, <2>4 DEF CharterInv, Done, BundleFit, VerdictsFit
<1> QED BY <1>3, <1>4, <1>5 DEF Collect

LEMMA OpenKeeps ==
    ASSUME CharterInv, NEW w \in Windows, OpenInstance(w) PROVE CharterInv'
<1>1. /\ stage[w].at = "open" /\ stage[w] \in Stages /\ StageFit(stage[w])
      /\ UNCHANGED <<settings, admissions, deeds, bundle, cleared, edits>>
      /\ stage[w].at \notin Holding /\ opened # w
      /\ stage[w].read \in Versions /\ stage[w].file \in Files
    BY DEF OpenInstance, CharterInv, Staged, StageFit, Locked, Holding
<1>2. CASE Throws(w, "locked", AsRead(w, stage[w].file)) /\ UNCHANGED <<opened, minted>>
    <2>1. WhatWasRead(AsRead(w, stage[w].file))
        BY <1>1, AsReadKeeps DEF AsRead
    <2> QED BY <1>1, <1>2, <2>1, ThrowsKeeps
<1>3. CASE /\ opened = "nobody" /\ opened' = w /\ minted' = minted \cup {InstanceKey}
           /\ stage' = [stage EXCEPT ![w].at = "mint"] /\ UNCHANGED refusal
    <2> DEFINE x == [stage[w] EXCEPT !.at = "mint"]
    <2>1. /\ x \in Stages /\ x.file = stage[w].file /\ x.at = "mint" /\ x.read = stage[w].read
          /\ stage' = [stage EXCEPT ![w] = x]
        BY <1>1, <1>3 DEF Stages, Steps, CharterInv, Staged
    <2>2. StageFit(x)
        BY <1>1, <2>1 DEF StageFit, Crewed
    <2>3. edits = 0 => x.read = settings /\ x.file = settings.agents
        BY <1>1, <2>1 DEF CharterInv, Unedited, Crewed
    <2> HIDE DEF x
    <2>4. Staged' /\ Locked' /\ Admitted' /\ VouchedOnce' /\ Unedited' /\ Keyed'
        BY <1>1, <1>3, <2>1, <2>2, <2>3, MoveKeeps DEF Holding, Crewed
    <2> QED BY <1>1, <1>3, <2>4 DEF CharterInv, Done, BundleFit, VerdictsFit
<1> QED BY <1>2, <1>3 DEF OpenInstance

LEMMA MintKeeps ==
    ASSUME CharterInv, NEW w \in Windows, MintKey(w) PROVE CharterInv'
<1>1. /\ minted \subseteq minted'
      /\ UNCHANGED <<settings, stage, opened, admissions, deeds, bundle, cleared, refusal, edits>>
    BY DEF MintKey
<1>2. Staged' /\ Locked' /\ Admitted' /\ VouchedOnce'
    BY <1>1 DEF CharterInv, Staged, Locked, Admitted, VouchedOnce
<1>3. Done' /\ BundleFit' /\ VerdictsFit' /\ Unedited' /\ Keyed'
    BY <1>1 DEF CharterInv, Done, BundleFit, VerdictsFit, Unedited, Keyed
<1> QED BY <1>2, <1>3 DEF CharterInv

------------------------------------------------------------------------------
(* The roster *)

\* Who is not on the roster is not the last thing said of it a Vouch.
LEMMA OffTheRoster ==
    ASSUME admissions \in Seq(Admissions), NEW n, n \notin Roster,
           NEW i \in DOMAIN admissions, admissions[i] = Vouch(n)
    PROVE  \E k \in (i + 1)..Len(admissions) : admissions[k] = Disown(n)
<1> DEFINE About == {k \in DOMAIN admissions : admissions[k].agent = n}
<1>1. DOMAIN admissions = 1..Len(admissions) /\ Len(admissions) \in Nat
    OBVIOUS
<1>2. i \in About /\ About \in SUBSET (1..Len(admissions))
    BY <1>1 DEF Vouch
<1>3. PICK k \in About : \A j \in About : j <= k
    BY <1>1, <1>2, GreatestPlace
<1>4. \A j \in DOMAIN admissions : j > k => admissions[j].agent # n
    <2> SUFFICES ASSUME NEW j \in DOMAIN admissions, j > k, admissions[j].agent = n PROVE FALSE
        OBVIOUS
    <2>1. j <= k /\ j \in Nat /\ k \in Nat
        BY <1>1, <1>3
    <2> QED BY <2>1
<1>5. k \in DOMAIN admissions /\ admissions[k].agent = n /\ admissions[k] \in Admissions
    BY <1>3
<1>6. admissions[k].act # "Vouch"
    BY <1>4, <1>5 DEF Roster
<1>7. admissions[k] = Disown(n)
    BY <1>5, <1>6 DEF Admissions, Disown
<1>8. k # i
    BY <1>6 DEF Vouch
<1>9. k \in (i + 1)..Len(admissions)
    <2>1. i <= k /\ k \in 1..Len(admissions) /\ i \in Nat
        BY <1>1, <1>2, <1>3
    <2> QED BY <1>1, <1>8, <2>1
<1> QED BY <1>7, <1>9

\* One more Vouch or Disown of an agent with a key.
LEMMA AdmissionKeeps ==
    ASSUME CharterInv, NEW n \in STRING, n \in minted, InstanceKey \in minted,
           NEW e \in {Vouch(n), Disown(n)}, e = Vouch(n) => n \notin Roster,
           admissions' = Append(admissions, e),
           edits = 0 => n \in DOMAIN Hired(settings, settings.agents),
           UNCHANGED <<settings, stage, opened, minted, deeds, bundle, cleared, refusal, edits>>
    PROVE  CharterInv'
<1>1. e \in Admissions /\ e.agent = n /\ admissions \in Seq(Admissions)
    BY DEF Vouch, Disown, Admissions, CharterInv, Admitted
<1>2. /\ DOMAIN admissions = 1..Len(admissions) /\ DOMAIN admissions' = 1..(Len(admissions) + 1)
      /\ Len(admissions) \in Nat /\ admissions' \in Seq(Admissions)
      /\ admissions'[Len(admissions) + 1] = e
      /\ \A i \in DOMAIN admissions : admissions'[i] = admissions[i]
    BY <1>1
<1>3. Admitted'
    BY <1>1, <1>2 DEF CharterInv, Admitted
<1>4. VouchedOnce'
    <2> SUFFICES ASSUME NEW i \in DOMAIN admissions', NEW j \in DOMAIN admissions', i < j,
                        admissions'[i] = admissions'[j], admissions'[i].act = "Vouch"
                 PROVE  \E k \in (i + 1)..(j - 1) : admissions'[k] = Disown(admissions'[i].agent)
        BY DEF VouchedOnce
    <2>1. i \in DOMAIN admissions /\ admissions'[i] = admissions[i] /\ i \in Nat /\ j \in Nat
        BY <1>2
    <2>2. CASE j \in DOMAIN admissions
        <3>1. \E k \in (i + 1)..(j - 1) : admissions[k] = Disown(admissions[i].agent)
            BY <1>2, <2>1, <2>2 DEF CharterInv, VouchedOnce
        <3>2. \A k \in (i + 1)..(j - 1) : admissions'[k] = admissions[k]
            BY <1>2, <2>1, <2>2
        <3> QED BY <2>1, <3>1, <3>2
    <2>3. CASE j = Len(admissions) + 1
        <3>1. admissions[i] = e /\ e.act = "Vouch"
            BY <1>2, <2>1, <2>3
        <3>2. e = Vouch(n)
            BY <3>1 DEF Disown
        <3>3. \E k \in (i + 1)..Len(admissions) : admissions[k] = Disown(n)
            BY <1>1, <2>1, <3>1, <3>2, OffTheRoster
        <3>4. j - 1 = Len(admissions) /\ \A k \in (i + 1)..(j - 1) : admissions'[k] = admissions[k]
            BY <1>2, <2>1, <2>3
        <3> QED BY <1>1, <2>1, <3>1, <3>3, <3>4
    <2> QED BY <1>2, <2>2, <2>3
<1>5. Staged' /\ Locked' /\ Done' /\ BundleFit' /\ VerdictsFit'
    BY DEF CharterInv, Staged, Locked, Done, BundleFit, VerdictsFit
<1>6. Unedited' /\ Keyed'
    BY <1>1, <1>2 DEF CharterInv, Unedited, Keyed
<1> QED BY <1>3, <1>4, <1>5, <1>6 DEF CharterInv

\* Whoever has a crew has the store and the instance's key, and until an edit the crew
\* is that of the settings.
LEMMA CrewFits ==
    ASSUME CharterInv, NEW w \in Windows, stage[w].at \in {"mint", "up"}
    PROVE  /\ DOMAIN CrewOf(w) \subseteq STRING /\ InstanceKey \in minted
           /\ edits = 0 => CrewOf(w) = Hired(settings, settings.agents)
           /\ stage[w].read \in Versions /\ stage[w].file \in Files
           /\ stage[w].read.named => ~Flawed(stage[w].file)
<1>1. /\ stage[w].read \in Versions /\ stage[w].file \in Files
      /\ stage[w].read.named => ~Flawed(stage[w].file)
    BY DEF CharterInv, Staged, StageFit, Crewed
<1>2. opened = w /\ w # "nobody"
    BY DEF CharterInv, Locked, Holding, Windows
<1>3. InstanceKey \in minted
    BY <1>2 DEF CharterInv, Locked
<1>4. edits = 0 => stage[w].read = settings /\ stage[w].file = settings.agents
    BY DEF CharterInv, Unedited, Crewed
<1> QED BY <1>1, <1>3, <1>4, CrewNamed DEF CrewOf

LEMMA ProvisionKeeps ==
    ASSUME CharterInv, NEW w \in Windows, Provision(w) PROVE CharterInv'
<1>1. PICK n \in DOMAIN CrewOf(w) \ Roster : admissions' = Append(admissions, Vouch(n))
    BY DEF Provision
<1>2. /\ stage[w].at \in {"mint", "up"} /\ DOMAIN CrewOf(w) \subseteq minted
      /\ UNCHANGED <<settings, stage, opened, minted, deeds, bundle, cleared, refusal, edits>>
    BY DEF Provision
<1>3. /\ n \in STRING /\ n \in minted /\ InstanceKey \in minted /\ n \notin Roster
      /\ edits = 0 => n \in DOMAIN Hired(settings, settings.agents)
    BY <1>1, <1>2, CrewFits
<1> QED BY <1>1, <1>2, <1>3, AdmissionKeeps

LEMMA DisownKeeps ==
    ASSUME CharterInv, DisownAgent
    PROVE  CharterInv'
<1>1. PICK n \in DOMAIN CrewOf("service") : admissions' = Append(admissions, Disown(n))
    BY DEF DisownAgent
<1>2. /\ stage["service"].at \in {"mint", "up"} /\ "service" \in Windows
      /\ UNCHANGED <<settings, stage, opened, minted, deeds, bundle, cleared, refusal, edits>>
    BY DEF DisownAgent, Windows
<1>5. DOMAIN CrewOf("service") \subseteq minted
    <2>1. stage["service"].at = "up"
        BY DEF DisownAgent
    <2> QED BY <1>2, <2>1 DEF CharterInv, Keyed, CrewOf
<1>3. /\ n \in STRING /\ n \in minted /\ InstanceKey \in minted
      /\ edits = 0 => n \in DOMAIN Hired(settings, settings.agents)
    BY <1>1, <1>2, <1>5, CrewFits
<1>4. Disown(n) # Vouch(n)
    <2>1. Disown(n).act # Vouch(n).act
        BY DEF Disown, Vouch
    <2> QED BY <2>1
<1> QED BY <1>1, <1>2, <1>3, <1>4, AdmissionKeeps

------------------------------------------------------------------------------
(* Work *)

LEMMA ServeUpKeeps ==
    ASSUME CharterInv, ServeUp PROVE CharterInv'
<1> DEFINE w == "service"
           x == [stage[w] EXCEPT !.at = "up"]
<1>1. /\ stage[w].at = "mint" /\ stage[w] \in Stages /\ StageFit(stage[w]) /\ w \in Windows
      /\ stage' = [stage EXCEPT ![w] = x] /\ opened = w /\ opened' = opened
      /\ UNCHANGED <<settings, minted, admissions, deeds, bundle, cleared, refusal, edits>>
    BY DEF ServeUp, Provisioned, CharterInv, Staged, Locked, Holding, Windows
<1>2. x \in Stages /\ x.at = "up" /\ x.read = stage[w].read /\ x.file = stage[w].file
    BY <1>1 DEF Stages, Steps
<1>3. StageFit(x)
    BY <1>1, <1>2 DEF StageFit, Crewed
<1>4. DOMAIN Hired(x.read, x.file) \subseteq minted'
    BY <1>1, <1>2 DEF ServeUp, Provisioned, CrewOf
<1>5. edits = 0 => x.read = settings /\ x.file = settings.agents
    BY <1>1, <1>2 DEF CharterInv, Unedited, Crewed
<1>6. InstanceKey \in minted'
    BY <1>1, CrewFits
<1> HIDE DEF x
<1>7. Staged' /\ Locked' /\ Admitted' /\ VouchedOnce' /\ Unedited' /\ Keyed'
    BY <1>1, <1>2, <1>3, <1>4, <1>5, <1>6, MoveKeeps DEF Holding, Crewed
<1> QED BY <1>1, <1>7 DEF CharterInv, Done, BundleFit, VerdictsFit

LEMMA ExportKeeps ==
    ASSUME CharterInv, ExportBundle PROVE CharterInv'
<1> DEFINE w == "prompt"
<1>1. /\ stage[w].at = "mint" /\ w \in Windows /\ opened = w /\ opened' = "nobody"
      /\ stage' = [stage EXCEPT ![w] = Idle]
      /\ UNCHANGED <<settings, minted, admissions, deeds, cleared, refusal, edits>>
    BY DEF ExportBundle, Provisioned, CharterInv, Locked, Holding, Windows
<1>2. Staged' /\ Locked' /\ Admitted' /\ VouchedOnce' /\ Unedited' /\ Keyed'
    BY <1>1, IdleFits, MoveKeeps DEF Holding, Crewed
<1>3. /\ bundle'.policy = PolicyDocument(w) /\ bundle'.read = stage[w].read
      /\ bundle'.crew = DOMAIN CrewOf(w) /\ bundle'.roster = Roster /\ bundle'.intact = (edits = 0)
      /\ bundle'.deeds \subseteq {deeds[i] : i \in DOMAIN deeds}
    BY DEF ExportBundle
<1>4. \A d \in bundle'.deeds : DeedFit(d)
    BY <1>3 DEF CharterInv, Done
<1>5. DOMAIN CrewOf(w) \subseteq Roster
    BY DEF ExportBundle, Provisioned
<1>6. edits = 0 => Roster \subseteq DOMAIN CrewOf(w)
    <2> SUFFICES ASSUME edits = 0, NEW n \in Roster PROVE n \in DOMAIN CrewOf(w)
        OBVIOUS
    <2>1. \E i \in DOMAIN admissions : admissions[i].agent = n
        BY DEF Roster
    <2>2. n \in DOMAIN Hired(settings, settings.agents)
        BY <2>1 DEF CharterInv, Unedited
    <2> QED BY <1>1, <2>2, CrewFits
<1>7. BundleFit'
    BY <1>3, <1>4, <1>5, <1>6 DEF BundleFit, PolicyDocument
<1> QED BY <1>1, <1>2, <1>7 DEF CharterInv, Done, VerdictsFit

\* One more deed of the crew that serves.
LEMMA DidKeeps ==
    ASSUME CharterInv, stage["service"].at = "up", NEW n \in DOMAIN CrewOf("service"),
           NEW what \in {"Result", "Act"}, NEW made \in Signatures, Did(n, what, made),
           what = "Result" => made \in MadeBy(CrewOf("service")[n]),
           what = "Act" => made \in PolicyDocument("service").controllers,
           UNCHANGED <<settings, stage, opened, minted, admissions, bundle, cleared, refusal, edits>>
    PROVE  CharterInv'
<1> DEFINE d == [by |-> n, what |-> what, made |-> made,
                 read |-> stage["service"].read, file |-> stage["service"].file]
<1>1. deeds' = Append(deeds, d)
    BY DEF Did
<1>2. /\ n \in STRING /\ stage["service"].read \in Versions /\ stage["service"].file \in Files
      /\ stage["service"].read.named => ~Flawed(stage["service"].file)
    BY CrewFits DEF Windows
<1>3. d \in Deeds
    BY <1>2 DEF Deeds
<1>4. DeedFit(d)
    <2>1. /\ d.by = n /\ d.what = what /\ d.made = made /\ d.read = stage["service"].read
          /\ d.file = stage["service"].file
        OBVIOUS
    <2> HIDE DEF d
    <2>2. Hired(d.read, d.file) = CrewOf("service") /\ AssemblePolicy(d.read) = PolicyDocument("service")
        BY <2>1 DEF CrewOf, PolicyDocument
    <2> QED BY <1>2, <2>1, <2>2 DEF DeedFit
<1> HIDE DEF d
<1>5. deeds' \in Seq(Deeds) /\ \A i \in DOMAIN deeds' : deeds'[i] = d \/ (i \in DOMAIN deeds /\ deeds'[i] = deeds[i])
    BY <1>1, <1>3 DEF CharterInv, Done
<1>6. Done'
    BY <1>4, <1>5 DEF CharterInv, Done
<1>7. Staged' /\ Locked' /\ Admitted' /\ VouchedOnce' /\ Unedited' /\ Keyed'
    BY DEF CharterInv, Staged, Locked, Admitted, VouchedOnce, Unedited, Keyed
<1> QED BY <1>6, <1>7 DEF CharterInv, BundleFit, VerdictsFit

LEMMA AnswerKeeps ==
    ASSUME CharterInv, AnswerOffer PROVE CharterInv'
<1>1. PICK n \in DOMAIN CrewOf("service") : \E made \in MadeBy(CrewOf("service")[n]) : Did(n, "Result", made)
    BY DEF AnswerOffer
<1>2. PICK made \in MadeBy(CrewOf("service")[n]) : Did(n, "Result", made)
    BY <1>1
<1>3. made \in Signatures
    <2>1. Models \subseteq STRING
        BY CharterAssumption DEF CharterAssumption
    <2>3. ASSUME NEW kind PROVE MadeBy(kind) \in {Models, {"stub"}, {"unsaid"}}
        BY DEF MadeBy
    <2>4. MadeBy(CrewOf("service")[n]) \in {Models, {"stub"}, {"unsaid"}}
        BY <2>3
    <2> QED BY <1>2, <2>1, <2>4 DEF Signatures
<1> QED BY <1>2, <1>3, DidKeeps DEF AnswerOffer

LEMMA HonourKeeps ==
    ASSUME CharterInv, HonourApproval PROVE CharterInv'
<1>1. PICK n \in DOMAIN CrewOf("service") : \E c \in PolicyDocument("service").controllers : Did(n, "Act", c)
    BY DEF HonourApproval
<1>0. PICK c \in PolicyDocument("service").controllers : Did(n, "Act", c)
    BY <1>1
<1>2. stage["service"].read \in Settings
    <2>1. stage["service"].at \in {"mint", "up"} /\ "service" \in Windows
        BY DEF HonourApproval, Windows
    <2>2. stage["service"].read \in Versions
        BY <2>1, CrewFits
    <2> QED BY <2>2, CharterAssumption DEF CharterAssumption
<1>3. c \in Signatures
    <2> DEFINE s == stage["service"].read
    <2>1. s.controllers \in SUBSET STRING /\ s.policy.controllers \in SUBSET STRING
        BY <1>2 DEF Settings
    <2>2. c \in s.controllers \/ c \in s.policy.controllers
        BY DEF PolicyDocument, AssemblePolicy
    <2> QED BY <2>1, <2>2 DEF Signatures
<1> QED BY <1>0, <1>3, DidKeeps DEF HonourApproval

------------------------------------------------------------------------------
(* config check *)

\* A verdict ends the command; what it clears is in order, as it was read.
LEMMA VerdictKeeps ==
    ASSUME CharterInv, NEW w \in Windows, stage[w].at \notin {"off", "load"}, NEW ok \in BOOLEAN,
           NEW file \in Files, ok => AgentsCheck(stage[w].read, file), Verdict(w, ok, file),
           opened' = IF opened = w THEN "nobody" ELSE opened,
           UNCHANGED <<settings, minted, admissions, deeds, bundle, refusal, edits>>
    PROVE  CharterInv'
<1>1. stage[w].read \in Versions /\ ~LoadThrows(stage[w].read)
    BY DEF CharterInv, Staged, StageFit
<1>2. stage' = [stage EXCEPT ![w] = Idle] /\ cleared' = IF ok THEN AsRead(w, file) ELSE cleared
    BY DEF Verdict
<1>3. Staged' /\ Locked' /\ Admitted' /\ VouchedOnce' /\ Unedited' /\ Keyed'
    BY <1>2, IdleFits, MoveKeeps DEF Holding, Crewed
<1> DEFINE x == AsRead(w, file)
<1>4. /\ WhatWasRead(x) /\ x.agents = file /\ ~LoadThrows(x) /\ x.named = stage[w].read.named
    BY <1>1, AsReadKeeps DEF AsRead
<1>5. ok => AgentsCheck(x, x.agents)
    BY <1>4 DEF AgentsCheck
<1> HIDE DEF x
<1>6. VerdictsFit'
    BY <1>2, <1>4, <1>5 DEF CharterInv, VerdictsFit, x
<1> QED BY <1>3, <1>6 DEF CharterInv, Done, BundleFit

LEMMA ValidateKeeps ==
    ASSUME CharterInv, NEW w \in Windows, Validate(w) PROVE CharterInv'
<1>1. /\ stage[w].at = "validate" /\ stage[w] \in Stages /\ StageFit(stage[w])
      /\ stage[w].at \notin Holding /\ opened # w /\ settings.agents \in Files
      /\ UNCHANGED <<settings, opened, minted, admissions, deeds, bundle, refusal, edits>>
    BY DEF Validate, CharterInv, Staged, Locked, Holding, Files
<1>2. CASE Verdict(w, InOrder(stage[w].read, settings.agents), settings.agents)
    <2>1. /\ InOrder(stage[w].read, settings.agents) => AgentsCheck(stage[w].read, settings.agents)
          /\ InOrder(stage[w].read, settings.agents) \in BOOLEAN
        BY DEF InOrder
    <2> QED BY <1>1, <1>2, <2>1, VerdictKeeps
<1>3. CASE /\ UNCHANGED cleared
           /\ stage' = [stage EXCEPT ![w].file = settings.agents, ![w].at = "probe"]
    <2> DEFINE x == [stage[w] EXCEPT !.file = settings.agents, !.at = "probe"]
    <2>1. /\ x \in Stages /\ x.file = settings.agents /\ x.at = "probe" /\ x.read = stage[w].read
          /\ stage' = [stage EXCEPT ![w] = x]
        BY <1>1, <1>3 DEF Stages, Steps, CharterInv, Staged
    <2>2. StageFit(x)
        BY <1>1, <2>1 DEF StageFit, Crewed
    <2>3. edits = 0 => x.read = settings
        BY <1>1, <2>1 DEF CharterInv, Unedited
    <2> HIDE DEF x
    <2>4. Staged' /\ Locked' /\ Admitted' /\ VouchedOnce' /\ Unedited' /\ Keyed'
        BY <1>1, <2>1, <2>2, <2>3, MoveKeeps DEF Holding, Crewed
    <2> QED BY <1>1, <1>3, <2>4 DEF CharterInv, Done, BundleFit, VerdictsFit
<1> QED BY <1>2, <1>3 DEF Validate

LEMMA ProbeKeeps ==
    ASSUME CharterInv, NEW w \in Windows, Probe(w) PROVE CharterInv'
<1>1. /\ stage[w].at = "probe" /\ stage[w] \in Stages /\ StageFit(stage[w])
      /\ stage[w].at \notin Holding /\ opened # w /\ stage[w].file \in Files
      /\ UNCHANGED <<settings, admissions, deeds, bundle, refusal, edits>>
    BY DEF Probe, CharterInv, Staged, StageFit, Locked, Holding
<1>2. ASSUME NEW ok \in BOOLEAN, ok => InOrder(stage[w].read, stage[w].file),
             Verdict(w, ok, stage[w].file), UNCHANGED <<opened, minted>>
      PROVE  CharterInv'
    BY <1>1, <1>2, VerdictKeeps DEF InOrder
<1>3. CASE /\ opened = "nobody" /\ opened' = w /\ minted' = minted \cup {InstanceKey}
           /\ stage' = [stage EXCEPT ![w].at = "fetch"] /\ UNCHANGED cleared
    <2> DEFINE x == [stage[w] EXCEPT !.at = "fetch"]
    <2>1. /\ x \in Stages /\ x.file = stage[w].file /\ x.at = "fetch" /\ x.read = stage[w].read
          /\ stage' = [stage EXCEPT ![w] = x]
        BY <1>1, <1>3 DEF Stages, Steps, CharterInv, Staged
    <2>2. StageFit(x)
        BY <1>1, <2>1 DEF StageFit, Crewed
    <2>3. edits = 0 => x.read = settings
        BY <1>1, <2>1 DEF CharterInv, Unedited
    <2> HIDE DEF x
    <2>4. Staged' /\ Locked' /\ Admitted' /\ VouchedOnce' /\ Unedited' /\ Keyed'
        BY <1>1, <1>3, <2>1, <2>2, <2>3, MoveKeeps DEF Holding, Crewed
    <2> QED BY <1>1, <1>3, <2>4 DEF CharterInv, Done, BundleFit, VerdictsFit
<1>4. CASE /\ Verdict(w, /\ InOrder(stage[w].read, stage[w].file)
                         /\ InstanceKey \in minted => opened = "nobody", stage[w].file)
           /\ UNCHANGED <<opened, minted>>
    <2> DEFINE ok == /\ InOrder(stage[w].read, stage[w].file)
                     /\ InstanceKey \in minted => opened = "nobody"
    <2>1. ok \in BOOLEAN /\ (ok => InOrder(stage[w].read, stage[w].file))
        BY DEF InOrder
    <2>2. Verdict(w, ok, stage[w].file)
        BY <1>4
    <2> HIDE DEF ok
    <2> QED BY <1>2, <1>4, <2>1, <2>2
<1>5. CASE Verdict(w, FALSE, stage[w].file) /\ UNCHANGED <<opened, minted>>
    BY <1>2, <1>5
<1> QED BY <1>3, <1>4, <1>5 DEF Probe

LEMMA SelfCheckKeeps ==
    ASSUME CharterInv, NEW w \in Windows, SelfCheck(w) PROVE CharterInv'
<1>1. /\ stage[w].at = "fetch" /\ StageFit(stage[w]) /\ opened = w /\ opened' = "nobody"
      /\ stage[w].file \in Files
      /\ UNCHANGED <<settings, minted, admissions, deeds, bundle, refusal, edits>>
    BY DEF SelfCheck, CharterInv, Staged, StageFit, Locked, Holding
<1>2. PICK itself \in BOOLEAN :
          Verdict(w, itself /\ InOrder(stage[w].read, stage[w].file), stage[w].file)
    BY DEF SelfCheck
<1> DEFINE ok == itself /\ InOrder(stage[w].read, stage[w].file)
<1>3. ok \in BOOLEAN /\ (ok => AgentsCheck(stage[w].read, stage[w].file))
    BY DEF InOrder
<1>4. Verdict(w, ok, stage[w].file)
    BY <1>2
<1> HIDE DEF ok
<1> QED BY <1>1, <1>3, <1>4, VerdictKeeps

LEMMA EndKeeps ==
    ASSUME CharterInv, NEW w \in Windows, End(w) PROVE CharterInv'
<1>1. /\ stage' = [stage EXCEPT ![w] = Idle] /\ opened' = IF opened = w THEN "nobody" ELSE opened
      /\ UNCHANGED <<settings, minted, admissions, deeds, bundle, cleared, refusal, edits>>
    BY DEF End
<1>2. Staged' /\ Locked' /\ Admitted' /\ VouchedOnce' /\ Unedited' /\ Keyed'
    BY <1>1, IdleFits, MoveKeeps DEF Holding, Crewed
<1> QED BY <1>1, <1>2 DEF CharterInv, Done, BundleFit, VerdictsFit

\* Whatever the operator edits while commands run, and wherever they are killed: one
\* command has the store, an agent is vouched for once (instance.ts provision), a bundle
\* blames no answer but for an edit (config.ts assemblePolicy), and what config check
\* cleared boots (runtime/configCheck.ts).
THEOREM CharterStands == CharterSpec => []CharterHolds
<1>1. CharterInv /\ [CharterNext]_charterVars => CharterInv'
    <2> SUFFICES ASSUME CharterInv, [CharterNext]_charterVars PROVE CharterInv'
        OBVIOUS
    <2>1. CASE UNCHANGED charterVars
        BY <2>1 DEF charterVars, CharterInv, Staged, Locked, Admitted, VouchedOnce, Done, BundleFit,
            VerdictsFit, Unedited, Keyed
    <2>2. CASE \E w \in Windows :
                 \/ Begin(w) \/ LoadConfig(w) \/ Collect(w) \/ OpenInstance(w) \/ MintKey(w)
                 \/ Provision(w) \/ Validate(w) \/ Probe(w) \/ SelfCheck(w) \/ End(w)
        BY <2>2, BeginKeeps, LoadConfigKeeps, CollectKeeps, OpenKeeps, MintKeeps, ProvisionKeeps,
           ValidateKeeps, ProbeKeeps, SelfCheckKeeps, EndKeeps
    <2> QED BY <2>1, <2>2, EditKeeps, ServeUpKeeps, ExportKeeps, AnswerKeeps, HonourKeeps, DisownKeeps
            DEF CharterNext
<1> QED BY <1>1, CharterStarts, CharterInvHolds, PTL DEF CharterSpec
==============================================================================
