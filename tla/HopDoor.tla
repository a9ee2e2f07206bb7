------------------------------ MODULE HopDoor ------------------------------
(***************************************************************************)
(* One hop: a sender's transport (federation/transport.ts) and the part of *)
(* a receiver's door that stands before the activity is looked at          *)
(* (federation/inbox.ts steps 1 and on, federation/httpSig.ts,             *)
(* store/dedupe.ts SeenSignatures, federation/rateLimit.ts).               *)
(*                                                                         *)
(* A request is the activity it carries, the scheme it is signed with and  *)
(* the second it is dated; Ed25519 is deterministic, so equal requests     *)
(* have equal signatures.  Time is counted in seconds of the receiver's    *)
(* clock; the sender's may run ahead of it, or behind.                     *)
(* The network may hand over a request again at any later time, and lose   *)
(* an answer; the receiver's process may be killed between its awaits.     *)
(* What lies behind the door is in Federation and TaskExchange; the bucket *)
(* per address is the same code, asked earlier, and is left out, and so    *)
(* are forged and malformed requests, which change nothing.                *)
(***************************************************************************)
EXTENDS Integers, Sequences, FiniteSets

CONSTANTS
    Deliveries,     \* calls of deliver() for one peer: overlapping flushes, retries
    Carries,        \* per delivery: the activity
    Known,          \* the sets of schemes a peer may understand
    Skew,           \* SKEW_MS
    KeepsFor,       \* replayCacheTtlMs
    Capacity,       \* rateLimitPerActor
    Window,         \* rateLimitPerActorWindowMs
    Budgets,        \* bounds: [tries of each delivery, requests the network hands
                    \* over again, kills of the receiver, fetches of documents that
                    \* fail], one chosen at the start; and by how much the sender's
                    \* clock is ahead
    LastTick        \* bound: ticks

Schemes == {"rfc9421", "cavage"}
ASSUME HopAssumption ==
    /\ IsFiniteSet(Deliveries)
    /\ Known \subseteq (SUBSET Schemes)
    /\ {Skew, KeepsFor, Capacity, Window} \subseteq Nat \ {0}
    /\ Budgets \subseteq [tries : [Deliveries -> Nat], again : Nat, down : Nat, fails : Nat, ahead : Int]
    /\ LastTick \in Nat

Unset == "unset"
NoneOf == "nobody"

VARIABLES
    tick,
    knows,      \* the schemes the receiver understands
    preferred,  \* sender: the scheme learned for this origin
    hop,        \* sender: per delivery, [at, scheme]
    posted,     \* every request sent
    jobs,       \* receiver: requests in hand, [req, of, at]
    spent,      \* receiver, stored: per signature, when its row expires
    bucket,     \* receiver, memory: [tokens, start] of this sender's key, or none
    swept,      \* receiver, memory: lastSweep
    left,       \* of Budgets, what is left
    opened,     \* history: requests let in, in order, with their tick
    causes      \* history: why requests were refused that the receiver could have let in

hopVars == <<tick, knows, preferred, hop, posted, jobs, spent, bucket, swept, left, opened, causes>>

------------------------------------------------------------------------------
(* The sender *)

Request(d, scheme) == [act |-> Carries[d], scheme |-> scheme, date |-> tick + left.ahead]
OtherScheme(s) == IF s = "rfc9421" THEN "cavage" ELSE "rfc9421"
Job(r, d) == [req |-> r, of |-> d, at |-> "key"]

\* A call of fetch: the request is on its way, and the receiver has taken it.
Send(d, scheme) ==
    /\ posted' = posted \cup {Request(d, scheme)}
    /\ jobs' = jobs \cup {Job(Request(d, scheme), d)}

\* deliver: the leading scheme is the one the origin accepted last.
Knock(d) ==
    \E scheme \in {IF preferred = Unset THEN "rfc9421" ELSE preferred} :
    /\ hop[d].at = "waiting" /\ left.tries[d] > 0
    /\ left' = [left EXCEPT !.tries[d] = @ - 1]
    /\ Send(d, scheme)
    /\ hop' = [hop EXCEPT ![d] = [at |-> "first", scheme |-> scheme]]
    /\ UNCHANGED <<tick, knows, preferred, spent, bucket, swept, opened, causes>>

Gone(d) == hop' = [hop EXCEPT ![d].at = "waiting"]      \* it throws; the queue tries again
Done(d) == hop' = [hop EXCEPT ![d].at = "done"]

\* Mutant: any refusal earns a second knock.
AnsweredAnyhow(d, j, status) ==
    \/ /\ status = 202 /\ Done(d)
       /\ preferred' = hop[d].scheme
       /\ UNCHANGED posted /\ jobs' = jobs \ {j}
    \/ \E scheme \in {OtherScheme(hop[d].scheme)} :
       /\ status # 202 /\ hop[d].at = "first" /\ preferred = Unset
       /\ hop' = [hop EXCEPT ![d].at = "second", ![d].scheme = scheme]
       /\ posted' = posted \cup {Request(d, scheme)}
       /\ jobs' = (jobs \ {j}) \cup {Job(Request(d, scheme), d)}
       /\ UNCHANGED preferred
    \/ /\ status # 202 /\ hop[d].at = "second"
       /\ Gone(d)
       /\ UNCHANGED <<preferred, posted>> /\ jobs' = jobs \ {j}

\* The answer comes: a 401 to the leading scheme, of an origin nothing is known
\* of, earns a second knock; an ok is remembered.
Answered(d, j, status) ==
    \/ /\ status = 202 /\ Done(d)
       /\ preferred' = hop[d].scheme
       /\ UNCHANGED posted /\ jobs' = jobs \ {j}
    \/ \E scheme \in {OtherScheme(hop[d].scheme)} :
       /\ status = 401 /\ hop[d].at = "first" /\ preferred = Unset
       /\ hop' = [hop EXCEPT ![d].at = "second", ![d].scheme = scheme]
       /\ posted' = posted \cup {Request(d, scheme)}
       /\ jobs' = (jobs \ {j}) \cup {Job(Request(d, scheme), d)}
       /\ UNCHANGED preferred
    \/ /\ status # 202 /\ ~(status = 401 /\ hop[d].at = "first" /\ preferred = Unset)
       /\ Gone(d)
       /\ UNCHANGED <<preferred, posted>> /\ jobs' = jobs \ {j}

\* The answer reaches who asked, if anyone did, or is lost on the way.
Reply(j, status) ==
    \/ j.of = NoneOf /\ jobs' = jobs \ {j} /\ UNCHANGED <<hop, preferred, posted>>
    \/ j.of # NoneOf /\ Answered(j.of, j, status)
    \/ j.of # NoneOf /\ Gone(j.of) /\ jobs' = jobs \ {j} /\ UNCHANGED <<preferred, posted>>

------------------------------------------------------------------------------
(* The receiver *)

\* dateOutsideSkew, and the created parameter, which is the same second.
InSkew(r) == tick - r.date <= Skew /\ r.date - tick <= Skew

\* TtlSeenTable.has: a row that has expired reads as absent.
Seen(r) == r \in DOMAIN spent /\ spent[r] > tick

\* Mutant: a row lasts as long as the request verifies, but for the last instant.
MarkShort(r) ==
    spent' = [x \in DOMAIN spent \cup {r} |-> IF x = r THEN r.date + Skew ELSE spent[x]]
Mark(r) == spent' = [x \in DOMAIN spent \cup {r} |-> IF x = r THEN tick + KeepsFor ELSE spent[x]]

\* RateLimiter.sweep, once per window: windows long closed.
Swept(b) == IF tick - swept >= Window /\ b # <<>> /\ tick - b[1].start > 4 * Window THEN <<>> ELSE b

\* RateLimiter.allow, up to the token: the window in force.
Opened(b) ==
    IF b = <<>> \/ tick - b[1].start >= Window THEN [tokens |-> Capacity, start |-> tick] ELSE b[1]
Allow(ok) ==
    /\ swept' = IF tick - swept >= Window THEN tick ELSE swept
    /\ \E b \in {Opened(Swept(bucket))} :
        /\ ok = (b.tokens > 0)
        /\ bucket' = <<[b EXCEPT !.tokens = IF ok THEN @ - 1 ELSE @]>>

\* The controller's document cannot be fetched, or is another's: no key verifies
\* anything.
RefusedForNoKey(j) ==
    /\ j \in jobs /\ j.at = "key" /\ left.fails > 0
    /\ left' = [left EXCEPT !.fails = @ - 1]
    /\ causes' = causes \cup {"no key"}
    /\ Reply(j, 401)
    /\ UNCHANGED <<tick, knows, spent, bucket, swept, opened>>

\* It is fetched; then, in one stretch: the signature is verified, marked, and
\* the actor's bucket asked.
RefusedAsUnsigned(j) ==
    /\ j \in jobs /\ j.at = "key"
    /\ j.req.scheme \notin knows \/ ~InSkew(j.req)
    /\ causes' = IF InSkew(j.req) THEN causes ELSE causes \cup {"late"}
    /\ Reply(j, 401)
    /\ UNCHANGED <<tick, knows, spent, bucket, swept, left, opened>>

Verified(j) == j \in jobs /\ j.at = "key" /\ j.req.scheme \in knows /\ InSkew(j.req)

RefusedAsReplay(j) ==
    /\ Verified(j) /\ Seen(j.req)
    /\ causes' = causes \cup {"replay"}
    /\ Reply(j, 401)
    /\ UNCHANGED <<tick, knows, spent, bucket, swept, left, opened>>

RefusedForNow(j) ==
    /\ Verified(j) /\ ~Seen(j.req) /\ Mark(j.req)
    /\ Allow(FALSE)
    /\ Reply(j, 429)
    /\ UNCHANGED <<tick, knows, left, opened, causes>>

Opens(j) ==
    /\ Verified(j) /\ ~Seen(j.req) /\ Mark(j.req)
    /\ Allow(TRUE)
    /\ opened' = Append(opened, [req |-> j.req, at |-> tick, life |-> left.down])
    /\ jobs' = (jobs \ {j}) \cup {[j EXCEPT !.at = "inside"]}
    /\ UNCHANGED <<tick, knows, preferred, hop, posted, left, causes>>

\* The author's documents cannot be had, or the proof is none of their keys'.
RefusedUnproven(j) ==
    /\ j \in jobs /\ j.at = "inside" /\ left.fails > 0
    /\ left' = [left EXCEPT !.fails = @ - 1]
    /\ causes' = causes \cup {"no proof"}
    /\ Reply(j, 401)
    /\ UNCHANGED <<tick, knows, spent, bucket, swept, opened>>

\* They are fetched, and the activity is dispatched, or refused by what is behind
\* the door.
Finish(j) ==
    /\ j \in jobs /\ j.at = "inside"
    /\ \E status \in {202, 403} : Reply(j, status)
    /\ UNCHANGED <<tick, knows, spent, bucket, swept, left, opened, causes>>

\* The receiver is killed and comes up: what it had in hand is a broken
\* connection to the sender, and the buckets are full.
ReceiverKilled ==
    /\ left.down > 0 /\ jobs # {}
    /\ left' = [left EXCEPT !.down = @ - 1]
    /\ hop' = [d \in Deliveries |->
                  IF \E j \in jobs : j.of = d THEN [hop[d] EXCEPT !.at = "waiting"] ELSE hop[d]]
    /\ jobs' = {} /\ bucket' = <<>> /\ swept' = 0
    /\ UNCHANGED <<tick, knows, preferred, posted, spent, opened, causes>>

------------------------------------------------------------------------------
(* The network and the clock *)

ArrivesAgain(r) ==
    /\ r \in posted /\ left.again > 0
    /\ left' = [left EXCEPT !.again = @ - 1]
    /\ jobs' = jobs \cup {Job(r, NoneOf)}
    /\ UNCHANGED <<tick, knows, preferred, hop, posted, spent, bucket, swept, opened, causes>>

SecondPasses ==
    /\ tick < LastTick /\ tick' = tick + 1
    /\ UNCHANGED <<knows, preferred, hop, posted, jobs, spent, bucket, swept, left, opened,
                   causes>>

HopInit ==
    /\ tick = 0 /\ knows \in Known /\ preferred = Unset
    /\ hop = [d \in Deliveries |-> [at |-> "waiting", scheme |-> Unset]]
    /\ posted = {} /\ jobs = {} /\ spent = [r \in {} |-> 0]
    /\ bucket = <<>> /\ swept = 0 /\ left \in Budgets
    /\ opened = <<>> /\ causes = {}

HopNext ==
    \/ \E d \in Deliveries : Knock(d)
    \/ \E j \in jobs : RefusedForNoKey(j)
    \/ \E j \in jobs : RefusedAsUnsigned(j)
    \/ \E j \in jobs : RefusedAsReplay(j)
    \/ \E j \in jobs : RefusedForNow(j)
    \/ \E j \in jobs : Opens(j)
    \/ \E j \in jobs : RefusedUnproven(j)
    \/ \E j \in jobs : Finish(j)
    \/ ReceiverKilled
    \/ \E r \in posted : ArrivesAgain(r)
    \/ SecondPasses

HopSpec == HopInit /\ [][HopNext]_hopVars

------------------------------------------------------------------------------
(* Properties *)

\* A signature opens the door again no sooner than its row lasts and no later
\* than it can verify, whatever the network hands over again, through sweeps of
\* the table and restarts of the receiver: once, where a row outlasts twice the
\* skew, as it must when a sender's clock may run ahead.
OpensOnce ==
    \A i, k \in DOMAIN opened :
        i < k /\ opened[i].req = opened[k].req =>
            opened[k].at - opened[i].at \in KeepsFor..2 * Skew

\* The bucket holds: between restarts no stretch of one window's length sees
\* more than two windows' tokens, however the sweeps fall.
BucketHolds ==
    \A i \in DOMAIN opened : \E n \in {i + 2 * Capacity} :
        n \in DOMAIN opened /\ opened[n].life = opened[i].life
            => opened[n].at - opened[i].at >= Window

\* What the HTTP door promises of the requests it opens for: each once while its
\* row lasts, and no more of an actor in a window than two buckets hold.
DoorHolds == OpensOnce /\ BucketHolds

\* A peer that understands the native scheme is remembered as a legacy one only
\* because it refused a request as one it had seen, as one dated too far off, for
\* want of the sender's key, or for want of the author's.
LegacyForCause == preferred = "cavage" /\ "rfc9421" \in knows => causes # {}
=============================================================================
