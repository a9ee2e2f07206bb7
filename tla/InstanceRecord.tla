-------------------------- MODULE InstanceRecord --------------------------
(***************************************************************************)
(* What an instance writes once it is through the door: the hash chain of  *)
(* its outbox with one delivery row per addressee (instance.ts emit,       *)
(* store/outbox.ts), the artifacts it stores, its signing keys             *)
(* (crypto/keys.ts, instance/keyOps.ts) and its acts in the outside world  *)
(* (instance/external.ts).                                                 *)
(*                                                                         *)
(* One actor's chain and one key stand for all: each actor has its own and *)
(* the code is the same.  A digest is the activity it is the digest of, so *)
(* an entry carries its predecessor: <<entry>>, or <<>> for the first.     *)
(*                                                                         *)
(* A process runs its jobs in order.  Between two statements of a          *)
(* synchronous stretch of code nothing else of that process runs, but      *)
(* other processes and kills do; at an await its other calls run as well.  *)
(***************************************************************************)
EXTENDS StoreDoor

CONSTANTS
    Peers,          \* actors elsewhere, to whom activities are addressed
    Acts,           \* actions in the outside world, one idempotency key each
    Refuses,        \* those the actuator refuses by contract
    Lifetime,       \* of a key a remote root introduces (issuedKeyLifetimeMs)
    MaxNow          \* bound: instants

\* What each role is asked to do once it is in: `serve` publishes and acts, a
\* `keys` command operates on keys, `backup` and `restore` have no jobs.
JobsOf(role) ==
    CASE role = "serve" -> {"note", "proof", "act"}
      [] role = "keys" -> {"rotate", "remote", "revoke"}
      [] OTHER -> {}

ASSUME RecordAssumption ==
    /\ IsFiniteSet(Peers) /\ IsFiniteSet(Acts) /\ Refuses \subseteq Acts
    /\ Lifetime \in Nat \ {0} /\ MaxNow \in Nat \ {0}
    /\ \A asked \in Plans : \A p \in DOMAIN asked :
          /\ asked[p].jobs \in Seq(Range(asked[p].jobs))
          /\ \A job \in Range(asked[p].jobs) :
                /\ job.do \in JobsOf(asked[p].role) /\ job.at \in Nat
                /\ job.do = "act" => job.of \in Acts
                /\ job.do = "revoke" => job.at # 0     \* --since is asked for

VARIABLES
    index,      \* the key index: [from, until, by, declared] by ordinal
    signs,      \* the ordinal a running `serve` loaded at boot, 0 for none
    next,       \* the job each process comes to next
    draft,      \* the activity each process is emitting, with the rows still to add
    calls,      \* the calls of `act` each process waits for
    now,
    left,       \* <<entry, peer>>: what the delivery queue has handed over
    world,      \* acts carried out in the outside world, by idempotency key
    crowded,    \* history: keys of calls made while one of that key was in flight
    miscut      \* history: intervals a key operation cut without asking the record

recordVars == <<index, signs, next, draft, calls, now, left, world, crowded, miscut>>
vars == <<doorVars, recordVars>>

Open0 == 0          \* `validUntil` and the like, absent
NoDraft == [entry |-> <<>>, rows |-> {}]

Init ==
    /\ DoorInit
    /\ index = <<>>
    /\ signs = [p \in Running |-> 0]
    /\ next = [p \in Running |-> 1]
    /\ draft = [p \in Running |-> NoDraft]
    /\ calls = [p \in Running |-> {}]
    /\ now = 1 /\ left = {} /\ world = [a \in Acts |-> 0] /\ crowded = {} /\ miscut = {}

Store(p) == content[handle[p]]
Write(p, store) == content' = [content EXCEPT ![handle[p]] = store]
Ready(p) == pc[p] = "open" /\ next[p] <= Len(plan[p].jobs)
Job(p) == plan[p].jobs[next[p]]
Done(p) == next' = [next EXCEPT ![p] = @ + 1]

\* Time matters to key commands only.
Tick ==
    /\ now < MaxNow /\ \E p \in Running : Role(p) = "keys"
    /\ now' = now + 1
    /\ UNCHANGED <<doorVars, index, signs, next, draft, calls, left, world, crowded, miscut>>

------------------------------------------------------------------------------
(* The key index *)

Key(from, declared) == [from |-> from, until |-> Open0, by |-> "none", declared |-> declared]
Cut(ks, o, at, by) == [ks EXCEPT ![o].until = at, ![o].by = by]

\* activeEntry: the highest ordinal without a `validUntil`, 0 for none.
Active(ks) ==
    LET open == {o \in DOMAIN ks : ks[o].until = Open0} IN
    IF open = {} THEN 0 ELSE CHOOSE o \in open : \A q \in open : q <= o

\* rotateKeyPair: the open interval is closed at `at`, the successor begins there.
Rotated(ks, at, declared) ==
    LET had == IF ks = <<>> THEN <<Key(Open0, Open0)>> ELSE ks IN
    Append(IF Active(had) = 0 THEN had ELSE Cut(had, Active(had), at, "rotation"),
           Key(at, declared))

\* keyHistory, and what replay reads from it: both ends belong to the interval.
Covers(ks, o, at) ==
    LET until == IF ks[o].until # Open0 THEN ks[o].until ELSE ks[o].declared IN
    o \in DOMAIN ks /\ ks[o].from <= at /\ (until = Open0 \/ at <= until)

------------------------------------------------------------------------------
(* emit: draft and sign, append, then one delivery row per addressee *)

\* Mutant: the head is the first row of the actor, as it is without ORDER BY.
FirstRow(chain) == IF chain = <<>> THEN <<>> ELSE <<chain[1]>>

\* headDigest and nextSeq.
HeadDigest(chain) == IF chain = <<>> THEN <<>> ELSE <<Last(chain)>>
NextSeq(chain) == Len(chain) + 1

\* The ids of a chain: activity_id is its primary key.
Ids(chain) == {chain[k].seq : k \in DOMAIN chain}

\* Mutant: a row for one addressee only.
OneRow(to) == IF to = {} THEN {} ELSE {CHOOSE t \in to : TRUE}
Rows(to) == to

DraftBy(p, key, at, says, to) ==
    draft' = [draft EXCEPT ![p] =
        [entry |-> <<[seq |-> NextSeq(Store(p).chain), prev |-> HeadDigest(Store(p).chain),
                      key |-> key, at |-> at, says |-> says, to |-> to]>>,
         rows |-> Rows(to)]]
Draft(p, says, to) == DraftBy(p, signs[p], now, says, to) /\ Goto(p, "drafted")

Says(kind, of, num, at) == [kind |-> kind, of |-> of, num |-> num, at |-> at]

\* A note to every peer, its artifact put in the directory first; or an
\* EquivocationProof that embeds the vote the key `num` signed at `at`.
Publish(p) ==
    /\ Ready(p) /\ signs[p] # 0
    /\ \/ /\ Job(p).do = "note"
          /\ dir' = IF Job(p).of = None THEN dir ELSE dir \cup {Job(p).of}
          /\ Draft(p, Says("note", Job(p).of, 0, 0), Peers)
       \/ /\ Job(p).do = "proof" /\ Job(p).at <= now
          /\ Draft(p, Says("proof", None, Job(p).num, Job(p).at), {})
          /\ UNCHANGED dir
    /\ Done(p)
    /\ UNCHANGED <<plan, lock, db, content, backup, handle, kills, raced, swapped,
                   index, signs, calls, now, left, world, crowded, miscut>>

\* outbox.append, refused when the id is taken: a command ends there, `serve`
\* goes on without the activity.
AppendEntry(p) ==
    /\ pc[p] = "drafted"
    /\ LET e == Last(draft[p].entry) IN
       IF e.seq \in Ids(Store(p).chain)
       THEN /\ draft' = [draft EXCEPT ![p] = NoDraft]
            /\ IF Role(p) = "keys" THEN Shut(p) ELSE Goto(p, "open") /\ UNCHANGED <<handle, lock>>
            /\ UNCHANGED content
       ELSE /\ Write(p, [Store(p) EXCEPT !.chain = Append(@, e)])
            /\ Goto(p, "appended")
            /\ UNCHANGED <<lock, handle, draft>>
    /\ UNCHANGED <<plan, db, dir, backup, kills, raced, swapped,
                   index, signs, next, calls, now, left, world, crowded, miscut>>

\* queue.enqueue, addressee by addressee.
Enqueue(p) ==
    /\ pc[p] = "appended"
    /\ \E t \in draft[p].rows :
        /\ Write(p, [Store(p) EXCEPT !.queue = @ \cup {<<Last(draft[p].entry), t>>}])
        /\ draft' = [draft EXCEPT ![p].rows = @ \ {t}]
    /\ UNCHANGED <<plan, pc, lock, db, dir, backup, handle, kills, raced, swapped,
                   index, signs, next, calls, now, left, world, crowded, miscut>>

\* actuate awaits `act`; the call is counted as crowded when one of its key runs.
Call(p, intent) ==
    /\ calls' = [calls EXCEPT ![p] = @ \cup {[intent |-> intent, job |-> next[p], got |-> "none"]}]
    /\ crowded' = crowded \cup
         {intent.says.of : q \in {r \in Running : \E c \in calls[r] : c.intent.says.of = intent.says.of}}

\* emit returns; what called it goes on: an intent is followed by its act.
Emitted(p) ==
    /\ pc[p] = "appended" /\ draft[p].rows = {}
    /\ draft' = [draft EXCEPT ![p] = NoDraft]
    /\ Goto(p, "open")
    /\ IF Last(draft[p].entry).says.kind = "intent"
       THEN Call(p, Last(draft[p].entry)) ELSE UNCHANGED <<calls, crowded>>
    /\ UNCHANGED <<plan, disk, handle, kills, raced, swapped,
                   index, signs, next, now, left, world, miscut>>

\* One delivery; DeliveryQueue has the attempts, the losses and the repeats.
Deliver(p) ==
    /\ pc[p] = "open" /\ signs[p] # 0
    /\ \E row \in Store(p).queue :
        /\ left' = left \cup {row}
        /\ Write(p, [Store(p) EXCEPT !.queue = @ \ {row}])
    /\ UNCHANGED <<plan, pc, lock, db, dir, backup, handle, kills, raced, swapped,
                   index, signs, next, draft, calls, now, world, crowded, miscut>>

------------------------------------------------------------------------------
(* actuate *)

Entries(chain, kind) == {chain[k] : k \in {j \in DOMAIN chain : chain[j].says.kind = kind}}

\* isIntentFor: the intents of the thread with this idempotency key.
IntentsFor(chain, a) == {e \in Entries(chain, "intent") : e.says.of = a}

\* Mutant: a reconciliation is looked for only when the intent is new.
NeverReconciled(chain, intent) == \E e \in Entries(chain, "result") : e.prev = <<e>>

\* findReconciliation: a Result that names the intent, here by its number.
Reconciled(chain, intent) == \E e \in Entries(chain, "result") : e.says.num = intent.seq

Actuate(p) ==
    /\ Ready(p) /\ signs[p] # 0 /\ Job(p).do = "act"
    /\ LET a == Job(p).of
           found == IntentsFor(Store(p).chain, a) IN
       \/ /\ a \in Refuses
          /\ Draft(p, Says("error", a, 0, 0), {})
          /\ UNCHANGED <<calls, crowded>>
       \/ /\ a \notin Refuses /\ found = {}
          /\ Draft(p, Says("intent", a, 0, 0), {})
          /\ UNCHANGED <<calls, crowded>>
       \/ /\ a \notin Refuses
          /\ \E intent \in found :
              /\ \A e \in found : intent.seq <= e.seq
              /\ IF Reconciled(Store(p).chain, intent) THEN UNCHANGED <<calls, crowded>>
                 ELSE Call(p, intent)
          /\ UNCHANGED <<draft, pc>>
    /\ Done(p)
    /\ UNCHANGED <<plan, disk, handle, kills, raced, swapped,
                   index, signs, now, left, world, miscut>>

\* The outside world: the act is carried out or not, and answered with a
\* receipt, with an unusable one, or with an error, which ends the call.
Act(p) ==
    /\ \E c \in calls[p], got \in {"good", "bad", "error"}, done \in {0, 1} :
        /\ c.got = "none" /\ (got = "good" => done = 1)
        /\ world' = [world EXCEPT ![c.intent.says.of] = @ + done]
        /\ calls' = [calls EXCEPT ![p] = (@ \ {c}) \cup
                        IF got = "error" THEN {} ELSE {[c EXCEPT !.got = got]}]
    /\ UNCHANGED <<doorVars, index, signs, next, draft, now, left, crowded, miscut>>

\* After the await: a Result that reconciles the intent, or an Error.
Return(p) ==
    /\ pc[p] = "open"
    /\ \E c \in calls[p] :
        /\ c.got # "none"
        /\ calls' = [calls EXCEPT ![p] = @ \ {c}]
        /\ Draft(p, Says(IF c.got = "good" THEN "result" ELSE "error",
                         c.intent.says.of, c.intent.seq, 0), {})
    /\ UNCHANGED <<plan, disk, handle, kills, raced, swapped,
                   index, signs, next, now, left, world, crowded, miscut>>

------------------------------------------------------------------------------
(* serve begins and ends *)

\* loadOrCreateKeyPair: the active key; the first is made for a new actor.
Loaded(ks) == IF ks = <<>> THEN 1 ELSE Active(ks)

\* With no active key the constructor throws, and the lock file stays behind.
Boot(p) ==
    /\ Role(p) = "serve" /\ pc[p] = "open" /\ signs[p] = 0
    /\ IF Loaded(index) = 0
       THEN /\ handle' = [handle EXCEPT ![p] = None]
            /\ Goto(p, "gone")
            /\ UNCHANGED <<index, signs>>
       ELSE /\ signs' = [signs EXCEPT ![p] = Loaded(index)]
            /\ index' = IF index = <<>> THEN <<Key(Open0, Open0)>> ELSE index
            /\ UNCHANGED <<pc, handle>>
    /\ UNCHANGED <<plan, disk, kills, raced, swapped,
                   next, draft, calls, now, left, world, crowded, miscut>>

\* SIGKILL, at any point.
Killed(p) ==
    /\ Kill(p)
    /\ draft' = [draft EXCEPT ![p] = NoDraft]
    /\ calls' = [calls EXCEPT ![p] = {}]
    /\ UNCHANGED <<index, signs, next, now, left, world, crowded, miscut>>

Close(p) ==
    /\ Role(p) # "restore" /\ pc[p] = "open" /\ next[p] > Len(plan[p].jobs)
    /\ Role(p) = "serve" => signs[p] # 0
    /\ calls[p] = {}
    /\ Shut(p)
    /\ UNCHANGED <<plan, db, content, dir, backup, kills, raced, swapped, recordVars>>

------------------------------------------------------------------------------
(* keys rotate, keys rotate --root remote, keys revoke *)

\* --at, or the present.
Instant(p) == IF Job(p).at = 0 THEN now ELSE Job(p).at

RotateKey(p) ==
    /\ Ready(p) /\ Job(p).do = "rotate"
    /\ index' = Rotated(index, Instant(p), Open0)
    /\ miscut' = IF Instant(p) < now THEN miscut \cup {Active(index)} ELSE miscut
    /\ Done(p)
    /\ UNCHANGED <<doorVars, signs, draft, calls, now, left, world, crowded>>

\* The successor's ordinal is read before the root is fetched, the head and the next
\* number after; then the root is asked to sign.  The reads are one step, since only
\* a process that came in by the gap of the lock could tell them apart.  The root
\* signs as no key of this store.
AskRoot(p) ==
    /\ Ready(p) /\ Job(p).do = "remote"
    /\ DraftBy(p, 0, Instant(p), Says("delegation", None, Len(index) + 1, 0), {})
    /\ Goto(p, "asked")
    /\ UNCHANGED <<plan, disk, handle, kills, raced, swapped,
                   index, signs, next, calls, now, left, world, crowded, miscut>>

\* It signed: the successor is committed, then the delegation appended.
RootSigns(p) ==
    /\ pc[p] = "asked"
    /\ LET at == Last(draft[p].entry).at IN
        /\ index' = Rotated(index, at, at + Lifetime)
        /\ miscut' = IF at < now THEN miscut \cup {Active(index)} ELSE miscut
    /\ Goto(p, "drafted")
    /\ Done(p)
    /\ UNCHANGED <<plan, disk, handle, kills, raced, swapped,
                   signs, draft, calls, now, left, world, crowded>>

\* It refused or could not be reached: the command fails and nothing changed.
RootRefuses(p) ==
    /\ pc[p] = "asked"
    /\ draft' = [draft EXCEPT ![p] = NoDraft]
    /\ Shut(p)
    /\ UNCHANGED <<plan, db, content, dir, backup, kills, raced, swapped,
                   index, signs, next, calls, now, left, world, crowded, miscut>>

\* Mutant: a cut strands whatever it strands.
NoConflict(store, named, since) == {e \in Entries(store.chain, "proof") : since < 0}

\* votesEmbeddedInProofs: those signed by the named key, at the cut or later.
Conflicts(store, named, since) ==
    {e \in Entries(store.chain, "proof") : e.says.num = named /\ since <= e.says.at}

\* The votes of the key that is named decide; the key that is cut is the active
\* one, whichever that is.  A refusal exits before the lock is removed.  With
\* --claim a second instance is opened after the cut, which the door refuses.
RevokeKey(p) ==
    /\ Ready(p) /\ Job(p).do = "revoke"
    /\ LET since == Job(p).at
           named == Job(p).num IN
       \/ /\ Conflicts(Store(p), named, since) # {}
          /\ handle' = [handle EXCEPT ![p] = None]
          /\ Goto(p, "gone")
          /\ UNCHANGED <<lock, index, next, miscut>>
       \/ /\ Conflicts(Store(p), named, since) = {} /\ Active(index) = 0
          /\ Shut(p)
          /\ UNCHANGED <<index, next, miscut>>
       \/ /\ Conflicts(Store(p), named, since) = {} /\ Active(index) # 0
          /\ index' = Cut(index, Active(index), since, "revocation")
          /\ miscut' = IF named = Active(index) THEN miscut ELSE miscut \cup {Active(index)}
          /\ Done(p)
          /\ UNCHANGED <<pc, handle, lock>>
    /\ UNCHANGED <<plan, db, content, dir, backup, kills, raced, swapped,
                   signs, draft, calls, now, left, world, crowded>>

------------------------------------------------------------------------------
Next ==
    \/ Tick
    \/ \E p \in Running : Look(p) /\ UNCHANGED recordVars
    \/ \E p \in Running : Claim(p) /\ UNCHANGED recordVars
    \/ \E p \in Running : Open(p) /\ UNCHANGED recordVars
    \/ \E p \in Running : Killed(p)
    \/ \E p \in Running : Backup(p) /\ UNCHANGED recordVars
    \/ \E p \in Running : Restore(p) /\ UNCHANGED recordVars
    \/ \E p \in Running : Unlink(p) /\ UNCHANGED recordVars
    \/ \E p \in Running : Unlock(p) /\ UNCHANGED recordVars
    \/ \E p \in Running : CopyDb(p) /\ UNCHANGED recordVars
    \/ \E p \in Running : CopyArtifacts(p) /\ UNCHANGED recordVars
    \/ \E p \in Running : MarkPoint(p) /\ UNCHANGED recordVars
    \/ \E p \in Running : Publish(p)
    \/ \E p \in Running : AppendEntry(p)
    \/ \E p \in Running : Enqueue(p)
    \/ \E p \in Running : Emitted(p)
    \/ \E p \in Running : Deliver(p)
    \/ \E p \in Running : Actuate(p)
    \/ \E p \in Running : Act(p)
    \/ \E p \in Running : Return(p)
    \/ \E p \in Running : Boot(p)
    \/ \E p \in Running : Close(p)
    \/ \E p \in Running : RotateKey(p)
    \/ \E p \in Running : AskRoot(p)
    \/ \E p \in Running : RootSigns(p)
    \/ \E p \in Running : RootRefuses(p)
    \/ \E p \in Running : RevokeKey(p)

Spec == Init /\ [][Next]_vars

------------------------------------------------------------------------------
(* Properties *)

\* The variables keep their types; a running `serve` signs with a key there is.
TypeOK ==
    /\ plan \in Plans
    /\ pc \in [Running -> {"new", "looked", "claimed", "open", "drafted", "appended", "asked",
                           "one", "two", "verified", "unlinked", "unlocked", "copied",
                           "cleared", "replaced", "gone"}]
    /\ lock \in Running \cup {None} /\ db \in Files \cup {None}
    /\ DOMAIN content \subseteq Files
    /\ handle \in [Running -> DOMAIN content \cup {None}]
    /\ kills \in 0..MaxKills /\ raced \subseteq Running /\ swapped \subseteq Running
    /\ signs \in [Running -> 0..Len(index)]
    /\ \A o \in DOMAIN index : index[o].by \in {"none", "rotation", "revocation"}
    /\ now \in 1..MaxNow /\ world \in [Acts -> Nat] /\ crowded \subseteq Acts
    /\ miscut \subseteq 0..Len(index)

\* 04, Outbox integrity: every database holds one chain, numbered from 1 without
\* a gap or a fork, even where two processes have it open, a process is killed
\* between two statements, or the head was read before an await.
ChainUnbroken ==
    \A f \in DOMAIN content :
        LET chain == content[f].chain IN
        \A k \in DOMAIN chain :
            /\ chain[k].seq = k
            /\ chain[k].prev = IF k = 1 THEN <<>> ELSE <<chain[k - 1]>>

\* What is on the record and addressed is queued or delivered.  A kill between
\* the append and the rows leaves at most one activity short, and so does a
\* restore of a backup that was taken there.
Short(f) ==
    {k \in DOMAIN content[f].chain :
        LET e == content[f].chain[k] IN
        \E t \in e.to : <<e, t>> \notin content[f].queue \cup left}
EveryAddresseeQueued ==
    \A f \in DOMAIN content :
        Cardinality(Short(f)) <=
            kills + Cardinality(raced) + Cardinality(swapped)
                  + Cardinality({p \in Uses : pc[p] = "appended" /\ handle[p] = f})

\* ADR-0012: nothing is signed with a key after it was retired, though a running
\* `serve` never reads the index again: the lock keeps key commands out of its
\* life, where it was not raced and the store not replaced.
RetiredKeyIsSilent(f) ==
    Len(content'[f].chain) > Len(content[f].chain) =>
        LET key == Last(content'[f].chain).key IN
        key = 0 \/ index[key].until = Open0 \/ raced # {} \/ swapped # {}

\* ADR-0021 Decision 4d: no key operation puts a vote that an EquivocationProof
\* on the record embeds outside its key's interval; the exceptions are a cut of
\* another key than the one named, a rotation dated in the past, and a command
\* that still has the store open which a restore has replaced.
StaysSigned(e) ==
    Covers(index, e.says.num, e.says.at) =>
        Covers(index', e.says.num, e.says.at) \/ miscut' # miscut \/ swapped # {}

\* Both: whatever becomes of the keys, what was signed stays signed, and nothing
\* is signed by a key that is no more.
KeysKeepTheirWord ==
    [][/\ \A f \in DOMAIN content : RetiredKeyIsSilent(f)
       /\ \A e \in Entries(IF db = None THEN <<>> ELSE content[db].chain, "proof") :
             StaysSigned(e)]_vars

\* Of evidence that stays signed, what ADR-0021 and keyOps.ts say without those
\* exceptions: a revocation leaves no vote that a proof embeds after its cut.
NoRevocationUnsigns ==
    \A f \in DOMAIN content : \A e \in Entries(content[f].chain, "proof") :
        e.says.num \in DOMAIN index =>
            \/ index[e.says.num].by # "revocation"
            \/ e.says.at <= index[e.says.num].until

\* ADR-0035: a key whose window a root declared has its delegation on the
\* record, but for a kill between the two or a number taken during the await.  A
\* delegation for an actor that had no key names its first key, not the second.
DelegationBacksKey ==
    \A o \in DOMAIN index : index[o].declared # Open0 =>
        \/ db # None /\ \E e \in Entries(content[db].chain, "delegation") :
              e.says.num = o \/ (e.says.num = 1 /\ o = 2)
        \/ \E p \in Running : pc[p] = "drafted" /\ Role(p) = "keys"
        \/ kills > 0 \/ raced # {} \/ swapped # {}

\* 03, External systems: an action is announced once on a chain, whatever is
\* retried and whoever else has the store open.
IntentOnce ==
    \A f \in DOMAIN content : \A a \in Acts :
        Cardinality(IntentsFor(content[f].chain, a)) <= 1

\* What was done is on the record, once: well typed, the rows of what was
\* published, the delegation of a key that was introduced, the intent of an act.
RecordKeepsUp == TypeOK /\ EveryAddresseeQueued /\ DelegationBacksKey /\ IntentOnce

\* ADR-0028 Decision 2: the world is not acted on for an intent that is already
\* reconciled, after any kill and retry; two calls in flight at once are not told
\* apart, a store put back from a backup has forgotten, and two processes that
\* have the store open do not know of each other's calls.
NoActAfterReconciled ==
    [][\A p \in Running : \A c \in calls[p] :
        /\ world'[c.intent.says.of] > world[c.intent.says.of]
        /\ \E e \in Entries(Store(p).chain, "result") : e.says.num = c.intent.seq
        => c.intent.says.of \in crowded \/ raced # {} \/ swapped # {}]_vars
=============================================================================
