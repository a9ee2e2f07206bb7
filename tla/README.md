# Verification of the agent federation protocol instance

TLA+ modules, TLC configurations and TLAPS proofs about the instance under
`src/src/instance/src/` (TypeScript), the program that runs a federation
member's agents, exchanges tasks with other instances and hosts governance
hubs. Source paths below are relative to that directory unless they start with
`docs/` or `src/`.

Contents: [the system](#1-the-system), [its hard behaviours](#2-what-is-hard),
[modules](#3-modules), [runs](#4-runs-and-what-they-show),
[bounds and fairness](#5-bounds-and-fairness), [proofs](#6-proofs),
[disagreements found](#7-disagreements-between-code-and-documents),
[not modelled](#8-not-modelled), [what is left](#9-what-is-left).

To check: `tlc -config <run>.cfg <MC module>` for a run of section 4, and
`tlapm <Module>Proofs.tla` for the proofs.

## 1. The system

One Node.js process serves one *instance*: its agents, its actor, its hubs.
All durable state is one SQLite file, written by synchronous statements, one at
a time; **no transaction spans two statements of a handler**. Handlers are
ordinary functions on one event loop, so what interleaves is what an `await`
lets in: HTTP hops, an agent's brain, a remote signer, an external act.

| part | source | state it keeps | operations | module |
|---|---|---|---|---|
| delivery queue | `store/queue.ts` | `delivery_queue`, `peer_backoff`, `peer_limit` | enqueue, ready, flush, drain, setPeerBackoff | `DeliveryQueue` |
| task exchange | `instance.ts` (delegate, sweepOverdue), `inbox.ts`, `store/tasks.ts`, `store/dedupe.ts` (seen ids) | `pending_tasks`, `task_results`, `seen_ids`, paused agents in memory | delegate, receive, dispatch, sweep, pause, resume | `TaskExchange` |
| outbox chain | `store/outbox.ts`, `instance.ts` (emit) | `outbox`: per-actor hash chain | append, emit | `InstanceRecord` |
| auctions | `allocation/allocator.ts`, `allocation/store.ts` | `alloc_*` tables | announce, commit, reveal, closeAuction, accept, sweepAwards, settle | `Allocation` |
| selection rules, reputation | `allocation/rules.ts`, `allocation/reputation.ts` | none (pure) | ranking, coverage search, snapshot | `SelectionRules` |
| contribution | `hub/summary.ts` | none (pure) | compute, publish, recompute | `Contribution` |
| hub rounds | `hub/hub.ts`, `hub/quorum.ts`, `hub/weights.ts`, `hub/equivocation.ts` | rounds, receipts, kept ballots, convictions, restorations | propose, vote, decline, proof, close, demandClose | `HubRound` |
| hub membership | `hub/hub.ts`, `hub/seats.ts`, `instance/following.ts`, `ports/hubCommand.ts` | tags and registers; the instance's own chain | Follow, Undo, Enroll, Unenroll, expel, transfer, freeze, archive | `HubReplicas`, `Seating` |
| anti-entropy | `hub/hub.ts`, `crdt/` | provenance rows, seen set in memory | digest, answer, dispatch of a batch | `HubReplicas` |
| federation boundary | `federation/` | agreements, deny-list, accepts, boundary log | handshake, gate, late outcome, refuse, defederate | `Federation` |
| hop and its door | `federation/transport.ts`, `httpSig.ts`, `rateLimit.ts`, `inbox.ts` | learned scheme, spent signatures, buckets | deliver with double knock, verify, replay check, limit | `HopDoor` |
| read gate | `federation/readGate.ts`, `federation/grants.ts` | grants | admit a read | `Federation` |
| external actuation | `instance/external.ts`, `ports/approval.ts` | chain only | initiate, intent, act, reconcile, approve | `TaskExchange`, `InstanceRecord`, `Approval` |
| keys | `instance/keyOps.ts`, `crypto/keys.ts` | key index, delegations | load, rotate, rotate under a remote root, revoke | `InstanceRecord` |
| store, backup | `store/db.ts`, `store/backup.ts` | the file, its lock, artifacts | open, lock, back up, restore | `StoreDoor` |
| runtime | `runtime/scheduler.ts`, `schedule.ts`, `shutdown.ts` | timers, cursors | wakes, ticks, drain | `Resident` |
| configuration | `config.ts`, `agentsSpec.ts`, `policySpec.ts`, `runtime/configCheck.ts`, `instance.ts` (provision) | none; the roster is on the chain | load, check, boot, vouch, disown | `Charter` |
| export, replay | `export.ts`, `src/verifier/*.py` | the bundle directory | export under a scope, replay one bundle or two | `Bundles`, `Charter`, `SelectionRules`, `Contribution` |

Parts interact through three things only. *Calls inside the process*: `emit`
appends to the chain and enqueues one row per addressee; the scheduler's ticks
flush the queue, sweep deadlines and run the hubs. *Messages*: a queued row is
one HTTP POST, repeated until it is answered or given up. *Shared tables*: a
hub builds its own `DeliveryQueue` object over the instance's database
(`hub/hub.ts:315`), so the instance's queue and every hub's queue are one table.
Commands at a prompt (`keys`, `backup`, `restore`, `config check`, `export`)
are processes of their own over the same file, kept apart by a lock file.

## 2. What is hard

Each item of `PROJECT.json`'s "hazards" names the line and the properties that
watch it. In summary:

* **Two flushes of one table.** A flush reads its rows once and awaits one hop
  per row; the tick that started it has no in-flight guard, and hubs and a
  shutdown flush the same table.
* **Seen before done.** An activity's id is committed to `seen_ids` before its
  handler runs. A kill in between makes the redelivery a duplicate.
* **Read before an await and used after it**: the result cache
  (`inbox.ts:252`), the chain's head and number around a remote signature
  (`instance/keyOps.ts:188`), the search for a reconciliation before the act
  (`instance/external.ts:130`), artifact references before the read gate
  (`ap/server.ts:413`).
* **Publish, then write.** Every handler publishes an activity and then updates
  its row. A kill in between repeats the activity, or leaves it unwatched.
* **At-least-once, unordered delivery.** A row whose hop failed is retried
  after rows published later; replicas exchange batches in any order.
* **Memory that a restart forgets**: the ids a hub dispatched, roles, the
  learned scheme, buckets.
* **A lock in two system calls**, and a store replaced under its readers.
* **Instants at an edge**: an agreement that expires between an Accept and its
  Result, a signature whose replay row ends before the signature stops verifying,
  a rotation dated in the past, a settlement of the millisecond of a snapshot, a
  pin recorded later that sorts first.
* **Re-auctions, re-votes, convictions and seats** that move while a bid, an
  acceptance or a vote is on its way.
* **What is withheld** from a bundle must not break its replay.

What makes each part correct, in a sentence: the queue gives up only after the
whole budget and never changes an outcome; a delegated task is closed only with
evidence on the chain, an Offer is answered once, accepted work ends; what a hub
says was awarded is recomputable from its chain, watched until accepted, and
respects the walls the announce named; credit is neither lost nor made up; a
round counts lawful ballots only and ends in one decision; replicas of a hub
that saw the same things in the same order hold the same things; work crosses a
boundary only under an agreement that both have, and what was under way when it
expired still lands; a reader is shown what something entitles it to; a chain is
unbroken whoever writes it and a retired key is silent; an external act is
announced once; no loop starves; what an instance exports replays.

Hazards this code has which the list leaves out only to stay readable: a crash
between the UPDATE to dead and its report (`runtime/scheduler.ts:226`); a
hub's drain on a virtual clock (`hub/hub.ts:2162`); a kill inside `sweepOverdue`
and `delegate` (`instance.ts:643`, `:489`) and between an outcome and its cache
(`inbox.ts:298`), which `TaskExchange` has as actions; no branch for a Reject
(`inbox.ts:140`); `finishClose`, which asks no status (`hub/hub.ts:1952`); the
statement pairs of `allocation/allocator.ts:524`, `:329`, `:488`, `:422`, `:541`,
which `Allocation` has as actions; the key that a check of the configuration
leaves behind (`runtime/configCheck.ts:149`).

## 3. Modules

| module | models | of |
|---|---|---|
| `ReliableDelivery` | what the queue promises its callers (abstract) | ADR-0025, `store/queue.ts` |
| `DeliveryQueue` | the table, the flush with its awaits, its four callers | `store/queue.ts`, `instance.ts`, `hub/hub.ts`, `runtime/` |
| `TaskExchange` | one task's exchange between delegator and performers | `instance.ts`, `inbox.ts`, `store/tasks.ts`, `store/dedupe.ts` |
| `Allocation` | the auctions of one hub | `allocation/allocator.ts`, `allocation/store.ts` |
| `SelectionRules` | how an award is computed, beside the replay's own computation | `allocation/rules.ts`, `allocation/reputation.ts`, `src/verifier/allocation.py`, `reputation.py` |
| `Contribution` | the sum of a period, and its recomputation | `hub/summary.ts`, `src/verifier/summary.py` |
| `HubRound` | the decision rounds of one hub | `hub/hub.ts`, `hub/quorum.ts`, `hub/weights.ts`, `hub/equivocation.ts` |
| `HubReplicas` | the replicated state of one hub | `hub/hub.ts`, `hub/seats.ts`, `crdt/` |
| `Seating` | a seat seen from the instance and from the hub | `instance/following.ts`, `ports/hubCommand.ts`, `hub/seats.ts` |
| `Federation` | the boundary between operators, what is posted and what is read | `federation/` |
| `HopDoor` | one hop, and the receiver's door up to the gate | `federation/transport.ts`, `httpSig.ts`, `rateLimit.ts`, `store/dedupe.ts` |
| `StoreDoor` | the lock, opening, backup and restore | `store/db.ts`, `store/backup.ts` |
| `InstanceRecord` | what a process writes once inside: chain, rows, keys, acts | `instance.ts`, `store/outbox.ts`, `crypto/keys.ts`, `instance/` |
| `Approval` | the commands of a controller that reach the record | `ports/approval.ts`, `ports/command.ts` |
| `Resident` | the loops and the drain of the process | `runtime/` |
| `Charter` | what the settings say against what the instance does | `config.ts`, `agentsSpec.ts`, `policySpec.ts`, `runtime/configCheck.ts` |
| `Bundles` | exports under a scope, and their replay | `export.ts`, `src/verifier/` |
| `...Proofs` | theorems about the module of that name; `DeliveryQueueProofs` also about `Resident`, `FederationProofs` about `HopDoor` and `Bundles`, `AllocationProofs` about `SelectionRules` and `Contribution` | |
| `InstanceProofs` | theorems about `Seating`, `Approval` and `Charter` | |
| `MC...` | model values, scenarios and compositions for TLC | |

`InstanceRecord` extends `StoreDoor`: the processes that write the record come
through the door, are killed anywhere, and find the lock of the dead.
`DeliveryQueue` is shown to implement `ReliableDelivery`, on which
`TaskExchange` relies for its channel.

Four MC modules put together parts that live in one process or one record but
do not disturb each other, as the alternatives of one next-state relation; the
variable `about` says which one a behaviour is about, and the others stay put.

| MC module | parts | `about` |
|---|---|---|
| `MCInstance` | `InstanceRecord`, `Seating`, `Approval`, `Charter` | record, seat, approvals, charter |
| `MCFederation` | `Federation`, `HopDoor`, `Bundles` | agreements, hop, bundles |
| `MCAccounts` | `SelectionRules` (twice, for two bounds), `Contribution`, `Allocation` | bids, scores, period, auction |
| `MCResident` | `DeliveryQueue`, `Resident` | queue, process |

Operators with a comment starting `Mutant:` are wrong versions of the operator
that follows, each what a plausible slip in the code would do. They are used by
nothing; substituting one for the right operator has to break a property.

### DeliveryQueue

| code | model |
|---|---|
| a row of `delivery_queue` | `rows[i]`; the AUTOINCREMENT key is `i`, so `ORDER BY id` is the order on numbers |
| `peer_backoff.not_before` | `notBefore[p]` |
| `flush` up to its first await | `Snapshot`, in `BeginFlush` (ticks, shutdown) and `BeginDrain`/`NextPass` (drain, on its virtual clock) |
| one awaited hop and the write that follows it | `SettleDelivered`, `SettleFailed` (refused, refused with Retry-After, or answer lost after the peer took it in) |
| `tickFlush` after its flush | `TickReturns`, with `recordDeadLetters` |
| `AfpInstance.run`, `Hub.run` | `DrainReturns`, `RunStops`; the outer loop of at most eight rounds is `round`, drain's inner one is `pass` |
| shutdown's last flush | `StopReturns`, which ends the process |
| `kill -9` | `Kill`: call contexts are lost, a hop in flight may have landed |

A caller is a process with the local variables of its call (`batch`, `snap`,
`began`, `gone`, ...); the table is shared. Between the hop of one row and the
write of its outcome every other caller may run. Activities and peers are
opaque; `local` tells an agent's activity from an instance's or hub's, because
`recordDeadLetters` can only report the former. `setPeerLimit` and the
outbound rate limit are left out.

`ReliableDelivery` is the abstract specification: per item a status, the
copies the peer took in and the Errors that report its dead letter. The
property `DeliveryContract` says that the queue with one caller implements it,
under the refinement mapping `status <- rows[i].state`, `copies <- landed`,
`reports <- errors`.

### TaskExchange

| code | model |
|---|---|
| the outboxes | `chain`, a sequence; an activity's id is its index |
| the delivery queue | `queued`, the ids with a pending row: ReliableDelivery's promise, delivery at least once in any order |
| `seen_ids` (`TtlSeenTable`) | `seen`: the instant each window ends |
| `pending_tasks` | `pend`, `due` |
| `task_results` | `cache` |
| `delegate`, `initiate` | `Delegate` (an event's task only while it has no row) |
| `receive` and `onTaskOffered` | `DropDuplicate`, `Decline`, `Replay`, `Start`; the awaited brain is `running`, its return is `BrainReturns` |
| `onAccepted`, `onResult`, `onError` | `TakeAnswer` |
| `sweepOverdue` | `Sweep`: all overdue rows in one step, since the handler is synchronous |
| a kill between two statements | `KilledInDelegate`, `KilledInReceive`, `KilledInFirstReply`, `KilledInReply`, `KilledInSweep`; between two handlers, `Kill` |

Both sides share one `chain` and one `seen`, as they do in one instance;
between instances the tables are separate, but an id is only ever looked up by
its addressee, so nothing is lost. Brains are external: they answer, fail or
are killed. Payloads, signatures and reputation are left out.

### Allocation

| code | model |
|---|---|
| `alloc_auctions` | `status`, `award` |
| `alloc_bids` | `bids` |
| `alloc_pending_accepts` | `pending`, at most one row per task |
| `alloc_settlement_records` | `recorded` |
| the chain | `published`, `settlements`, `failed` (the bidders Reauctions named) |
| `announce`/`onAnnounce`, `onCommit`, `onReveal` | `Announce`, `Commit`, `Reveal` |
| `closeAuction` with `publishAward` | `CloseAuction` |
| `onAccept` | `Accept`, of any Award ever published: it may be a late copy |
| `sweepAwards` | `Sweep`, over all answered and overdue rows |
| `settle`/`onActualsReport` | `Settle` |
| a kill between two statements | `KilledInClose`, `KilledInSweep`, `KilledInSettle` |

Instants are abstracted to the two facts the code compares: the bid window has
closed (`closed`), acceptBy has passed (`due`). A kill inside `announce` leaves
the announcement on the chain and no row, so nothing can be bid on: no action.
The rule is the constant `Choice`, a function of the pool; its body is
`SelectionRules`. That a task id is announced once, and
`closeAuction` called once and after the window, is the callers' protocol
(`MayClose`); the code does not enforce it. Nothing in the served program calls
`closeAuction`, `sweepAwards` or `settle` on a timer, so no liveness is claimed.

### HubRound

| code | model |
|---|---|
| `hub_rounds` | `status`, `created`, `voters`, `weights` |
| `roundMeta` register | `level`: the rounds whose register says level 1 |
| `hub_vote_receipts` | `receipts`: one ballot per round and voter |
| `voteActivities` register | `kept`: one ballot per round, voter and phase, with its instant |
| `hub_round_declines` | `declined` |
| `hub_convictions`, `hub_restorations` | `convicted`, `restored` |
| the hub's chain | `decisions` (DecisionRecords), `proofs` (EquivocationProofs) |
| the live members | `members` |
| the dispatched ids, in memory | `seen`: L0 votes only, since a tuple's number already stops its copy |
| `proposeRound` | `Propose`, with the recusal check and the close of an exhausted electorate |
| `onVote` | `CountVote`, `KeepVote` (an earlier phase, kept but not counted), `Convict` |
| `onEquivocationProofAnnounce`, `onRoundDecline` | `AnnounceProof`, `Decline` |
| `closeRound`, `demandClose`, `finishClose` | `CloseRound`, `DemandClose` |
| `onMembershipActuation` | `Expel`, `Admit` |
| `onEnroll`, `onUnenroll` | `Enroll`, `Unenroll`, by their effect on who may be pinned |
| a kill between two statements | `KilledInPropose`, `KilledInVote`, `KilledInConvict`, `KilledInClose`; between two handlers, `Kill` |

Weights (`Weights`), bars (`BarOver`), tally, doom test, conviction rule
(`Convicts`) and the zeroing of a voter (`Zeroed`) are the code's functions,
translated. Messages need no channel: what an agent signs is the constant
`Signed`, and a signed ballot may arrive at any time, in any order and again.
`closeRound` does not ask whether the round is open, so `CloseRound` does not
either. What callers of `proposeRound` ask for (`Asked`) is an input; the guard
keeps the checks that the code makes on it. Left out: superseding rounds (the
hub proposes its own rounds and is no voter, so each is refused today),
departures, action policies, and the hub's freeze and archive, which are in
`HubReplicas`.

### SelectionRules and Contribution

| code | model |
|---|---|
| the hub's Settlements, `alloc_settlement_records` | `ledger` (the chain), `onFile` (positions that have a row) |
| `settle` up to the snapshot of a later announce | `Settlement`, `SettlePast`; a kill may leave an entry off `onFile` |
| `announce` with its rule and snapshot | `AnnounceRule`: `pinned` is what has a row, dated strictly before |
| `alloc_bids.reveal_json` | `opened`, set by `OpenBid` |
| `runReputationRule`, `divergenceDecay`, `usableCost` | `Reputation`, `Usable`, `Counts`, `Accuracy`, `Weight` (halves with age) |
| `ranking`, `coverage` | `Ranking`; `Coverage` with its `1 << n` enumeration in 32 bits, a `Masked` subset by the `Index` of its rows, `Better` |
| `verifier/allocation.py`, `reputation.py` | `Recomputed`, `SelectRanking`, `SelectCoverage`, `Omitted` |
| `computeContribution` and `summary.py` recompute | `Compute` over a pool of copies: `Deduplicated`, `Rows`, `Share` and `Earned`, `Credited`, `Unreadable` |
| `operatorAt` | `OperatorAt` the close of the period |
| Results, supersessions, Settlements, Enrolls as they come | `Post`, `Receive`, `SettleTask`, `Move` |
| `contributionSummary`, V3/V5/V6 of the replay | `Publish`, `Recomputes` |

The writer's rules and the replay's are translated from their own sources,
TypeScript and Python, and compared over every sub-pool of every set of bids.
Documents of a bid, durations and digests as text are left out; `Unparsed` is a
latency outside the subset the parser knows.

### HubReplicas and Seating

| code | model (`HubReplicas`) |
|---|---|
| OR-Sets of seats, members, capabilities, application elements | `tags`, `dead`: the activities that added and removed |
| LWW registers (role, operator's instance, transfer, asset) | `reg`, by `Merged` (instant, then digest or node) |
| `crdt_provenance` | `rows`, in order; one per move of a handler |
| the closing commands on file | `closed` |
| `status`, `roles`, dispatched ids, batch in hand | `status`, `roles`, `seen`, `work`: memory |
| the handlers of a Follow, Undo, Enroll, Unenroll, expulsion, transfer, asset, delta | `FollowMoves` ... `DeltaMoves`: the list of moves, each a statement or more |
| `dispatch` of one activity | `Dispatch`, `Receive`; killed after `n` statements, `KilledInHandler` |
| `offerSync`, the answer to a digest, `applyDeltas` | `Offer`, `Answer`, `TakeDeltas`, `TakeNext`, `DropBatch` (seats first, the rest in the sender's order) |
| freeze, archive | `Freeze`, `Archive` |
| a restart with `hydrate` | `Restart`, `Recovered`, `Hydrated` |

`torn` records what a kill cut in two, since nothing repairs it. The network
between replicas (`net`) loses, repeats and reorders.

`Seating` is the same seat from the other side: the instance keeps no table, it
folds its own chain (`Following`, `LatestFollow`), while the hub keeps tags of
what arrived (`OnFollow`, `OnUndoFollow`, `OnEnroll`, `OnUnenroll`). An
operator's typed command is `ExecuteHubCommand`, the queue is `owed` with
`Arrive` and `ArriveAgain`, and `RestartHub` forgets `heard`.

### Federation, HopDoor and Bundles

| code | model (`Federation`) |
|---|---|
| `agreements`, own and received Creates | `own`, `theirs` |
| the accepts by correlation | `accepts`: the published instant |
| `denylist`, `boundary_log` | `deny`, `log` (with whether a refused outcome came late) |
| `received_activities`, dispatched to the inbox | `received`, `dispatched` |
| the gate of `inbox.ts` after its awaits | `Handshake`, `Admit`, `ComeLate`, `Refuse`, by `GateStep`, `AdmittingGrant`, `LateOutcome`, `AdmitWrite`; a handshake is taken from whoever signed it |
| the statements of an admitted activity | `Todo`, run one at a time by `RecordOwnCreate`, `RecordTheirCreate`, `RecordAccept`, `RecordReceived`, `Receive`; `Kill` between two |
| the sender's side | `Sign`, `Offer`, `Accept`, `Conclude`, `Post`, `Defederate` |
| `readGate.ts` with the document fetched in between | `Ask` (references looked up), `Serve` (`MayRead` of each of those; what goes out shows all that refers to it by then) |
| `check_federation` of the verifier | `AdmittedOnReplay`, `RidesAccept` |

`HopDoor` is what comes before: a sender learns a scheme per origin and knocks
twice (`Knock`, `Reply`); a receiver fetches a key (`RefusedForNoKey`), checks the
date (`InSkew`), the signature's row (`Seen`, `Mark`) and the bucket (`Opened`),
then the author's proof (`RefusedUnproven`, a 401 after the signature was spent),
and ends (`Finish`), with an await on either side and a kill between the steps.
The sender's clock may be ahead of the receiver's or behind it. What was sent may
be handed over again at any later tick, to a receiver that restarted.

`Bundles`: `chains` per author, `taken` (received activities), and the export
directory. `Export` writes a bundle under a request (threads, a floor, an
agreement, omitted agents) with a stub for what is withheld; `ExportFails` is
the guard that throws. The replay is operators over the files: `Replays`,
`AnswersKeepPins`, `ScopeTravels`, and of two bundles `AgreementsAgree` and
`SentAsReceived`, the first two checks of `check_joint`. An export is synchronous
and takes the lock, so nothing interleaves within one; the record grows between
two.

### StoreDoor, InstanceRecord, Approval

| code | model |
|---|---|
| the lock file; `acquireLock`'s read and write | `lock`; `Look`, then `Claim` |
| a database file under a name, and one open but unlinked | `db`, `handle[p]`, `content[f]` |
| `backup` in its three copies | `Backup`: database, artifacts, manifest |
| `restore` | `Restore`, `Unlink`, `Unlock`, `CopyDb`, `CopyArtifacts`, `MarkPoint` |
| `emit` | `Publish` (draft), `AppendEntry`, `Enqueue`, one step per statement |
| a flush that delivers | `Deliver` |
| the key index, the keys `serve` loaded | `index`, `signs` |
| `rotateKey`, under a remote root, `revokeKey` | `RotateKey`; `AskRoot`, `RootSigns`, `RootRefuses`; `RevokeKey` with `Conflicts` |
| `actuate`: search, intent, awaited act, result | `Actuate`, `Act`, `Return` |
| `kill -9` | `Killed`: the lock stays, naming a pid that is gone |

One actor's chain and one key stand for all; each actor has its own and the
code is the same. A digest is the activity it is the digest of. A scenario
(`plan`) says what each process is started for and after which others.

In `AskRoot` the ordinal, which the code reads before it fetches the root's key,
is read in one step with the head and number, which it reads after; only a
process that came in by the gap of the lock could tell the two apart, and there
`RecordKeepsUp` excuses what comes of it.

`Approval` has the outbox as `book` and the approvals under way as `asks`:
`OfferOn`, `Approve` (the pinned policy, the intent under its key, what was
reconciled before), `Reconcile` after the one await, `CallersLost` for a kill.
The pin that counts is the first as the code reads a thread, by instant, author
and sequence (`Sorts`), which need not be the one appended first.

### Resident and Charter

`Resident`: `period` and `nextAt` are `Schedule`'s table; `TimerFires` is one
loop's own timer, `AlarmRings` and `RunNext` are `runDue` in a hosted profile,
one loop after the other as they are declared (`FirstOf`); `BeginTick` with its
offers (one peer per hub and tick, by `cursor`), `HubRuns`, `TickEnds`. `Signal`,
`SignalAgain`, `FlushBegins`, `FlushEnds` are `shutdown.ts`, with `PostArrives`
and `PostHandled` for the server beside it.

`Charter`: a version of the settings is a record of what is wrong with them and
of what they choose. `LoadConfig`, `Collect`, `OpenInstance`, `MintKey`,
`Provision`, `ServeUp` are a boot, with the agents file read twice;
`ExportBundle` writes the bundle a replay then holds to the policy of the day;
`Validate`, `Probe`, `SelfCheck` are `config check`; `Edit` is the operator, at
any point in between.

## 4. Runs and what they show

Twelve runs, ten of which pass and check forty properties between them. A
property is the conjunction of what one question asks; its parts are named
definitions of the module.

| run | property | says |
|---|---|---|
| `dq_tick` | `DeliveryContract` | with one caller the queue implements `ReliableDelivery` |
| | `ScheduleIsKept` | a row is tried again by a flush on the real clock no sooner than its backoff, and no flush takes it up inside a window its peer asked for |
| `dq_overlap` | `GivenUpOnlyAfterBudget` | stale snapshots of overlapping flushes never give a row up early |
| `dq_live` | `Surfaced` | a dead letter of an agent becomes exactly one Error, a row that may still arrive none |
| | `EverySettles` | every row is delivered or dead-lettered in the end |
| | `ScheduleIsFair` | loops neither catch up nor starve, hub peers take turns |
| | `DrainEnds` | a shutdown ends, and what it leaves is clean |
| `tx_core` | `ClosedWithEvidence` | a closed task has its Result or Error on the chain |
| | `OneAnswerPerOffer` | one Accept or Reject and one outcome per Offer |
| | `ReopenedByAcceptOnly` | nothing but a late Accept reopens a closed task |
| `tx_live` | `AnsweredIsReplayed` | an answered task is replayed, not performed again, unless another agent of the instance answered first |
| | `WorkEnds` | tasks with a deadline close, accepted work gets an outcome |
| `ac_core` | `AuctionInv` | what the tables award is on the chain; walls hold; settled once |
| | `Watched` | each performer of an award has accepted or is waited for |
| | `AwardRecomputes` | hub and replay choose the same winners, and losers do not matter |
| | `ScoresStand` | the pinned reputation is exhaustive, newest weighs most |
| | `AccountsAddUp` | credit is conserved, periods add, a summary recomputes later |
| `hr_core` | `RoundInv` | convictions are backed by ballots, records match tables |
| | `QuorumsIntersect` | two records that decide differently share a backer |
| | `NoOperatorDecidesAlone` | under a majority rule no operator decides alone |
| | `DoomLiftedOnlyByRevote` | a doomed round stays doomed but for a changed ballot |
| `hp_core` | `MembersAreSeated` | a member's operator holds a seat |
| | `ReplicasAgree` | same order, same members, registers and roles |
| | `HandsOn` | what a replica holds it can hand on to one that is behind |
| | `ReplaysChangeNothing` | a Follow or Enroll dispatched again moves no seat or member, an asset version keeps its digest |
| `ir_core` | `OneWriter` | two processes have the store only by the gap of the lock |
| | `ChainUnbroken` | no gap and no fork in any database |
| | `RecordKeepsUp` | addressees are queued, delegations published, acts announced once |
| | `BackupRestores` | a backup is whole, a restore is marked before `serve` |
| | `KeysKeepTheirWord` | a retired key is silent, evidence stays signed |
| | `NoActAfterReconciled` | no act for an intent that is reconciled |
| | `SeatEndsAgree` | seat and crew at the hub are what the trail says |
| | `DecidedOnce` | one intent per decision, but where a pin recorded since sorts first; told as it is on the record |
| | `CharterHolds` | vouched once, cleared settings boot, replay blames edits only |
| `fed_core` | `CrossingsHold` | new work crosses under a running agreement that the receiver published and another published to it, a late outcome rides an Accept in time, and both replay from the sender's record |
| | `InFlightLands` | work accepted in time is not turned away |
| | `ReadsAreCovered` | nothing older than the request is shown to one whom nothing entitles to it when the answer is given |
| | `DoorHolds` | a request opens the door again no sooner than its row lasts and no later than it verifies, buckets hold |
| | `LegacyForCause` | a peer is remembered as legacy for a reason |
| | `BundlesReplay` | bundles are what they declare and replay, alone and together |

`tx_v_double` and `ir_v_evidence` are expected to be violated: section 7.

Each property has at least one mutant in `PROJECT.json`: a wrong version of a
definition that a slip in the code would give, under which the run fails.

## 5. Bounds and fairness

Every unbounded counter has a named bound in a guard.

* `DeliveryQueue`: `MaxItems` rows, instants up to `MaxTime`, sends up to
  `LastSend`, `MaxKills`/`MaxExits` ends of the process. Two rows are needed
  for one row's outcome to be written while another waits in the snapshot; two
  peers for floors that differ; `MaxAttempts = 2` gives a first failure, a
  retry and a dead letter; `RetryAfters = {1, 2}` has a delay shorter than one
  given before, without which keeping the later floor would not show. In
  `dq_overlap` one row is enough, since overlapping flushes disturb each other
  row by row; every kind of caller is present once. `MaxRounds = 2` instead of
  8 lets the outer loop come round once. `dq_live` has `LastSend = 1` and
  `MaxTime = 8`, enough for two rows' whole schedules to lie inside the clock;
  `Brisk` says that hops and ticks take no time against a unit of the schedule,
  which keeps the end of the clock from cutting a schedule off.
* `Resident` (in `dq_live`): the loops flush (every 2) and converge (every 1),
  jitter 0 or 1, two hubs of two peers, a tick that may last or be late by one
  unit, one that throws, five units in all; timers and an alarm. Two hubs are
  needed for one to cut another off, two peers for turns. With an alarm
  `NoCatchingUp` lets a loop begin again sooner than its period by what the
  ticks before it in the batch took, which is what the code does. Three loops
  are too many for the liveness properties of this run; what they would add is
  in the theorem `ScheduleStaysFair`, which is for any number (section 6).
* `TaskExchange`: two Offers, so that one task has two of them, which the
  second dedupe layer is there for; one kill, at each kill point alone;
  `MaxTime = 2` with `Span = 0`, so that a deadline is set, passed and swept.
  In `tx_core` `SeenTtl` exceeds `MaxTime`: redelivery never outlasts the
  window, the case `OneAnswerPerOffer` is about. In `tx_live` `SeenTtl = 1`:
  every window ends inside the run. Ends of windows after `MaxTime` are one
  instant (`WindowEnd`), as nothing can tell them apart. A brain returns before
  the window of its own Offer ends; by default the window is a day
  (`AFP_SEEN_ID_TTL_MS`) and a brain has two minutes (`AFP_LLM_TIMEOUT_MS`).
* `Allocation` (in `ac_core`): three bidders, of which one alone covers the task
  and two only together; so a re-auction without a failed winner can have
  another winner, a different pair, or nobody. Two tasks for the wall.
  Re-auctions are not bounded, the pool of bidders is. One kill.
* `SelectionRules`, `Contribution`: three bidders with four payloads under three
  rules, two settlements, a clock of two instants: ties, an unparsed latency and
  a score that halves all occur, and every subset of bids is ranked. Two members with
  two agents, two tasks with two Results, one supersession, one move of an
  agent, one summary, a clock of two instants: a Result in each period, in the
  instant of the close, and after it.
* `HubRound`: two rounds, the fewest for one conviction to bear on another
  round and for a restoration to lie between them or at the instant of one;
  three agents of two operators, the fewest for one operator to outvote another
  by heads but not by weight; `MaxTime = 2`, so that the creation instants of
  two rounds may be equal or differ and the deadline passes. `MaxRecords` lets
  the hardened round be closed twice, which `QuorumsIntersect` is about.
  `Signed`, `Declining`, `Asked` and `Mobile` are small inputs: one voter signs
  two conflicting ballots, one votes yes in the first phase and no in the second,
  one only no in the second; one declines, one seat moves. So a record that a
  kill cut off from its close says yes, and the one after the re-vote no. One
  kill. No liveness is claimed: nothing closes a round on a timer.
* `HubReplicas`: two replicas, one instance, two agents, fourteen activities in
  six scenarios (`Directs`), one digest offered in all (`MaxOffers`), one restart
  of the replica that did not host the hub. Two enrolments of one agent and one
  of another let a removal meet a concurrent addition; two transfers and two
  registrations let registers conflict.
* `StoreDoor`, `InstanceRecord`: six processes in six scenarios (`MCPlans`), one
  kill, two peers, two acts of which one may be refused, a clock up to `MaxNow`
  and a delegation that lasts one instant. Each scenario has the processes one
  question needs: two that race for the lock; a backup, a restore and the serve
  that follows; rotation and revocation beside a serving process; a remote root
  that answers late; an act called twice.
* `Seating`, `Approval`, `Charter` (in `ir_core`): one hub, one agent, four rows
  of the trail, one restart of the hub; one approver, two actors, two decisions,
  two actions, three rows before an approval's own (`MaxBook`), two calls, Offers
  by two authors dated with either of two instants, so that a pin recorded later
  may sort first by its instant or by its author; eight versions of the settings,
  one edit, three starts, one deed, one disowning.
* `Federation`: three operators, three agreements, three pieces of work, one
  hub, in eight scenarios: signed by both, with a kill; signed by one of the two
  and by a third party, and one held with the third; running out, with a kill;
  accepted too late, then renewed; a door closed; the worker's clock ahead; posts
  to a hub from inside and outside; reads of work and of posts. The statements
  behind the gate of one activity commute with those of another, so a stretch of
  them is not interleaved with other parties.
* `HopDoor`: two deliveries, four ticks, `Skew = 1`, a bucket of one per two
  ticks, and five small budgets of faults (tries, copies, kills, documents that
  cannot be had, and a sender's clock that is ahead by one, even, or behind by
  one), so that each pair of faults that bears on a property occurs without all
  of them together. `KeepsFor = 1` equals the skew, as the defaults do
  (`configSchema.ts:54`, `federation/httpSig.ts:36`): a copy does open the door
  twice here, a row's length apart, and `OpensOnce` says when.
* `Bundles`: two instances, one agent and one hub, three activities of the kinds a
  replay tells apart (a task, its answer, the Create of an agreement, talk), in
  two classes, and five requests: one field each, one of two, an agent omitted.

Deadlock is not checked: each system may stop when nothing is left to send or
the clock has reached its bound.

Fairness, where liveness is claimed:

* The queue (`RuntimeSpec`, in `MCResident`): the clock runs; a caller that has
  rows to flush begins (`setInterval` keeps firing); a hop ends (`fetch` has a
  timeout, which is a failure); a call whose flush ended returns (it does not
  wait for anything else). No fairness on delivery: a peer may refuse for ever.
  No fairness on `Enqueue`, `Kill`, or a shutdown.
* The process (`RuntimeSpec`): the wall clock runs, a due timer fires, a tick
  that began moves on, the last flush begins and ends (each hop has a timeout).
  No fairness on signals, on posts, or on a tick that throws.
* `TaskExchange!FairSpec`: the sweep runs (a tick of the scheduler), the clock
  runs, a queued activity is handed over or given up (`EverySettles` is what
  justifies it), a brain returns, with a result or an error (a brain has a
  timeout). No fairness on `Delegate`, `GiveUp`, pauses or kills.

## 6. Proofs

`tlapm` proves the following for every value of the constants that satisfies
the modules' assumptions: any number of rows, peers, callers, Offers, tasks,
bidders, rounds, voters, processes, parties, requests, replicas and kills. A
property in bold is also checked by a run; the others are lemmas of weight or
parts of one.

| theorem | states | along |
|---|---|---|
| **DeliveryQueueProofs** | | |
| `TypeCorrect` | `[]TypeOK` | one step per action |
| `BudgetIsSpent`, `BudgetStands` | **`[]GivenUpOnlyAfterBudget`** | `BudgetInv` |
| `ScheduleStands` | **`ScheduleIsKept`** | `ScheduleInv` |
| `OneCallerBudget`, `OneFlushStands` | one caller: `[]AttemptBudget` | `OneFlushInv` |
| `OneCallerOutcome` | one caller: `OutcomeIsFinal` | `OneFlushInv` |
| `QueueImplementsContract` | one caller: **`DeliveryContract`** | refinement, step by step |
| `DeadLettersSurface` | one caller, undisturbed: **`[]Surfaced`**, which speaks of agents' rows | `ReportsFit` |
| `ScheduleStaysFair` | **`[]ScheduleIsFair`** (`Resident`) | `TimeInv`, `TurnsInv` |
| **TaskExchangeProofs** | | |
| `TypeCorrect` | `[]TypeOK` | |
| `ClosedHasEvidence` | **`[]ClosedWithEvidence`** | inductive: the chain only grows |
| `AnswersOnce`, `AnswersStand` | long window: **`[]OneAnswerPerOffer`** | `AnswersInv` |
| `OnlyAcceptReopens` | **`ReopenedByAcceptOnly`** | one step per action |
| `FirstOutcomeIsCached` | `CacheIsFinal` | |
| `AnsweredIsCached`, `AnsweredStaysAnswered` | **`AnsweredIsReplayed`** | `OutcomesCached` |
| **AllocationProofs** | | |
| `TypeCorrect` | `[]TypeOK` | |
| `AuctionStands` | **`[]AuctionInv`** | itself inductive |
| `AwardIsOnRecord`, `WallStands`, `SettlesOnce` | `[]RecordBacksRow`, `[]WallHolds`, `[]SettledOnce` | `AuctionInv` |
| `ExclusionsStand` | `[]ExclusionsJustified` | `RowsJustified` |
| `WatchStands` | **`[]Watched`** | inductive, rows against Awards |
| `ScoresHold` | **`[]ScoresStand`** (`SelectionRules`) | `AwardInv` |
| `AwardsRecompute` | at most 30 candidates: **`[]AwardRecomputes`** | `AwardInv`; orders, masks |
| `AccountsHold` | **`[]AccountsAddUp`** (`Contribution`) | `AccountsInv` |
| **HubRoundProofs** | | |
| `TypeCorrect` | `[]TypeOK` | one lemma per group of actions |
| `RoundInvariant` | **`[]RoundInv`** | one lemma per conjunct |
| `ConvictionsNeedBallots`, `RecordsCountNoConvicted`, `SuccessorIsReadable` | `[]ConvictionsBacked`, `[]CountsNoConvicted`, `[]SuccessorAgrees` | `RoundInv` |
| `RestorationLooksForward` | `RestorationsLookForward` | `RoundInv` |
| `BarsStand` | `[]BarsMet` | unit votes |
| `QuorumsMeet` | **`[]QuorumsIntersect`** | `BarsMet` |
| `OperatorsDecideTogether` | **`[]NoOperatorDecidesAlone`** | `BarsMet` |
| `DoomStands` | **`DoomLiftedOnlyByRevote`** | `RoundInv`, `BarsMet` |
| **HubReplicasProofs** | | |
| `TypeCorrect` | `[]TypeOK` | lemmas about what a move changes |
| `HandsOnToWhoIsBehind` | **`[]HandsOn`** | `HeldHasRows`, ranks of rows |
| `MembersStandSeated` | **`[]MembersAreSeated`** | `ReplicaInv` |
| `ReplicasStandAgreed` | **`[]ReplicasAgree`** | `ReplicaInv` |
| `ReplaysAreSafe` | **`ReplaysChangeNothing`**: a Follow or an Enroll again, and asset versions | `ReplicaInv` |
| **InstanceRecordProofs** | | |
| `WritesAlone` | **`[]OneWriter`** | `LockInv` |
| `ChainStands` | **`[]ChainUnbroken`** | `MadeOnce`, `ChainInv` |
| `BackupStands` | **`[]BackupRestores`** | `WholeInv`, `MarkInv` |
| `KeysStand` | **`KeysKeepTheirWord`** | `KeyInv`, `VotesInv` |
| `RecordUpStands` | **`[]RecordKeepsUp`** | `UpInv` |
| `NoActStands` | **`NoActAfterReconciled`** | `CallInv` |
| **FederationProofs** | | |
| `TypeCorrect` | `[]TypeOK` | `BoundaryInv` |
| `CrossingsStand` | **`[]CrossingsHold`** | `BoundaryInv` |
| `OutcomesLand` | **`[]InFlightLands`** | `BoundaryInv` |
| `ReadersAreEntitled` | **`[]ReadsAreCovered`** | `BoundaryInv` |
| `LateGoesBackToAccept`, `DenialStands`, `RecordCoversHandedOn` | `[]LateIsInFlight`, `[]DeniedStayOut`, `[]HandedOnIsRecorded` | `BoundaryInv` |
| `DoorStands` | **`[]DoorHolds`** | the next two |
| `DoorOpensOnce`, `BucketStands` | `[]OpensOnce`, `[]BucketHolds` | `OnceInv`, `BucketInv` |
| `OnceIfKeptLongEnough` | `KeepsFor > 2 * Skew`: a request opens the door once | `DoorOpensOnce` |
| `LegacyHasCause` | **`[]LegacyForCause`** | `LegacyInv` |
| `BundlesStand` | **`[]BundlesReplay`** | `BundlesInv` |
| **InstanceProofs** | | |
| `SeatsAgree` | **`[]SeatEndsAgree`** | `SeatInv` |
| `DecisionsStand` | **`[]DecidedOnce`** | `ApprovalInv` |
| `CharterStands` | **`[]CharterHolds`** | `CharterInv` |

### What they assume

Each module names what it assumes of its constants, and TLC evaluates the
assumption on every run of the module. Most of it is typing and finiteness. The
rest, with the reason in the code:

* `HopAssumption` says nothing of how long a spent signature is kept against the
  skew, nor of the sender's clock: `DoorHolds` says what holds for any of them,
  the shipped defaults included, and `OnceIfKeptLongEnough` how long the row must
  last for a request to open the door once.
* `DoorAssumption`: of the processes of one plan at most one is a restore. Two
  restores, one after the other, are outside the model.
* `ReplicaAssumption`: a digest names one activity; a delta takes away only
  application elements that deltas added; what enrols, removes or expels names
  an agent.
* `ExchangeAssumption`: an event's task has no deadline (`initiate` passes none).
* `AllocationAssumption`: a rule chooses among the bidders it is shown. Which
  ones is left open, so the theorems hold for every rule of `rules.ts`.
* `RulesAssumption`: candidates are finitely many, no two tie-break keys and no
  two rows are equal; the numbers of a rule are integers, as in all canonical
  JSON, and so are the costs of an entry, which `usableCost` asks for.
* `ContributionAssumption`: members and agents are finitely many; shares are
  positive integers, a sole author's the whole (`createResult` refuses others).
* `RoundAssumption`: `none`, `abstain` and `no-decision` are no options.
* `ResidentAssumption`: a loop is on once, an interval is not zero, a hub that is
  run has a peer (`tickConverge` passes by one that has none).
* `BundlesAssumption`: no agent has the name of the hub's file or of
  `received.jsonld`; an answer is never the hub's. No instance has two agents of
  one name, since `readAgentsFile` refuses them.
* `ApprovalAssumption`: `no pin` and `none` are no actions; addresses of authors
  are ordered (`Rank`), as text is.
* `CharterAssumption`: the versions of the settings have their shape; names of
  agents and of models are strings.

Four theorems have hypotheses of their own instead, each a case that exists:

* `OneCaller` (any two callers are equal). With two, overlapping flushes
  overwrite each other's outcome: TLC finds that at once, and what is left of
  the promise is `GivenUpOnlyAfterBudget` and `ScheduleIsKept`, proved for any
  callers.
* `Undisturbed`, of `DeadLettersSurface`: no hub, no shutdown and no kill. A
  hub's drain and the flush of a shutdown report nothing, and a kill between a
  row's death and its report loses the report.
* `SeenTtl > MaxTime`, of `AnswersOnce`: no seen-id window ends while copies may
  still come. `AnsweredIsReplayed`, proved without it, is what is left.
* `Cardinality(Candidates) <= 30`, of `AwardsRecompute`: `1 << n` of 31 is
  negative. The lemma `NoMaskOfThirtyOne` shows what the code does then: it tries
  no set, and awards nobody, where the replay finds a cover.

Exceptions that a property itself names (a kill, a raced lock, a restore that
began under an open process) are in its text and its comment.

### Why the invariants must be stronger

* `BudgetInv`. That a dead row was tried `MaxAttempts` times does not follow
  from the row: the count comes from a snapshot taken before the hop. The
  invariant says that neither the column nor any snapshot runs ahead of the
  hops made; overwriting the column from a stale snapshot keeps that.
* `OneFlushInv`. With one caller the snapshot still agrees with the table when
  the hop returns, so the column counts hops exactly, but for those a kill cut.
* `ScheduleInv`. A failed hop writes the count and the next try from its own
  snapshot, which may be stale; but it writes both, so a pending row is never due
  before the last start plus the backoff that the count in its column stands for.
* `ReportsFit`. A dead letter is reported by the call whose flush killed the
  row; between the two only that call's variable knows of it.
* `AnswersInv`. That an Offer is not answered again needs that every answered
  Offer is in a window that is still open, and that an Offer whose brain runs
  has been accepted and not answered.
* `OutcomesCached`. While the process lives an outcome on the chain has a cached
  outcome of the same task, perhaps another performer's.
* `AuctionInv`. The wall is looked up when a bidder commits, the award made
  later: `WallKept` carries the lookup over, for as long as the prior task's
  award was not replaced. `SettledOnce` needs Settlements counted against
  settlement records.
* `RoundInv`. That a conviction on sight is backed needs that a kept ballot was
  signed for its round. That what is zeroed stays zeroed needs that no round is
  dated after the clock. That tables and record name one successor needs what
  the record of a closed round says of each voter, which votes, declines and
  late convictions cannot disturb. The two properties about records have the
  hypothesis `kills = 0`: killed between the proof and its row, the hub goes on
  from tables that lag behind its own chain.
* `BarsMet`. Weights are fractions scaled by a common multiple of the operators'
  voter counts, and quorums compare sums of them. The proof shows that such a
  multiple exists (at most two to the square of the number of voters), that each
  weight is a number, and counts a sum as a set of unit votes, so that two sets
  above half of the whole must meet. The invariant adds that a deciding record's
  backers reach the bar under the weights *pinned* with the round, whatever
  happened to seats and convictions since.
* `ReplicaInv`. Tombstones, registers, provenance rows, the memory of roles and
  the seen set are written by different statements, and a kill may fall between
  any two. Per replica it says: tags and registers come from Enrolls of their
  own agent (`SeatAt`); a Follow or Enroll with a row has its tag (`RowAt`); a
  tag is dead exactly if a removal came after it in row order (`LiveAt`); a
  register holds one of its writers, which none beats (`RegAt`); a role in
  memory differs from the register's only after a removal (`RoleAt`); each but
  for what is marked torn. A lemma on ranks shows that the answer to a digest is
  complete: a row's place is its rank among rows of the same store and origin,
  so counts tell which rows the other lacks.
* `LockInv`, `MadeOnce`, `ChainInv`. Who has the store holds the lock, unless it
  came in by the gap or a restore had begun. That no chain forks does not rest on
  the lock: a file is made once, and what a process drafted against a head it
  read before an await still fits some stretch of the chain, so that it is
  appended at the end or refused for its number.
* `WholeInv`, `MarkInv`. Artifacts are written before the activity that names
  them, and the database is copied first; so a backup's artifacts cover its
  database at any interleaving of the other processes.
* `KeyInv`, `VotesInv`. What a process loaded, what the index holds and what
  was signed when are related through every rotation, by a file's own index.
* `UpInv`. Rows, announcements and delegations are counted against what each
  process has still to do: a gap is in somebody's hands, or a kill or a race
  accounts for it, one activity each.
* `CallInv`. Between the search for a reconciliation and the act only calls of
  the same key in flight together, or a restore, can put one on the record.
* `BoundaryInv`. Handing on is several statements, so it carries what is still
  to be done for each activity behind the gate, under which agreement it came
  in, and what the sender's Accept said then. An agreement in force has a Create
  that the party published and one that another published to it, whose author is
  not said. A read under way carries the references that were looked up, and each
  of them was published before the read came.
* `TimeInv`, `TurnsInv`. When a loop began, when it is due and who is woken are
  related by places in the order of the loops: one that waits was in time when
  its wake came, the tick in flight stands before all that wait, and the clock
  is no later than the ticks of those before can have brought it. A hub's cursor
  counts rounds: the peers it has passed have had one turn more than the others,
  and a turn was an offer, but for one that threw.
* `BundlesInv`. A bundle on disk is what `Files` made of a record the instance
  once had. That record's chains are full up to the export, so what the
  counterparty had received by then is in them, and whatever was posted since
  has a later number.
* `SeatInv`. An Undo names the newest Follow nothing has undone. Of a hub that met
  the trail in its order, a tag is gone exactly if what removes it was met later;
  of one that met it in any order, tags still come from Follows and Enrolls that
  were met, and a crew has a seat.
* `ApprovalInv`. An intent goes by the pin that was first at its own place in the
  record. Of a thread whose policy changed in between, the change is a pin recorded
  in between that sorts before all that were there (`PolicyMoves`); while the policy
  stands, the key finds the intent. A result says whose decision it reconciles; an
  approval that waits for its receipt has its intent on the record.
* `CharterInv`. Of each command what it read, when, and whom it settled on; of
  each answer the settings of the process that gave it; of a bundle the policy
  of the process that wrote it. Until the first edit all of these are one.
* `OnceInv`. While a signature's row lasts nothing it signed is let in again, and
  what was let in was dated within the skew: the row gives one bound, the date the
  other, whatever the sender's clock.
* `BucketInv`. What the bucket has given out since its window began are the last
  requests let in, and those before came no later than that; a sweep drops only
  a bucket whose window is over.
* `LegacyInv`. As long as nothing was refused for a cause, every request under way
  to a peer that understands the native scheme is in it.
* `AwardInv`. What the announce pinned is still what the table held of before its
  snapshot, since no later settlement is dated earlier; digests on the chain
  are distinct, so instant and digest order a history strictly. From there it is
  arithmetic: one settlement more doubles the subsets, so each weighs twice the
  next older one and the newest more than all older together, and a mean of
  which one part outweighs the rest lies beyond the middle.
* `AwardsRecompute` needs no more invariant, but what the two rules compute. The
  sort's comparator is a strict order of the revealed bids, of two infinite
  scores too, and a finite set has one first in it. Binary digits name every
  subset of a pool by a mask below `2 ^ n`; after each mask the best set so far
  comes before every covering set tried, in the order by size and then by keys,
  whose transitivity is proved; so the last is the one that the replay selects.
  A foremost set stays foremost when a bidder outside it is left out.
* `AccountsInv`. Each published summary is of a period on the chain, and its
  author saw no more of its threads than there is. That it recomputes later
  rests on `ClosedBooks`: no step changes the operators, threads or membership
  of a closed period, but for acts in the millisecond of the close. That credit
  adds up and periods add is proved from sums over finite sets: grouped by
  operator, renamed, and scaled to a common denominator, of which the proof
  shows that every Result's own denominator divides it.

Three of these proofs found the model wrong, and it was changed:

* The bound of `NoLoopStarves` for an alarm was one tick per loop. That holds
  with the two loops the run has and fails with three (the code has four): a
  loop may come due while a wake runs the loops after it, and then waits for
  those before it too. The bound is now `TicksToWaitFor`, twice the loops but
  one, which for two loops is the same. TLC, given three loops, finds the older
  bound violated.
* `Charter` recorded a refused start with the settings of the instant of the
  refusal. A start that read its settings before an edit is refused for what it
  read, so `CharterHolds` compared the wrong ones.
* The upper bound on a score in `NewestWeighsMost` was one above the tight one,
  which the proof reached; the property now says the tight one.

Checked by TLC alone: liveness under fairness (`EverySettles`, `DrainEnds`,
`WorkEnds`), which this prover does not reach. The library's induction theorems
take a predicate as a parameter, which the installed provers cannot instantiate;
where a proof about a fold, a sum or a power needs induction, it is made from the
least counterexample (`LeastNatural`, `LeastSubset`), and the fold's own
recursive function is shown to exist (`FoldExists`) before it is unfolded.

No module declares a RECURSIVE operator.

## 7. Disagreements between code and documents

Two have a run in which TLC finds the violation; `PROJECT.json`'s "findings"
quote the lines.

* `tx_v_double`, `OneExecution`: duplicate execution is said to be impossible
  (`docs/afp/04-operations.md:514`). Two Offers of one task in flight together
  both miss the cache and the task is performed twice.
* `ir_v_evidence`, `NoRevocationUnsigns`: a revocation is said never to unsign
  votes embedded in a proof (`docs/afp/03-coordination.md:880`). `keys revoke`
  of a retired key looks for that key's votes and cuts the active one.

The rest were read off the models while they were written. Where a property has
an exception because of one, its comment says so.

Delivery and runtime:

* "Each idempotent, each safe alongside inbox traffic"
  (`runtime/scheduler.ts:4`): two flushes of the table overwrite each other's
  outcome; delivered becomes dead and is reported, dead becomes delivered.
* Served queues are said to spread attempts over real minutes (ADR-0025); a
  hub's `run` (`hub/hub.ts:2162`) drains the instance's rows too, on a virtual
  clock, all attempts at one instant.
* ADR-0031 (line 46) has one Offer toward each peer per converge tick; the code
  offers to one peer per tick, in turn. An `offerSync` that throws ends the tick
  for the hubs after it, and no hub's queue is run then.
* Hub queues are not flushed at shutdown, and the dead letters of the final
  flush are not reported.
* Failures are said to surface as local Errors, "never silently dropped"
  (`docs/afp/04-operations.md:509`, `instance.ts:586`, `store/queue.ts:126`);
  `recordDeadLetters` passes by every dead letter whose sender is no agent of the
  instance (`instance.ts:612`), a hub's and the instance's own. `Surfaced` speaks
  of agents' rows for that reason.

Tasks and auctions:

* Coordination is said to be order-tolerant (`docs/afp/04-operations.md:517`); a
  late Accept reopens a completed task (`inbox.ts:305`).
* Two agents of one instance share one cached outcome per task
  (`store/tasks.ts`, ON CONFLICT DO NOTHING): the second to answer performs
  again when its Offer is sent again, against
  `docs/afp/04-operations.md:514`.
* No task is said to stay open for ever (`instance.ts:632`); an external event's
  task has no deadline (`instance/external.ts:62`), and a kill during its brain
  makes every redelivery a duplicate.
* An excluded bidder is said to be a performer of the award the re-auction names
  (`docs/afp/03-coordination.md:666`); from the second re-auction on that id has
  two Awards, and the replay (`src/verifier/allocation.py:451`) fails honest
  records from the third.
* `rules.ts:68` claims total functions; two top bids with unparseable latency
  under a latency weight give NaN, row order decides, and the replay uses its
  tie-break. `1 << n` overflows from 31 revealed bids. The replay recomputes an
  Award over all reveals, later ones too.
* A settlement in the millisecond of a snapshot, or killed before its row, makes
  the snapshot "not exhaustive". A supersession or a late Result changes what a
  period recomputes to, so an honest summary fails later.

Hubs:

* The live and the signed view of who was silent "must agree"
  (`hub/hub.ts:1358`); they do not for a voter zeroed by an earlier round, whose
  ballot `finishClose` drops before it lists the uncounted. `SuccessorAgrees`
  names that case.
* A conflicting ballot whose number is below the one kept is dropped as old
  before anybody compares it (`hub/hub.ts:1130`).
* A round closed again, or cut off between its record and its close, gets a
  second DecisionRecord; `QuorumsIntersect` says how far the two can differ.
* Replay after a restart is said to be a re-merge
  (`docs/afp/02-hubs-and-state.md:250`); a redelivery is dispatched again
  (`hub/hub.ts:269`, `:550`), so a refused Enroll is admitted later and an old
  Unenroll or Undo undoes a newer Enroll (`hub/hub.ts:893`).
  `ReplaysChangeNothing` is about Follows, Enrolls and assets for that reason.
  Reordered rows make seat and trail disagree.
* A batch hoists a Follow ahead of an Enroll (`hub/hub.ts:1539`), which leaves a
  member that the sender had removed; an Expel is refused at a replica without
  the DecisionRecord; a freeze after an archive reopens the hub to "frozen" in
  memory until a restart.

Boundary and door:

* ADR-0008 D4: an Accept published in time that *arrives* after the agreement
  ran out is refused and never recorded, so its Result is refused too
  (`inbox.ts:240`). `InFlightLands` is about Accepts that were handed on.
* Late outcomes are logged as refusals though let in, while a deny-listed or
  self-operated handshake is not (`federation/federation.ts:13` says every
  refusal is); the late path asks neither the deny-list
  (`docs/afp/01-foundations.md:294`) nor for an earlier terminal outcome.
* `afp:Defederate` never passes the counterparty's gate, and `defederate()`
  itself closes nothing.
* A row of an agreement is completed by any Create over it (`federation/inbox.ts:209`,
  `federation/federation.ts:110`: "the counterparty's signed Create"): nothing
  compares its author with the counterparty, so an agreement of two operators comes
  into force at one of them by the Create of a third. `Agreed` says no more than
  the code gives.
* Late outcomes and the replay: check (a) of `check_federation` asks every crossing
  activity to be dated before the agreement ran out, so it fails for each late
  outcome that was lawfully let in, and for new work of a sender whose clock was
  ahead. Check (c) looks for the correlation in the object of the Accept
  (`src/verifier/federation.py:325`), where `acceptTask` does not put it
  (`ap/activities.ts:98`); `RidesAccept` is the check as ADR-0008 D4 has it.
* The narrowest rule ("one `parties` reference the requester cannot see still hides
  it", `ap/server.ts:420`) judges the references that were looked up before the
  documents were awaited (`:413`, `:418`); one published in between does not hide the
  artifact. `ReadsAreCovered` is about what is older than the request.
* "A signed request cannot be replayed inside its own skew window" (`store/dedupe.ts:70`,
  `federation/inbox.ts:128`, ADR-0025 D7): the row lasts five minutes from the
  sighting, as long as the skew (`configSchema.ts:54`, `federation/httpSig.ts:36`),
  while a signature of a sender whose clock is ahead verifies for up to twice that;
  a copy passes once the row is gone, and at the very instant it ends from any
  sender. `OpensOnce` has both bounds. An honest retry in the same second is
  byte-identical and refused as a replay, after which the peer is remembered as
  legacy until a restart. The same follows a 401 that comes after the signature
  check, when the author's document cannot be had (`federation/inbox.ts:186`). A
  request answered 429 has spent its signature.

Keys, configuration, export:

* `keys revoke --claim` opens the store a second time beside itself and is
  refused after the revocation is committed (`cli.ts:1051`).
* A remote rotation of an actor that had no key names ordinal 1 in its
  delegation, while the successor is ordinal 2 (`instance/keyOps.ts:163`).
* `config check` without `--offline` mints the instance's key
  (`runtime/configCheck.ts:149` against `:115`); it builds no brains, so an
  endpoint off the allow-list passes it and throws in `serve`; while its
  self-check runs, a starting `serve` is refused.
* A disowned actor is vouched for again at the next boot or export, against
  `instance/pause.ts:5`.
* The policy of a thread is said to be that of the first activity "in chain order"
  (`ports/command.ts:47`); a thread is read by instant, author and sequence
  (`store/outbox.ts:108`). A pin recorded later in the same millisecond by an
  author whose address sorts first, or after the clock was set back, changes the
  policy, and with it the key: one decision then has two intents.
  `OneIntentPerDecision` names that case.
* A reply "approve" on a governance Note is said to be a command
  (`docs/afp/04-operations.md:605`), and is always refused, since the caller
  passes no act it bears on.
* Hub chains ship in full under any scope, while the manifest declares a floor
  (`export.ts:278`); of two scope fields the first decides and both are
  declared; no grant of an agreement admits its own Create, so a bundle scoped
  to it alone stubs that, and the check that the agreement travels with it
  always fails; an omitted agent takes a task along whose answer is shown
  (ADR-0010 D5). The first check of `check_joint` asks that an agreement one
  bundle shows be shown by the other too, and fails on honest bundles when one
  withholds or has not published its Create. "Before a single byte is written"
  (`export.ts:244`), the old bundle is already gone. All artifacts ship under
  any scope.

## 8. Not modelled

Cryptography (a signature verifies or not), canonical encodings and digests
(identity of content), parsing and validation of documents, page rendering,
logs, metrics and health, the wording of the command line, demonstrations and
experiments. SQL statements are atomic and durable. What a brain answers, what
an external system does and what the network loses or repeats is the
environment's choice. `PROJECT.json` lists every part with its status; of the
parts that are modelled in part, this is missing:

* hub rounds: superseding rounds, departures, action policies;
* auctions: declined bids; contribution: disputes and ratification, which no
  served command reaches;
* federation: grants by thread, hub and period; URL policy; of the joint replay the
  third check, which takes three bundles;
* replicas: the relay of relayed activities, the fetched-actor cache, rows of
  the migration to seats, which have no provenance;
* store: migrations, a torn artifact file that is never rewritten, two restores;
* agents: changed capabilities, hub and governance settings in `Charter`;
* a receiving process resolves keys from memory where a hosted one fetches.

## 9. What is left

Every safety property that a run checks is a theorem. What stays with TLC is
liveness under fairness: that rows settle, that a drain ends and that work ends.
