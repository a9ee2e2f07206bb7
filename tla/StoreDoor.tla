----------------------------- MODULE StoreDoor -----------------------------
(***************************************************************************)
(* The one door to an instance's state: store/db.ts with its lock file,    *)
(* store/backup.ts, the artifact directory, and the processes that come    *)
(* through the door or around it.  A process is `serve`, a `keys` command, *)
(* `backup` or `restore`; each runs once and may be killed at any point.   *)
(*                                                                         *)
(* The lock is a file that names a pid.  It is looked at and written in    *)
(* two system calls, and removed by whoever closes.  The database is a     *)
(* file: a process that has it open keeps it when the name is unlinked.    *)
(* What a database holds is the business of InstanceRecord; here it is     *)
(* copied, backed up and marked with restore points.                       *)
(*                                                                         *)
(* Left out: pids given to another process, which keep a dead lock alive;  *)
(* migrations, each of them one transaction; the sidecar files of the      *)
(* database, which go where it goes.                                       *)
(***************************************************************************)
EXTENDS Integers, Sequences, FiniteSets, SequencesExt

CONSTANTS
    Procs,          \* the processes there may be, one name per run
    Plans,          \* what they are asked to do: [Procs -> program], see Program
    MaxKills        \* bound: processes killed

None == "none"
Roles == {"serve", "keys", "backup", "restore"}

\* plan[p].after has ended before p is started.  plan[p].jobs is what InstanceRecord
\* has p do once it is open.
ASSUME DoorAssumption ==
    /\ IsFiniteSet(Procs) /\ None \notin Procs /\ "first" \notin Procs
    /\ \A plan \in Plans : DOMAIN plan \subseteq Procs
    /\ \A plan \in Plans : \A p \in DOMAIN plan : plan[p].role \in Roles
    \* Files are named after who made them, and a restore may make two: one a plan.
    /\ \A plan \in Plans : \A p, q \in DOMAIN plan :
          plan[p].role = "restore" /\ plan[q].role = "restore" => p = q
    /\ MaxKills \in Nat

\* Databases are told apart by who created them; "first" was there.
Files == Procs \cup {"first"}
Empty == [chain |-> <<>>, queue |-> {}, points |-> 0]

VARIABLES
    plan,       \* input: what each process is asked to do
    pc,         \* where each process is
    lock,       \* the lock file: the pid it names, or None
    db,         \* the database at dbPath, or None while it is unlinked
    handle,     \* the database each process has open
    content,    \* what each database holds
    dir,        \* the artifact directory
    backup,     \* the backup directory
    kills,
    raced,      \* history: processes that came in by a gap in the lock: they wrote it
                \* over a live one's, or opened a store a restore was still replacing
    swapped     \* history: restores that began to replace the database

disk == <<lock, db, content, dir, backup>>
doorVars == <<plan, pc, disk, handle, kills, raced, swapped>>

NoBackup == [db |-> Empty, taken |-> FALSE, arts |-> {}, manifest |-> FALSE]

DoorInit ==
    /\ plan \in Plans
    /\ pc = [p \in DOMAIN plan |-> "new"]
    /\ lock = None /\ db = "first"
    /\ handle = [p \in DOMAIN plan |-> None]
    /\ content = [f \in {"first"} |-> Empty]
    /\ dir = {}
    /\ backup = NoBackup
    /\ kills = 0 /\ raced = {} /\ swapped = {}

Running == DOMAIN plan
Role(p) == plan[p].role
Alive(p) == pc[p] \notin {"new", "gone"}
Starts(p) == pc[p] = "new" /\ \A q \in plan[p].after : pc[q] = "gone"
Goto(p, where) == pc' = [pc EXCEPT ![p] = where]
Uses == {p \in Running : handle[p] # None}

------------------------------------------------------------------------------
(* openDb and close *)

\* Mutant: a lock is always taken over, as if its process were dead.
HeldByNobody(p) == lock # None /\ lock \notin Running

\* pidIsAlive: a lock that names a dead process is stale, nobody's.
HeldByOther(p) == lock # None /\ lock # p /\ Alive(lock)

Replacing(p) == \E q \in swapped \ {p} : Alive(q)

\* acquireLock: look, and be refused or not.
Look(p) ==
    /\ \/ Starts(p) /\ Role(p) \in {"serve", "keys"}
       \/ pc[p] = "replaced"
    /\ Goto(p, IF HeldByOther(p) THEN "gone" ELSE "looked")
    /\ UNCHANGED <<plan, disk, handle, kills, raced, swapped>>

\* Then write the lock.
Claim(p) ==
    /\ pc[p] = "looked"
    /\ lock' = p
    /\ raced' = IF HeldByOther(p) \/ Replacing(p) THEN raced \cup {p} ELSE raced
    /\ Goto(p, "claimed")
    /\ UNCHANGED <<plan, db, content, dir, backup, handle, kills, swapped>>

\* openNodeStore: the file is created where there is none.
Open(p) ==
    /\ pc[p] = "claimed"
    /\ IF db = None
       THEN /\ db' = p
            /\ content' = [f \in DOMAIN content \cup {p} |-> IF f = p THEN Empty ELSE content[f]]
       ELSE UNCHANGED <<db, content>>
    /\ handle' = [handle EXCEPT ![p] = db']
    /\ Goto(p, "open")
    /\ raced' = IF Replacing(p) THEN raced \cup {p} ELSE raced
    /\ UNCHANGED <<plan, lock, dir, backup, kills, swapped>>

\* close: the lock file is removed, whoever it names.
Shut(p) ==
    /\ handle' = [handle EXCEPT ![p] = None]
    /\ lock' = None
    /\ Goto(p, "gone")

Kill(p) ==
    /\ Alive(p) /\ kills < MaxKills /\ kills' = kills + 1
    /\ handle' = [handle EXCEPT ![p] = None]
    /\ Goto(p, "gone")
    /\ UNCHANGED <<plan, disk, raced, swapped>>

------------------------------------------------------------------------------
(* backupStore: no lock; the database first, then the artifacts, then the *)
(* manifest. *)

\* Mutant: the artifacts are copied before the database.
ArtifactsThenDb == <<"artifacts", "db", "manifest">>
BackupOrder == <<"db", "artifacts", "manifest">>
Copied(k) ==
    CASE BackupOrder[k] = "db" -> [backup EXCEPT !.db = content[db], !.taken = TRUE]
      [] BackupOrder[k] = "artifacts" -> [backup EXCEPT !.arts = dir]
      [] BackupOrder[k] = "manifest" -> [backup EXCEPT !.manifest = TRUE]

At == <<"new", "one", "two", "gone">>
Backup(p) ==
    /\ Role(p) = "backup"
    /\ \/ \E k \in DOMAIN BackupOrder :
            /\ pc[p] = At[k]
            /\ k = 1 => Starts(p) /\ backup = NoBackup /\ db # None
            /\ backup' = Copied(k)
            /\ Goto(p, At[k + 1])
       \* refused: the target is not empty, or there is nothing to back up
       \/ /\ Starts(p) /\ (backup # NoBackup \/ db = None)
          /\ Goto(p, "gone")
          /\ UNCHANGED backup
    /\ UNCHANGED <<plan, lock, db, content, dir, handle, kills, raced, swapped>>

------------------------------------------------------------------------------
(* restoreStore, with --force *)

\* Refused over a live store, and without a whole backup.
Restore(p) ==
    /\ Role(p) = "restore" /\ Starts(p)
    /\ Goto(p, IF backup.taken /\ backup.manifest /\ ~HeldByOther(p) THEN "verified" ELSE "gone")
    /\ UNCHANGED <<plan, disk, handle, kills, raced, swapped>>

\* rmSync of the database, then of its lock; then the copies.
Unlink(p) ==
    /\ pc[p] = "verified"
    /\ db' = None
    /\ swapped' = swapped \cup {p}
    /\ Goto(p, "unlinked")
    /\ UNCHANGED <<plan, lock, content, dir, backup, handle, kills, raced>>

Unlock(p) ==
    /\ pc[p] = "unlinked"
    /\ lock' = None
    /\ Goto(p, "unlocked")
    /\ UNCHANGED <<plan, db, content, dir, backup, handle, kills, raced, swapped>>

CopyDb(p) ==
    /\ pc[p] = "unlocked"
    /\ db' = p
    /\ content' = [f \in DOMAIN content \cup {p} |-> IF f = p THEN backup.db ELSE content[f]]
    /\ Goto(p, "copied")
    /\ UNCHANGED <<plan, lock, dir, backup, handle, kills, raced, swapped>>

CopyArtifacts(p) ==
    /\ \/ pc[p] = "copied" /\ dir' = {} /\ Goto(p, "cleared")
       \/ pc[p] = "cleared" /\ dir' = backup.arts /\ Goto(p, "replaced")
    /\ UNCHANGED <<plan, lock, db, content, backup, handle, kills, raced, swapped>>

\* The restore point, through the door like anyone; then close.
MarkPoint(p) ==
    /\ Role(p) = "restore" /\ pc[p] = "open"
    /\ content' = [content EXCEPT ![handle[p]].points = @ + 1]
    /\ Shut(p)
    /\ UNCHANGED <<plan, db, dir, backup, kills, raced, swapped>>

------------------------------------------------------------------------------
(* Properties *)

\* ADR-0031 Decision 4, one writer: two processes have the store open only when
\* one wrote the lock over a claim made since it looked, or a restore had begun
\* to replace the store under a process that came through the door meanwhile.
OneWriter ==
    \A p, q \in Uses : p = q \/ raced # {} \/ swapped # {}

\* A whole backup has every artifact its record names, whatever was stored and
\* published while it was taken, and whatever a restore did to the directory.
Named(c) ==
    {c.chain[k].says.of : k \in {j \in DOMAIN c.chain : c.chain[j].says.kind = "note"}} \ {None}
BackupIsWhole ==
    backup.manifest => Named(backup.db) \subseteq backup.arts \/ swapped # {}

\* A restored store carries its restore point before `serve` comes back on it,
\* unless a kill cut the restore short or `serve` came in while it ran.
RestoreIsMarked ==
    \A p \in Uses :
        Role(p) = "serve" /\ handle[p] \in swapped /\ content[handle[p]].points = 0
        => kills > 0 \/ raced # {}

\* A backup is whole and what it restores is marked, with all of the instance's
\* other processes coming and going meanwhile.
BackupRestores == BackupIsWhole /\ RestoreIsMarked
=============================================================================
