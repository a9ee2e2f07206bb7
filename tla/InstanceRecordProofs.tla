------------------------- MODULE InstanceRecordProofs -------------------------
(***************************************************************************)
(* Proofs about StoreDoor and InstanceRecord, for any number of processes  *)
(* of any role, any jobs and any kills.  In order: who is inside (LockInv, *)
(* WritesAlone), the chain (MadeOnce, ChainInv, ChainStands), what a step  *)
(* does to the record, backup and restore (WholeInv, MarkInv,              *)
(* BackupStands), keys (VotesInv, KeyInv, KeysStand), then what RecordUp-  *)
(* Stands and NoActStands need: intents (IntentInv), delegations (HeadInv, *)
(* DelegInv), delivery rows (RowsInv, CameInv, CountInv), calls (CallInv). *)
(***************************************************************************)
EXTENDS InstanceRecord, FiniteSetTheorems, TLAPS

------------------------------------------------------------------------------
(* Where processes are *)

Inside == {"open", "drafted", "appended", "asked"}
Places == Inside \cup {"new", "looked", "claimed", "one", "two", "verified", "unlinked",
                       "unlocked", "copied", "cleared", "replaced", "gone"}

\* A process has the store open while it is inside.
DoorTyped ==
    /\ plan \in Plans
    /\ pc \in [Running -> Places]
    /\ handle \in [Running -> Files \cup {None}]
    /\ db \in Files \cup {None}
    /\ \A p \in Running : handle[p] # None <=> pc[p] \in Inside

LEMMA Names == plan \in Plans => Running \subseteq Files /\ None \notin Files /\ None \notin Running
BY DoorAssumption DEF DoorAssumption, Running, Files, None

\* What a step does to where processes are and what they have open.
Steps(p, x) ==
    /\ plan' = plan /\ db' \in Files \cup {None}
    /\ pc' = [pc EXCEPT ![p] = x]
    /\ \/ handle' = handle /\ (pc[p] \in Inside <=> x \in Inside)
       \/ handle' = [handle EXCEPT ![p] = None] /\ x \notin Inside
       \/ /\ x \in Inside
          /\ \E f \in Files : handle' = [handle EXCEPT ![p] = f]

Stays == UNCHANGED <<plan, pc, db, handle>>

LEMMA StepsTyped ==
    ASSUME DoorTyped, NEW p \in Running, NEW x \in Places, Steps(p, x)
    PROVE  DoorTyped'
<1>1. Running' = Running
    BY DEF Steps, Running
<1>2. None \notin Files
    BY Names DEF DoorTyped
<1>3. pc' \in [Running -> Places] /\ pc'[p] = x /\ \A q \in Running : q # p => pc'[q] = pc[q]
    BY DEF Steps, DoorTyped
<1>4. CASE handle' = handle /\ (pc[p] \in Inside <=> x \in Inside)
    BY <1>1, <1>3, <1>4 DEF Steps, DoorTyped
<1>5. CASE handle' = [handle EXCEPT ![p] = None] /\ x \notin Inside
    <2>1. /\ handle' \in [Running -> Files \cup {None}] /\ handle'[p] = None
          /\ \A q \in Running : q # p => handle'[q] = handle[q]
        BY <1>5 DEF DoorTyped
    <2> QED BY <1>1, <1>3, <1>5, <2>1 DEF Steps, DoorTyped
<1>6. CASE x \in Inside /\ \E f \in Files : handle' = [handle EXCEPT ![p] = f]
    <2>1. PICK f \in Files : handle' = [handle EXCEPT ![p] = f]
        BY <1>6
    <2>2. /\ handle' \in [Running -> Files \cup {None}] /\ handle'[p] = f
          /\ \A q \in Running : q # p => handle'[q] = handle[q]
        BY <2>1 DEF DoorTyped
    <2> QED BY <1>1, <1>2, <1>3, <1>6, <2>2 DEF Steps, DoorTyped
<1> QED BY <1>4, <1>5, <1>6 DEF Steps

\* Every step is one process's, and of one of these kinds.
LEMMA NextSteps ==
    ASSUME DoorTyped, Next
    PROVE  Stays \/ \E p \in Running, x \in Places : Steps(p, x)
<1> USE DEF Goto, Places, Inside, disk, doorVars
<1>0. Running \subseteq Files /\ None \notin Files
    BY Names DEF DoorTyped
<1>1. Tick => Stays
    BY DEF Tick, Stays
<1>2. ASSUME NEW p \in Running, Deliver(p) \/ Act(p) \/ RotateKey(p) PROVE Stays
    BY <1>2 DEF Deliver, Act, RotateKey, Stays
<1>3. ASSUME NEW p \in Running, Look(p) \/ Claim(p)
      PROVE  \E x \in Places : Steps(p, x)
    BY <1>3 DEF Look, Claim, Starts, Steps, DoorTyped
<1>4. ASSUME NEW p \in Running, Open(p) PROVE Steps(p, "open")
    <2>1. db' \in Files
        BY <1>0, <1>4 DEF Open, DoorTyped
    <2> QED BY <1>4, <2>1 DEF Open, Steps
<1>5. ASSUME NEW p \in Running, Killed(p) \/ Close(p) \/ MarkPoint(p) \/ RootRefuses(p)
      PROVE  Steps(p, "gone")
    BY <1>5 DEF Killed, Kill, Close, Shut, MarkPoint, RootRefuses, Steps, DoorTyped
<1>6. ASSUME NEW p \in Running, Backup(p) PROVE \E x \in Places : Steps(p, x)
    <2>1. CASE Starts(p) /\ (backup # NoBackup \/ db = None) /\ Goto(p, "gone") /\ UNCHANGED backup
        BY <1>6, <2>1 DEF Backup, Starts, Steps, DoorTyped
    <2>2. CASE \E k \in DOMAIN BackupOrder : pc[p] = At[k] /\ Goto(p, At[k + 1])
        <3>0. DOMAIN BackupOrder = 1..3
            BY DEF BackupOrder
        <3>1. PICK k \in 1..3 : pc[p] = At[k] /\ Goto(p, At[k + 1])
            BY <2>2, <3>0
        <3>2. At[k] \in {"new", "one", "two"} /\ At[k + 1] \in {"one", "two", "gone"}
            BY DEF At
        <3> QED BY <1>6, <3>1, <3>2 DEF Backup, Steps, DoorTyped
    <2> QED BY <1>6, <2>1, <2>2 DEF Backup
<1>7. ASSUME NEW p \in Running, Restore(p) \/ Unlink(p) \/ Unlock(p) \/ CopyDb(p) \/ CopyArtifacts(p)
      PROVE  \E x \in Places : Steps(p, x)
    BY <1>0, <1>7 DEF Restore, Starts, Unlink, Unlock, CopyDb, CopyArtifacts, Steps, DoorTyped
<1>8. ASSUME NEW p \in Running, Publish(p) \/ AskRoot(p) \/ Return(p)
      PROVE  \E x \in Places : Steps(p, x)
    BY <1>8 DEF Publish, Draft, AskRoot, Return, Ready, Steps, DoorTyped
<1>9. ASSUME NEW p \in Running, AppendEntry(p) PROVE \E x \in Places : Steps(p, x)
    BY <1>9 DEF AppendEntry, Shut, Steps, DoorTyped
<1>10. ASSUME NEW p \in Running, Enqueue(p) PROVE Stays
    BY <1>10 DEF Enqueue, Stays
<1>11. ASSUME NEW p \in Running, Emitted(p) \/ RootSigns(p)
       PROVE  \E x \in Places : Steps(p, x)
    BY <1>11 DEF Emitted, RootSigns, Steps, DoorTyped
<1>12. ASSUME NEW p \in Running, Actuate(p) PROVE Stays \/ \E x \in Places : Steps(p, x)
    BY <1>12 DEF Actuate, Draft, Ready, Stays, Steps, DoorTyped
<1>13. ASSUME NEW p \in Running, Boot(p) \/ RevokeKey(p)
       PROVE  Stays \/ \E x \in Places : Steps(p, x)
    BY <1>13 DEF Boot, RevokeKey, Ready, Shut, Stays, Steps, DoorTyped
<1> QED BY <1>1, <1>2, <1>3, <1>4, <1>5, <1>6, <1>7, <1>8, <1>9, <1>10, <1>11, <1>12, <1>13
        DEF Next

LEMMA DoorTypedStep ==
    ASSUME DoorTyped, [Next]_vars
    PROVE  DoorTyped'
<1>1. ASSUME Stays PROVE DoorTyped'
    BY <1>1 DEF Stays, DoorTyped, Running
<1>2. CASE UNCHANGED vars
    BY <1>1, <1>2 DEF vars, doorVars, disk, Stays
<1>3. CASE Next
    BY <1>1, <1>3, NextSteps, StepsTyped
<1> QED BY <1>2, <1>3

LEMMA DoorTypedInit == Init => DoorTyped
BY Names DEF Init, DoorInit, DoorTyped, Places, Inside, Files, Running

LEMMA DoorTypeCorrect == Spec => []DoorTyped
BY DoorTypedInit, DoorTypedStep, PTL DEF Spec

------------------------------------------------------------------------------
(* One writer *)

\* Whoever is inside, or has written the lock and is about to open, is the one the lock
\* names, unless the lock was raced or a restore has begun.
LockInv ==
    /\ \A p \in Running : pc[p] \in {"unlinked", "unlocked"} => swapped # {}
    /\ raced = {} /\ swapped = {} =>
          \A p \in Running : pc[p] \in Inside \cup {"claimed"} => lock = p

\* A step that gives nobody the store, and takes the lock from nobody.
LEMMA QuietKeepsLock ==
    ASSUME LockInv, UNCHANGED <<plan, lock, raced>>,
           swapped \subseteq swapped',
           \A p \in Running : \/ pc'[p] = pc[p]
                              \/ pc[p] \in Inside /\ pc'[p] \in Inside
                              \/ pc[p] = "claimed" /\ pc'[p] \in Inside
                              \/ pc'[p] \notin Inside \cup {"claimed", "unlinked", "unlocked"}
                              \/ pc'[p] \in {"unlinked", "unlocked"} /\ swapped' # {}
    PROVE  LockInv'
BY DEF LockInv, Running, Inside

\* A step after which the lock names nobody: the one inside has left.
LEMMA ShutKeepsLock ==
    ASSUME DoorTyped, LockInv, NEW p \in Running, pc[p] \in Inside, Shut(p),
           UNCHANGED <<plan, raced, swapped>>
    PROVE  LockInv'
<1>1. pc' = [pc EXCEPT ![p] = "gone"] /\ lock' = None
    BY DEF Shut, Goto
<1>2. pc'[p] = "gone" /\ \A q \in Running : q # p => pc'[q] = pc[q]
    BY <1>1 DEF DoorTyped
<1>3. Running' = Running
    BY DEF Running
<1>4. raced = {} /\ swapped = {} =>
          \A q \in Running : q # p => pc[q] \notin Inside \cup {"claimed"}
    BY DEF LockInv
<1> QED BY <1>2, <1>3, <1>4 DEF LockInv, Inside

LEMMA ClaimKeepsLock ==
    ASSUME DoorTyped, LockInv, NEW p \in Running, Claim(p)
    PROVE  LockInv'
<1>1. /\ lock' = p /\ UNCHANGED <<plan, swapped>>
      /\ pc'[p] = "claimed" /\ \A q \in Running : q # p => pc'[q] = pc[q]
      /\ raced' = {} => raced = {} /\ ~HeldByOther(p)
    BY DEF Claim, Goto, DoorTyped
<1>2. Running' = Running
    BY <1>1 DEF Running
<1>3. ASSUME NEW q \in Running, q # p, pc[q] \in Inside \cup {"claimed"},
             raced' = {}, swapped' = {}
      PROVE  FALSE
    <2>1. lock = q
        BY <1>1, <1>3 DEF LockInv
    <2>2. lock # None
        BY <2>1, Names DEF DoorTyped
    <2>3. Alive(q)
        BY <1>3 DEF Alive, Inside
    <2> QED BY <1>1, <1>3, <2>1, <2>2, <2>3 DEF HeldByOther
<1>4. \A q \in Running : pc'[q] \in {"unlinked", "unlocked"} => swapped' # {}
    BY <1>1 DEF LockInv
<1>5. raced' = {} /\ swapped' = {} =>
          \A q \in Running : pc'[q] \in Inside \cup {"claimed"} => lock' = q
    BY <1>1, <1>3
<1> QED BY <1>2, <1>4, <1>5 DEF LockInv

LEMMA LockStep ==
    ASSUME DoorTyped, LockInv, [Next]_vars
    PROVE  LockInv'
<1> USE DEF Goto, Inside, disk, doorVars
<1>1. Tick => LockInv'
    BY QuietKeepsLock DEF Tick
<1>2. ASSUME NEW p \in Running, Deliver(p) \/ Act(p) \/ RotateKey(p) \/ Enqueue(p)
      PROVE  LockInv'
    BY <1>2, QuietKeepsLock DEF Deliver, Act, RotateKey, Enqueue
<1>3. ASSUME NEW p \in Running, Look(p) PROVE LockInv'
    BY <1>3, QuietKeepsLock DEF Look, DoorTyped
<1>4. ASSUME NEW p \in Running, Claim(p) PROVE LockInv'
    BY <1>4, ClaimKeepsLock
<1>5. ASSUME NEW p \in Running, Open(p) PROVE LockInv'
    <2>1. CASE raced' = raced
        BY <1>5, <2>1, QuietKeepsLock DEF Open, DoorTyped
    <2>2. CASE raced' # {}
        <3>1. \A q \in Running : pc'[q] \in {"unlinked", "unlocked"} => pc[q] = pc'[q]
            BY <1>5 DEF Open, DoorTyped
        <3> QED BY <1>5, <2>2, <3>1 DEF LockInv, Open, Running
    <2> QED BY <1>5, <2>1, <2>2 DEF Open
<1>6. ASSUME NEW p \in Running, Killed(p) PROVE LockInv'
    BY <1>6, QuietKeepsLock DEF Killed, Kill, DoorTyped
<1>7. ASSUME NEW p \in Running, Close(p) \/ MarkPoint(p) \/ RootRefuses(p) PROVE LockInv'
    BY <1>7, ShutKeepsLock DEF Close, MarkPoint, RootRefuses
<1>8. ASSUME NEW p \in Running, Backup(p) PROVE LockInv'
    <2>1. UNCHANGED <<plan, lock, raced, swapped>>
        BY <1>8 DEF Backup
    <2>2. PICK x \in {"one", "two", "gone"} : pc' = [pc EXCEPT ![p] = x]
        <3>1. CASE Starts(p) /\ (backup # NoBackup \/ db = None) /\ Goto(p, "gone") /\ UNCHANGED backup
            BY <3>1
        <3>2. CASE \E k \in DOMAIN BackupOrder : pc[p] = At[k] /\ Goto(p, At[k + 1])
            <4>0. DOMAIN BackupOrder = 1..3
                BY DEF BackupOrder
            <4>1. PICK k \in 1..3 : Goto(p, At[k + 1])
                BY <3>2, <4>0
            <4>2. At[k + 1] \in {"one", "two", "gone"}
                BY DEF At
            <4> QED BY <4>1, <4>2
        <3> QED BY <1>8, <3>1, <3>2 DEF Backup
    <2> QED BY <2>1, <2>2, QuietKeepsLock DEF DoorTyped
<1>9. ASSUME NEW p \in Running, Restore(p) \/ Unlink(p) \/ CopyDb(p) \/ CopyArtifacts(p)
      PROVE  LockInv'
    BY <1>9, QuietKeepsLock DEF Restore, Unlink, CopyDb, CopyArtifacts, DoorTyped
<1>10. ASSUME NEW p \in Running, Unlock(p) PROVE LockInv'
    <2>1. swapped # {}
        BY <1>10 DEF Unlock, LockInv
    <2> QED BY <1>10, <2>1 DEF Unlock, LockInv
<1>11. ASSUME NEW p \in Running, Publish(p) \/ AskRoot(p) \/ Return(p) \/ Emitted(p) \/ RootSigns(p)
       PROVE  LockInv'
    BY <1>11, QuietKeepsLock
       DEF Publish, Draft, Ready, AskRoot, Return, Emitted, RootSigns, DoorTyped
<1>12. ASSUME NEW p \in Running, AppendEntry(p) PROVE LockInv'
    <2>1. pc[p] \in Inside /\ UNCHANGED <<plan, raced, swapped>>
        BY <1>12 DEF AppendEntry
    <2>2. CASE Shut(p)
        BY <2>1, <2>2, ShutKeepsLock
    <2>3. CASE \E x \in {"open", "appended"} : Goto(p, x) /\ UNCHANGED lock
        BY <2>1, <2>3, QuietKeepsLock DEF DoorTyped
    <2> QED BY <1>12, <2>2, <2>3 DEF AppendEntry
<1>13. ASSUME NEW p \in Running, Actuate(p) PROVE LockInv'
    BY <1>13, QuietKeepsLock DEF Actuate, Draft, Ready, DoorTyped
<1>14. ASSUME NEW p \in Running, Boot(p) PROVE LockInv'
    BY <1>14, QuietKeepsLock DEF Boot, DoorTyped
<1>15. ASSUME NEW p \in Running, RevokeKey(p) PROVE LockInv'
    <2>1. pc[p] \in Inside /\ UNCHANGED <<plan, raced, swapped>>
        BY <1>15 DEF RevokeKey, Ready
    <2>2. CASE Shut(p)
        BY <2>1, <2>2, ShutKeepsLock
    <2>3. CASE (Goto(p, "gone") \/ UNCHANGED pc) /\ UNCHANGED lock
        BY <2>1, <2>3, QuietKeepsLock DEF DoorTyped
    <2> QED BY <1>15, <2>2, <2>3 DEF RevokeKey
<1>16. CASE UNCHANGED vars
    BY <1>16, QuietKeepsLock DEF vars
<1> QED BY <1>1, <1>2, <1>3, <1>4, <1>5, <1>6, <1>7, <1>8, <1>9, <1>10, <1>11, <1>12, <1>13,
           <1>14, <1>15, <1>16 DEF Next

\* Two processes have the store open only when one raced the lock, or a restore had begun
\* to replace the store, for any number of processes, commands and kills.
THEOREM WritesAlone == Spec => []OneWriter
<1>1. Init => LockInv
    BY DEF Init, DoorInit, LockInv, Inside, Running
<1>2. DoorTyped /\ LockInv /\ [Next]_vars => LockInv'
    BY LockStep
<1>3. DoorTyped /\ LockInv => OneWriter
    BY DEF DoorTyped, LockInv, OneWriter, Uses
<1> QED BY <1>1, <1>2, <1>3, DoorTypeCorrect, PTL DEF Spec

------------------------------------------------------------------------------
(* Who makes which file *)

Restoring == {"verified", "unlinked", "unlocked", "copied", "cleared", "replaced"}

\* A file is made once: by a restore before it comes to the door, by any other process
\* at the door.
MadeOnce ==
    /\ \A p \in Running : Role(p) # "restore" =>
          /\ pc[p] \notin Restoring
          /\ pc[p] \in {"new", "looked", "claimed"} => p \notin DOMAIN content
    /\ \A p \in Running : Role(p) = "restore" =>
          /\ pc[p] \in {"new", "verified", "unlinked", "unlocked"} => p \notin DOMAIN content
          /\ pc[p] \in {"copied", "cleared", "replaced", "looked", "claimed"} => db # None

\* A step that makes no file, and either keeps the name of the database or is a restore's.
LEMMA QuietKeepsMade ==
    ASSUME DoorTyped, MadeOnce, plan' = plan, DOMAIN content' = DOMAIN content, db' = db,
           NEW p \in Running, NEW x \in Places, pc' = [pc EXCEPT ![p] = x],
           Role(p) # "restore" => x \notin Restoring,
           Role(p) # "restore" /\ x \in {"new", "looked", "claimed"} =>
               pc[p] \in {"new", "looked", "claimed"},
           Role(p) = "restore" /\ x \in {"new", "verified", "unlinked", "unlocked"} =>
               pc[p] \in {"new", "verified", "unlinked", "unlocked"},
           Role(p) = "restore" /\ x \in {"copied", "cleared", "replaced", "looked", "claimed"} =>
               pc[p] \in {"copied", "cleared", "replaced", "looked", "claimed"}
    PROVE  MadeOnce'
<1>1. Running' = Running /\ \A q \in Running : Role(q)' = Role(q)
    BY DEF Running, Role
<1>2. pc'[p] = x /\ \A q \in Running : q # p => pc'[q] = pc[q]
    BY DEF DoorTyped
<1> QED BY <1>1, <1>2 DEF MadeOnce

LEMMA StillKeepsMade ==
    ASSUME MadeOnce, UNCHANGED <<plan, pc, db>>, DOMAIN content' = DOMAIN content
    PROVE  MadeOnce'
BY DEF MadeOnce, Running, Role

LEMMA MadeStep ==
    ASSUME DoorTyped, MadeOnce, [Next]_vars
    PROVE  MadeOnce'
<1> USE DEF Goto, Inside, Restoring, Places, disk, doorVars
<1>0. /\ \A p \in Running : p \in Files
      /\ \A p, q \in Running : Role(p) = "restore" /\ Role(q) = "restore" => p = q
    BY Names, DoorAssumption DEF DoorAssumption, DoorTyped, Running, Role
<1>1. Tick => MadeOnce'
    BY StillKeepsMade DEF Tick
<1>2. ASSUME NEW p \in Running, Act(p) \/ RotateKey(p) PROVE MadeOnce'
    BY <1>2, StillKeepsMade DEF Act, RotateKey
<1>3. ASSUME NEW p \in Running, Deliver(p) \/ Enqueue(p) PROVE MadeOnce'
    BY <1>3, StillKeepsMade DEF Deliver, Enqueue, Write
<1>4. ASSUME NEW p \in Running, Look(p) PROVE MadeOnce'
    <2>1. PICK x \in {"gone", "looked"} : pc' = [pc EXCEPT ![p] = x]
        BY <1>4 DEF Look
    <2>2. \/ pc[p] = "new" /\ Role(p) # "restore"
          \/ pc[p] = "replaced" /\ Role(p) = "restore"
        BY <1>4 DEF Look, Starts, MadeOnce
    <2> QED BY <1>4, <2>1, <2>2, QuietKeepsMade DEF Look
<1>5. ASSUME NEW p \in Running, Claim(p) PROVE MadeOnce'
    BY <1>5, QuietKeepsMade DEF Claim
<1>6. ASSUME NEW p \in Running, Open(p) PROVE MadeOnce'
    <2>1. pc[p] = "claimed" /\ pc' = [pc EXCEPT ![p] = "open"] /\ plan' = plan
        BY <1>6 DEF Open
    <2>2. CASE db # None
        BY <1>6, <2>1, <2>2, QuietKeepsMade DEF Open
    <2>3. CASE db = None
        <3>1. db' = p /\ DOMAIN content' = DOMAIN content \cup {p} /\ db' # None
            BY <1>0, <1>6, <2>3, Names DEF Open, DoorTyped
        <3>2. pc'[p] = "open" /\ \A q \in Running : q # p => pc'[q] = pc[q]
            BY <2>1 DEF DoorTyped
        <3>3. Running' = Running /\ \A q \in Running : Role(q)' = Role(q)
            BY <2>1 DEF Running, Role
        <3> QED BY <3>1, <3>2, <3>3 DEF MadeOnce
    <2> QED BY <2>2, <2>3
<1>7. ASSUME NEW p \in Running, Killed(p) \/ Close(p) \/ RootRefuses(p) PROVE MadeOnce'
    BY <1>7, QuietKeepsMade DEF Killed, Kill, Close, RootRefuses, Shut
<1>8. ASSUME NEW p \in Running, MarkPoint(p) PROVE MadeOnce'
    BY <1>8, QuietKeepsMade DEF MarkPoint, Shut
<1>9. ASSUME NEW p \in Running, Backup(p) PROVE MadeOnce'
    <2>1. UNCHANGED <<plan, db, content>> /\ Role(p) # "restore"
        BY <1>9 DEF Backup
    <2>2. PICK x \in {"one", "two", "gone"} : pc' = [pc EXCEPT ![p] = x]
        <3>1. CASE Starts(p) /\ (backup # NoBackup \/ db = None) /\ Goto(p, "gone") /\ UNCHANGED backup
            BY <3>1
        <3>2. CASE \E k \in DOMAIN BackupOrder : pc[p] = At[k] /\ Goto(p, At[k + 1])
            <4>0. DOMAIN BackupOrder = 1..3
                BY DEF BackupOrder
            <4>1. PICK k \in 1..3 : Goto(p, At[k + 1])
                BY <3>2, <4>0
            <4>2. At[k + 1] \in {"one", "two", "gone"}
                BY DEF At
            <4> QED BY <4>1, <4>2
        <3> QED BY <1>9, <3>1, <3>2 DEF Backup
    <2> QED BY <2>1, <2>2, QuietKeepsMade
<1>10. ASSUME NEW p \in Running, Restore(p) PROVE MadeOnce'
    <2>1. PICK x \in {"verified", "gone"} : pc' = [pc EXCEPT ![p] = x]
        BY <1>10 DEF Restore
    <2> QED BY <1>10, <2>1, QuietKeepsMade DEF Restore, Starts
<1>11. ASSUME NEW p \in Running, Unlink(p) \/ Unlock(p) \/ CopyDb(p)
       PROVE  MadeOnce'
    <2>1. Role(p) = "restore" /\ plan' = plan
        BY <1>11 DEF Unlink, Unlock, CopyDb, MadeOnce
    <2>2. Running' = Running /\ \A q \in Running : Role(q)' = Role(q)
        BY <2>1 DEF Running, Role
    <2>3. \A q \in Running : Role(q) = "restore" => q = p
        BY <1>0, <2>1
    <2>4. \A q \in Running : q # p => pc'[q] = pc[q]
        BY <1>11 DEF Unlink, Unlock, CopyDb, DoorTyped
    <2>5. CASE Unlink(p)
        <3>1. pc[p] = "verified" /\ pc'[p] = "unlinked" /\ content' = content
            BY <2>5 DEF Unlink, DoorTyped
        <3> QED BY <2>1, <2>2, <2>3, <2>4, <3>1 DEF MadeOnce
    <2>6. CASE Unlock(p)
        <3>1. pc[p] = "unlinked" /\ pc'[p] = "unlocked" /\ content' = content
            BY <2>6 DEF Unlock, DoorTyped
        <3> QED BY <2>1, <2>2, <2>3, <2>4, <3>1 DEF MadeOnce
    <2>7. CASE CopyDb(p)
        <3>1. pc'[p] = "copied" /\ DOMAIN content' = DOMAIN content \cup {p} /\ db' # None
            BY <1>0, <2>7, Names DEF CopyDb, DoorTyped
        <3> QED BY <2>1, <2>2, <2>3, <2>4, <3>1 DEF MadeOnce
    <2> QED BY <1>11, <2>5, <2>6, <2>7
<1>12. ASSUME NEW p \in Running, CopyArtifacts(p) PROVE MadeOnce'
    <2>1. PICK x \in {"cleared", "replaced"} : pc' = [pc EXCEPT ![p] = x]
        BY <1>12 DEF CopyArtifacts
    <2>2. pc[p] \in {"copied", "cleared"} /\ Role(p) = "restore"
        BY <1>12 DEF CopyArtifacts, MadeOnce
    <2> QED BY <1>12, <2>1, <2>2, QuietKeepsMade DEF CopyArtifacts
<1>13. ASSUME NEW p \in Running, NEW x \in Inside, pc' = [pc EXCEPT ![p] = x],
              UNCHANGED <<plan, db>>, DOMAIN content' = DOMAIN content
       PROVE  MadeOnce'
    BY <1>13, QuietKeepsMade
<1>14. ASSUME NEW p \in Running,
              Publish(p) \/ AskRoot(p) \/ Return(p) \/ Emitted(p) \/ RootSigns(p)
       PROVE  MadeOnce'
    BY <1>13, <1>14 DEF Publish, Draft, AskRoot, Return, Emitted, RootSigns
<1>15. ASSUME NEW p \in Running, AppendEntry(p) PROVE MadeOnce'
    <2>1. UNCHANGED <<plan, db>> /\ DOMAIN content' = DOMAIN content
        BY <1>15 DEF AppendEntry, Write
    <2>2. PICK x \in {"open", "appended", "gone"} : pc' = [pc EXCEPT ![p] = x]
        BY <1>15 DEF AppendEntry, Shut
    <2> QED BY <2>1, <2>2, QuietKeepsMade
<1>16. ASSUME NEW p \in Running, Actuate(p) PROVE MadeOnce'
    <2>1. CASE pc' = pc
        BY <1>16, <2>1, StillKeepsMade DEF Actuate
    <2>2. CASE Goto(p, "drafted")
        BY <1>13, <1>16, <2>2 DEF Actuate
    <2> QED BY <1>16, <2>1, <2>2 DEF Actuate, Draft
<1>17. ASSUME NEW p \in Running, Boot(p) \/ RevokeKey(p) PROVE MadeOnce'
    <2>1. UNCHANGED <<plan, db, content>>
        BY <1>17 DEF Boot, RevokeKey
    <2>2. CASE pc' = pc
        BY <2>1, <2>2, StillKeepsMade
    <2>3. CASE Goto(p, "gone")
        BY <2>1, <2>3, QuietKeepsMade
    <2> QED BY <1>17, <2>2, <2>3 DEF Boot, RevokeKey, Shut
<1>18. CASE UNCHANGED vars
    BY <1>18, StillKeepsMade DEF vars
<1> QED BY <1>1, <1>2, <1>3, <1>4, <1>5, <1>6, <1>7, <1>8, <1>9, <1>10, <1>11, <1>12,
           <1>14, <1>15, <1>16, <1>17, <1>18 DEF Next

------------------------------------------------------------------------------
(* The chain *)

\* A chain numbered from 1 without a gap, each entry after the one before it.
Unbroken(c) ==
    /\ \E S : c \in Seq(S)
    /\ \A k \in 1..Len(c) :
          c[k].seq = k /\ c[k].prev = IF k = 1 THEN << >> ELSE <<c[k - 1]>>

\* An entry that was drafted against some stretch of this chain.
Fits(e, c) ==
    e.seq \in 1..Len(c) + 1 /\ e.prev = IF e.seq = 1 THEN << >> ELSE <<c[e.seq - 1]>>

IsStore(s) == s = [chain |-> s.chain, queue |-> s.queue, points |-> s.points]
IsBackup(b) == b = [db |-> b.db, taken |-> b.taken, arts |-> b.arts, manifest |-> b.manifest]

Sound(s) == IsStore(s) /\ Unbroken(s.chain)

DraftsFit ==
    /\ draft = [p \in Running |-> [entry |-> draft[p].entry, rows |-> draft[p].rows]]
    /\ \A p \in Running : pc[p] \in {"drafted", "asked"} =>
          Fits(Last(draft[p].entry), content[handle[p]].chain)

ChainInv ==
    /\ db \in DOMAIN content \cup {None}
    /\ \A p \in Running : handle[p] \in DOMAIN content \cup {None}
    /\ \A f \in DOMAIN content : Sound(content[f])
    /\ IsBackup(backup) /\ Sound(backup.db)
    /\ DraftsFit

LEMMA EmptySound == Sound(Empty)
<1>1. Empty.chain = << >> /\ Len(<< >>) = 0 /\ << >> \in Seq({})
    BY DEF Empty
<1> QED BY <1>1 DEF Sound, IsStore, Unbroken, Empty

\* What emit drafts fits the chain it was drafted against.
LEMMA HeadFits ==
    ASSUME NEW c, Unbroken(c), NEW e, e.seq = NextSeq(c), e.prev = HeadDigest(c)
    PROVE  Fits(e, c)
<1>1. PICK S : c \in Seq(S)
    BY DEF Unbroken
<1>2. Len(c) \in Nat /\ (c = << >> <=> Len(c) = 0)
    BY <1>1
<1> QED BY <1>2 DEF Fits, NextSeq, HeadDigest, Last

\* Chains only grow, by an entry that fits and whose number is free.
Grown(c, d) == d = c \/ \E e : Fits(e, c) /\ e.seq \notin Ids(c) /\ d = Append(c, e)

LEMMA GrownSound ==
    ASSUME NEW c, NEW d, Unbroken(c), Grown(c, d)
    PROVE  Unbroken(d) /\ \A x : Fits(x, c) => Fits(x, d)
<1>1. CASE d = c
    BY <1>1
<1>2. ASSUME NEW e, Fits(e, c), e.seq \notin Ids(c), d = Append(c, e)
      PROVE  Unbroken(d) /\ \A x : Fits(x, c) => Fits(x, d)
    <2>1. PICK S : c \in Seq(S)
        BY DEF Unbroken
    <2>2. Len(c) \in Nat /\ DOMAIN c = 1..Len(c)
        BY <2>1
    <2>3. \A k \in 1..Len(c) : c[k].seq = k
        BY DEF Unbroken
    <2>4. e.seq = Len(c) + 1
        <3>1. e.seq \in 1..Len(c) + 1
            BY <1>2 DEF Fits
        <3>2. e.seq \notin 1..Len(c)
            BY <1>2, <2>2, <2>3 DEF Ids
        <3> QED BY <2>2, <3>1, <3>2
    <2>5. c \in Seq(S \cup {e}) /\ e \in S \cup {e}
        BY <2>1
    <2>6. /\ d \in Seq(S \cup {e}) /\ Len(d) = Len(c) + 1
          /\ \A k \in 1..Len(c) : d[k] = c[k]
          /\ d[Len(c) + 1] = e
        BY <1>2, <2>5
    <2>7. \A k \in 1..Len(d) : d[k].seq = k
        BY <2>2, <2>3, <2>4, <2>6
    <2>8. ASSUME NEW k \in 1..Len(d)
          PROVE  d[k].prev = IF k = 1 THEN << >> ELSE <<d[k - 1]>>
        <3>1. CASE k \in 1..Len(c)
            <4>1. d[k] = c[k] /\ (k # 1 => d[k - 1] = c[k - 1])
                BY <2>2, <2>6, <3>1
            <4> QED BY <3>1, <4>1 DEF Unbroken
        <3>2. CASE k = Len(c) + 1
            <4>1. d[k] = e /\ (k # 1 => d[k - 1] = c[k - 1])
                BY <2>2, <2>6, <3>2
            <4> QED BY <1>2, <2>4, <3>2, <4>1 DEF Fits
        <3> QED BY <2>2, <2>6, <3>1, <3>2
    <2>9. ASSUME NEW x, Fits(x, c) PROVE Fits(x, d)
        <3>1. x.seq \in 1..Len(c) + 1 /\ x.prev = IF x.seq = 1 THEN << >> ELSE <<c[x.seq - 1]>>
            BY <2>9 DEF Fits
        <3>2. x.seq \in 1..Len(d) + 1
            BY <2>2, <2>6, <3>1
        <3>3. x.seq # 1 => d[x.seq - 1] = c[x.seq - 1]
            BY <2>2, <2>6, <3>1
        <3> QED BY <3>1, <3>2, <3>3 DEF Fits
    <2> QED BY <2>6, <2>7, <2>8, <2>9 DEF Unbroken
<1> QED BY <1>1, <1>2 DEF Grown

\* What every step does to the stores.
StoresGrow ==
    /\ DOMAIN content \subseteq DOMAIN content'
    /\ \A f \in DOMAIN content :
          IsStore(content'[f]) /\ Grown(content[f].chain, content'[f].chain)
    /\ \A f \in DOMAIN content' \ DOMAIN content : Sound(content'[f])

\* A step that drafts nothing.
LEMMA UndraftedKeepsChain ==
    ASSUME ChainInv, StoresGrow, plan' = plan,
           db' \in DOMAIN content' \cup {None},
           \A p \in Running : handle'[p] = handle[p] \/ handle'[p] \in DOMAIN content' \cup {None},
           IsBackup(backup'), Sound(backup'.db),
           draft' = [p \in Running |-> [entry |-> draft'[p].entry, rows |-> draft'[p].rows]],
           \A p \in Running : pc'[p] \in {"drafted", "asked"} =>
               /\ pc[p] \in {"drafted", "asked"} /\ handle[p] # None
               /\ draft'[p].entry = draft[p].entry /\ handle'[p] = handle[p]
    PROVE  ChainInv'
<1>1. Running' = Running
    BY DEF Running
<1>2. \A f \in DOMAIN content' : Sound(content'[f])
    <2> SUFFICES ASSUME NEW f \in DOMAIN content, f \in DOMAIN content' PROVE Sound(content'[f])
        BY DEF StoresGrow
    <2>1. Unbroken(content[f].chain) /\ Grown(content[f].chain, content'[f].chain)
        BY DEF ChainInv, Sound, StoresGrow
    <2> QED BY <2>1, GrownSound DEF Sound, StoresGrow
<1>3. \A p \in Running : handle'[p] \in DOMAIN content' \cup {None}
    BY DEF ChainInv, StoresGrow
<1>4. ASSUME NEW p \in Running, pc'[p] \in {"drafted", "asked"}
      PROVE  Fits(Last(draft'[p].entry), content'[handle'[p]].chain)
    <2>1. handle[p] \in DOMAIN content
        BY <1>4 DEF ChainInv
    <2>2. Fits(Last(draft[p].entry), content[handle[p]].chain)
        BY <1>4 DEF ChainInv, DraftsFit
    <2>3. Unbroken(content[handle[p]].chain)
          /\ Grown(content[handle[p]].chain, content'[handle[p]].chain)
        BY <2>1 DEF ChainInv, Sound, StoresGrow
    <2>4. Fits(Last(draft[p].entry), content'[handle[p]].chain)
        BY <2>2, <2>3, GrownSound
    <2> QED BY <1>4, <2>4
<1>5. DraftsFit'
    BY <1>1, <1>4 DEF DraftsFit
<1> QED BY <1>1, <1>2, <1>3, <1>5 DEF ChainInv

LEMMA StillGrows ==
    ASSUME ChainInv, content' = content
    PROVE  StoresGrow
BY DEF ChainInv, Sound, StoresGrow, Grown

\* A step that drafts: the store stays as it is.
LEMMA DraftedKeepsChain ==
    ASSUME ChainInv, DoorTyped, UNCHANGED <<plan, db, content, backup, handle>>,
           NEW p \in Running, pc[p] = "open",
           NEW x \in {"drafted", "asked"}, pc' = [pc EXCEPT ![p] = x],
           NEW key, NEW at, NEW says, NEW to, DraftBy(p, key, at, says, to)
    PROVE  ChainInv'
<1> DEFINE e == [seq |-> NextSeq(Store(p).chain), prev |-> HeadDigest(Store(p).chain),
                 key |-> key, at |-> at, says |-> says, to |-> to]
<1>1. Running' = Running
    BY DEF Running
<1>2. draft' = [draft EXCEPT ![p] = [entry |-> <<e>>, rows |-> Rows(to)]]
    BY DEF DraftBy
<1>3. Last(<<e>>) = e /\ e.seq = NextSeq(Store(p).chain) /\ e.prev = HeadDigest(Store(p).chain)
    BY DEF Last
<1> HIDE DEF e
<1>4. /\ draft'[p] = [entry |-> <<e>>, rows |-> Rows(to)]
      /\ \A q \in Running : q # p => draft'[q] = draft[q]
      /\ draft' = [q \in Running |-> [entry |-> draft'[q].entry, rows |-> draft'[q].rows]]
    BY <1>2 DEF ChainInv, DraftsFit
<1>5. handle[p] \in DOMAIN content
    BY DEF ChainInv, DoorTyped, Inside
<1>6. Fits(e, content[handle[p]].chain)
    BY <1>3, <1>5, HeadFits DEF ChainInv, Sound, Store
<1>7. ASSUME NEW q \in Running, pc'[q] \in {"drafted", "asked"}
      PROVE  Fits(Last(draft'[q].entry), content'[handle'[q]].chain)
    <2>1. CASE q = p
        BY <1>3, <1>4, <1>6, <2>1
    <2>2. CASE q # p
        <3>1. pc'[q] = pc[q]
            BY <2>2 DEF DoorTyped
        <3> QED BY <1>4, <1>7, <2>2, <3>1 DEF ChainInv, DraftsFit
    <2> QED BY <2>1, <2>2
<1>8. DraftsFit'
    BY <1>1, <1>4, <1>7 DEF DraftsFit
<1> QED BY <1>1, <1>8 DEF ChainInv

\* A write to a store: its chain stays, or grows by an entry that fits.
LEMMA WriteGrows ==
    ASSUME ChainInv, DoorTyped, NEW p \in Running, pc[p] \in Inside,
           NEW store, IsStore(store), Grown(content[handle[p]].chain, store.chain),
           content' = [content EXCEPT ![handle[p]] = store]
    PROVE  StoresGrow /\ DOMAIN content' = DOMAIN content
<1>1. handle[p] \in DOMAIN content
    BY DEF ChainInv, DoorTyped
<1>2. DOMAIN content' = DOMAIN content /\ content'[handle[p]] = store
      /\ \A f \in DOMAIN content : f # handle[p] => content'[f] = content[f]
    BY <1>1
<1> QED BY <1>2 DEF StoresGrow, ChainInv, Sound, Grown

LEMMA OpenKeepsChain ==
    ASSUME DoorTyped, MadeOnce, ChainInv, NEW p \in Running, Open(p), UNCHANGED draft
    PROVE  ChainInv'
<1>0. p # None /\ None \notin Files
    BY Names DEF DoorTyped
<1>1. /\ pc' = [pc EXCEPT ![p] = "open"] /\ pc[p] = "claimed"
      /\ handle' = [handle EXCEPT ![p] = db'] /\ UNCHANGED <<plan, backup>>
    BY DEF Open, Goto
<1>2. \A q \in Running : pc'[q] \in {"drafted", "asked"} =>
          pc[q] = pc'[q] /\ handle[q] # None /\ handle'[q] = handle[q]
    BY <1>1 DEF DoorTyped, Inside
<1>3. db' \in DOMAIN content' /\ StoresGrow
    <2>1. CASE db = None
        <3>1. p \notin DOMAIN content
            BY <1>1, <2>1 DEF MadeOnce
        <3>2. /\ db' = p
              /\ content' = [f \in DOMAIN content \cup {p} |-> IF f = p THEN Empty ELSE content[f]]
            BY <2>1 DEF Open
        <3>3. DOMAIN content' = DOMAIN content \cup {p} /\ content'[p] = Empty
              /\ \A f \in DOMAIN content : content'[f] = content[f]
            BY <3>1, <3>2
        <3> QED BY <3>2, <3>3, EmptySound DEF StoresGrow, ChainInv, Sound, Grown
    <2>2. CASE db # None
        <3>1. db' = db /\ content' = content
            BY <2>2 DEF Open
        <3> QED BY <2>2, <3>1, StillGrows DEF ChainInv
    <2> QED BY <2>1, <2>2
<1>4. \A q \in Running : handle'[q] = handle[q] \/ handle'[q] \in DOMAIN content' \cup {None}
    BY <1>1, <1>3 DEF DoorTyped
<1> QED BY <1>1, <1>2, <1>3, <1>4, UndraftedKeepsChain DEF ChainInv, DraftsFit

LEMMA CopyKeepsChain ==
    ASSUME DoorTyped, MadeOnce, ChainInv, NEW p \in Running, CopyDb(p), UNCHANGED draft
    PROVE  ChainInv'
<1>1. /\ pc' = [pc EXCEPT ![p] = "copied"] /\ pc[p] = "unlocked" /\ db' = p
      /\ content' = [f \in DOMAIN content \cup {p} |-> IF f = p THEN backup.db ELSE content[f]]
      /\ UNCHANGED <<plan, handle, backup>>
    BY DEF CopyDb, Goto
<1>2. p \notin DOMAIN content
    BY <1>1 DEF MadeOnce, Restoring
<1>3. DOMAIN content' = DOMAIN content \cup {p} /\ content'[p] = backup.db
      /\ \A f \in DOMAIN content : content'[f] = content[f]
    BY <1>1, <1>2
<1>4. StoresGrow
    BY <1>3 DEF StoresGrow, ChainInv, Sound, Grown
<1>5. \A q \in Running : pc'[q] \in {"drafted", "asked"} =>
          pc[q] = pc'[q] /\ handle[q] # None /\ handle'[q] = handle[q]
    BY <1>1 DEF DoorTyped, Inside
<1> QED BY <1>1, <1>3, <1>4, <1>5, UndraftedKeepsChain DEF ChainInv, DraftsFit

LEMMA AppendKeepsChain ==
    ASSUME DoorTyped, ChainInv, NEW p \in Running, AppendEntry(p)
    PROVE  ChainInv'
<1> DEFINE e == Last(draft[p].entry)
<1> DEFINE c == Store(p).chain
<1>1. pc[p] = "drafted" /\ UNCHANGED <<plan, db, backup>>
    BY DEF AppendEntry
<1>2. handle[p] \in DOMAIN content /\ p # None /\ Sound(Store(p))
    BY <1>1, Names DEF ChainInv, DoorTyped, Inside, Store
<1>3. Fits(e, c)
    BY <1>1 DEF ChainInv, DraftsFit, Store
<1>4. CASE e.seq \in Ids(c)
    <2>1. content' = content /\ draft' = [draft EXCEPT ![p] = NoDraft]
        BY <1>4 DEF AppendEntry
    <2>2. PICK x \in {"gone", "open"} : pc' = [pc EXCEPT ![p] = x]
        BY <1>4 DEF AppendEntry, Shut, Goto
    <2>3. handle' = handle \/ handle' = [handle EXCEPT ![p] = None]
        BY <1>4 DEF AppendEntry, Shut
    <2>4. draft' = [q \in Running |-> [entry |-> draft'[q].entry, rows |-> draft'[q].rows]]
          /\ \A q \in Running : q # p => draft'[q] = draft[q]
        BY <2>1 DEF ChainInv, DraftsFit, NoDraft
    <2>5. \A q \in Running : pc'[q] \in {"drafted", "asked"} =>
              /\ pc[q] = pc'[q] /\ handle[q] # None
              /\ draft'[q].entry = draft[q].entry /\ handle'[q] = handle[q]
        BY <2>2, <2>3, <2>4 DEF DoorTyped, Inside
    <2>6. \A q \in Running : handle'[q] = handle[q] \/ handle'[q] \in DOMAIN content' \cup {None}
        BY <2>3 DEF DoorTyped
    <2> QED BY <1>1, <2>1, <2>4, <2>5, <2>6, StillGrows, UndraftedKeepsChain DEF ChainInv
<1>5. CASE e.seq \notin Ids(c)
    <2> DEFINE store == [Store(p) EXCEPT !.chain = Append(@, e)]
    <2>1. /\ content' = [content EXCEPT ![handle[p]] = store]
          /\ pc' = [pc EXCEPT ![p] = "appended"] /\ UNCHANGED <<handle, draft>>
        BY <1>5 DEF AppendEntry, Write, Goto
    <2>2. IsStore(store) /\ store.chain = Append(c, e)
        BY <1>2 DEF Sound, IsStore
    <2> HIDE DEF store
    <2>3. Grown(content[handle[p]].chain, store.chain)
        BY <1>3, <1>5, <2>2 DEF Grown, Store
    <2>4. StoresGrow /\ DOMAIN content' = DOMAIN content
        BY <1>1, <2>1, <2>2, <2>3, WriteGrows DEF Inside
    <2>5. \A q \in Running : pc'[q] \in {"drafted", "asked"} =>
              pc[q] = pc'[q] /\ handle[q] # None
        BY <2>1 DEF DoorTyped, Inside
    <2> QED BY <1>1, <2>1, <2>4, <2>5, UndraftedKeepsChain DEF ChainInv, DraftsFit
<1> QED BY <1>4, <1>5

LEMMA BackupKeepsChain ==
    ASSUME DoorTyped, ChainInv, NEW p \in Running, Backup(p), UNCHANGED draft
    PROVE  ChainInv'
<1>1. UNCHANGED <<plan, db, content, handle>>
    BY DEF Backup
<1>2. (\E x \in {"one", "two", "gone"} : pc' = [pc EXCEPT ![p] = x])
      /\ IsBackup(backup') /\ Sound(backup'.db)
    <2>1. CASE Starts(p) /\ (backup # NoBackup \/ db = None) /\ Goto(p, "gone") /\ UNCHANGED backup
        BY <2>1 DEF ChainInv, Goto
    <2>2. CASE \E k \in DOMAIN BackupOrder :
                  /\ k = 1 => db # None
                  /\ backup' = Copied(k) /\ Goto(p, At[k + 1])
        <3>0. DOMAIN BackupOrder = 1..3 /\ BackupOrder[1] = "db"
              /\ BackupOrder[2] = "artifacts" /\ BackupOrder[3] = "manifest"
            BY DEF BackupOrder
        <3>1. PICK k \in 1..3 : /\ k = 1 => db # None
                                /\ backup' = Copied(k) /\ Goto(p, At[k + 1])
            BY <2>2, <3>0
        <3>2. At[k + 1] \in {"one", "two", "gone"}
            BY DEF At
        <3>3. CASE k = 1
            <4>1. backup' = [backup EXCEPT !.db = content[db], !.taken = TRUE]
                BY <3>0, <3>1, <3>3 DEF Copied
            <4>2. db \in DOMAIN content
                BY <3>1, <3>3 DEF ChainInv
            <4>3. IsBackup(backup') /\ backup'.db = content[db]
                BY <4>1 DEF ChainInv, IsBackup
            <4> QED BY <3>1, <3>2, <4>2, <4>3 DEF ChainInv, Goto
        <3>4. CASE k = 2
            <4>1. backup' = [backup EXCEPT !.arts = dir]
                BY <3>0, <3>1, <3>4 DEF Copied
            <4>2. IsBackup(backup') /\ backup'.db = backup.db
                BY <4>1 DEF ChainInv, IsBackup
            <4> QED BY <3>1, <3>2, <4>2 DEF ChainInv, Goto
        <3>5. CASE k = 3
            <4>1. backup' = [backup EXCEPT !.manifest = TRUE]
                BY <3>0, <3>1, <3>5 DEF Copied
            <4>2. IsBackup(backup') /\ backup'.db = backup.db
                BY <4>1 DEF ChainInv, IsBackup
            <4> QED BY <3>1, <3>2, <4>2 DEF ChainInv, Goto
        <3> QED BY <3>3, <3>4, <3>5
    <2> QED BY <2>1, <2>2 DEF Backup
<1>3. \A q \in Running : pc'[q] \in {"drafted", "asked"} =>
          pc[q] = pc'[q] /\ handle[q] # None
    BY <1>2 DEF DoorTyped, Inside
<1> QED BY <1>1, <1>2, <1>3, StillGrows, UndraftedKeepsChain DEF ChainInv, DraftsFit

\* A step of one process that writes no chain and drafts nothing.
LEMMA QuietKeepsChain ==
    ASSUME DoorTyped, ChainInv, UNCHANGED <<plan, db, backup>>, StoresGrow,
           DOMAIN content' = DOMAIN content,
           NEW p \in Running, NEW x, pc' = [pc EXCEPT ![p] = x],
           handle' = handle \/ handle' = [handle EXCEPT ![p] = None],
           draft' = draft \/ draft' = [draft EXCEPT ![p] = NoDraft],
           x \notin {"drafted", "asked"} \/
               (pc[p] \in {"drafted", "asked"} /\ draft' = draft /\ handle' = handle)
    PROVE  ChainInv'
<1>1. /\ draft' = [q \in Running |-> [entry |-> draft'[q].entry, rows |-> draft'[q].rows]]
      /\ \A q \in Running : q # p => draft'[q] = draft[q]
    BY DEF ChainInv, DraftsFit, NoDraft
<1>2. \A q \in Running : pc'[q] \in {"drafted", "asked"} =>
          /\ pc[q] \in {"drafted", "asked"} /\ handle[q] # None
          /\ draft'[q].entry = draft[q].entry /\ handle'[q] = handle[q]
    <2>1. CASE x \in {"drafted", "asked"}
        BY <2>1 DEF DoorTyped, Inside
    <2>2. CASE x \notin {"drafted", "asked"}
        BY <1>1, <2>2 DEF DoorTyped, Inside
    <2> QED BY <2>1, <2>2
<1>3. \A q \in Running : handle'[q] = handle[q] \/ handle'[q] \in DOMAIN content' \cup {None}
    BY DEF DoorTyped
<1>4. db' \in DOMAIN content' \cup {None} /\ IsBackup(backup') /\ Sound(backup'.db) /\ plan' = plan
    BY DEF ChainInv
<1> QED BY <1>1, <1>2, <1>3, <1>4, UndraftedKeepsChain

LEMMA StillKeepsChain ==
    ASSUME DoorTyped, ChainInv, UNCHANGED <<plan, pc, db, backup, handle, draft>>, StoresGrow,
           DOMAIN content' = DOMAIN content
    PROVE  ChainInv'
<1>1. \A q \in Running : pc'[q] \in {"drafted", "asked"} =>
          pc[q] = pc'[q] /\ handle[q] # None
    BY DEF DoorTyped, Inside
<1>2. draft' = [q \in Running |-> [entry |-> draft'[q].entry, rows |-> draft'[q].rows]]
    BY DEF ChainInv, DraftsFit
<1>3. db' \in DOMAIN content' \cup {None} /\ IsBackup(backup') /\ Sound(backup'.db) /\ plan' = plan
    BY DEF ChainInv
<1> QED BY <1>1, <1>2, <1>3, UndraftedKeepsChain

\* Rows of the delivery queue and restore points are written beside the chain.
LEMMA BesideKeepsChain ==
    ASSUME ChainInv, DoorTyped, NEW p \in Running, pc[p] \in Inside, NEW v,
           \/ content' = [content EXCEPT ![handle[p]] = [Store(p) EXCEPT !.queue = v]]
           \/ content' = [content EXCEPT ![handle[p]] = [Store(p) EXCEPT !.points = v]]
    PROVE  StoresGrow /\ DOMAIN content' = DOMAIN content
<1>1. handle[p] \in DOMAIN content /\ IsStore(Store(p))
    BY DEF ChainInv, DoorTyped, Sound, Store
<1> DEFINE queued == [Store(p) EXCEPT !.queue = v]
<1> DEFINE pointed == [Store(p) EXCEPT !.points = v]
<1>2. IsStore(queued) /\ queued.chain = Store(p).chain
    BY <1>1 DEF IsStore
<1>3. IsStore(pointed) /\ pointed.chain = Store(p).chain
    BY <1>1 DEF IsStore
<1>4. content' = [content EXCEPT ![handle[p]] = queued] \/ content' = [content EXCEPT ![handle[p]] = pointed]
    OBVIOUS
<1> HIDE DEF queued, pointed
<1> QED BY <1>2, <1>3, <1>4, WriteGrows DEF Grown, Store

LEMMA ChainStep ==
    ASSUME DoorTyped, MadeOnce, ChainInv, [Next]_vars
    PROVE  ChainInv'
<1> USE DEF Goto, disk, doorVars, recordVars
<1>0. content' = content => StoresGrow
    BY StillGrows
<1>1. Tick => ChainInv'
    BY <1>0, StillKeepsChain DEF Tick
<1>2. ASSUME NEW p \in Running, Act(p) \/ RotateKey(p) PROVE ChainInv'
    BY <1>0, <1>2, StillKeepsChain DEF Act, RotateKey
<1>3. ASSUME NEW p \in Running, Deliver(p) PROVE ChainInv'
    <2>1. PICK row : content' = [content EXCEPT ![handle[p]] =
                                    [Store(p) EXCEPT !.queue = Store(p).queue \ {row}]]
        BY <1>3 DEF Deliver, Write
    <2>2. pc[p] \in Inside /\ UNCHANGED <<plan, pc, db, backup, handle, draft>>
        BY <1>3 DEF Deliver, Inside
    <2> QED BY <2>1, <2>2, BesideKeepsChain, StillKeepsChain
<1>4. ASSUME NEW p \in Running, Enqueue(p) PROVE ChainInv'
    <2>1. PICK t \in draft[p].rows :
              /\ content' = [content EXCEPT ![handle[p]] =
                    [Store(p) EXCEPT !.queue = Store(p).queue \cup {<<Last(draft[p].entry), t>>}]]
              /\ draft' = [draft EXCEPT ![p].rows = @ \ {t}]
        BY <1>4 DEF Enqueue, Write
    <2>2. pc[p] = "appended" /\ UNCHANGED <<plan, pc, db, backup, handle>>
        BY <1>4 DEF Enqueue
    <2>3. StoresGrow /\ DOMAIN content' = DOMAIN content
        BY <2>1, <2>2, BesideKeepsChain DEF Inside
    <2>4. /\ draft' = [q \in Running |-> [entry |-> draft'[q].entry, rows |-> draft'[q].rows]]
          /\ \A q \in Running : q # p => draft'[q] = draft[q]
          /\ draft'[p].entry = draft[p].entry
        <3>1. draft = [q \in Running |-> [entry |-> draft[q].entry, rows |-> draft[q].rows]]
            BY DEF ChainInv, DraftsFit
        <3> DEFINE less == [draft[p] EXCEPT !.rows = @ \ {t}]
        <3>2. draft[p] = [entry |-> draft[p].entry, rows |-> draft[p].rows]
            BY <3>1
        <3>3. less = [entry |-> less.entry, rows |-> less.rows] /\ less.entry = draft[p].entry
            BY <3>2
        <3>4. draft' = [draft EXCEPT ![p] = less]
            BY <2>1
        <3> HIDE DEF less
        <3>5. draft'[p] = less /\ \A q \in Running : q # p => draft'[q] = draft[q]
            BY <3>1, <3>4
        <3> QED BY <3>1, <3>3, <3>4, <3>5
    <2>5. \A q \in Running : pc'[q] \in {"drafted", "asked"} =>
              /\ pc[q] = pc'[q] /\ handle[q] # None
              /\ draft'[q].entry = draft[q].entry /\ handle'[q] = handle[q]
        BY <2>2, <2>4 DEF DoorTyped, Inside
    <2> QED BY <2>2, <2>3, <2>4, <2>5, UndraftedKeepsChain DEF ChainInv
<1>5. ASSUME NEW p \in Running, Look(p), UNCHANGED recordVars PROVE ChainInv'
    <2>1. PICK x \in {"gone", "looked"} : pc' = [pc EXCEPT ![p] = x]
        BY <1>5 DEF Look
    <2> QED BY <1>0, <1>5, <2>1, QuietKeepsChain DEF Look
<1>6. ASSUME NEW p \in Running, Claim(p), UNCHANGED recordVars PROVE ChainInv'
    BY <1>0, <1>6, QuietKeepsChain DEF Claim
<1>7. ASSUME NEW p \in Running, Open(p), UNCHANGED recordVars PROVE ChainInv'
    BY <1>7, OpenKeepsChain
<1>8. ASSUME NEW p \in Running, Killed(p) \/ Close(p) \/ RootRefuses(p) PROVE ChainInv'
    BY <1>0, <1>8, QuietKeepsChain DEF Killed, Kill, Close, RootRefuses, Shut
<1>9. ASSUME NEW p \in Running, MarkPoint(p), UNCHANGED recordVars PROVE ChainInv'
    <2>1. content' = [content EXCEPT ![handle[p]] = [Store(p) EXCEPT !.points = Store(p).points + 1]]
        BY <1>9 DEF MarkPoint, Store
    <2>2. StoresGrow /\ DOMAIN content' = DOMAIN content
        BY <1>9, <2>1, BesideKeepsChain DEF MarkPoint, Inside
    <2> QED BY <1>9, <2>2, QuietKeepsChain DEF MarkPoint, Shut
<1>10. ASSUME NEW p \in Running, Backup(p), UNCHANGED recordVars PROVE ChainInv'
    BY <1>10, BackupKeepsChain
<1>11. ASSUME NEW p \in Running, Restore(p), UNCHANGED recordVars PROVE ChainInv'
    <2>1. PICK x \in {"verified", "gone"} : pc' = [pc EXCEPT ![p] = x]
        BY <1>11 DEF Restore
    <2> QED BY <1>0, <1>11, <2>1, QuietKeepsChain DEF Restore
<1>12. ASSUME NEW p \in Running, Unlink(p), UNCHANGED recordVars PROVE ChainInv'
    <2>1. /\ db' = None /\ pc' = [pc EXCEPT ![p] = "unlinked"]
          /\ UNCHANGED <<plan, content, backup, handle, draft>>
        BY <1>12 DEF Unlink
    <2>2. \A q \in Running : pc'[q] \in {"drafted", "asked"} =>
              pc[q] = pc'[q] /\ handle[q] # None
        BY <2>1 DEF DoorTyped, Inside
    <2> QED BY <1>0, <2>1, <2>2, UndraftedKeepsChain DEF ChainInv, DraftsFit
<1>13. ASSUME NEW p \in Running, Unlock(p), UNCHANGED recordVars PROVE ChainInv'
    BY <1>0, <1>13, QuietKeepsChain DEF Unlock
<1>14. ASSUME NEW p \in Running, CopyDb(p), UNCHANGED recordVars PROVE ChainInv'
    BY <1>14, CopyKeepsChain
<1>15. ASSUME NEW p \in Running, CopyArtifacts(p), UNCHANGED recordVars PROVE ChainInv'
    <2>1. PICK x \in {"cleared", "replaced"} : pc' = [pc EXCEPT ![p] = x]
        BY <1>15 DEF CopyArtifacts
    <2> QED BY <1>0, <1>15, <2>1, QuietKeepsChain DEF CopyArtifacts
<1>16. ASSUME NEW p \in Running, pc[p] = "open", NEW key, NEW at, NEW says, NEW to,
              DraftBy(p, key, at, says, to),
              NEW x \in {"drafted", "asked"}, pc' = [pc EXCEPT ![p] = x],
              UNCHANGED <<plan, db, content, backup, handle>>
       PROVE  ChainInv'
    BY <1>16, DraftedKeepsChain
<1>17. ASSUME NEW p \in Running, Publish(p) PROVE ChainInv'
    <2>1. pc[p] = "open" /\ UNCHANGED <<plan, db, content, backup, handle>>
          /\ \E says, to : Draft(p, says, to)
        BY <1>17 DEF Publish, Ready
    <2> QED BY <1>16, <2>1 DEF Draft
<1>18. ASSUME NEW p \in Running, AskRoot(p) PROVE ChainInv'
    <2>1. pc[p] = "open" /\ UNCHANGED <<plan, db, content, backup, handle>>
          /\ pc' = [pc EXCEPT ![p] = "asked"]
          /\ \E key, at, says, to : DraftBy(p, key, at, says, to)
        BY <1>18 DEF AskRoot, Ready
    <2> QED BY <1>16, <2>1
<1>19. ASSUME NEW p \in Running, Return(p) PROVE ChainInv'
    <2>1. pc[p] = "open" /\ UNCHANGED <<plan, db, content, backup, handle>>
          /\ \E says, to : Draft(p, says, to)
        BY <1>19 DEF Return
    <2> QED BY <1>16, <2>1 DEF Draft
<1>20. ASSUME NEW p \in Running, Emitted(p) PROVE ChainInv'
    BY <1>0, <1>20, QuietKeepsChain DEF Emitted
<1>21. ASSUME NEW p \in Running, RootSigns(p) PROVE ChainInv'
    BY <1>0, <1>21, QuietKeepsChain DEF RootSigns
<1>22. ASSUME NEW p \in Running, AppendEntry(p) PROVE ChainInv'
    BY <1>22, AppendKeepsChain
<1>23. ASSUME NEW p \in Running, Actuate(p) PROVE ChainInv'
    <2>1. pc[p] = "open" /\ UNCHANGED <<plan, db, content, backup, handle>>
        BY <1>23 DEF Actuate, Ready
    <2>2. (UNCHANGED <<draft, pc>>) \/ \E says, to : Draft(p, says, to)
        BY <1>23 DEF Actuate
    <2>3. CASE UNCHANGED <<draft, pc>>
        BY <1>0, <2>1, <2>3, StillKeepsChain
    <2>4. CASE \E says, to : Draft(p, says, to)
        BY <1>16, <2>1, <2>4 DEF Draft
    <2> QED BY <2>2, <2>3, <2>4
<1>24. ASSUME NEW p \in Running, Boot(p) \/ RevokeKey(p) PROVE ChainInv'
    <2>1. UNCHANGED <<plan, db, content, backup, draft>>
        BY <1>24 DEF Boot, RevokeKey
    <2>2. CASE UNCHANGED <<pc, handle>>
        BY <1>0, <2>1, <2>2, StillKeepsChain
    <2>3. CASE Goto(p, "gone") /\ handle' = [handle EXCEPT ![p] = None]
        BY <1>0, <2>1, <2>3, QuietKeepsChain
    <2> QED BY <1>24, <2>2, <2>3 DEF Boot, RevokeKey, Shut
<1>25. CASE UNCHANGED vars
    BY <1>0, <1>25, StillKeepsChain DEF vars
<1> QED BY <1>1, <1>2, <1>3, <1>4, <1>5, <1>6, <1>7, <1>8, <1>9, <1>10, <1>11, <1>12, <1>13,
           <1>14, <1>15, <1>17, <1>18, <1>19, <1>20, <1>21, <1>22, <1>23, <1>24, <1>25
        DEF Next

LEMMA ChainInit == Init => MadeOnce /\ ChainInv
<1> SUFFICES ASSUME Init PROVE MadeOnce /\ ChainInv
    OBVIOUS
<1>1. /\ plan \in Plans /\ db = "first" /\ DOMAIN content = {"first"} /\ content["first"] = Empty
      /\ pc = [p \in Running |-> "new"] /\ handle = [p \in Running |-> None]
      /\ backup = NoBackup /\ draft = [p \in Running |-> NoDraft]
    BY DEF Init, DoorInit, Running
<1>2. \A p \in Running : p \in Procs
    BY <1>1, DoorAssumption DEF DoorAssumption, Running
<1>3. "first" \notin Procs
    BY DoorAssumption DEF DoorAssumption
<1>4. MadeOnce
    BY <1>1, <1>2, <1>3 DEF MadeOnce, Restoring
<1>5. IsBackup(backup) /\ Sound(backup.db)
    BY <1>1, EmptySound DEF NoBackup, IsBackup
<1>6. DraftsFit
    BY <1>1 DEF DraftsFit, NoDraft
<1> QED BY <1>1, <1>4, <1>5, <1>6, EmptySound DEF ChainInv

\* Every database holds one chain, numbered from 1 without a gap or a fork, even where
\* any number of processes have it open, processes are killed between any two statements,
\* and the head was read before an await.
THEOREM ChainStands == Spec => []ChainUnbroken
<1>1. DoorTyped /\ (MadeOnce /\ ChainInv) /\ [Next]_vars => (MadeOnce /\ ChainInv)'
    BY MadeStep, ChainStep
<1>2. ASSUME MadeOnce /\ ChainInv PROVE ChainUnbroken
    <2> SUFFICES ASSUME NEW f \in DOMAIN content, NEW k \in DOMAIN content[f].chain
                 PROVE  /\ content[f].chain[k].seq = k
                        /\ content[f].chain[k].prev =
                              IF k = 1 THEN << >> ELSE <<content[f].chain[k - 1]>>
        BY DEF ChainUnbroken
    <2>1. Unbroken(content[f].chain)
        BY <1>2 DEF ChainInv, Sound
    <2>2. DOMAIN content[f].chain = 1..Len(content[f].chain)
        BY <2>1 DEF Unbroken
    <2> QED BY <2>1, <2>2 DEF Unbroken
<1> QED BY <1>1, <1>2, ChainInit, DoorTypeCorrect, PTL DEF Spec

------------------------------------------------------------------------------
(* What a step does to the record *)

Emitting == {"drafted", "asked", "appended"}
Drafted(p) == Last(draft[p].entry)

\* emit's append went through: the chain has the entry that was drafted.
Appends(p) ==
    /\ pc[p] = "drafted" /\ pc' = [pc EXCEPT ![p] = "appended"]
    /\ Drafted(p).seq = Len(Store(p).chain) + 1
    /\ content' = [content EXCEPT ![handle[p]] =
                      [Store(p) EXCEPT !.chain = Append(Store(p).chain, Drafted(p))]]
    /\ UNCHANGED <<plan, lock, db, dir, backup, handle, kills, raced, swapped,
                   index, signs, next, draft, calls, now, left, world, crowded, miscut>>

\* Something was drafted that fits the end of the chain.
DraftsAs(p, key, at, says, to) ==
    /\ pc[p] = "open" /\ Drafted(p)' = [seq |-> NextSeq(Store(p).chain),
                                        prev |-> HeadDigest(Store(p).chain),
                                        key |-> key, at |-> at, says |-> says, to |-> to]
    /\ draft'[p].rows = to
    /\ \A q \in Running : q # p => draft'[q] = draft[q]
    /\ UNCHANGED <<plan, lock, db, content, backup, handle, kills, raced, swapped,
                   index, signs, now, left, world, miscut>>

LEMMA DraftsFitting ==
    ASSUME ChainInv, NEW p \in Running, NEW key, NEW at, NEW says, NEW to,
           DraftBy(p, key, at, says, to)
    PROVE  /\ Drafted(p)' = [seq |-> NextSeq(Store(p).chain), prev |-> HeadDigest(Store(p).chain),
                             key |-> key, at |-> at, says |-> says, to |-> to]
           /\ draft'[p].rows = to
           /\ \A q \in Running : q # p => draft'[q] = draft[q]
<1> DEFINE e == [seq |-> NextSeq(Store(p).chain), prev |-> HeadDigest(Store(p).chain),
                 key |-> key, at |-> at, says |-> says, to |-> to]
<1>1. draft' = [draft EXCEPT ![p] = [entry |-> <<e>>, rows |-> to]]
    BY DEF DraftBy, Rows
<1>2. Last(<<e>>) = e
    BY DEF Last
<1> HIDE DEF e
<1>3. /\ draft'[p] = [entry |-> <<e>>, rows |-> to]
      /\ \A q \in Running : q # p => draft'[q] = draft[q]
    BY <1>1 DEF ChainInv, DraftsFit
<1>4. Drafted(p)' = e /\ draft'[p].rows = to
    BY <1>2, <1>3 DEF Drafted
<1> QED BY <1>3, <1>4 DEF e

LEMMA AppendsOrNot ==
    ASSUME DoorTyped, ChainInv, NEW p \in Running, AppendEntry(p)
    PROVE  \/ Appends(p)
           \/ /\ content' = content /\ draft' = [draft EXCEPT ![p] = NoDraft]
              /\ Drafted(p).seq \in Ids(Store(p).chain)
<1>1. pc[p] = "drafted"
    BY DEF AppendEntry
<1>2. handle[p] \in DOMAIN content /\ Sound(Store(p))
    BY <1>1 DEF ChainInv, DoorTyped, Inside, Store
<1>3. Fits(Drafted(p), Store(p).chain)
    BY <1>1 DEF ChainInv, DraftsFit, Store, Drafted
<1>4. CASE Drafted(p).seq \in Ids(Store(p).chain)
    BY <1>4 DEF AppendEntry, Drafted
<1>5. CASE Drafted(p).seq \notin Ids(Store(p).chain)
    <2>1. PICK c : c = Store(p).chain
        OBVIOUS
    <2>2. PICK S : c \in Seq(S)
        BY <1>2, <2>1 DEF Sound, Unbroken
    <2>3. Len(c) \in Nat /\ DOMAIN c = 1..Len(c)
        BY <2>2
    <2>4. Drafted(p).seq \in 1..Len(c) + 1 /\ \A k \in 1..Len(c) : c[k].seq = k
        BY <1>2, <1>3, <2>1 DEF Fits, Sound, Unbroken
    <2>5. Drafted(p).seq \notin 1..Len(c)
        BY <1>5, <2>1, <2>3, <2>4 DEF Ids
    <2>6. Drafted(p).seq = Len(Store(p).chain) + 1
        BY <2>1, <2>3, <2>4, <2>5
    <2> QED BY <1>5, <2>6 DEF AppendEntry, Appends, Drafted, Write, Goto
<1> QED BY <1>4, <1>5

\* A chain stays as it is but for an append.
LEMMA ChainsMove ==
    ASSUME DoorTyped, MadeOnce, ChainInv, [Next]_vars, NEW f \in DOMAIN content
    PROVE  /\ f \in DOMAIN content'
           /\ \/ content'[f].chain = content[f].chain
              \/ \E p \in Running : Appends(p) /\ handle[p] = f
<1> USE DEF disk, doorVars, recordVars
<1>0. content' = content => f \in DOMAIN content' /\ content'[f].chain = content[f].chain
    OBVIOUS
<1>1. Tick => content' = content
    BY DEF Tick
<1>2. ASSUME NEW p \in Running, Look(p) \/ Claim(p) \/ Killed(p) \/ Backup(p) \/ Restore(p)
                \/ Unlink(p) \/ Unlock(p) \/ CopyArtifacts(p)
      PROVE  content' = content
    BY <1>2 DEF Look, Claim, Killed, Kill, Backup, Restore, Unlink, Unlock, CopyArtifacts
<1>3. ASSUME NEW p \in Running, Open(p) \/ CopyDb(p)
      PROVE  f \in DOMAIN content' /\ content'[f].chain = content[f].chain
    <2>1. pc[p] \in {"claimed", "unlocked"}
        BY <1>3 DEF Open, CopyDb
    <2>2. CASE Open(p) /\ db = None
        <3>1. p \notin DOMAIN content \/ Role(p) = "restore"
            BY <2>2 DEF Open, MadeOnce
        <3>2. Role(p) # "restore"
            BY <2>2 DEF Open, MadeOnce
        <3> QED BY <2>2, <3>1, <3>2 DEF Open
    <2>3. CASE Open(p) /\ db # None
        BY <2>3 DEF Open
    <2>4. CASE CopyDb(p)
        <3>1. p \notin DOMAIN content
            BY <2>4 DEF CopyDb, MadeOnce, Restoring
        <3> QED BY <2>4, <3>1 DEF CopyDb
    <2> QED BY <1>3, <2>2, <2>3, <2>4
<1>4. ASSUME NEW p \in Running, NEW v, pc[p] \in Inside,
             \/ content' = [content EXCEPT ![handle[p]].queue = v]
             \/ content' = [content EXCEPT ![handle[p]].points = v]
      PROVE  f \in DOMAIN content' /\ content'[f].chain = content[f].chain
    <2>1. Sound(content[f])
        BY DEF ChainInv
    <2> QED BY <1>4, <2>1 DEF Sound, IsStore
<1>5. ASSUME NEW p \in Running, MarkPoint(p) \/ Enqueue(p) \/ Deliver(p)
      PROVE  f \in DOMAIN content' /\ content'[f].chain = content[f].chain
    <2>1. CASE MarkPoint(p)
        <3>1. content' = [content EXCEPT ![handle[p]].points = content[handle[p]].points + 1]
            BY <2>1 DEF MarkPoint
        <3> QED BY <1>4, <2>1, <3>1 DEF MarkPoint, Inside
    <2>2. CASE Enqueue(p) \/ Deliver(p)
        <3>1. PICK v : content' = [content EXCEPT ![handle[p]].queue = v]
            BY <2>2 DEF Enqueue, Deliver, Write, Store
        <3> QED BY <1>4, <2>2, <3>1 DEF Enqueue, Deliver, Inside
    <2> QED BY <1>5, <2>1, <2>2
<1>6. ASSUME NEW p \in Running, Publish(p) \/ Emitted(p) \/ Actuate(p) \/ Act(p) \/ Return(p)
                \/ Boot(p) \/ Close(p) \/ RotateKey(p) \/ AskRoot(p) \/ RootSigns(p)
                \/ RootRefuses(p) \/ RevokeKey(p)
      PROVE  content' = content
    BY <1>6 DEF Publish, Emitted, Actuate, Act, Return, Boot, Close, RotateKey, AskRoot,
                RootSigns, RootRefuses, RevokeKey
<1>7. ASSUME NEW p \in Running, AppendEntry(p)
      PROVE  f \in DOMAIN content' /\ (content'[f].chain = content[f].chain
                                       \/ (Appends(p) /\ handle[p] = f))
    <2>1. CASE content' = content
        BY <1>0, <2>1
    <2>2. CASE Appends(p)
        BY <2>2 DEF Appends
    <2> QED BY <1>7, <2>1, <2>2, AppendsOrNot
<1>8. CASE UNCHANGED vars
    BY <1>0, <1>8 DEF vars
<1> QED BY <1>0, <1>1, <1>2, <1>3, <1>5, <1>6, <1>7, <1>8 DEF Next

\* A new store is empty, or what the backup holds.
LEMMA FilesMove ==
    ASSUME DoorTyped, MadeOnce, ChainInv, [Next]_vars, NEW f \in DOMAIN content',
           f \notin DOMAIN content
    PROVE  \/ content'[f] = Empty /\ \E p \in Running : Open(p) /\ db = None /\ f = p
           \/ content'[f] = backup.db /\ \E p \in Running : CopyDb(p) /\ f = p
<1> USE DEF disk, doorVars, recordVars
<1>1. ASSUME NEW p \in Running,
             Look(p) \/ Claim(p) \/ Killed(p) \/ Backup(p) \/ Restore(p)
                \/ Unlink(p) \/ Unlock(p) \/ CopyArtifacts(p) \/ MarkPoint(p)
      PROVE  DOMAIN content' = DOMAIN content
    BY <1>1 DEF Look, Claim, Killed, Kill, Backup, Restore, Unlink, Unlock, CopyArtifacts, MarkPoint
<1>2. ASSUME NEW p \in Running,
             Enqueue(p) \/ Deliver(p) \/ AppendEntry(p)
                \/ Publish(p) \/ Emitted(p) \/ Actuate(p) \/ Act(p) \/ Return(p)
                \/ Boot(p) \/ Close(p) \/ RotateKey(p) \/ AskRoot(p) \/ RootSigns(p)
                \/ RootRefuses(p) \/ RevokeKey(p)
      PROVE  DOMAIN content' = DOMAIN content
    BY <1>2 DEF Enqueue, Deliver, AppendEntry, Write, Publish, Emitted, Actuate, Act, Return, Boot,
                Close, RotateKey, AskRoot, RootSigns, RootRefuses, RevokeKey
<1>3. Tick \/ UNCHANGED vars => DOMAIN content' = DOMAIN content
    BY DEF Tick, vars
<1>4. PICK p \in Running : Open(p) \/ CopyDb(p)
    BY <1>1, <1>2, <1>3 DEF Next
<1>5. CASE Open(p)
    <2>1. db = None /\ content' = [g \in DOMAIN content \cup {p} |-> IF g = p THEN Empty ELSE content[g]]
        BY <1>5 DEF Open
    <2>2. f = p
        BY <2>1
    <2> QED BY <1>5, <2>1, <2>2
<1>6. CASE CopyDb(p)
    BY <1>6 DEF CopyDb
<1> QED BY <1>4, <1>5, <1>6

------------------------------------------------------------------------------
(* Jobs *)

NextTyped ==
    next \in [Running -> Nat \ {0}] /\ signs = [p \in Running |-> signs[p]]

\* A process does what its role is asked to do.
LEMMA JobFits ==
    ASSUME plan \in Plans, NextTyped, NEW p \in Running, Ready(p)
    PROVE  /\ Job(p).do \in JobsOf(Role(p)) /\ Job(p).at \in Nat
           /\ Job(p).do = "act" => Job(p).of \in Acts
           /\ Job(p).do = "revoke" => Job(p).at # 0
<1>1. PICK jobs : jobs = plan[p].jobs
    OBVIOUS
<1>2. /\ jobs \in Seq(Range(jobs))
      /\ \A job \in Range(jobs) :
            /\ job.do \in JobsOf(plan[p].role) /\ job.at \in Nat
            /\ job.do = "act" => job.of \in Acts
            /\ job.do = "revoke" => job.at # 0
    BY <1>1, RecordAssumption DEF RecordAssumption, Running
<1>3. next[p] \in 1..Len(jobs)
    BY <1>1, <1>2 DEF Ready, NextTyped
<1>4. jobs[next[p]] \in Range(jobs)
    BY <1>2, <1>3 DEF Range
<1> QED BY <1>1, <1>2, <1>4 DEF Job, Role

LEMMA NextTypedStep ==
    ASSUME DoorTyped, NextTyped, [Next]_vars
    PROVE  NextTyped'
<1> USE DEF disk, doorVars, recordVars
<1>1. plan' = plan /\ Running' = Running
    <2>1. plan' = plan
        BY NextSteps DEF Steps, Stays, vars
    <2> QED BY <2>1 DEF Running
<1>2. next' = next /\ signs' = signs => NextTyped'
    BY <1>1 DEF NextTyped
<1>3. ASSUME NEW p \in Running, Done(p), signs' = signs PROVE NextTyped'
    BY <1>1, <1>3 DEF Done, NextTyped
<1>4. Tick \/ UNCHANGED vars => next' = next /\ signs' = signs
    BY DEF Tick, vars
<1>5. ASSUME NEW p \in Running,
             Killed(p) \/ AppendEntry(p) \/ Enqueue(p) \/ Emitted(p) \/ Deliver(p) \/ Act(p)
                \/ Return(p) \/ Close(p) \/ AskRoot(p) \/ RootRefuses(p)
      PROVE  next' = next /\ signs' = signs
    BY <1>5 DEF Killed, AppendEntry, Enqueue, Emitted, Deliver, Act, Return, Close, AskRoot,
                RootRefuses
<1>6. ASSUME NEW p \in Running, Publish(p) \/ Actuate(p) \/ RotateKey(p) \/ RootSigns(p)
      PROVE  Done(p) /\ signs' = signs
    BY <1>6 DEF Publish, Actuate, RotateKey, RootSigns
<1>7. ASSUME NEW p \in Running, RevokeKey(p)
      PROVE  signs' = signs /\ (Done(p) \/ next' = next)
    BY <1>7 DEF RevokeKey
<1>8. ASSUME NEW p \in Running, Boot(p) PROVE NextTyped'
    <2>1. next' = next /\ \E o : signs' = [signs EXCEPT ![p] = o] \/ signs' = signs
        BY <1>8 DEF Boot
    <2> QED BY <1>1, <2>1 DEF NextTyped
<1> QED BY <1>2, <1>3, <1>4, <1>5, <1>6, <1>7, <1>8 DEF Next

------------------------------------------------------------------------------
(* What is drafted *)

\* What was being emitted goes on being emitted.
EmitsOn(p) ==
    /\ pc[p] \in Emitting /\ Drafted(p)' = Drafted(p)
    /\ handle'[p] = handle[p] /\ signs'[p] = signs[p]
    /\ \/ pc'[p] = pc[p]
       \/ RootSigns(p) /\ pc'[p] = "drafted"
       \/ Appends(p)

\* `serve` drafts: an activity of its own, a Result for a call that came back.
Serves(p, says) ==
    \/ /\ Role(p) = "serve" /\ signs[p] # 0 /\ UNCHANGED <<calls, crowded>>
       /\ \/ says.kind = "note" /\ says.of \in dir' \cup {None}
          \/ says.kind = "proof" /\ says.at \in 0..now
          \/ says.kind = "error"
          \/ says.kind = "intent" /\ says.of \in Acts /\ IntentsFor(Store(p).chain, says.of) = {}
    \/ \E c \in calls[p] :
          /\ c.got # "none" /\ calls' = [calls EXCEPT ![p] = @ \ {c}]
          /\ says = Says(IF c.got = "good" THEN "result" ELSE "error",
                         c.intent.says.of, c.intent.seq, 0)
          /\ UNCHANGED crowded

LEMMA DraftsMove ==
    ASSUME DoorTyped, NextTyped, ChainInv, [Next]_vars, NEW q \in Running, pc'[q] \in Emitting
    PROVE  \/ EmitsOn(q)
           \/ /\ pc'[q] = "drafted"
              /\ \E says, to : DraftsAs(q, signs[q], now, says, to) /\ Serves(q, says)
           \/ /\ pc'[q] = "asked" /\ Role(q) = "keys" /\ Job(q).at \in Nat /\ UNCHANGED calls
              /\ DraftsAs(q, 0, Instant(q), Says("delegation", None, Len(index) + 1, 0), {})
<1> USE DEF disk, doorVars, recordVars, Emitting, Goto
<1>1. plan \in Plans
    BY DEF DoorTyped
<1>2. ASSUME pc'[q] = pc[q], draft'[q].entry = draft[q].entry, handle'[q] = handle[q],
             signs'[q] = signs[q]
      PROVE  EmitsOn(q)
    BY <1>2 DEF EmitsOn, Drafted
<1>3. Tick \/ UNCHANGED vars => EmitsOn(q)
    BY <1>2 DEF Tick, vars
<1>4. ASSUME NEW p \in Running, p # q,
             \A r \in Running : r # p => /\ pc'[r] = pc[r] /\ draft'[r].entry = draft[r].entry
                                         /\ handle'[r] = handle[r] /\ signs'[r] = signs[r]
      PROVE  EmitsOn(q)
    BY <1>2, <1>4
<1>5. ASSUME NEW p \in Running, UNCHANGED recordVars,
             Look(p) \/ Claim(p) \/ Restore(p) \/ Unlink(p) \/ Unlock(p) \/ CopyDb(p)
                \/ CopyArtifacts(p)
      PROVE  EmitsOn(q)
    <2>1. UNCHANGED <<handle, draft, signs>> /\ \E x : pc' = [pc EXCEPT ![p] = x] /\ x \notin Emitting
        BY <1>5 DEF Look, Claim, Restore, Unlink, Unlock, CopyDb, CopyArtifacts
    <2> QED BY <1>2, <1>4, <2>1 DEF DoorTyped
<1>6. ASSUME NEW p \in Running, UNCHANGED recordVars, Open(p) \/ MarkPoint(p)
      PROVE  EmitsOn(q)
    <2>1. \E x \in {"open", "gone"} : \E f : pc' = [pc EXCEPT ![p] = x] /\ handle' = [handle EXCEPT ![p] = f]
        BY <1>6 DEF Open, MarkPoint, Shut
    <2> QED BY <1>2, <1>4, <1>6, <2>1 DEF DoorTyped
<1>7. ASSUME NEW p \in Running, UNCHANGED recordVars, Backup(p) PROVE EmitsOn(q)
    <2>1. PICK x \in {"one", "two", "gone"} : pc' = [pc EXCEPT ![p] = x]
        <3>1. CASE Starts(p) /\ (backup # NoBackup \/ db = None) /\ Goto(p, "gone") /\ UNCHANGED backup
            BY <3>1
        <3>2. CASE \E k \in DOMAIN BackupOrder : pc[p] = At[k] /\ Goto(p, At[k + 1])
            <4>0. DOMAIN BackupOrder = 1..3
                BY DEF BackupOrder
            <4>1. PICK k \in 1..3 : Goto(p, At[k + 1])
                BY <3>2, <4>0
            <4>2. At[k + 1] \in {"one", "two", "gone"}
                BY DEF At
            <4> QED BY <4>1, <4>2
        <3> QED BY <1>7, <3>1, <3>2 DEF Backup
    <2> QED BY <1>2, <1>4, <1>7, <2>1 DEF Backup, DoorTyped
<1>8. ASSUME NEW p \in Running, Killed(p) \/ RootRefuses(p) PROVE EmitsOn(q)
    <2>1. /\ pc' = [pc EXCEPT ![p] = "gone"] /\ handle' = [handle EXCEPT ![p] = None]
          /\ signs' = signs /\ draft' = [draft EXCEPT ![p] = NoDraft]
        BY <1>8 DEF Killed, Kill, RootRefuses, Shut
    <2>2. p # q
        BY <2>1 DEF DoorTyped
    <2> QED BY <1>4, <2>1, <2>2 DEF DoorTyped, ChainInv, DraftsFit
<1>9. ASSUME NEW p \in Running, Close(p) PROVE EmitsOn(q)
    <2>1. /\ pc' = [pc EXCEPT ![p] = "gone"] /\ handle' = [handle EXCEPT ![p] = None]
          /\ signs' = signs /\ draft' = draft
        BY <1>9 DEF Close, Shut
    <2> QED BY <1>4, <2>1 DEF DoorTyped
<1>10. ASSUME NEW p \in Running, Deliver(p) \/ Act(p) \/ RotateKey(p) PROVE EmitsOn(q)
    BY <1>2, <1>10 DEF Deliver, Act, RotateKey
<1>11. ASSUME NEW p \in Running, Boot(p) PROVE EmitsOn(q)
    <2>1. p # q
        BY <1>11 DEF Boot, DoorTyped
    <2>2. draft' = draft /\ \A r \in Running : r # p => /\ pc'[r] = pc[r] /\ handle'[r] = handle[r]
                                                        /\ signs'[r] = signs[r]
        BY <1>11 DEF Boot, DoorTyped, NextTyped
    <2> QED BY <1>4, <2>1, <2>2
<1>12. ASSUME NEW p \in Running, RevokeKey(p) PROVE EmitsOn(q)
    <2>1. p # q
        BY <1>12 DEF RevokeKey, Ready, Shut, DoorTyped
    <2>2. /\ UNCHANGED <<draft, signs>>
          /\ \A r \in Running : r # p => pc'[r] = pc[r] /\ handle'[r] = handle[r]
        BY <1>12 DEF RevokeKey, Shut, DoorTyped
    <2> QED BY <1>4, <2>1, <2>2
<1>13. ASSUME NEW p \in Running, Emitted(p) PROVE EmitsOn(q)
    <2>1. /\ pc' = [pc EXCEPT ![p] = "open"] /\ UNCHANGED <<handle, signs>>
          /\ draft' = [draft EXCEPT ![p] = NoDraft]
        BY <1>13 DEF Emitted
    <2>2. p # q
        BY <2>1 DEF DoorTyped
    <2> QED BY <1>4, <2>1, <2>2 DEF DoorTyped, ChainInv, DraftsFit
<1>14. ASSUME NEW p \in Running, Enqueue(p) PROVE EmitsOn(q)
    <2>1. PICK t : draft' = [draft EXCEPT ![p].rows = @ \ {t}]
        BY <1>14 DEF Enqueue
    <2>2. draft'[q].entry = draft[q].entry
        BY <2>1 DEF ChainInv, DraftsFit
    <2> QED BY <1>2, <1>14, <2>2 DEF Enqueue
<1>15. ASSUME NEW p \in Running, RootSigns(p) PROVE EmitsOn(q)
    <2>1. /\ pc' = [pc EXCEPT ![p] = "drafted"] /\ pc[p] = "asked" /\ UNCHANGED <<handle, signs, draft>>
        BY <1>15 DEF RootSigns
    <2> QED BY <1>4, <1>15, <2>1 DEF EmitsOn, Drafted, DoorTyped
<1>16. ASSUME NEW p \in Running, AppendEntry(p) PROVE EmitsOn(q)
    <2>1. CASE Appends(p)
        <3>1. /\ pc' = [pc EXCEPT ![p] = "appended"] /\ pc[p] = "drafted"
              /\ UNCHANGED <<handle, signs, draft>>
            BY <2>1 DEF Appends
        <3> QED BY <1>4, <2>1, <3>1 DEF EmitsOn, Drafted, DoorTyped
    <2>2. CASE draft' = [draft EXCEPT ![p] = NoDraft] /\ Drafted(p).seq \in Ids(Store(p).chain)
        <3>1. PICK x \in {"gone", "open"} : pc' = [pc EXCEPT ![p] = x]
            BY <1>16, <2>2 DEF AppendEntry, Shut, Drafted
        <3>2. signs' = signs /\ \A r \in Running : r # p => handle'[r] = handle[r]
            BY <1>16 DEF AppendEntry, Shut, DoorTyped
        <3>3. p # q
            BY <3>1 DEF DoorTyped
        <3> QED BY <1>4, <2>2, <3>1, <3>2, <3>3 DEF DoorTyped, ChainInv, DraftsFit
    <2> QED BY <1>16, <2>1, <2>2, AppendsOrNot
<1>17. ASSUME NEW p \in Running, NEW key, NEW at, NEW says, NEW to, DraftBy(p, key, at, says, to),
              NEW x \in {"drafted", "asked"}, pc' = [pc EXCEPT ![p] = x], pc[p] = "open",
              UNCHANGED <<plan, lock, db, content, backup, handle, kills, raced, swapped,
                   index, signs, now, left, world, miscut>>
       PROVE  EmitsOn(q) \/ (p = q /\ pc'[q] = x /\ DraftsAs(q, key, at, says, to))
    <2>1. DraftsAs(p, key, at, says, to)
        BY <1>17, DraftsFitting DEF DraftsAs
    <2>2. CASE p = q
        BY <1>17, <2>1, <2>2 DEF DoorTyped
    <2>3. CASE p # q
        BY <1>4, <1>17, <2>1, <2>3 DEF DraftsAs, DoorTyped
    <2> QED BY <2>2, <2>3
<1>18. ASSUME NEW p \in Running, Publish(p)
       PROVE  EmitsOn(q) \/ \E says, to : /\ pc'[q] = "drafted" /\ DraftsAs(q, signs[q], now, says, to)
                                          /\ Serves(q, says)
    <2>1. Ready(p) /\ signs[p] # 0 /\ Job(p).do \in {"note", "proof"} /\ UNCHANGED <<calls, crowded>>
        BY <1>18 DEF Publish
    <2>2. Role(p) = "serve" /\ Job(p).at \in Nat
        BY <1>1, <2>1, JobFits DEF JobsOf
    <2>3. PICK says, to : /\ Draft(p, says, to)
                          /\ \/ says.kind = "note" /\ says.of \in dir' \cup {None}
                             \/ says.kind = "proof" /\ says.at \in 0..now
        <3>1. CASE Job(p).do = "note"
            BY <1>18, <3>1 DEF Publish, Says
        <3>2. CASE Job(p).do = "proof"
            <4>1. Job(p).at \in 0..now
                BY <1>18, <2>2, <3>2 DEF Publish
            <4> QED BY <1>18, <3>2, <4>1 DEF Publish, Says
        <3> QED BY <2>1, <3>1, <3>2
    <2>4. Serves(p, says)
        BY <2>1, <2>2, <2>3 DEF Serves
    <2>5. EmitsOn(q) \/ (p = q /\ pc'[q] = "drafted" /\ DraftsAs(q, signs[p], now, says, to))
        BY <1>17, <1>18, <2>1, <2>3 DEF Publish, Draft, Ready
    <2> QED BY <2>4, <2>5
<1>19. ASSUME NEW p \in Running, Actuate(p)
       PROVE  EmitsOn(q) \/ \E says, to : /\ pc'[q] = "drafted" /\ DraftsAs(q, signs[q], now, says, to)
                                          /\ Serves(q, says)
    <2>1. Ready(p) /\ signs[p] # 0 /\ Job(p).do = "act"
        BY <1>19 DEF Actuate
    <2>2. Role(p) = "serve" /\ Job(p).of \in Acts
        BY <1>1, <2>1, JobFits DEF JobsOf
    <2>3. CASE UNCHANGED <<draft, pc>>
        BY <1>2, <1>19, <2>3 DEF Actuate
    <2>4. CASE ~UNCHANGED <<draft, pc>>
        <3>1. PICK says, to :
                  /\ Draft(p, says, to) /\ UNCHANGED <<calls, crowded>>
                  /\ \/ says.kind = "error"
                     \/ says.kind = "intent" /\ says.of \in Acts
                           /\ IntentsFor(Store(p).chain, says.of) = {}
            BY <1>19, <2>2, <2>4 DEF Actuate, Says
        <3>2. Serves(p, says)
            BY <2>1, <2>2, <3>1 DEF Serves
        <3>3. EmitsOn(q) \/ (p = q /\ pc'[q] = "drafted" /\ DraftsAs(q, signs[p], now, says, to))
            BY <1>17, <1>19, <2>1, <3>1 DEF Actuate, Draft, Ready
        <3> QED BY <3>2, <3>3
    <2> QED BY <2>3, <2>4
<1>20. ASSUME NEW p \in Running, Return(p)
       PROVE  EmitsOn(q) \/ \E says, to : /\ pc'[q] = "drafted" /\ DraftsAs(q, signs[q], now, says, to)
                                          /\ Serves(q, says)
    <2>1. PICK c \in calls[p] :
              /\ c.got # "none" /\ calls' = [calls EXCEPT ![p] = @ \ {c}]
              /\ Draft(p, Says(IF c.got = "good" THEN "result" ELSE "error",
                               c.intent.says.of, c.intent.seq, 0), {})
        BY <1>20 DEF Return
    <2>2. PICK says : says = Says(IF c.got = "good" THEN "result" ELSE "error",
                                  c.intent.says.of, c.intent.seq, 0)
        OBVIOUS
    <2>3. Serves(p, says)
        BY <1>20, <2>1, <2>2 DEF Serves, Return
    <2>4. EmitsOn(q) \/ (p = q /\ pc'[q] = "drafted" /\ DraftsAs(q, signs[p], now, says, {}))
        BY <1>17, <1>20, <2>1, <2>2 DEF Return, Draft
    <2> QED BY <2>3, <2>4
<1>21. ASSUME NEW p \in Running, AskRoot(p)
       PROVE  \/ EmitsOn(q)
              \/ /\ pc'[q] = "asked" /\ Role(q) = "keys" /\ Job(q).at \in Nat /\ UNCHANGED calls
                 /\ DraftsAs(q, 0, Instant(q), Says("delegation", None, Len(index) + 1, 0), {})
    <2>1. Ready(p) /\ Job(p).do = "remote"
        BY <1>21 DEF AskRoot
    <2>2. Role(p) = "keys" /\ Job(p).at \in Nat
        <3>1. Job(p).do \in JobsOf(Role(p)) /\ Job(p).at \in Nat
            BY <1>1, <2>1, JobFits
        <3> QED BY <2>1, <3>1 DEF JobsOf
    <2>3. EmitsOn(q) \/ (p = q /\ pc'[q] = "asked"
              /\ DraftsAs(q, 0, Instant(p), Says("delegation", None, Len(index) + 1, 0), {}))
        BY <1>17, <1>21, <2>1 DEF AskRoot, Ready
    <2> QED BY <1>21, <2>2, <2>3 DEF AskRoot
<1> QED BY <1>3, <1>5, <1>6, <1>7, <1>8, <1>9, <1>10, <1>11, <1>12, <1>13, <1>14, <1>15, <1>16,
           <1>18, <1>19, <1>20, <1>21 DEF Next

------------------------------------------------------------------------------
(* What a step does to the door *)

LEMMA DoorMoves ==
    ASSUME [Next]_vars
    PROVE  /\ plan' = plan /\ raced \subseteq raced' /\ swapped \subseteq swapped'
           /\ kills' = kills \/ \E p \in Running : Killed(p)
           /\ swapped' = swapped \/ \E p \in Running : Unlink(p) /\ swapped' = swapped \cup {p}
           /\ dir \subseteq dir' \/ \E p \in Running : CopyArtifacts(p)
           /\ backup' = backup \/ \E p \in Running : Backup(p)
           /\ \/ db' = db
              \/ \E p \in Running : Unlink(p) \/ CopyDb(p) \/ (Open(p) /\ db = None /\ db' = p)
<1> USE DEF disk, doorVars, recordVars
<1>1. ASSUME UNCHANGED <<plan, db, dir, backup, kills, raced, swapped>>
      PROVE  /\ plan' = plan /\ raced' = raced /\ swapped' = swapped /\ kills' = kills
             /\ dir' = dir /\ backup' = backup /\ db' = db
    BY <1>1
<1>2. Tick \/ UNCHANGED vars => UNCHANGED <<plan, db, dir, backup, kills, raced, swapped>>
    BY DEF Tick, vars
<1>3. ASSUME NEW p \in Running,
             Look(p) \/ Restore(p) \/ Unlock(p) \/ MarkPoint(p) \/ AppendEntry(p) \/ Enqueue(p)
                \/ Emitted(p) \/ Deliver(p) \/ Actuate(p) \/ Act(p) \/ Return(p) \/ Boot(p)
                \/ Close(p) \/ RotateKey(p) \/ AskRoot(p) \/ RootSigns(p) \/ RootRefuses(p)
                \/ RevokeKey(p)
      PROVE  UNCHANGED <<plan, db, dir, backup, kills, raced, swapped>>
    BY <1>3 DEF Look, Restore, Unlock, MarkPoint, AppendEntry, Enqueue, Emitted, Deliver, Actuate,
                Act, Return, Boot, Close, RotateKey, AskRoot, RootSigns, RootRefuses, RevokeKey
<1>4. ASSUME NEW p \in Running, Publish(p)
      PROVE  UNCHANGED <<plan, db, backup, kills, raced, swapped>> /\ dir \subseteq dir'
    BY <1>4 DEF Publish
<1>5. ASSUME NEW p \in Running, Claim(p)
      PROVE  UNCHANGED <<plan, db, dir, backup, kills, swapped>> /\ raced \subseteq raced'
    BY <1>5 DEF Claim
<1>6. ASSUME NEW p \in Running, Open(p)
      PROVE  /\ UNCHANGED <<plan, dir, backup, kills, swapped>> /\ raced \subseteq raced'
             /\ db' = db \/ (db = None /\ db' = p)
    BY <1>6 DEF Open
<1>7. ASSUME NEW p \in Running, Killed(p)
      PROVE  UNCHANGED <<plan, db, dir, backup, raced, swapped>>
    BY <1>7 DEF Killed, Kill
<1>8. ASSUME NEW p \in Running, Backup(p)
      PROVE  UNCHANGED <<plan, db, dir, kills, raced, swapped>>
    BY <1>8 DEF Backup
<1>9. ASSUME NEW p \in Running, Unlink(p)
      PROVE  UNCHANGED <<plan, dir, backup, kills, raced>> /\ swapped' = swapped \cup {p}
    BY <1>9 DEF Unlink
<1>10. ASSUME NEW p \in Running, CopyDb(p)
       PROVE  UNCHANGED <<plan, dir, backup, kills, raced, swapped>>
    BY <1>10 DEF CopyDb
<1>11. ASSUME NEW p \in Running, CopyArtifacts(p)
       PROVE  UNCHANGED <<plan, db, backup, kills, raced, swapped>>
    BY <1>11 DEF CopyArtifacts
<1>12. CASE UNCHANGED <<plan, db, dir, backup, kills, raced, swapped>>
    BY <1>1, <1>12
<1>13. CASE \E p \in Running : Publish(p)
    BY <1>4, <1>13
<1>14. CASE \E p \in Running : Claim(p) \/ Open(p)
    BY <1>5, <1>6, <1>14
<1>15. CASE \E p \in Running : Killed(p) \/ Backup(p) \/ Unlink(p)
    BY <1>7, <1>8, <1>9, <1>15
<1>16. CASE \E p \in Running : CopyDb(p) \/ CopyArtifacts(p)
    BY <1>10, <1>11, <1>16
<1> QED BY <1>2, <1>3, <1>12, <1>13, <1>14, <1>15, <1>16 DEF Next

LEMMA BackupMoves ==
    ASSUME DoorTyped, NEW p \in Running, Backup(p)
    PROVE  /\ \A q \in Running \ {p} : pc'[q] = pc[q]
           /\ dir' = dir
           /\ \/ pc'[p] = "gone" /\ backup' = backup
              \/ /\ pc[p] = "new" /\ pc'[p] = "one" /\ backup = NoBackup /\ db # None
                 /\ backup' = [backup EXCEPT !.db = content[db], !.taken = TRUE]
              \/ /\ pc[p] = "one" /\ pc'[p] = "two"
                 /\ backup' = [backup EXCEPT !.arts = dir]
              \/ /\ pc[p] = "two" /\ pc'[p] = "gone"
                 /\ backup' = [backup EXCEPT !.manifest = TRUE]
<1> USE DEF Goto
<1>1. dir' = dir
    BY DEF Backup
<1>2. CASE Starts(p) /\ (backup # NoBackup \/ db = None) /\ Goto(p, "gone") /\ UNCHANGED backup
    BY <1>1, <1>2 DEF DoorTyped
<1>3. CASE \E k \in DOMAIN BackupOrder :
               /\ pc[p] = At[k]
               /\ k = 1 => Starts(p) /\ backup = NoBackup /\ db # None
               /\ backup' = Copied(k) /\ Goto(p, At[k + 1])
    <2>0. /\ DOMAIN BackupOrder = 1..3 /\ BackupOrder[1] = "db"
          /\ BackupOrder[2] = "artifacts" /\ BackupOrder[3] = "manifest"
        BY DEF BackupOrder
    <2>1. /\ At[1] = "new" /\ At[2] = "one" /\ At[3] = "two" /\ At[4] = "gone"
        BY DEF At
    <2>2. PICK k \in 1..3 :
              /\ pc[p] = At[k]
              /\ k = 1 => Starts(p) /\ backup = NoBackup /\ db # None
              /\ backup' = Copied(k) /\ Goto(p, At[k + 1])
        BY <1>3, <2>0
    <2>3. CASE k = 1
        <3>1. backup' = [backup EXCEPT !.db = content[db], !.taken = TRUE]
            BY <2>0, <2>2, <2>3 DEF Copied
        <3> QED BY <1>1, <2>1, <2>2, <2>3, <3>1 DEF DoorTyped
    <2>4. CASE k = 2
        <3>1. backup' = [backup EXCEPT !.arts = dir]
            BY <2>0, <2>2, <2>4 DEF Copied
        <3> QED BY <1>1, <2>1, <2>2, <2>4, <3>1 DEF DoorTyped
    <2>5. CASE k = 3
        <3>1. backup' = [backup EXCEPT !.manifest = TRUE]
            BY <2>0, <2>2, <2>5 DEF Copied
        <3> QED BY <1>1, <2>1, <2>2, <2>5, <3>1 DEF DoorTyped
    <2> QED BY <2>3, <2>4, <2>5
<1> QED BY <1>2, <1>3 DEF Backup

\* A process is moved by its own steps only.
LEMMA OwnMoves ==
    ASSUME DoorTyped, [Next]_vars, NEW q \in Running, pc'[q] # pc[q]
    PROVE  \/ Look(q) \/ Claim(q) \/ (Open(q) /\ UNCHANGED recordVars) \/ Killed(q) \/ Backup(q)
              \/ Restore(q) \/ Unlink(q) \/ Unlock(q) \/ CopyDb(q) \/ CopyArtifacts(q)
              \/ MarkPoint(q)
           \/ Publish(q) \/ AppendEntry(q) \/ Emitted(q) \/ Actuate(q) \/ Return(q) \/ Boot(q)
              \/ Close(q) \/ AskRoot(q) \/ RootSigns(q) \/ RootRefuses(q) \/ RevokeKey(q)
<1> USE DEF disk, doorVars, recordVars, Goto
<1>0. ASSUME NEW p, pc' = pc \/ \E x : pc' = [pc EXCEPT ![p] = x] PROVE p = q
    BY <1>0 DEF DoorTyped
<1>1. ~(Tick \/ UNCHANGED vars)
    BY DEF Tick, vars
<1>2. ASSUME NEW p \in Running, Look(p) \/ Claim(p) \/ Open(p) \/ Restore(p) \/ Unlink(p)
                \/ Unlock(p) \/ CopyDb(p) \/ CopyArtifacts(p)
      PROVE  p = q
    BY <1>0, <1>2 DEF Look, Claim, Open, Restore, Unlink, Unlock, CopyDb, CopyArtifacts
<1>3. ASSUME NEW p \in Running, Backup(p) PROVE p = q
    BY <1>3, BackupMoves
<1>4. ASSUME NEW p \in Running, Killed(p) \/ MarkPoint(p) \/ Close(p) \/ RootRefuses(p)
                \/ Boot(p) \/ RevokeKey(p)
      PROVE  p = q
    BY <1>0, <1>4 DEF Killed, Kill, MarkPoint, Close, RootRefuses, Boot, RevokeKey, Shut
<1>5. ASSUME NEW p \in Running, Publish(p) \/ Emitted(p) \/ Actuate(p) \/ Return(p)
                \/ AskRoot(p) \/ RootSigns(p) \/ AppendEntry(p)
      PROVE  p = q
    BY <1>0, <1>5 DEF Publish, Draft, Emitted, Actuate, Return, AskRoot, RootSigns, AppendEntry, Shut
<1>6. ASSUME NEW p \in Running, Enqueue(p) \/ Deliver(p) \/ Act(p) \/ RotateKey(p)
      PROVE  FALSE
    BY <1>6 DEF Enqueue, Deliver, Act, RotateKey
<1>7. CASE \E p \in Running : Look(p) \/ Claim(p) \/ (Open(p) /\ UNCHANGED recordVars)
    BY <1>2, <1>7
<1>8. CASE \E p \in Running : Restore(p) \/ Unlink(p) \/ Unlock(p) \/ CopyDb(p) \/ CopyArtifacts(p)
    BY <1>2, <1>8
<1>9. CASE \E p \in Running : Backup(p)
    BY <1>3, <1>9
<1>10. CASE \E p \in Running : Killed(p) \/ MarkPoint(p) \/ Close(p) \/ RootRefuses(p)
                \/ Boot(p) \/ RevokeKey(p)
    BY <1>4, <1>10
<1>11. CASE \E p \in Running : Publish(p) \/ Emitted(p) \/ Actuate(p) \/ Return(p)
                \/ AskRoot(p) \/ RootSigns(p) \/ AppendEntry(p)
    BY <1>5, <1>11
<1> QED BY <1>1, <1>6, <1>7, <1>8, <1>9, <1>10, <1>11 DEF Next

\* Where a process comes to, and by what.
LEMMA PlacesMove ==
    ASSUME DoorTyped, [Next]_vars, NEW q \in Running, pc'[q] # pc[q]
    PROVE  /\ pc'[q] \in Inside => \/ pc[q] \in Inside
                                   \/ Open(q) /\ UNCHANGED recordVars
           /\ pc'[q] = "claimed" => Claim(q)
           /\ pc'[q] = "looked" => Look(q)
           /\ pc'[q] = "verified" => Restore(q) /\ pc[q] = "new"
           /\ pc'[q] \in {"unlinked", "unlocked", "copied", "cleared", "replaced"} =>
                 Unlink(q) \/ Unlock(q) \/ CopyDb(q) \/ CopyArtifacts(q)
           /\ pc'[q] \in {"one", "two"} => Backup(q)
           /\ pc'[q] # "new"
<1> USE DEF Goto, Inside
<1>1. CASE Look(q)
    BY <1>1 DEF Look, DoorTyped
<1>2. CASE Claim(q)
    BY <1>2 DEF Claim, DoorTyped
<1>3. CASE Open(q) /\ UNCHANGED recordVars
    BY <1>3 DEF Open, DoorTyped
<1>4. CASE Restore(q)
    BY <1>4 DEF Restore, Starts, DoorTyped
<1>5. CASE Unlink(q) \/ Unlock(q)
    BY <1>5 DEF Unlink, Unlock, DoorTyped
<1>6. CASE CopyDb(q) \/ CopyArtifacts(q)
    BY <1>6 DEF CopyDb, CopyArtifacts, DoorTyped
<1>7. CASE Backup(q)
    BY <1>7, BackupMoves
<1>8. CASE Killed(q) \/ MarkPoint(q) \/ Close(q) \/ RootRefuses(q) \/ Boot(q) \/ RevokeKey(q)
    BY <1>8 DEF Killed, Kill, MarkPoint, Close, RootRefuses, Boot, RevokeKey, Shut, DoorTyped
<1>9. CASE Publish(q) \/ Emitted(q) \/ Actuate(q) \/ Return(q) \/ AskRoot(q) \/ RootSigns(q)
    BY <1>9 DEF Publish, Draft, Ready, Emitted, Actuate, Return, AskRoot, RootSigns, DoorTyped
<1>10. CASE AppendEntry(q)
    BY <1>10 DEF AppendEntry, Shut, DoorTyped
<1> QED BY <1>1, <1>2, <1>3, <1>4, <1>5, <1>6, <1>7, <1>8, <1>9, <1>10, OwnMoves

------------------------------------------------------------------------------
(* A backup is whole *)

\* While no restore has begun there is one database, and what it names, or is about to
\* name, is in the directory; so is what the copy of it names.
WholeInv ==
    /\ \A p \in Running : pc[p] \in Restoring \ {"verified"} => swapped # {}
    /\ swapped = {} =>
          /\ db = "first" /\ DOMAIN content = {"first"}
          /\ Named(content["first"]) \subseteq dir
          /\ \A p \in Running : pc[p] \in Emitting /\ Drafted(p).says.kind = "note" =>
                Drafted(p).says.of \in dir \cup {None}
          /\ backup.taken => Named(backup.db) \subseteq dir
          /\ \A p \in Running : pc[p] \in {"one", "two"} => backup.taken
          /\ \A p \in Running : pc[p] = "two" => Named(backup.db) \subseteq backup.arts
          /\ backup.manifest => Named(backup.db) \subseteq backup.arts

LEMMA NamedSame ==
    ASSUME NEW c, NEW d, d.chain = c.chain
    PROVE  Named(d) = Named(c)
BY DEF Named

LEMMA NamedAppend ==
    ASSUME NEW c, NEW d, Unbroken(c.chain), NEW e, d.chain = Append(c.chain, e)
    PROVE  Named(d) \subseteq Named(c) \cup
               IF e.says.kind = "note" THEN {e.says.of} \ {None} ELSE {}
<1>1. PICK S : c.chain \in Seq(S)
    BY DEF Unbroken
<1>2. c.chain \in Seq(S \cup {e}) /\ e \in S \cup {e} /\ Len(c.chain) \in Nat
    BY <1>1
<1>3. /\ DOMAIN c.chain = 1..Len(c.chain) /\ DOMAIN d.chain = 1..Len(c.chain) + 1
      /\ \A k \in 1..Len(c.chain) : d.chain[k] = c.chain[k]
      /\ d.chain[Len(c.chain) + 1] = e
    BY <1>2
<1> QED BY <1>2, <1>3 DEF Named

LEMMA WholeStep ==
    ASSUME DoorTyped, MadeOnce, NextTyped, ChainInv, WholeInv, [Next]_vars
    PROVE  WholeInv'
<1>0. Running' = Running
    BY DoorMoves DEF Running
<1>1. ASSUME NEW p \in Running, pc'[p] \in Restoring \ {"verified"} PROVE swapped' # {}
    <2>1. CASE pc'[p] = pc[p]
        BY <1>1, <2>1, DoorMoves DEF WholeInv
    <2>2. CASE pc'[p] # pc[p]
        <3>1. Unlink(p) \/ Unlock(p) \/ CopyDb(p) \/ CopyArtifacts(p)
            BY <1>1, <2>2, PlacesMove DEF Restoring
        <3>2. Unlink(p) \/ pc[p] \in Restoring \ {"verified"}
            BY <3>1 DEF Unlock, CopyDb, CopyArtifacts, Restoring
        <3>3. Unlink(p) => swapped' # {}
            BY DEF Unlink
        <3> QED BY <3>2, <3>3, DoorMoves DEF WholeInv
    <2> QED BY <2>1, <2>2
<1> SUFFICES ASSUME swapped' = {}
             PROVE  /\ db' = "first" /\ DOMAIN content' = {"first"}
                    /\ Named(content'["first"]) \subseteq dir'
                    /\ \A p \in Running : pc'[p] \in Emitting /\ Drafted(p)'.says.kind = "note" =>
                          Drafted(p)'.says.of \in dir' \cup {None}
                    /\ backup'.taken => Named(backup'.db) \subseteq dir'
                    /\ \A p \in Running : pc'[p] \in {"one", "two"} => backup'.taken
                    /\ \A p \in Running : pc'[p] = "two" => Named(backup'.db) \subseteq backup'.arts
                    /\ backup'.manifest => Named(backup'.db) \subseteq backup'.arts
    <2>1. Drafted(1)' = Drafted(1)' /\ \A p \in Running : Drafted(p)' = Last(draft'[p].entry)
        BY DEF Drafted
    <2> QED BY <1>0, <1>1, <2>1 DEF WholeInv, Named, Drafted
<1>2. swapped = {}
    BY DoorMoves
<1>3. \A p \in Running : ~Unlink(p) /\ ~CopyDb(p) /\ ~CopyArtifacts(p)
    <2>1. \A p \in Running : ~Unlink(p)
        BY DEF Unlink
    <2>2. \A p \in Running : pc[p] \notin Restoring \ {"verified"}
        BY <1>2 DEF WholeInv
    <2> QED BY <2>1, <2>2 DEF CopyDb, CopyArtifacts, Restoring
<1>4. db = "first" /\ DOMAIN content = {"first"} /\ db # None
    BY <1>2 DEF WholeInv, None
<1>5. db' = "first" /\ dir \subseteq dir'
    BY <1>3, <1>4, DoorMoves
<1>6. DOMAIN content' = {"first"}
    <2>1. "first" \in DOMAIN content'
        BY <1>4, ChainsMove
    <2>2. ASSUME NEW f \in DOMAIN content', f # "first" PROVE FALSE
        BY <1>3, <1>4, <2>2, FilesMove
    <2> QED BY <2>1, <2>2
<1>7. \A p \in Running : pc[p] \in Emitting /\ Drafted(p).says.kind = "note" =>
          Drafted(p).says.of \in dir' \cup {None}
    BY <1>2, <1>5 DEF WholeInv
<1>8. Named(content'["first"]) \subseteq dir'
    <2>0. Named(content["first"]) \subseteq dir'
        BY <1>2, <1>5 DEF WholeInv
    <2>1. CASE content'["first"].chain = content["first"].chain
        BY <2>0, <2>1, NamedSame
    <2>2. ASSUME NEW p \in Running, Appends(p), handle[p] = "first"
          PROVE  Named(content'["first"]) \subseteq dir'
        <3>1. Sound(content["first"])
            BY <1>4 DEF ChainInv
        <3>2. content'["first"].chain = Append(content["first"].chain, Drafted(p))
            BY <1>4, <2>2, <3>1 DEF Appends, Store, Sound, IsStore
        <3>3. Named(content'["first"]) \subseteq Named(content["first"]) \cup
                  IF Drafted(p).says.kind = "note" THEN {Drafted(p).says.of} \ {None} ELSE {}
            BY <3>1, <3>2, NamedAppend DEF Sound
        <3>4. pc[p] \in Emitting
            BY <2>2 DEF Appends, Emitting
        <3> QED BY <1>7, <2>0, <3>3, <3>4
    <2> QED BY <1>4, <2>1, <2>2, ChainsMove
<1>9. ASSUME NEW p \in Running, pc'[p] \in Emitting, Drafted(p)'.says.kind = "note"
      PROVE  Drafted(p)'.says.of \in dir' \cup {None}
    <2>1. CASE EmitsOn(p)
        BY <1>7, <1>9, <2>1 DEF EmitsOn
    <2>2. ASSUME NEW says, NEW to, DraftsAs(p, signs[p], now, says, to), Serves(p, says)
          PROVE  Drafted(p)'.says.of \in dir' \cup {None}
        <3>1. Drafted(p)'.says = says
            BY <2>2 DEF DraftsAs
        <3> QED BY <1>9, <2>2, <3>1 DEF Serves, Says
    <2>3. ~DraftsAs(p, 0, Instant(p), Says("delegation", None, Len(index) + 1, 0), {})
        BY <1>9 DEF DraftsAs, Says
    <2> QED BY <1>9, <2>1, <2>2, <2>3, DraftsMove
<1>10. ASSUME NEW p \in Running, Backup(p)
       PROVE  /\ \A q \in Running \ {p} : pc'[q] = pc[q]
              /\ dir' = dir
              /\ \/ /\ pc'[p] = "gone" /\ backup' = backup
                 \/ /\ pc'[p] = "one" /\ backup = NoBackup
                    /\ backup'.db = content["first"] /\ backup'.taken
                    /\ backup'.manifest = backup.manifest
                 \/ /\ pc[p] = "one" /\ pc'[p] = "two" /\ backup'.arts = dir
                    /\ backup'.db = backup.db /\ backup'.taken = backup.taken
                    /\ backup'.manifest = backup.manifest
                 \/ /\ pc[p] = "two" /\ pc'[p] = "gone" /\ backup'.arts = backup.arts
                    /\ backup'.db = backup.db /\ backup'.taken = backup.taken
    BY <1>4, <1>10, BackupMoves DEF ChainInv, IsBackup
<1>11. NoBackup.taken = FALSE /\ NoBackup.manifest = FALSE
    BY DEF NoBackup
<1>12. /\ backup.taken => Named(backup.db) \subseteq dir
       /\ \A p \in Running : pc[p] \in {"one", "two"} => backup.taken
       /\ \A p \in Running : pc[p] = "two" => Named(backup.db) \subseteq backup.arts
       /\ backup.manifest => Named(backup.db) \subseteq backup.arts
    BY <1>2 DEF WholeInv
<1>13. /\ backup'.taken => Named(backup'.db) \subseteq dir'
       /\ \A p \in Running : pc'[p] \in {"one", "two"} => backup'.taken
       /\ \A p \in Running : pc'[p] = "two" => Named(backup'.db) \subseteq backup'.arts
       /\ backup'.manifest => Named(backup'.db) \subseteq backup'.arts
    <2>1. CASE \A p \in Running : ~Backup(p)
        <3>1. backup' = backup
            BY <2>1, DoorMoves
        <3>2. \A p \in Running : pc'[p] \in {"one", "two"} => pc'[p] = pc[p]
            BY <2>1, PlacesMove
        <3> QED BY <1>5, <1>12, <3>1, <3>2
    <2>2. ASSUME NEW p \in Running, Backup(p)
          PROVE  /\ backup'.taken => Named(backup'.db) \subseteq dir'
                 /\ \A q \in Running : pc'[q] \in {"one", "two"} => backup'.taken
                 /\ \A q \in Running : pc'[q] = "two" => Named(backup'.db) \subseteq backup'.arts
                 /\ backup'.manifest => Named(backup'.db) \subseteq backup'.arts
        <3>1. Named(content["first"]) \subseteq dir
            BY <1>2 DEF WholeInv
        <3> QED BY <1>10, <1>11, <1>12, <2>2, <3>1
    <2> QED BY <2>1, <2>2
<1> QED BY <1>5, <1>6, <1>8, <1>9, <1>13

------------------------------------------------------------------------------
(* Who does what *)

\* `serve` signs, publishes and acts; a key command drafts nothing but a delegation.
RolesInv ==
    /\ now \in Nat \ {0}
    /\ calls = [p \in Running |-> calls[p]]
    /\ \A p \in Running : signs[p] # 0 => Role(p) = "serve"
    /\ \A p \in Running : calls[p] # {} => signs[p] # 0 /\ pc[p] \in Inside
    /\ \A p \in Running : \A c \in calls[p] :
          /\ c = [intent |-> c.intent, job |-> c.job, got |-> c.got]
          /\ c.intent.says.of \in Acts
    /\ \A p \in Running : pc[p] \in Emitting =>
          /\ Drafted(p).at \in Nat \ {0}
          /\ \/ /\ signs[p] # 0 /\ Drafted(p).key = signs[p] /\ pc[p] # "asked"
                /\ Drafted(p).says.kind # "delegation"
                /\ Drafted(p).says.kind = "intent" => Drafted(p).says.of \in Acts
             \/ /\ Role(p) = "keys" /\ Drafted(p).key = 0
                /\ Drafted(p).says.kind = "delegation"

\* A call is new, or goes on.
NewCall(p, c, intent) ==
    c = [intent |-> intent, job |-> next[p], got |-> "none"] /\ Call(p, intent)

LEMMA CallsMove ==
    ASSUME DoorTyped, NextTyped, ChainInv, RolesInv, [Next]_vars, NEW q \in Running,
           NEW c \in calls'[q]
    PROVE  \/ c \in calls[q]
           \/ \E d \in calls[q], got \in {"good", "bad"} :
                 d.got = "none" /\ c = [d EXCEPT !.got = got] /\ Act(q)
           \/ /\ pc[q] = "appended" /\ Emitted(q) /\ NewCall(q, c, Drafted(q))
              /\ Drafted(q).says.kind = "intent"
           \/ /\ Actuate(q) /\ Ready(q) /\ signs[q] # 0 /\ Job(q).do = "act"
              /\ \E intent \in IntentsFor(Store(q).chain, Job(q).of) :
                    NewCall(q, c, intent) /\ ~Reconciled(Store(q).chain, intent)
<1> USE DEF disk, doorVars, recordVars
<1>1. ASSUME calls' = calls PROVE c \in calls[q]
    BY <1>1
<1>2. ASSUME NEW p \in Running, NEW S, calls' = [calls EXCEPT ![p] = S], p # q
      PROVE  c \in calls[q]
    BY <1>2 DEF RolesInv
<1>3. ASSUME NEW p \in Running, NEW S, calls' = [calls EXCEPT ![p] = S], S \subseteq calls[p]
      PROVE  c \in calls[q]
    BY <1>3 DEF RolesInv
<1>4. Tick \/ UNCHANGED vars => calls' = calls
    BY DEF Tick, vars
<1>5. ASSUME NEW p \in Running, Killed(p) \/ Return(p) PROVE c \in calls[q]
    <2>1. \E S : calls' = [calls EXCEPT ![p] = S] /\ S \subseteq calls[p]
        BY <1>5 DEF Killed, Return
    <2> QED BY <1>3, <2>1
<1>6. ASSUME NEW p \in Running, Publish(p) \/ AppendEntry(p) \/ Enqueue(p) \/ Deliver(p)
                \/ Boot(p) \/ Close(p) \/ RotateKey(p) \/ AskRoot(p) \/ RootSigns(p)
                \/ RootRefuses(p) \/ RevokeKey(p)
      PROVE  calls' = calls
    BY <1>6 DEF Publish, AppendEntry, Enqueue, Deliver, Boot, Close, RotateKey, AskRoot,
                RootSigns, RootRefuses, RevokeKey
<1>7. ASSUME NEW p \in Running, NEW intent, Call(p, intent)
      PROVE  c \in calls[q] \/ (p = q /\ NewCall(q, c, intent))
    <2>1. calls' = [calls EXCEPT ![p] = calls[p] \cup {[intent |-> intent, job |-> next[p], got |-> "none"]}]
        BY <1>7 DEF Call
    <2>2. p = q => calls'[q] = calls[q] \cup {[intent |-> intent, job |-> next[p], got |-> "none"]}
        BY <2>1 DEF RolesInv
    <2> QED BY <1>2, <1>7, <2>1, <2>2 DEF NewCall
<1>8. ASSUME NEW p \in Running, Emitted(p)
      PROVE  \/ c \in calls[q]
             \/ /\ pc[q] = "appended" /\ Emitted(q) /\ NewCall(q, c, Drafted(q))
                /\ Drafted(q).says.kind = "intent"
    <2>1. pc[p] = "appended"
        BY <1>8 DEF Emitted
    <2>2. calls' = calls \/ (Call(p, Drafted(p)) /\ Drafted(p).says.kind = "intent")
        BY <1>8 DEF Emitted, Drafted
    <2> QED BY <1>1, <1>7, <1>8, <2>1, <2>2
<1>9. ASSUME NEW p \in Running, Actuate(p)
      PROVE  \/ c \in calls[q]
             \/ /\ Actuate(q) /\ Ready(q) /\ signs[q] # 0 /\ Job(q).do = "act"
                /\ \E intent \in IntentsFor(Store(q).chain, Job(q).of) :
                      NewCall(q, c, intent) /\ ~Reconciled(Store(q).chain, intent)
    <2>1. Ready(p) /\ signs[p] # 0 /\ Job(p).do = "act"
        BY <1>9 DEF Actuate
    <2>2. calls' = calls \/ \E intent \in IntentsFor(Store(p).chain, Job(p).of) :
                                Call(p, intent) /\ ~Reconciled(Store(p).chain, intent)
        BY <1>9 DEF Actuate
    <2> QED BY <1>1, <1>7, <1>9, <2>1, <2>2
<1>10. ASSUME NEW p \in Running, Act(p)
       PROVE  \/ c \in calls[q]
              \/ \E d \in calls[q], got \in {"good", "bad"} :
                    d.got = "none" /\ c = [d EXCEPT !.got = got] /\ Act(q)
    <2>1. PICK d \in calls[p], got \in {"good", "bad", "error"} :
              /\ d.got = "none"
              /\ calls' = [calls EXCEPT ![p] = (calls[p] \ {d}) \cup
                              IF got = "error" THEN {} ELSE {[d EXCEPT !.got = got]}]
        BY <1>10 DEF Act
    <2>2. p = q => calls'[q] = (calls[q] \ {d}) \cup
                              IF got = "error" THEN {} ELSE {[d EXCEPT !.got = got]}
        BY <2>1 DEF RolesInv
    <2> QED BY <1>2, <1>10, <2>1, <2>2
<1> QED BY <1>1, <1>4, <1>5, <1>6, <1>8, <1>9, <1>10 DEF Next

LEMMA RolesStep ==
    ASSUME DoorTyped, NextTyped, ChainInv, RolesInv, [Next]_vars
    PROVE  RolesInv'
<1> USE DEF disk, doorVars, recordVars
<1>0. /\ plan' = plan /\ Running' = Running /\ \A p \in Running : Role(p)' = Role(p)
      /\ plan \in Plans
    <2>1. plan' = plan /\ plan \in Plans
        BY DoorMoves DEF DoorTyped
    <2> QED BY <2>1 DEF Running, Role
<1>1. now' \in Nat \ {0} /\ now \in Nat \ {0}
    <2>1. now' = now \/ now' = now + 1
        BY DEF Next, Tick, vars, Killed, Publish, AppendEntry, Enqueue, Emitted, Deliver, Actuate,
               Act, Return, Boot, Close, RotateKey, AskRoot, RootSigns, RootRefuses, RevokeKey
    <2> QED BY <2>1 DEF RolesInv
<1>2. calls' = [p \in Running |-> calls'[p]]
    <2>1. calls' = calls \/ \E p \in Running : \E S : calls' = [calls EXCEPT ![p] = S]
        BY DEF Next, Tick, vars, Killed, Publish, AppendEntry, Enqueue, Emitted, Deliver, Actuate,
               Act, Call, Return, Boot, Close, RotateKey, AskRoot, RootSigns, RootRefuses, RevokeKey
    <2> QED BY <2>1 DEF RolesInv
<1>3. \A p \in Running : signs'[p] = signs[p] \/ (Boot(p) /\ Role(p) = "serve" /\ pc[p] = "open" /\ signs[p] = 0)
    <2>1. signs' = signs \/ \E p \in Running : Boot(p)
        BY DEF Next, Tick, vars, Killed, Publish, AppendEntry, Enqueue, Emitted, Deliver, Actuate,
               Act, Return, Close, RotateKey, AskRoot, RootSigns, RootRefuses, RevokeKey
    <2> QED BY <2>1 DEF Boot, NextTyped
<1>4. \A p \in Running : signs'[p] # 0 => Role(p) = "serve"
    BY <1>3 DEF RolesInv
<1>5. ASSUME NEW p \in Running, calls'[p] # {} PROVE signs'[p] # 0 /\ pc'[p] \in Inside
    <2>1. PICK c : c \in calls'[p]
        BY <1>5
    <2>2. signs[p] # 0 /\ pc[p] \in Inside
        <3>1. CASE calls[p] # {}
            BY <3>1 DEF RolesInv
        <3>2. CASE pc[p] = "appended" /\ Drafted(p).says.kind = "intent"
            BY <3>2 DEF RolesInv, Emitting, Inside
        <3>3. CASE Ready(p) /\ signs[p] # 0
            BY <3>3 DEF Ready, Inside
        <3> QED BY <2>1, <3>1, <3>2, <3>3, CallsMove
    <2>3. signs'[p] # 0
        BY <1>3, <2>2
    <2>4. pc'[p] \in Inside
        <3>0. Role(p) = "serve"
            BY <2>2 DEF RolesInv
        <3>1. SUFFICES ASSUME pc'[p] # pc[p], pc'[p] \notin Inside PROVE FALSE
            BY <2>2
        <3>2. ~Killed(p)
            BY <1>5 DEF Killed, RolesInv
        <3>3. ~Close(p)
            BY <1>5 DEF Close
        <3>4. ~Boot(p)
            BY <2>2 DEF Boot
        <3>5. ~RootRefuses(p) /\ ~RevokeKey(p) /\ ~MarkPoint(p)
            <4>1. ~MarkPoint(p)
                BY <3>0 DEF MarkPoint
            <4>2. ~RevokeKey(p)
                BY <1>0, <3>0, JobFits DEF RevokeKey, JobsOf
            <4>3. ~RootRefuses(p)
                BY <3>0 DEF RootRefuses, RolesInv, Emitting
            <4> QED BY <4>1, <4>2, <4>3
        <3>6. AppendEntry(p) => pc'[p] \in Inside
            BY <3>0 DEF AppendEntry, Goto, Inside, DoorTyped
        <3>7. ~Look(p) /\ ~Claim(p) /\ ~Restore(p) /\ ~Unlink(p) /\ ~Unlock(p) /\ ~CopyDb(p)
              /\ ~CopyArtifacts(p)
            BY <2>2 DEF Look, Claim, Restore, Starts, Unlink, Unlock, CopyDb, CopyArtifacts, Inside
        <3>8. ~Open(p) /\ ~Backup(p)
            <4>1. ~Open(p)
                BY <2>2 DEF Open, Inside
            <4>2. ~Backup(p)
                BY <3>0 DEF Backup
            <4> QED BY <4>1, <4>2
        <3>9. Publish(p) \/ Emitted(p) \/ Actuate(p) \/ Return(p) \/ AskRoot(p) \/ RootSigns(p)
              => pc'[p] \in Inside \/ pc'[p] = pc[p]
            BY DEF Publish, Draft, Goto, Emitted, Actuate, Return, AskRoot, RootSigns, Inside, DoorTyped
        <3> QED BY <3>1, <3>2, <3>3, <3>4, <3>5, <3>6, <3>7, <3>8, <3>9, OwnMoves
    <2> QED BY <2>3, <2>4
<1>6. ASSUME NEW p \in Running, NEW c \in calls'[p]
      PROVE  c = [intent |-> c.intent, job |-> c.job, got |-> c.got] /\ c.intent.says.of \in Acts
    <2>1. CASE c \in calls[p]
        BY <2>1 DEF RolesInv
    <2>2. ASSUME NEW d \in calls[p], NEW got, c = [d EXCEPT !.got = got]
          PROVE  c = [intent |-> c.intent, job |-> c.job, got |-> c.got] /\ c.intent.says.of \in Acts
        <3>1. d = [intent |-> d.intent, job |-> d.job, got |-> d.got] /\ d.intent.says.of \in Acts
            BY DEF RolesInv
        <3> QED BY <2>2, <3>1
    <2>3. CASE pc[p] = "appended" /\ NewCall(p, c, Drafted(p)) /\ Drafted(p).says.kind = "intent"
        BY <2>3 DEF RolesInv, NewCall, Emitting
    <2>4. ASSUME Ready(p), Job(p).do = "act", NEW intent \in IntentsFor(Store(p).chain, Job(p).of),
                 NewCall(p, c, intent)
          PROVE  c = [intent |-> c.intent, job |-> c.job, got |-> c.got] /\ c.intent.says.of \in Acts
        <3>1. intent.says.of \in Acts
            BY <1>0, <2>4, JobFits DEF IntentsFor
        <3> QED BY <2>4, <3>1 DEF NewCall
    <2> QED BY <2>1, <2>2, <2>3, <2>4, CallsMove
<1>7. ASSUME NEW p \in Running, pc'[p] \in Emitting
      PROVE  /\ Drafted(p)'.at \in Nat \ {0}
             /\ \/ /\ signs'[p] # 0 /\ Drafted(p)'.key = signs'[p] /\ pc'[p] # "asked"
                   /\ Drafted(p)'.says.kind # "delegation"
                   /\ Drafted(p)'.says.kind = "intent" => Drafted(p)'.says.of \in Acts
                \/ /\ Role(p) = "keys" /\ Drafted(p)'.key = 0
                   /\ Drafted(p)'.says.kind = "delegation"
    <2>1. CASE EmitsOn(p)
        <3>1. /\ Drafted(p)' = Drafted(p) /\ signs'[p] = signs[p] /\ pc[p] \in Emitting
              /\ pc'[p] = pc[p] \/ pc'[p] # "asked"
            BY <2>1 DEF EmitsOn, Appends, DoorTyped
        <3> QED BY <3>1 DEF RolesInv
    <2>2. ASSUME NEW says, NEW to, DraftsAs(p, signs[p], now, says, to), Serves(p, says),
                 pc'[p] = "drafted"
          PROVE  /\ Drafted(p)'.at \in Nat \ {0}
                 /\ signs'[p] # 0 /\ Drafted(p)'.key = signs'[p] /\ pc'[p] # "asked"
                 /\ Drafted(p)'.says.kind # "delegation"
                 /\ Drafted(p)'.says.kind = "intent" => Drafted(p)'.says.of \in Acts
        <3>1. /\ Drafted(p)'.at = now /\ Drafted(p)'.key = signs[p] /\ Drafted(p)'.says = says
              /\ signs' = signs
            BY <2>2 DEF DraftsAs
        <3>2. signs[p] # 0 /\ says.kind # "delegation" /\ (says.kind = "intent" => says.of \in Acts)
            <4>1. CASE \E c \in calls[p] :
                          says = Says(IF c.got = "good" THEN "result" ELSE "error",
                                      c.intent.says.of, c.intent.seq, 0)
                BY <4>1 DEF Says, RolesInv
            <4> QED BY <2>2, <4>1 DEF Serves
        <3> QED BY <1>1, <2>2, <3>1, <3>2
    <2>3. CASE /\ pc'[p] = "asked" /\ Role(p) = "keys" /\ Job(p).at \in Nat
               /\ DraftsAs(p, 0, Instant(p), Says("delegation", None, Len(index) + 1, 0), {})
        <3>1. Drafted(p)'.at = Instant(p) /\ Drafted(p)'.key = 0 /\ Drafted(p)'.says.kind = "delegation"
            BY <2>3 DEF DraftsAs, Says
        <3>2. Instant(p) \in Nat \ {0}
            BY <1>1, <2>3 DEF Instant
        <3> QED BY <2>3, <3>1, <3>2
    <2> QED BY <1>7, <2>1, <2>2, <2>3, DraftsMove
<1> QED BY <1>0, <1>1, <1>2, <1>4, <1>5, <1>6, <1>7 DEF RolesInv, Drafted

------------------------------------------------------------------------------
(* A restore is marked *)

LEMMA HandlesMove ==
    ASSUME DoorTyped, [Next]_vars, NEW p \in Running
    PROVE  \/ handle'[p] = handle[p] \/ handle'[p] = None
           \/ Open(p) /\ handle'[p] = db'
<1> USE DEF disk, doorVars, recordVars
<1>1. Tick \/ UNCHANGED vars => handle' = handle
    BY DEF Tick, vars
<1>2. ASSUME NEW q \in Running,
             Look(q) \/ Claim(q) \/ Restore(q) \/ Unlink(q) \/ Unlock(q) \/ CopyDb(q) \/ Backup(q)
                \/ CopyArtifacts(q) \/ Publish(q) \/ Emitted(q) \/ Actuate(q) \/ Return(q)
                \/ AskRoot(q) \/ RootSigns(q) \/ Enqueue(q) \/ Deliver(q) \/ Act(q) \/ RotateKey(q)
      PROVE  handle' = handle
    BY <1>2 DEF Look, Claim, Restore, Unlink, Unlock, CopyDb, Backup, CopyArtifacts, Publish,
                Emitted, Actuate, Return, AskRoot, RootSigns, Enqueue, Deliver, Act, RotateKey
<1>3. ASSUME NEW q \in Running, Killed(q) \/ MarkPoint(q) \/ Close(q) \/ RootRefuses(q) \/ Boot(q)
                \/ RevokeKey(q) \/ AppendEntry(q)
      PROVE  handle'[p] \in {handle[p], None}
    BY <1>3 DEF Killed, Kill, MarkPoint, Close, RootRefuses, Boot, RevokeKey, AppendEntry, Shut,
                DoorTyped
<1>4. ASSUME NEW q \in Running, Open(q)
      PROVE  handle'[p] = handle[p] \/ (Open(p) /\ handle'[p] = db')
    BY <1>4 DEF Open, DoorTyped
<1> QED BY <1>1, <1>2, <1>3, <1>4 DEF Next

LEMMA LockMoves ==
    ASSUME [Next]_vars
    PROVE  lock' = lock \/ lock' = None \/ \E p \in Running : Claim(p) /\ lock' = p
<1> USE DEF disk, doorVars, recordVars
<1>1. Tick \/ UNCHANGED vars => lock' = lock
    BY DEF Tick, vars
<1>2. ASSUME NEW q \in Running,
             Look(q) \/ Open(q) \/ Restore(q) \/ Unlink(q) \/ CopyDb(q) \/ Backup(q) \/ Killed(q)
                \/ CopyArtifacts(q) \/ Publish(q) \/ Emitted(q) \/ Actuate(q) \/ Return(q)
                \/ AskRoot(q) \/ RootSigns(q) \/ Enqueue(q) \/ Deliver(q) \/ Act(q) \/ RotateKey(q)
                \/ Boot(q)
      PROVE  lock' = lock
    BY <1>2 DEF Look, Open, Restore, Unlink, CopyDb, Backup, Killed, Kill, CopyArtifacts, Publish,
                Emitted, Actuate, Return, AskRoot, RootSigns, Enqueue, Deliver, Act, RotateKey, Boot
<1>3. ASSUME NEW q \in Running, MarkPoint(q) \/ Close(q) \/ RootRefuses(q) \/ Unlock(q)
                \/ RevokeKey(q) \/ AppendEntry(q)
      PROVE  lock' \in {lock, None}
    BY <1>3 DEF MarkPoint, Close, RootRefuses, Unlock, RevokeKey, AppendEntry, Shut
<1>4. ASSUME NEW q \in Running, Claim(q) PROVE lock' = q
    BY <1>4 DEF Claim
<1> QED BY <1>1, <1>2, <1>3, <1>4 DEF Next

\* A restore, having no jobs, goes through the door and marks the store.
LEMMA RestoreMoves ==
    ASSUME DoorTyped, NextTyped, RolesInv, [Next]_vars, NEW r \in Running, Role(r) = "restore",
           pc'[r] # pc[r]
    PROVE  Look(r) \/ Claim(r) \/ Open(r) \/ Killed(r) \/ Restore(r) \/ Unlink(r) \/ Unlock(r)
              \/ CopyDb(r) \/ CopyArtifacts(r) \/ MarkPoint(r)
<1>1. calls[r] = {} /\ signs[r] = 0 /\ pc[r] \notin Emitting
    BY DEF RolesInv
<1>2. ~Ready(r)
    BY JobFits DEF JobsOf, DoorTyped
<1>3. ~(Publish(r) \/ Actuate(r) \/ AskRoot(r) \/ RevokeKey(r))
    BY <1>2 DEF Publish, Actuate, AskRoot, RevokeKey
<1>4. ~(AppendEntry(r) \/ Emitted(r) \/ RootSigns(r) \/ RootRefuses(r))
    BY <1>1 DEF AppendEntry, Emitted, RootSigns, RootRefuses, Emitting
<1>5. ~(Return(r) \/ Boot(r) \/ Close(r) \/ Backup(r))
    BY <1>1 DEF Return, Boot, Close, Backup
<1> QED BY <1>3, <1>4, <1>5, OwnMoves

\* Restore points are only added.
PointsInv == backup.db.points \in Nat /\ \A f \in DOMAIN content : content[f].points \in Nat

LEMMA PointsMove ==
    ASSUME DoorTyped, MadeOnce, ChainInv, PointsInv, [Next]_vars, NEW f \in DOMAIN content
    PROVE  /\ content'[f].points \in Nat /\ content'[f].points >= content[f].points
           /\ \A p \in Running : MarkPoint(p) /\ handle[p] = f => content'[f].points > 0
<1> USE DEF disk, doorVars, recordVars
<1>0. content[f].points \in Nat /\ IsStore(content[f])
    BY DEF PointsInv, ChainInv, Sound
<1>1. ASSUME content'[f].points = content[f].points, \A p \in Running : ~MarkPoint(p)
      PROVE  /\ content'[f].points \in Nat /\ content'[f].points >= content[f].points
             /\ \A p \in Running : MarkPoint(p) /\ handle[p] = f => content'[f].points > 0
    BY <1>0, <1>1
<1>2. ASSUME NEW p \in Running, MarkPoint(p)
      PROVE  /\ content'[f].points \in Nat /\ content'[f].points >= content[f].points
             /\ \A q \in Running : MarkPoint(q) /\ handle[q] = f => content'[f].points > 0
    <2>1. ASSUME NEW q \in Running, MarkPoint(q)
          PROVE  /\ f = handle[q] => content'[f].points = content[f].points + 1
                 /\ f # handle[q] => content'[f].points = content[f].points
        BY <1>0, <2>1 DEF MarkPoint, IsStore
    <2> QED BY <1>0, <1>2, <2>1
<1>3. content' = content => content'[f].points = content[f].points
    OBVIOUS
<1>4. Tick \/ UNCHANGED vars => content' = content
    BY DEF Tick, vars
<1>5. ASSUME NEW q \in Running,
             Look(q) \/ Claim(q) \/ Restore(q) \/ Unlink(q) \/ Unlock(q) \/ Backup(q) \/ Killed(q)
                \/ CopyArtifacts(q) \/ Publish(q) \/ Emitted(q) \/ Actuate(q) \/ Return(q)
                \/ AskRoot(q) \/ RootSigns(q) \/ Act(q) \/ RotateKey(q)
                \/ Boot(q) \/ Close(q) \/ RootRefuses(q) \/ RevokeKey(q)
      PROVE  content' = content
    BY <1>5 DEF Look, Claim, Restore, Unlink, Unlock, Backup, Killed, Kill, CopyArtifacts, Publish,
                Emitted, Actuate, Return, AskRoot, RootSigns, Act, RotateKey, Boot, Close,
                RootRefuses, RevokeKey
<1>6. ASSUME NEW q \in Running, Open(q) \/ CopyDb(q)
      PROVE  content'[f].points = content[f].points
    <2>1. CASE Open(q)
        <3>1. db = None => q \notin DOMAIN content
            BY <2>1 DEF Open, MadeOnce
        <3> QED BY <2>1, <3>1 DEF Open
    <2>2. CASE CopyDb(q)
        <3>1. q \notin DOMAIN content
            BY <2>2 DEF CopyDb, MadeOnce, Restoring
        <3> QED BY <2>2, <3>1 DEF CopyDb
    <2> QED BY <1>6, <2>1, <2>2
<1>7. ASSUME NEW q \in Running, Enqueue(q) \/ Deliver(q)
      PROVE  content'[f].points = content[f].points
    <2>1. PICK v : content' = [content EXCEPT ![handle[q]].queue = v]
        BY <1>7 DEF Enqueue, Deliver, Write, Store
    <2> QED BY <1>0, <2>1 DEF IsStore
<1>8. ASSUME NEW q \in Running, AppendEntry(q)
      PROVE  content'[f].points = content[f].points
    <2>1. PICK v : content' = content \/ content' = [content EXCEPT ![handle[q]].chain = v]
        BY <1>8 DEF AppendEntry, Write, Store
    <2>2. CASE content' = content
        BY <2>2
    <2>3. CASE content' = [content EXCEPT ![handle[q]].chain = v]
        BY <1>0, <2>3 DEF IsStore
    <2> QED BY <2>1, <2>2, <2>3
<1>9. CASE content'[f].points = content[f].points
    <2>1. CASE \E p \in Running : MarkPoint(p)
        BY <1>2, <2>1
    <2> QED BY <1>1, <1>9, <2>1
<1> QED BY <1>2, <1>3, <1>4, <1>5, <1>6, <1>7, <1>8, <1>9 DEF Next

LEMMA PointsStep ==
    ASSUME DoorTyped, MadeOnce, ChainInv, PointsInv, [Next]_vars
    PROVE  PointsInv'
<1>1. ASSUME NEW f \in DOMAIN content' PROVE content'[f].points \in Nat
    <2>1. CASE f \in DOMAIN content
        BY <2>1, PointsMove
    <2>2. CASE f \notin DOMAIN content
        <3>1. content'[f] = Empty \/ content'[f] = backup.db
            BY <2>2, FilesMove
        <3> QED BY <3>1 DEF PointsInv, Empty
    <2> QED BY <2>1, <2>2
<1>2. backup'.db.points \in Nat
    <2>1. CASE backup' = backup
        BY <2>1 DEF PointsInv
    <2>2. ASSUME NEW p \in Running, Backup(p) PROVE backup'.db.points \in Nat
        <3>1. \/ backup' = backup
              \/ db # None /\ backup' = [backup EXCEPT !.db = content[db], !.taken = TRUE]
              \/ backup' = [backup EXCEPT !.arts = dir]
              \/ backup' = [backup EXCEPT !.manifest = TRUE]
            BY <2>2, BackupMoves
        <3>2. db # None => db \in DOMAIN content
            BY DEF ChainInv
        <3> QED BY <3>1, <3>2 DEF PointsInv, ChainInv, IsBackup
    <2> QED BY <2>1, <2>2, DoorMoves
<1> QED BY <1>1, <1>2 DEF PointsInv

\* A restore that began to replace the store is on its way to mark it, and nobody else has
\* the new store open; or it has marked it.
Marking(r) ==
    /\ pc[r] \in {"unlinked", "unlocked", "copied", "cleared", "replaced", "looked", "claimed", "open"}
    /\ \A p \in Running : p # r => handle[p] # r
    /\ pc[r] # "unlinked" => lock \in {None, r}
    /\ pc[r] \notin {"unlinked", "unlocked"} => db = r /\ r \in DOMAIN content
    /\ pc[r] = "open" => handle[r] = r
Marked(r) == pc[r] = "gone" /\ r \in DOMAIN content /\ content[r].points > 0
MarkInv ==
    /\ \A r \in swapped : r \in Running /\ Role(r) = "restore"
    /\ kills = 0 /\ raced = {} => \A r \in swapped : Marking(r) \/ Marked(r)

LEMMA MarkStep ==
    ASSUME DoorTyped, MadeOnce, NextTyped, ChainInv, RolesInv, PointsInv, kills \in Nat, MarkInv,
           [Next]_vars
    PROVE  MarkInv'
<1>0. /\ plan' = plan /\ plan \in Plans /\ Running' = Running
      /\ \A p \in Running : Role(p)' = Role(p)
    <2>1. plan' = plan /\ plan \in Plans
        BY DoorMoves DEF DoorTyped
    <2> QED BY <2>1 DEF Running, Role
<1>1. \A p \in Running : Unlink(p) => Role(p) = "restore" /\ p \notin DOMAIN content
    BY DEF Unlink, MadeOnce, Restoring
<1>2. \A r \in swapped' : r \in Running /\ Role(r) = "restore"
    BY <1>1, DoorMoves DEF MarkInv
<1>3. \A p, q \in Running : Role(p) = "restore" /\ Role(q) = "restore" => p = q
    BY <1>0, DoorAssumption DEF DoorAssumption, Running, Role
<1>4. ASSUME kills' = 0, raced' = {}, NEW r \in swapped'
      PROVE  Marking(r)' \/ Marked(r)'
    <2>0. r \in Running /\ Role(r) = "restore" /\ r # None
        BY <1>0, <1>2, Names
    <2>1. kills = 0 /\ raced = {} /\ ~\E p \in Running : Killed(p)
        <3>1. \A p \in Running : ~Killed(p)
            BY <1>4 DEF Killed, Kill
        <3> QED BY <1>4, <3>1, DoorMoves
    <2>2. CASE r \notin swapped
        <3>1. Unlink(r)
            BY <2>2, DoorMoves
        <3>2. pc'[r] = "unlinked" /\ handle' = handle
            BY <2>0, <3>1 DEF Unlink, Goto, DoorTyped
        <3>3. \A p \in Running : handle[p] # r
            BY <1>1, <2>0, <3>1 DEF ChainInv
        <3> QED BY <1>0, <3>2, <3>3 DEF Marking
    <2>3. CASE r \in swapped /\ Marked(r)
        <3>1. pc'[r] = "gone"
            <4>1. SUFFICES ASSUME pc'[r] # pc[r] PROVE FALSE
                BY <2>3 DEF Marked
            <4>2. pc[r] = "gone"
                BY <2>3 DEF Marked
            <4> QED BY <2>0, <2>1, <4>1, <4>2, RestoreMoves
                   DEF Look, Claim, Open, Restore, Starts, Unlink, Unlock, CopyDb, CopyArtifacts, MarkPoint
        <3>2. r \in DOMAIN content' /\ content'[r].points >= content[r].points
            BY <2>3, ChainsMove, PointsMove DEF Marked
        <3>3. content[r].points \in Nat /\ content'[r].points \in Nat
            BY <2>3, PointsMove DEF Marked, PointsInv
        <3> QED BY <2>3, <3>1, <3>2, <3>3 DEF Marked
    <2>4. CASE r \in swapped /\ Marking(r)
        <3>1. \A p \in Running : p # r => ~Claim(p) /\ ~Open(p)
            <4>1. Alive(r)
                BY <2>4 DEF Marking, Alive
            <4>2. \A p \in Running : p # r => Replacing(p)
                BY <2>4, <4>1 DEF Replacing
            <4>3. ASSUME NEW p \in Running, p # r, Claim(p) \/ Open(p) PROVE raced' # {}
                BY <4>2, <4>3 DEF Claim, Open
            <4> QED BY <1>4, <4>3
        <3>2. \A p \in Running : p # r => handle'[p] # r
            BY <2>0, <2>4, <3>1, HandlesMove DEF Marking
        <3>3. lock' \in {None, r} \/ (lock' = lock /\ pc[r] = "unlinked")
            BY <2>4, <3>1, LockMoves DEF Marking
        <3>4. r \in DOMAIN content => r \in DOMAIN content'
            BY ChainsMove
        <3>5. \A p \in Running : ~Unlink(p) /\ (CopyDb(p) => p = r)
            <4>1. \A p \in Running : Unlink(p) \/ CopyDb(p) => p = r
                BY <1>3, <2>0 DEF Unlink, CopyDb, MadeOnce, Restoring
            <4>2. ~Unlink(r)
                BY <2>4 DEF Unlink, Marking
            <4> QED BY <4>1, <4>2
        <3>6. CASE pc'[r] = pc[r]
            <4>1. ~CopyDb(r) /\ ~Open(r)
                BY <2>0, <3>6 DEF CopyDb, Open, Goto, DoorTyped
            <4>2. db' = db
                BY <3>1, <3>5, <4>1, DoorMoves
            <4>3. pc[r] = "open" => handle'[r] = r
                <5>1. pc[r] = "open" => handle'[r] # None
                    <6>1. DoorTyped'
                        BY DoorTypedStep
                    <6> QED BY <1>0, <2>0, <3>6, <6>1 DEF DoorTyped, Inside
                <5> QED BY <2>0, <2>4, <4>1, <5>1, HandlesMove DEF Marking
            <4> QED BY <1>0, <2>4, <3>2, <3>3, <3>4, <3>6, <4>2, <4>3 DEF Marking
        <3>7. CASE pc'[r] # pc[r]
            <4>0. Look(r) \/ Claim(r) \/ Open(r) \/ Unlock(r) \/ CopyDb(r) \/ CopyArtifacts(r) \/ MarkPoint(r)
                <5>1. ~Restore(r) /\ ~Unlink(r)
                    BY <2>4 DEF Restore, Starts, Unlink, Marking
                <5> QED BY <2>0, <2>1, <3>7, <5>1, RestoreMoves
            <4>1. CASE Unlock(r)
                BY <1>0, <2>0, <3>2, <4>1 DEF Unlock, Goto, Marking, DoorTyped
            <4>2. CASE CopyDb(r)
                <5>1. pc'[r] = "copied" /\ db' = r /\ r \in DOMAIN content' /\ pc[r] = "unlocked"
                    BY <2>0, <4>2 DEF CopyDb, Goto, DoorTyped
                <5> QED BY <1>0, <3>2, <3>3, <5>1 DEF Marking
            <4>3. CASE CopyArtifacts(r)
                <5>1. /\ pc'[r] \in {"cleared", "replaced"} /\ pc[r] \in {"copied", "cleared"} /\ db' = db
                    BY <2>0, <4>3 DEF CopyArtifacts, Goto, DoorTyped
                <5> QED BY <1>0, <2>4, <3>2, <3>3, <3>4, <5>1 DEF Marking
            <4>4. CASE Look(r)
                <5>1. pc[r] = "replaced"
                    BY <2>4, <4>4 DEF Look, Starts, Marking
                <5>2. ~HeldByOther(r)
                    BY <2>4, <5>1 DEF HeldByOther, Marking
                <5>3. pc'[r] = "looked" /\ db' = db
                    BY <2>0, <4>4, <5>2 DEF Look, Goto, disk, DoorTyped
                <5> QED BY <1>0, <2>4, <3>2, <3>3, <3>4, <5>1, <5>3 DEF Marking
            <4>5. CASE Claim(r)
                <5>1. pc[r] = "looked" /\ pc'[r] = "claimed" /\ db' = db
                    BY <2>0, <4>5 DEF Claim, Goto, DoorTyped
                <5> QED BY <1>0, <2>4, <3>2, <3>3, <3>4, <5>1 DEF Marking
            <4>6. CASE Open(r)
                <5>1. pc[r] = "claimed" /\ pc'[r] = "open" /\ handle'[r] = db'
                    BY <2>0, <4>6 DEF Open, Goto, DoorTyped
                <5>2. db = r /\ db' = r
                    BY <2>0, <2>4, <4>6, <5>1 DEF Open, Marking
                <5> QED BY <1>0, <2>4, <3>2, <3>3, <3>4, <5>1, <5>2 DEF Marking
            <4>7. CASE MarkPoint(r)
                <5>1. pc[r] = "open" /\ pc'[r] = "gone" /\ handle[r] = r /\ r \in DOMAIN content
                    BY <2>0, <2>4, <4>7 DEF MarkPoint, Shut, Goto, Marking, DoorTyped
                <5>2. r \in DOMAIN content' /\ content'[r].points > 0
                    BY <2>0, <3>4, <4>7, <5>1, PointsMove
                <5> QED BY <5>1, <5>2 DEF Marked
            <4> QED BY <4>0, <4>1, <4>2, <4>3, <4>4, <4>5, <4>6, <4>7
        <3> QED BY <3>6, <3>7
    <2> QED BY <2>1, <2>2, <2>3, <2>4 DEF MarkInv
<1> QED BY <1>0, <1>2, <1>4 DEF MarkInv

\* What the proofs about backups, keys and acts build on.
RecordInv ==
    /\ DoorTyped /\ MadeOnce /\ ChainInv /\ NextTyped /\ RolesInv /\ PointsInv /\ LockInv
    /\ kills \in Nat

LEMMA RecordInit == Init => RecordInv
<1> SUFFICES ASSUME Init PROVE RecordInv
    OBVIOUS
<1>1. DoorTyped /\ MadeOnce /\ ChainInv
    BY DoorTypedInit, ChainInit
<1>2. NextTyped
    BY DEF Init, NextTyped
<1>3. RolesInv
    BY DEF Init, DoorInit, Running, RolesInv, Emitting
<1>4. PointsInv
    BY DEF Init, DoorInit, PointsInv, NoBackup, Empty
<1>5. LockInv
    BY DEF Init, DoorInit, LockInv, Inside, Running
<1> QED BY <1>1, <1>2, <1>3, <1>4, <1>5 DEF Init, DoorInit, RecordInv

LEMMA RecordStep ==
    ASSUME RecordInv, [Next]_vars
    PROVE  RecordInv'
<1>1. DoorTyped' /\ MadeOnce' /\ ChainInv' /\ LockInv'
    BY DoorTypedStep, MadeStep, ChainStep, LockStep DEF RecordInv
<1>2. NextTyped' /\ RolesInv' /\ PointsInv'
    BY NextTypedStep, RolesStep, PointsStep DEF RecordInv
<1>3. kills' \in Nat
    BY DoorMoves DEF RecordInv, Killed, Kill
<1> QED BY <1>1, <1>2, <1>3 DEF RecordInv

LEMMA RecordStands == Spec => []RecordInv
BY RecordInit, RecordStep, PTL DEF Spec

\* Every backup is whole and every restore is marked, whatever other processes do and
\* however many there are.
THEOREM BackupStands == Spec => []BackupRestores
<1>1. Init => WholeInv /\ MarkInv
    BY DEF Init, DoorInit, Running, WholeInv, MarkInv, Restoring, Emitting, Named, NoBackup, Empty
<1>2. RecordInv /\ (WholeInv /\ MarkInv) /\ [Next]_vars => (WholeInv /\ MarkInv)'
    BY WholeStep, MarkStep DEF RecordInv
<1>3. ASSUME RecordInv, WholeInv, MarkInv PROVE BackupRestores
    <2>1. BackupIsWhole
        BY <1>3 DEF WholeInv, BackupIsWhole
    <2>2. ASSUME NEW p \in Uses, Role(p) = "serve", handle[p] \in swapped,
                 content[handle[p]].points = 0, kills = 0, raced = {}
          PROVE  FALSE
        <3>1. p \in Running /\ (Marking(handle[p]) \/ Marked(handle[p]))
            BY <1>3, <2>2 DEF MarkInv, Uses
        <3>2. Role(handle[p]) = "restore"
            BY <1>3, <2>2 DEF MarkInv
        <3> QED BY <2>2, <3>1, <3>2 DEF Marking, Marked, Uses
    <2>3. kills \in Nat
        BY <1>3 DEF RecordInv
    <2> QED BY <2>1, <2>2, <2>3 DEF BackupRestores, RestoreIsMarked
<1> QED BY <1>1, <1>2, <1>3, RecordStands, PTL DEF Spec

------------------------------------------------------------------------------
(* Keys *)

KeyEntries == [from : Nat, until : Nat, by : {"none", "rotation", "revocation"}, declared : Nat]

\* There is one open key at most.
OneOpen(ks) ==
    \A o, q \in DOMAIN ks : ks[o].until = Open0 /\ ks[q].until = Open0 => o = q

LEMMA ActiveIsOpen ==
    ASSUME NEW ks \in Seq(KeyEntries), OneOpen(ks)
    PROVE  /\ Active(ks) \in 0..Len(ks)
           /\ Active(ks) # 0 => ks[Active(ks)].until = Open0
           /\ Active(ks) = 0 => \A o \in DOMAIN ks : ks[o].until # Open0
<1> DEFINE open == {o \in DOMAIN ks : ks[o].until = Open0}
<1>1. DOMAIN ks = 1..Len(ks) /\ Len(ks) \in Nat
    OBVIOUS
<1>2. CASE open = {}
    <2>1. Active(ks) = 0
        BY <1>2 DEF Active
    <2> QED BY <1>1, <1>2, <2>1
<1>3. CASE open # {}
    <2>1. PICK o : o \in open
        BY <1>3
    <2>2. \A q \in open : q = o
        BY <2>1 DEF OneOpen
    <2>3. o \in 1..Len(ks)
        BY <1>1, <2>1
    <2>4. Active(ks) = CHOOSE x \in open : \A q \in open : q <= x
        BY <1>3 DEF Active
    <2>5. o \in open /\ \A q \in open : q <= o
        BY <2>1, <2>2, <2>3
    <2>6. Active(ks) \in open
        BY <2>4, <2>5
    <2>7. Active(ks) = o
        BY <2>2, <2>6
    <2> QED BY <1>1, <2>1, <2>3, <2>7
<1> QED BY <1>2, <1>3

\* A cut closes the key that is open and leaves the others.
Closes(new, ks, at) ==
    /\ new \in Seq(KeyEntries) /\ Len(new) = Len(ks)
    /\ \A o \in 1..Len(ks) : o # Active(ks) => new[o] = ks[o]
    /\ \A o \in 1..Len(ks) : new[o].until # Open0
    /\ Active(ks) # 0 => /\ new[Active(ks)].until = at
                         /\ new[Active(ks)].from = ks[Active(ks)].from
                         /\ new[Active(ks)].declared = ks[Active(ks)].declared

LEMMA CutCloses ==
    ASSUME NEW ks \in Seq(KeyEntries), OneOpen(ks), Active(ks) # 0,
           NEW at \in Nat \ {0}, NEW by \in {"rotation", "revocation"}
    PROVE  Closes(Cut(ks, Active(ks), at, by), ks, at)
<1>1. PICK a : a = Active(ks)
    OBVIOUS
<1>2. a \in 1..Len(ks) /\ ks[a].until = Open0 /\ Len(ks) \in Nat /\ DOMAIN ks = 1..Len(ks)
    BY <1>1, ActiveIsOpen
<1>3. PICK cut : cut = Cut(ks, a, at, by)
    OBVIOUS
<1>4. ks[a] \in KeyEntries
    BY <1>2
<1>5. cut = [ks EXCEPT ![a] = [ks[a] EXCEPT !.until = at, !.by = by]]
    <2>1. cut = [ks EXCEPT ![a].until = at, ![a].by = by]
        BY <1>3 DEF Cut
    <2> QED BY <1>2, <1>4, <2>1 DEF KeyEntries
<1>6. PICK last : last = [ks[a] EXCEPT !.until = at, !.by = by]
    OBVIOUS
<1>7. last \in KeyEntries /\ last.until = at /\ last.from = ks[a].from /\ last.declared = ks[a].declared
    BY <1>4, <1>6 DEF KeyEntries
<1>8. cut = [ks EXCEPT ![a] = last]
    BY <1>5, <1>6
<1>9. cut \in Seq(KeyEntries) /\ Len(cut) = Len(ks) /\ cut[a] = last
      /\ \A o \in 1..Len(ks) : o # a => cut[o] = ks[o]
    BY <1>2, <1>7, <1>8
<1>10. \A o \in 1..Len(ks) : o # a => ks[o].until # Open0
    BY <1>2 DEF OneOpen
<1> QED BY <1>1, <1>3, <1>7, <1>9, <1>10 DEF Closes, Open0

\* A rotation closes the key that is open and adds its successor.
Succeeds(new, ks, at, declared) ==
    /\ new \in Seq(KeyEntries) /\ OneOpen(new)
    /\ Len(new) = IF Len(ks) = 0 THEN 2 ELSE Len(ks) + 1
    /\ \A o \in 1..Len(ks) : o # Active(ks) => new[o] = ks[o]
    /\ Active(ks) # 0 => new[Active(ks)].until = at /\ new[Active(ks)].from = ks[Active(ks)].from
    /\ \A o \in DOMAIN new : new[o].declared # Open0 =>
          (o = Len(new) /\ declared # Open0) \/ (o \in 1..Len(ks) /\ ks[o].declared # Open0)

LEMMA RotatedShape ==
    ASSUME NEW ks \in Seq(KeyEntries), OneOpen(ks), NEW at \in Nat \ {0}, NEW declared \in Nat
    PROVE  Succeeds(Rotated(ks, at, declared), ks, at, declared)
<1>1. Key(at, declared) \in KeyEntries /\ Key(Open0, Open0) \in KeyEntries
    BY DEF Key, KeyEntries, Open0
<1>2. PICK had : had = IF ks = << >> THEN <<Key(Open0, Open0)>> ELSE ks
    OBVIOUS
<1>3. had \in Seq(KeyEntries) /\ OneOpen(had)
    <2>1. CASE ks = << >>
        <3>1. had = <<Key(Open0, Open0)>>
            BY <1>2, <2>1
        <3>2. had \in Seq(KeyEntries) /\ DOMAIN had = {1}
            BY <1>1, <3>1
        <3> QED BY <3>2 DEF OneOpen
    <2>2. CASE ks # << >>
        BY <1>2, <2>2
    <2> QED BY <2>1, <2>2
<1>4. /\ Len(had) = IF ks = << >> THEN 1 ELSE Len(ks)
      /\ Len(ks) \in Nat /\ Len(had) \in Nat /\ (ks = << >> <=> Len(ks) = 0)
      /\ \A o \in 1..Len(ks) : had[o] = ks[o]
      /\ ks = << >> => had[1].declared = Open0
    BY <1>1, <1>2 DEF Key, Open0
<1>5. PICK shut : shut = IF Active(had) = 0 THEN had ELSE Cut(had, Active(had), at, "rotation")
    OBVIOUS
<1>6. /\ shut \in Seq(KeyEntries) /\ Len(shut) = Len(had)
      /\ \A o \in 1..Len(had) : shut[o].until # Open0
      /\ \A o \in 1..Len(had) : o # Active(had) => shut[o] = had[o]
      /\ Active(had) # 0 => /\ shut[Active(had)].until = at
                            /\ shut[Active(had)].from = had[Active(had)].from
                            /\ shut[Active(had)].declared = had[Active(had)].declared
    <2>1. CASE Active(had) = 0
        BY <1>3, <1>5, <2>1, ActiveIsOpen
    <2>2. CASE Active(had) # 0
        <3>1. "rotation" \in {"rotation", "revocation"}
            OBVIOUS
        <3>2. Closes(Cut(had, Active(had), at, "rotation"), had, at)
            BY <1>3, <2>2, <3>1, CutCloses, Zenon
        <3>3. Closes(shut, had, at)
            BY <1>5, <2>2, <3>2
        <3> QED BY <3>3 DEF Closes
    <2> QED BY <2>1, <2>2
<1>7. Rotated(ks, at, declared) = Append(shut, Key(at, declared))
    BY <1>2, <1>5 DEF Rotated
<1>8. PICK r : r = Append(shut, Key(at, declared))
    OBVIOUS
<1>9. /\ r \in Seq(KeyEntries) /\ Len(r) = Len(had) + 1 /\ DOMAIN r = 1..Len(had) + 1
      /\ \A o \in 1..Len(had) : r[o] = shut[o]
      /\ r[Len(had) + 1] = Key(at, declared)
    BY <1>1, <1>4, <1>6, <1>8
<1>10. OneOpen(r)
    BY <1>4, <1>6, <1>9 DEF OneOpen
<1>11. Active(ks) # 0 => Active(had) = Active(ks) /\ Active(ks) \in 1..Len(ks)
    <2>1. ks = << >> => Active(ks) = 0
        BY DEF Active
    <2>2. Active(ks) \in 0..Len(ks)
        BY ActiveIsOpen
    <2> QED BY <1>2, <1>4, <2>1, <2>2
<1>12. \A o \in 1..Len(ks) : o # Active(ks) => r[o] = ks[o]
    <2>1. CASE ks = << >>
        BY <1>4, <2>1
    <2>2. CASE ks # << >>
        <3>1. had = ks
            BY <1>2, <2>2
        <3> QED BY <1>4, <1>6, <1>9, <3>1
    <2> QED BY <2>1, <2>2
<1>13. ASSUME Active(ks) # 0
       PROVE  r[Active(ks)].until = at /\ r[Active(ks)].from = ks[Active(ks)].from
    <2>1. r[Active(ks)] = shut[Active(ks)] /\ had[Active(ks)] = ks[Active(ks)]
        BY <1>4, <1>9, <1>11, <1>13
    <2> QED BY <1>6, <1>11, <1>13, <2>1
<1>14. ASSUME NEW o \in DOMAIN r, r[o].declared # Open0
       PROVE  (o = Len(r) /\ declared # Open0) \/ (o \in 1..Len(ks) /\ ks[o].declared # Open0)
    <2>1. CASE o \in 1..Len(had)
        <3>1. had[o] \in KeyEntries
            BY <1>3, <2>1
        <3>2. shut[o].declared = had[o].declared
            <4>1. CASE o = Active(had)
                <5>1. Active(had) # 0
                    BY <1>4, <2>1, <4>1
                <5> QED BY <1>6, <4>1, <5>1
            <4>2. CASE o # Active(had)
                BY <1>6, <2>1, <4>2
            <4> QED BY <4>1, <4>2
        <3> QED BY <1>4, <1>9, <1>14, <2>1, <3>2
    <2>2. CASE o = Len(had) + 1
        BY <1>9, <1>14, <2>2 DEF Key
    <2> QED BY <1>4, <1>9, <1>14, <2>1, <2>2
<1>15. Len(r) = IF Len(ks) = 0 THEN 2 ELSE Len(ks) + 1
    BY <1>4, <1>9
<1>16. r = Rotated(ks, at, declared)
    BY <1>7, <1>8
<1> QED BY <1>9, <1>10, <1>12, <1>13, <1>14, <1>15, <1>16 DEF Succeeds

\* What a step does to the key index.
CutsKey(p) ==
    /\ Ready(p) /\ Job(p).do = "revoke" /\ Active(index) # 0
    /\ Conflicts(Store(p), Job(p).num, Job(p).at) = {}
    /\ index' = Cut(index, Active(index), Job(p).at, "revocation")
    /\ miscut' = IF Job(p).num = Active(index) THEN miscut ELSE miscut \cup {Active(index)}
Introduces(p, at) ==
    /\ \E declared \in Nat : index' = Rotated(index, at, declared)
    /\ miscut' = IF at < now THEN miscut \cup {Active(index)} ELSE miscut

LEMMA IndexMoves ==
    ASSUME RecordInv, [Next]_vars
    PROVE  \/ index' = index /\ miscut' = miscut
           \/ /\ miscut' = miscut /\ index = << >> /\ index' = <<Key(Open0, Open0)>>
              /\ \E p \in Running : Boot(p)
           \/ \E p \in Running :
                 /\ pc[p] \in Inside /\ Role(p) = "keys" /\ signs' = signs
                 /\ CutsKey(p) \/ \E at \in Nat \ {0} : Introduces(p, at)
<1> USE DEF disk, doorVars, recordVars
<1>0. plan \in Plans /\ NextTyped /\ now \in Nat \ {0} /\ Open0 \in Nat
    BY DEF RecordInv, DoorTyped, RolesInv, Open0
<1>1. Tick \/ UNCHANGED vars => index' = index /\ miscut' = miscut
    BY DEF Tick, vars
<1>2. ASSUME NEW q \in Running,
             Killed(q) \/ Publish(q) \/ Emitted(q) \/ Actuate(q) \/ Return(q) \/ AppendEntry(q)
                \/ AskRoot(q) \/ Enqueue(q) \/ Deliver(q) \/ Act(q) \/ Close(q) \/ RootRefuses(q)
      PROVE  index' = index /\ miscut' = miscut
    BY <1>2 DEF Killed, Publish, Emitted, Actuate, Return, AppendEntry, AskRoot, Enqueue, Deliver,
                Act, Close, RootRefuses
<1>3. ASSUME NEW p \in Running, Boot(p)
      PROVE  /\ miscut' = miscut
             /\ \/ index' = index
                \/ index = << >> /\ index' = <<Key(Open0, Open0)>>
    BY <1>3 DEF Boot
<1>4. ASSUME NEW p \in Running, RotateKey(p)
      PROVE  /\ pc[p] \in Inside /\ Role(p) = "keys" /\ signs' = signs
             /\ \E at \in Nat \ {0} : Introduces(p, at)
    <2>1. Ready(p) /\ Job(p).do = "rotate"
        BY <1>4 DEF RotateKey
    <2>2. Job(p).do \in JobsOf(Role(p)) /\ Job(p).at \in Nat
        BY <1>0, <2>1, JobFits
    <2>3. Role(p) = "keys"
        BY <2>1, <2>2 DEF JobsOf
    <2>4. Instant(p) \in Nat \ {0}
        BY <1>0, <2>2 DEF Instant
    <2>5. Introduces(p, Instant(p))
        BY <1>0, <1>4 DEF RotateKey, Introduces
    <2> QED BY <1>4, <2>1, <2>3, <2>4, <2>5 DEF RotateKey, Ready, Inside
<1>5. ASSUME NEW p \in Running, RootSigns(p)
      PROVE  /\ pc[p] \in Inside /\ Role(p) = "keys" /\ signs' = signs
             /\ \E at \in Nat \ {0} : Introduces(p, at)
    <2>1. pc[p] = "asked" /\ signs' = signs
        BY <1>5 DEF RootSigns
    <2>2. Role(p) = "keys" /\ Drafted(p).at \in Nat \ {0}
        BY <2>1 DEF RecordInv, RolesInv, Emitting
    <2>3. Drafted(p).at + Lifetime \in Nat
        BY <2>2, RecordAssumption DEF RecordAssumption
    <2>4. /\ index' = Rotated(index, Drafted(p).at, Drafted(p).at + Lifetime)
          /\ miscut' = IF Drafted(p).at < now THEN miscut \cup {Active(index)} ELSE miscut
        BY <1>5 DEF RootSigns, Drafted
    <2>5. Introduces(p, Drafted(p).at)
        BY <2>3, <2>4 DEF Introduces
    <2> QED BY <2>1, <2>2, <2>5 DEF Inside
<1>6. ASSUME NEW p \in Running, RevokeKey(p)
      PROVE  \/ index' = index /\ miscut' = miscut
             \/ pc[p] \in Inside /\ Role(p) = "keys" /\ signs' = signs /\ CutsKey(p)
    <2>1. Ready(p) /\ Job(p).do = "revoke" /\ signs' = signs
        BY <1>6 DEF RevokeKey
    <2>2. Job(p).do \in JobsOf(Role(p))
        BY <1>0, <2>1, JobFits
    <2>3. Role(p) = "keys"
        BY <2>1, <2>2 DEF JobsOf
    <2>4. (index' = index /\ miscut' = miscut) \/ CutsKey(p)
        BY <1>6, <2>1 DEF RevokeKey, CutsKey
    <2> QED BY <2>1, <2>3, <2>4 DEF Ready, Inside
<1>7. ASSUME NEW p \in Running,
             CutsKey(p) \/ \E at \in Nat \ {0} : Introduces(p, at),
             pc[p] \in Inside /\ Role(p) = "keys" /\ signs' = signs
      PROVE  \E q \in Running :
                 /\ pc[q] \in Inside /\ Role(q) = "keys" /\ signs' = signs
                 /\ CutsKey(q) \/ \E at \in Nat \ {0} : Introduces(q, at)
    BY <1>7
<1>8. CASE \E p \in Running : Boot(p)
    BY <1>3, <1>8
<1>9. CASE \E p \in Running : RotateKey(p) \/ RootSigns(p)
    BY <1>4, <1>5, <1>7, <1>9
<1>10. CASE \E p \in Running : RevokeKey(p)
    BY <1>6, <1>7, <1>10
<1> QED BY <1>1, <1>2, <1>8, <1>9, <1>10 DEF Next

LEMMA EntriesMove ==
    ASSUME RecordInv, [Next]_vars, NEW f \in DOMAIN content', NEW k \in DOMAIN content'[f].chain
    PROVE  \/ /\ f \in DOMAIN content /\ k \in DOMAIN content[f].chain
              /\ content'[f].chain[k] = content[f].chain[k]
           \/ /\ f \notin DOMAIN content /\ content'[f] = backup.db
              /\ \E p \in Running : CopyDb(p) /\ f = p
           \/ \E p \in Running :
                 /\ Appends(p) /\ handle[p] = f /\ f \in DOMAIN content
                 /\ k = Len(content[f].chain) + 1 /\ content'[f].chain[k] = Drafted(p)
<1>0. DoorTyped /\ MadeOnce /\ ChainInv
    BY DEF RecordInv
<1>1. CASE f \in DOMAIN content
    <2>1. content'[f].chain = content[f].chain \/ \E p \in Running : Appends(p) /\ handle[p] = f
        BY <1>0, <1>1, ChainsMove
    <2>2. CASE content'[f].chain = content[f].chain
        BY <1>1, <2>2
    <2>3. CASE \E p \in Running : Appends(p) /\ handle[p] = f
        <3>1. PICK p \in Running : Appends(p) /\ handle[p] = f
            BY <2>3
        <3>2. PICK c : c = content[f].chain
            OBVIOUS
        <3>3. \E S : c \in Seq(S)
            BY <1>0, <1>1, <3>2 DEF ChainInv, Sound, Unbroken
        <3>4. content'[f].chain = Append(c, Drafted(p))
            <4>1. IsStore(content[f])
                BY <1>0, <1>1 DEF ChainInv, Sound
            <4>2. PICK new : new = [content[f] EXCEPT !.chain = Append(c, Drafted(p))]
                OBVIOUS
            <4>3. content' = [content EXCEPT ![f] = new]
                BY <3>1, <3>2, <4>2 DEF Appends, Store
            <4>4. new.chain = Append(c, Drafted(p))
                BY <4>1, <4>2 DEF IsStore
            <4> QED BY <1>1, <4>3, <4>4
        <3>5. PICK S : c \in Seq(S)
            BY <3>3
        <3>6. c \in Seq(S \cup {Drafted(p)})
            BY <3>5
        <3>7. /\ DOMAIN Append(c, Drafted(p)) = 1..(Len(c) + 1)
              /\ \A j \in 1..Len(c) : Append(c, Drafted(p))[j] = c[j]
              /\ Append(c, Drafted(p))[Len(c) + 1] = Drafted(p)
              /\ Len(c) \in Nat /\ DOMAIN c = 1..Len(c)
            BY <3>6
        <3>8. CASE k \in 1..Len(c)
            BY <1>1, <3>2, <3>4, <3>7, <3>8
        <3>9. CASE k = Len(c) + 1
            BY <1>1, <3>1, <3>2, <3>4, <3>7, <3>9
        <3> QED BY <3>4, <3>7, <3>8, <3>9
    <2> QED BY <2>1, <2>2, <2>3
<1>2. CASE f \notin DOMAIN content
    <2>1. content'[f] = Empty \/ (content'[f] = backup.db /\ \E p \in Running : CopyDb(p) /\ f = p)
        BY <1>0, <1>2, FilesMove
    <2>2. content'[f] # Empty
        <3>1. Empty.chain = << >>
            BY DEF Empty
        <3>2. DOMAIN << >> = {}
            OBVIOUS
        <3> QED BY <3>1, <3>2
    <2> QED BY <1>2, <2>1, <2>2
<1> QED BY <1>1, <1>2

LEMMA CopiesMove ==
    ASSUME RecordInv, [Next]_vars
    PROVE  \/ backup'.db = backup.db
           \/ /\ db \in DOMAIN content /\ backup'.db = content[db] /\ backup = NoBackup
              /\ content' = content /\ \E p \in Running : Backup(p)
<1>1. backup' = backup \/ \E p \in Running : Backup(p)
    BY DoorMoves
<1>2. ASSUME NEW p \in Running, Backup(p)
      PROVE  \/ backup'.db = backup.db
             \/ db \in DOMAIN content /\ backup'.db = content[db] /\ backup = NoBackup /\ content' = content
    <2>1. content' = content /\ IsBackup(backup) /\ db \in DOMAIN content \cup {None}
        BY <1>2 DEF Backup, RecordInv, ChainInv
    <2>2. \/ backup' = backup
          \/ backup = NoBackup /\ db # None /\ backup' = [backup EXCEPT !.db = content[db], !.taken = TRUE]
          \/ backup' = [backup EXCEPT !.arts = dir]
          \/ backup' = [backup EXCEPT !.manifest = TRUE]
        BY <1>2, BackupMoves DEF RecordInv
    <2> QED BY <2>1, <2>2 DEF IsBackup
<1> QED BY <1>1, <1>2

\* Proofs embed votes of the past.
Dated(e) == e.says.kind = "proof" => e.says.at \in 0..now
VotesInv ==
    /\ \A f \in DOMAIN content : \A k \in DOMAIN content[f].chain : Dated(content[f].chain[k])
    /\ \A k \in DOMAIN backup.db.chain : Dated(backup.db.chain[k])
    /\ \A p \in Running : pc[p] \in Emitting => Dated(Drafted(p))

LEMMA VotesStep ==
    ASSUME RecordInv, VotesInv, [Next]_vars
    PROVE  VotesInv'
<1>0. now \in Nat /\ now' \in Nat /\ now <= now' /\ Running' = Running
    <2>1. now \in Nat \ {0} /\ plan' = plan
        BY DoorMoves DEF RecordInv, RolesInv
    <2>2. RecordInv'
        BY RecordStep
    <2>3. now' \in Nat \ {0}
        BY <2>2 DEF RecordInv, RolesInv
    <2>4. now' = now \/ now' = now + 1
        BY DEF Next, vars, recordVars, Tick, Killed, Publish, Emitted, Actuate, Return, AppendEntry,
               AskRoot, Enqueue, Deliver, Act, Close, RootRefuses, Boot, RotateKey, RootSigns, RevokeKey
    <2> QED BY <2>1, <2>3, <2>4 DEF Running
<1>1. ASSUME NEW e, Dated(e)
      PROVE  e.says.kind = "proof" => e.says.at \in 0..now'
    BY <1>0, <1>1 DEF Dated
<1>2. ASSUME NEW p \in Running, pc'[p] \in Emitting
      PROVE  Dated(Drafted(p))'
    <2>1. DoorTyped /\ NextTyped /\ ChainInv
        BY DEF RecordInv
    <2>2. CASE EmitsOn(p)
        <3>1. pc[p] \in Emitting /\ Drafted(p)' = Drafted(p)
            BY <2>2 DEF EmitsOn
        <3> QED BY <1>1, <3>1 DEF VotesInv, Dated
    <2>3. CASE \E says, to : DraftsAs(p, signs[p], now, says, to) /\ Serves(p, says)
        <3>1. PICK says, to : DraftsAs(p, signs[p], now, says, to) /\ Serves(p, says)
            BY <2>3
        <3>2. Drafted(p)'.says = says
            BY <3>1 DEF DraftsAs
        <3>3. says.kind = "proof" => says.at \in 0..now
            BY <3>1 DEF Serves, Says
        <3> QED BY <1>0, <3>2, <3>3 DEF Dated
    <2>4. CASE DraftsAs(p, 0, Instant(p), Says("delegation", None, Len(index) + 1, 0), {})
        <3>1. Drafted(p)'.says.kind = "delegation"
            BY <2>4 DEF DraftsAs, Says
        <3> QED BY <3>1 DEF Dated
    <2> QED BY <1>2, <2>1, <2>2, <2>3, <2>4, DraftsMove
<1>3. ASSUME NEW f \in DOMAIN content', NEW k \in DOMAIN content'[f].chain
      PROVE  Dated(content[f].chain[k])'
    <2>1. CASE f \in DOMAIN content /\ k \in DOMAIN content[f].chain
               /\ content'[f].chain[k] = content[f].chain[k]
        BY <1>1, <2>1 DEF VotesInv, Dated
    <2>2. CASE content'[f] = backup.db
        BY <1>1, <1>3, <2>2 DEF VotesInv, Dated
    <2>3. CASE \E p \in Running : Appends(p) /\ content'[f].chain[k] = Drafted(p)
        <3>1. PICK p \in Running : Appends(p) /\ content'[f].chain[k] = Drafted(p)
            BY <2>3
        <3>2. Dated(Drafted(p))
            BY <3>1 DEF Appends, VotesInv, Emitting
        <3> QED BY <1>1, <3>1, <3>2 DEF Dated
    <2> QED BY <1>3, <2>1, <2>2, <2>3, EntriesMove
<1>4. ASSUME NEW k \in DOMAIN backup'.db.chain
      PROVE  Dated(backup.db.chain[k])'
    BY <1>1, <1>4, CopiesMove DEF VotesInv, Dated
<1> QED BY <1>0, <1>2, <1>3, <1>4 DEF VotesInv

------------------------------------------------------------------------------
(* The key index *)

KeyInv ==
    /\ index \in Seq(KeyEntries) /\ OneOpen(index)
    /\ \A o \in miscut : o = 0 \/ (o \in 1..Len(index) /\ index[o].until # Open0)
    /\ \A p \in Running : /\ signs[p] \in 0..Len(index)
                          /\ pc[p] \notin Inside \cup {"gone"} => signs[p] = 0
    /\ raced = {} /\ swapped = {} => \A p \in Running :
          pc[p] \in Inside /\ signs[p] # 0 => index[signs[p]].until = Open0

\* What an operation on the index leaves of it.
LEMMA IndexGrows ==
    ASSUME RecordInv, KeyInv, [Next]_vars
    PROVE  /\ index' \in Seq(KeyEntries) /\ OneOpen(index') /\ Len(index) <= Len(index')
           /\ Len(index) \in Nat /\ Len(index') \in Nat
           /\ \A o \in 1..Len(index) : index'[o] = index[o] \/
                 /\ o = Active(index) /\ miscut' \subseteq miscut \cup {Active(index)}
                 /\ index'[o].until # Open0
           /\ miscut' \subseteq miscut \cup {Active(index)}
<1>0. index \in Seq(KeyEntries) /\ OneOpen(index) /\ Len(index) \in Nat
    BY DEF KeyInv
<1>1. CASE index' = index /\ miscut' = miscut
    BY <1>0, <1>1
<1>2. CASE miscut' = miscut /\ index = << >> /\ index' = <<Key(Open0, Open0)>>
    <2>1. Key(Open0, Open0) \in KeyEntries
        BY DEF Key, KeyEntries, Open0
    <2>2. index' \in Seq(KeyEntries) /\ Len(index') = 1 /\ DOMAIN index' = {1} /\ Len(index) = 0
        BY <1>2, <2>1
    <2> QED BY <1>2, <2>2 DEF OneOpen
<1>3. ASSUME NEW p \in Running, CutsKey(p)
      PROVE  /\ index' \in Seq(KeyEntries) /\ OneOpen(index') /\ Len(index) = Len(index')
             /\ \A o \in 1..Len(index) : index'[o] = index[o] \/
                   (o = Active(index) /\ index'[o].until # Open0)
             /\ miscut' \subseteq miscut \cup {Active(index)}
    <2>1. Active(index) # 0 /\ index' = Cut(index, Active(index), Job(p).at, "revocation")
        BY <1>3 DEF CutsKey
    <2>2. Job(p).at \in Nat \ {0}
        BY <1>3, JobFits DEF CutsKey, RecordInv, DoorTyped
    <2>3. "revocation" \in {"rotation", "revocation"}
        OBVIOUS
    <2>4. PICK at \in Nat \ {0} : at = Job(p).at
        BY <2>2
    <2>5. Closes(Cut(index, Active(index), at, "revocation"), index, at)
        BY <1>0, <2>1, <2>3, CutCloses, Zenon
    <2>6. Closes(index', index, at)
        BY <2>1, <2>4, <2>5
    <2>7. OneOpen(index')
        BY <2>6 DEF Closes, OneOpen
    <2> QED BY <1>3, <2>6, <2>7 DEF CutsKey, Closes
<1>4. ASSUME NEW p \in Running, NEW at \in Nat \ {0}, Introduces(p, at)
      PROVE  /\ index' \in Seq(KeyEntries) /\ OneOpen(index') /\ Len(index) <= Len(index')
             /\ \A o \in 1..Len(index) : index'[o] = index[o] \/
                   (o = Active(index) /\ index'[o].until # Open0)
             /\ miscut' \subseteq miscut \cup {Active(index)}
    <2>1. PICK declared \in Nat : index' = Rotated(index, at, declared)
        BY <1>4 DEF Introduces
    <2>2. Succeeds(index', index, at, declared)
        BY <1>0, <2>1, RotatedShape
    <2>3. ASSUME NEW o \in 1..Len(index), o = Active(index) PROVE index'[o].until # Open0
        <3>1. Active(index) # 0
            BY <1>0, <2>3
        <3> QED BY <2>2, <2>3, <3>1 DEF Succeeds, Open0
    <2>4. Len(index) <= Len(index')
        BY <1>0, <2>2 DEF Succeeds
    <2>5. index' \in Seq(KeyEntries) /\ OneOpen(index')
          /\ \A o \in 1..Len(index) : o # Active(index) => index'[o] = index[o]
        BY <2>2 DEF Succeeds
    <2>6. \A o \in 1..Len(index) :
              index'[o] = index[o] \/ (o = Active(index) /\ index'[o].until # Open0)
        BY <2>3, <2>5
    <2>7. miscut' \subseteq miscut \cup {Active(index)}
        BY <1>4 DEF Introduces
    <2> QED BY <2>4, <2>5, <2>6, <2>7
<1>5. CASE \E p \in Running : CutsKey(p) \/ \E at \in Nat \ {0} : Introduces(p, at)
    BY <1>0, <1>3, <1>4, <1>5
<1> QED BY <1>1, <1>2, <1>5, IndexMoves

\* Who signs with what, step by step.
LEMMA SignsMove ==
    ASSUME RecordInv, [Next]_vars, NEW p \in Running
    PROVE  \/ signs'[p] = signs[p]
           \/ /\ Boot(p) /\ signs'[p] = Loaded(index) /\ Loaded(index) # 0 /\ signs[p] = 0
              /\ index' = IF index = << >> THEN <<Key(Open0, Open0)>> ELSE index
<1>0. signs = [q \in Running |-> signs[q]]
    BY DEF RecordInv, NextTyped
<1>1. signs' = signs \/ \E q \in Running : Boot(q)
    BY DEF Next, vars, recordVars, Tick, Killed, Publish, Emitted, Actuate, Return, AppendEntry,
           AskRoot, Enqueue, Deliver, Act, Close, RootRefuses, RotateKey, RootSigns, RevokeKey
<1>2. ASSUME NEW q \in Running, Boot(q)
      PROVE  \/ signs' = signs
             \/ /\ signs' = [signs EXCEPT ![q] = Loaded(index)] /\ Loaded(index) # 0 /\ signs[q] = 0
                /\ index' = IF index = << >> THEN <<Key(Open0, Open0)>> ELSE index
    BY <1>2 DEF Boot
<1>3. ASSUME NEW q \in Running, Boot(q)
      PROVE  \/ signs'[p] = signs[p]
             \/ /\ Boot(p) /\ signs'[p] = Loaded(index) /\ Loaded(index) # 0 /\ signs[p] = 0
                /\ index' = IF index = << >> THEN <<Key(Open0, Open0)>> ELSE index
    BY <1>0, <1>2, <1>3
<1> QED BY <1>1, <1>3

LEMMA KeyStep ==
    ASSUME RecordInv, KeyInv, [Next]_vars
    PROVE  KeyInv'
<1>0. /\ plan' = plan /\ Running' = Running /\ raced \subseteq raced' /\ swapped \subseteq swapped'
      /\ DoorTyped /\ RolesInv /\ LockInv /\ DoorTyped'
    <2>1. RecordInv'
        BY RecordStep
    <2> QED BY <2>1, DoorMoves DEF RecordInv, Running
<1>1. /\ index' \in Seq(KeyEntries) /\ OneOpen(index') /\ Len(index) <= Len(index')
      /\ Len(index) \in Nat /\ Len(index') \in Nat
      /\ \A o \in 1..Len(index) : index'[o] = index[o] \/
            (o = Active(index) /\ index'[o].until # Open0)
      /\ miscut' \subseteq miscut \cup {Active(index)}
    BY IndexGrows
<1>2. Active(index) \in 0..Len(index)
    BY ActiveIsOpen DEF KeyInv
<1>3. ASSUME NEW o \in miscut'
      PROVE  o = 0 \/ (o \in 1..Len(index') /\ index'[o].until # Open0)
    <2>1. CASE miscut' = miscut
        BY <1>1, <1>3, <2>1 DEF KeyInv
    <2>2. CASE \E p \in Running : CutsKey(p) \/ \E at \in Nat \ {0} : Introduces(p, at)
        <3>1. CASE o \in miscut
            BY <1>1, <3>1 DEF KeyInv
        <3>2. CASE o = Active(index)
            <4>1. o = 0 \/ o \in 1..Len(index')
                BY <1>1, <1>2, <3>2
            <4>2. CASE o \in 1..Len(index)
                <5>1. CASE index'[o] = index[o]
                    <6>1. index[o].until # Open0
                        \* the step closes the key that is open
                        <7>1. PICK p \in Running : CutsKey(p) \/ \E at \in Nat \ {0} : Introduces(p, at)
                            BY <2>2
                        <7>2. CASE CutsKey(p)
                            <8>1. Job(p).at \in Nat \ {0}
                                BY <7>2, JobFits DEF CutsKey, RecordInv, DoorTyped
                            <8>2. "revocation" \in {"rotation", "revocation"}
                                OBVIOUS
                            <8>3. PICK at \in Nat \ {0} : at = Job(p).at
                                BY <8>1
                            <8>4. Active(index) # 0
                                BY <3>2, <4>2
                            <8>5. Closes(Cut(index, Active(index), at, "revocation"), index, at)
                                BY <8>2, <8>4, CutCloses, Zenon DEF KeyInv
                            <8>6. index' = Cut(index, Active(index), at, "revocation")
                                BY <7>2, <8>3 DEF CutsKey
                            <8> QED BY <4>2, <5>1, <8>5, <8>6 DEF Closes
                        <7>3. CASE \E at \in Nat \ {0} : Introduces(p, at)
                            <8>1. PICK at \in Nat \ {0}, declared \in Nat : index' = Rotated(index, at, declared)
                                BY <7>3 DEF Introduces
                            <8>2. Succeeds(index', index, at, declared)
                                BY <8>1, RotatedShape DEF KeyInv
                            <8>3. index'[o].until = at
                                BY <3>2, <4>2, <8>2 DEF Succeeds
                            <8> QED BY <5>1, <8>3 DEF Open0
                        <7> QED BY <7>1, <7>2, <7>3
                    <6> QED BY <4>1, <4>2, <5>1, <6>1
                <5>2. CASE index'[o].until # Open0
                    BY <4>1, <5>2
                <5> QED BY <1>1, <4>2, <5>1, <5>2
            <4> QED BY <1>2, <3>2, <4>2
        <3> QED BY <1>1, <1>3, <3>1, <3>2
    <2> QED BY <2>1, <2>2, IndexMoves
<1>4. ASSUME NEW p \in Running
      PROVE  /\ signs'[p] \in 0..Len(index')
             /\ Boot(p) /\ signs'[p] # signs[p] =>
                   signs'[p] \in 1..Len(index') /\ index'[signs'[p]].until = Open0
    <2>1. CASE signs'[p] = signs[p]
        BY <1>1, <2>1 DEF KeyInv
    <2>2. CASE /\ Boot(p) /\ signs'[p] = Loaded(index) /\ Loaded(index) # 0
               /\ index' = IF index = << >> THEN <<Key(Open0, Open0)>> ELSE index
        <3>1. CASE index = << >>
            <4>1. index' = <<Key(Open0, Open0)>> /\ signs'[p] = 1
                BY <2>2, <3>1 DEF Loaded
            <4>2. Len(index') = 1 /\ index'[1] = Key(Open0, Open0)
                BY <4>1
            <4> QED BY <4>1, <4>2 DEF Key
        <3>2. CASE index # << >>
            <4>1. index' = index /\ signs'[p] = Active(index) /\ Active(index) # 0
                BY <2>2, <3>2 DEF Loaded
            <4>2. index[Active(index)].until = Open0
                BY <4>1, ActiveIsOpen DEF KeyInv
            <4> QED BY <1>1, <1>2, <4>1, <4>2
        <3> QED BY <3>1, <3>2
    <2> QED BY <2>1, <2>2, SignsMove
<1>5. ASSUME raced' = {}, swapped' = {}, NEW p \in Running, pc'[p] \in Inside, signs'[p] # 0
      PROVE  index'[signs'[p]].until = Open0
    <2>0. raced = {} /\ swapped = {}
        BY <1>0, <1>5
    <2>1. CASE signs'[p] # signs[p]
        BY <1>4, <2>1, SignsMove
    <2>2. CASE signs'[p] = signs[p]
        <3>1. Role(p) = "serve"
            BY <1>0, <1>5, <2>2 DEF RolesInv
        <3>2. pc[p] \in Inside
            \* whoever comes in has loaded no key yet
            <4>1. CASE pc'[p] = pc[p]
                BY <1>5, <4>1
            <4>2. CASE Open(p) /\ UNCHANGED recordVars
                <5>1. MadeOnce /\ pc[p] = "claimed"
                    BY <4>2 DEF Open, RecordInv
                <5> QED BY <1>5, <2>2, <5>1 DEF KeyInv, Inside
            <4> QED BY <1>0, <1>5, <4>1, <4>2, PlacesMove
        <3>3. index[signs[p]].until = Open0 /\ signs[p] \in 1..Len(index)
            BY <1>5, <2>0, <2>2, <3>2 DEF KeyInv
        <3>4. CASE index' = index
            BY <2>2, <3>3, <3>4
        <3>5. CASE index = << >>
            <4>1. Len(index) = 0
                BY <3>5
            <4> QED BY <3>3, <4>1
        <3>6. CASE \E q \in Running : pc[q] \in Inside /\ Role(q) = "keys"
            <4>1. PICK q \in Running : pc[q] \in Inside /\ Role(q) = "keys"
                BY <3>6
            <4>2. lock = p /\ lock = q
                BY <1>0, <2>0, <3>2, <4>1 DEF LockInv
            <4> QED BY <3>1, <4>1, <4>2
        <3> QED BY <3>4, <3>5, <3>6, IndexMoves
    <2> QED BY <2>1, <2>2
<1>6. ASSUME NEW p \in Running, pc'[p] \notin Inside \cup {"gone"}
      PROVE  signs'[p] = 0
    <2>1. CASE signs'[p] # signs[p]
        <3>1. Boot(p) /\ signs' # signs
            BY <2>1, SignsMove
        <3>2. pc' = pc /\ pc[p] = "open"
            BY <3>1 DEF Boot
        <3> QED BY <1>6, <3>2 DEF Inside
    <2>2. CASE signs'[p] = signs[p]
        <3>1. CASE pc'[p] = pc[p]
            BY <1>6, <2>2, <3>1 DEF KeyInv
        <3>2. CASE pc'[p] # pc[p]
            <4>1. pc'[p] \in Places /\ pc'[p] \notin Inside \cup {"gone"} /\ pc'[p] # "new"
                BY <1>0, <1>6, <3>2, PlacesMove DEF DoorTyped
            <4>2. \/ Claim(p) \/ Look(p) \/ Restore(p) \/ Unlink(p) \/ Unlock(p) \/ CopyDb(p)
                  \/ CopyArtifacts(p) \/ Backup(p)
                BY <1>0, <3>2, <4>1, PlacesMove DEF Places, Inside
            <4>3. pc[p] \notin Inside \cup {"gone"}
                <5>1. CASE Backup(p)
                    BY <1>0, <3>2, <4>1, <5>1, BackupMoves DEF Inside
                <5>2. CASE ~Backup(p)
                    BY <4>2, <5>2 DEF Claim, Look, Restore, Starts, Unlink, Unlock, CopyDb, CopyArtifacts, Inside
                <5> QED BY <5>1, <5>2
            <4> QED BY <2>2, <4>3 DEF KeyInv
        <3> QED BY <3>1, <3>2
    <2> QED BY <2>1, <2>2
<1> QED BY <1>0, <1>1, <1>3, <1>4, <1>5, <1>6 DEF KeyInv

LEMMA KeysHold ==
    ASSUME RecordInv, WholeInv, VotesInv, KeyInv, [Next]_vars
    PROVE  /\ \A f \in DOMAIN content : RetiredKeyIsSilent(f)
           /\ \A e \in Entries(IF db = None THEN << >> ELSE content[db].chain, "proof") : StaysSigned(e)
<1>0. DoorTyped /\ ChainInv /\ MadeOnce /\ now \in Nat \ {0} /\ index \in Seq(KeyEntries) /\ OneOpen(index)
    BY DEF RecordInv, RolesInv, KeyInv
<1>1. ASSUME NEW f \in DOMAIN content, Len(content'[f].chain) > Len(content[f].chain),
             raced = {}, swapped = {}
      PROVE  LET key == Last(content'[f].chain).key IN key = 0 \/ index[key].until = Open0
    <2>1. PICK c : c = content[f].chain
        OBVIOUS
    <2>2. PICK S : c \in Seq(S)
        BY <1>0, <2>1 DEF ChainInv, Sound, Unbroken
    <2>3. c \in Seq(S) /\ Len(c) \in Nat /\ ~(Len(c) > Len(c))
        BY <2>2
    <2>4. PICK p \in Running : Appends(p) /\ handle[p] = f
        BY <1>0, <1>1, <2>1, <2>3, ChainsMove
    <2>5. content'[f].chain = Append(c, Drafted(p))
        <3>1. IsStore(content[f])
            BY <1>0 DEF ChainInv, Sound
        <3>2. PICK new : new = [content[f] EXCEPT !.chain = Append(c, Drafted(p))]
            OBVIOUS
        <3>3. content' = [content EXCEPT ![f] = new]
            BY <2>1, <2>4, <3>2 DEF Appends, Store
        <3>4. new.chain = Append(c, Drafted(p))
            BY <3>1, <3>2 DEF IsStore
        <3> QED BY <3>3, <3>4
    <2>6. Last(Append(c, Drafted(p))) = Drafted(p)
        <3>1. c \in Seq(S \cup {Drafted(p)})
            BY <2>2
        <3> QED BY <3>1 DEF Last
    <2>7. pc[p] = "drafted"
        BY <2>4 DEF Appends
    <2>8. Drafted(p).key = 0 \/ (signs[p] # 0 /\ Drafted(p).key = signs[p])
        BY <2>7 DEF RecordInv, RolesInv, Emitting
    <2>9. signs[p] # 0 => index[signs[p]].until = Open0
        BY <1>1, <2>7 DEF KeyInv, Inside
    <2> QED BY <2>5, <2>6, <2>8, <2>9
<1>2. ASSUME NEW f \in DOMAIN content PROVE RetiredKeyIsSilent(f)
    BY <1>1 DEF RetiredKeyIsSilent
<1>3. ASSUME swapped = {}, NEW e \in Entries(content["first"].chain, "proof"),
             NEW o, NEW at, o = e.says.num, at = e.says.at, Covers(index, o, at)
      PROVE  Covers(index', o, at) \/ miscut' # miscut
    <2>0. /\ o \in 1..Len(index) /\ index[o] \in KeyEntries /\ at \in 0..now
          /\ index[o].from <= at /\ DOMAIN content = {"first"}
        <3>1. PICK k \in DOMAIN content["first"].chain :
                  content["first"].chain[k] = e /\ e.says.kind = "proof"
            BY DEF Entries
        <3>2. DOMAIN content = {"first"}
            BY <1>3 DEF WholeInv
        <3>3. Dated(e)
            BY <3>1, <3>2 DEF VotesInv
        <3>4. o \in DOMAIN index /\ index[o].from <= at
            BY <1>3 DEF Covers
        <3> QED BY <1>0, <1>3, <3>1, <3>2, <3>3, <3>4 DEF Dated
    <2>1. CASE index' = index
        BY <1>3, <2>1
    <2>2. CASE index = << >>
        <3>1. Len(index) = 0
            BY <2>2
        <3> QED BY <2>0, <3>1
    <2>3. Active(index) # 0 => Active(index) \notin miscut
        <3>1. Active(index) # 0 => index[Active(index)].until = Open0
            BY <1>0, ActiveIsOpen
        <3> QED BY <3>1 DEF KeyInv
    <2>4. ASSUME o \in 1..Len(index'), index'[o] = index[o] PROVE Covers(index', o, at)
        <3>1. o \in DOMAIN index'
            BY <2>4, IndexGrows
        <3> QED BY <1>3, <2>4, <3>1 DEF Covers
    <2>5. ASSUME NEW until \in Nat \ {0}, index'[o].until = until, index'[o].from = index[o].from,
                 at <= until, o \in DOMAIN index'
          PROVE  Covers(index', o, at)
        BY <2>0, <2>5 DEF Covers, Open0
    <2>6. o \in DOMAIN index' /\ o \in 1..Len(index')
        <3>1. index' \in Seq(KeyEntries) /\ Len(index) <= Len(index') /\ Len(index) \in Nat /\ Len(index') \in Nat
            BY IndexGrows
        <3> QED BY <2>0, <3>1
    <2>7. ASSUME NEW p \in Running, CutsKey(p)
          PROVE  Covers(index', o, at) \/ miscut' # miscut
        <3>1. Active(index) # 0 /\ index' = Cut(index, Active(index), Job(p).at, "revocation")
            BY <2>7 DEF CutsKey
        <3>2. PICK since \in Nat \ {0} : since = Job(p).at
            BY <2>7, JobFits DEF CutsKey, RecordInv, DoorTyped
        <3>3. "revocation" \in {"rotation", "revocation"}
            OBVIOUS
        <3>4. Closes(Cut(index, Active(index), since, "revocation"), index, since)
            BY <1>0, <3>1, <3>3, CutCloses, Zenon
        <3>5. CASE o # Active(index)
            <4>1. index'[o] = index[o]
                BY <2>0, <3>1, <3>2, <3>4, <3>5 DEF Closes
            <4> QED BY <2>4, <2>6, <4>1
        <3>6. CASE o = Active(index) /\ Job(p).num = o
            <4>1. e \notin Conflicts(Store(p), Job(p).num, Job(p).at)
                BY <2>7 DEF CutsKey
            <4>2. Store(p) = content["first"]
                <5>1. handle[p] # None /\ handle[p] \in DOMAIN content
                    BY <1>0, <2>7 DEF CutsKey, Ready, DoorTyped, ChainInv, Inside
                <5> QED BY <2>0, <5>1 DEF Store
            <4>3. ~(since <= at)
                BY <1>3, <3>2, <3>6, <4>1, <4>2 DEF Conflicts
            <4>4. at <= since
                BY <1>0, <2>0, <4>3
            <4>5. index'[o].until = since /\ index'[o].from = index[o].from
                BY <3>1, <3>2, <3>4, <3>6 DEF Closes
            <4> QED BY <2>5, <2>6, <4>4, <4>5
        <3>7. CASE o = Active(index) /\ Job(p).num # o
            <4>1. miscut' = miscut \cup {Active(index)}
                BY <2>7, <3>7 DEF CutsKey
            <4> QED BY <2>3, <3>1, <4>1
        <3> QED BY <3>5, <3>6, <3>7
    <2>8. ASSUME NEW p \in Running, NEW when \in Nat \ {0}, Introduces(p, when)
          PROVE  Covers(index', o, at) \/ miscut' # miscut
        <3>1. PICK declared \in Nat : index' = Rotated(index, when, declared)
            BY <2>8 DEF Introduces
        <3>2. Succeeds(index', index, when, declared)
            BY <1>0, <3>1, RotatedShape
        <3>3. CASE o # Active(index)
            <4>1. index'[o] = index[o]
                BY <2>0, <3>2, <3>3 DEF Succeeds
            <4> QED BY <2>4, <2>6, <4>1
        <3>4. CASE o = Active(index)
            <4>1. Active(index) # 0
                BY <2>0, <3>4
            <4>2. index'[o].until = when /\ index'[o].from = index[o].from
                BY <3>2, <3>4, <4>1 DEF Succeeds
            <4>3. CASE when < now
                BY <2>3, <2>8, <4>1, <4>3 DEF Introduces
            <4>4. CASE ~(when < now)
                <5>1. at <= when
                    BY <1>0, <2>0, <4>4
                <5> QED BY <2>5, <2>6, <4>2, <5>1
            <4> QED BY <4>3, <4>4
        <3> QED BY <3>3, <3>4
    <2> QED BY <2>1, <2>2, <2>7, <2>8, IndexMoves
<1>4. ASSUME NEW e \in Entries(IF db = None THEN << >> ELSE content[db].chain, "proof")
      PROVE  StaysSigned(e)
    <2>1. CASE swapped # {}
        BY <2>1 DEF StaysSigned
    <2>2. CASE swapped = {}
        <3>1. db = "first" /\ db # None
            BY <2>2 DEF WholeInv, None
        <3>2. e \in Entries(content["first"].chain, "proof")
            BY <1>4, <3>1
        <3> QED BY <1>3, <2>2, <3>2 DEF StaysSigned
    <2> QED BY <2>1, <2>2
<1> QED BY <1>2, <1>4

KeysInv == WholeInv /\ VotesInv /\ KeyInv

LEMMA KeysInit == Init => KeysInv
<1> SUFFICES ASSUME Init PROVE KeysInv
    OBVIOUS
<1>1. WholeInv
    BY DEF Init, DoorInit, Running, WholeInv, Restoring, Emitting, Named, NoBackup, Empty
<1>2. VotesInv
    BY DEF Init, DoorInit, Running, VotesInv, Emitting, NoBackup, Empty
<1>3. KeyInv
    <2>1. index = << >> /\ signs = [p \in Running |-> 0] /\ miscut = {}
        BY DEF Init, DoorInit, Running
    <2>2. index \in Seq(KeyEntries) /\ Len(index) = 0 /\ DOMAIN index = {}
        BY <2>1
    <2> QED BY <2>1, <2>2 DEF KeyInv, OneOpen
<1> QED BY <1>1, <1>2, <1>3 DEF KeysInv

LEMMA KeysInvStands == Spec => [](RecordInv /\ KeysInv)
<1>1. Init => RecordInv /\ KeysInv
    BY RecordInit, KeysInit
<1>2. (RecordInv /\ KeysInv) /\ [Next]_vars => (RecordInv /\ KeysInv)'
    BY RecordStep, WholeStep, VotesStep, KeyStep DEF KeysInv, RecordInv
<1> QED BY <1>1, <1>2, PTL DEF Spec

\* Nothing is signed with a key after it was retired, and no key operation puts a vote
\* that a proof on the record embeds outside its key's interval, but for the exceptions
\* the property names: whatever the processes, their commands and the kills.
THEOREM KeysStand == Spec => KeysKeepTheirWord
<1>1. RecordInv /\ KeysInv /\ [Next]_vars =>
          [/\ \A f \in DOMAIN content : RetiredKeyIsSilent(f)
           /\ \A e \in Entries(IF db = None THEN << >> ELSE content[db].chain, "proof") :
                 StaysSigned(e)]_vars
    BY KeysHold DEF KeysInv
<1> QED BY <1>1, KeysInvStands, PTL DEF Spec, KeysKeepTheirWord

LEMMA AppendsChain ==
    ASSUME RecordInv, NEW p \in Running, Appends(p)
    PROVE  /\ handle[p] \in DOMAIN content /\ DOMAIN content' = DOMAIN content
           /\ content'[handle[p]].chain = Append(Store(p).chain, Drafted(p))
           /\ content'[handle[p]].queue = Store(p).queue
           /\ \A f \in DOMAIN content : f # handle[p] => content'[f] = content[f]
           /\ Len(Append(Store(p).chain, Drafted(p))) = Len(Store(p).chain) + 1
           /\ \A k \in 1..Len(Store(p).chain) :
                 Append(Store(p).chain, Drafted(p))[k] = Store(p).chain[k]
           /\ Append(Store(p).chain, Drafted(p))[Len(Store(p).chain) + 1] = Drafted(p)
           /\ Len(Store(p).chain) \in Nat /\ DOMAIN Store(p).chain = 1..Len(Store(p).chain)
           /\ DOMAIN Append(Store(p).chain, Drafted(p)) = 1..(Len(Store(p).chain) + 1)
<1>1. handle[p] \in DOMAIN content
    BY DEF RecordInv, DoorTyped, ChainInv, Appends, Inside
<1>2. IsStore(content[handle[p]]) /\ Unbroken(content[handle[p]].chain)
    BY <1>1 DEF RecordInv, ChainInv, Sound
<1>3. PICK c : c = Store(p).chain
    OBVIOUS
<1>4. PICK S : c \in Seq(S)
    BY <1>2, <1>3 DEF Unbroken, Store
<1>5. c \in Seq(S \cup {Drafted(p)})
    BY <1>4
<1>6. PICK new : new = [Store(p) EXCEPT !.chain = Append(c, Drafted(p))]
    OBVIOUS
<1>7. new.chain = Append(c, Drafted(p)) /\ new.queue = Store(p).queue
    BY <1>2, <1>6 DEF IsStore, Store
<1>8. content' = [content EXCEPT ![handle[p]] = new]
    BY <1>3, <1>6 DEF Appends
<1>9. /\ Len(Append(c, Drafted(p))) = Len(c) + 1
      /\ \A k \in 1..Len(c) : Append(c, Drafted(p))[k] = c[k]
      /\ Append(c, Drafted(p))[Len(c) + 1] = Drafted(p)
      /\ Len(c) \in Nat /\ DOMAIN c = 1..Len(c)
      /\ DOMAIN Append(c, Drafted(p)) = 1..(Len(c) + 1)
    BY <1>5
<1> QED BY <1>1, <1>3, <1>7, <1>8, <1>9

\* Where the lock was not raced and no restore has begun, one process at most is inside.
LEMMA Alone ==
    ASSUME RecordInv, raced = {}, swapped = {}, NEW p \in Running, NEW q \in Running,
           pc[p] \in Inside, pc[q] \in Inside
    PROVE  p = q
BY DEF RecordInv, LockInv

------------------------------------------------------------------------------
(* Types *)

TypesInv ==
    /\ DOMAIN content \subseteq Files /\ lock \in Running \cup {None}
    /\ kills \in 0..MaxKills /\ raced \subseteq Running /\ swapped \subseteq Running
    /\ now \in 1..MaxNow /\ world \in [Acts -> Nat] /\ crowded \subseteq Acts

LEMMA TypesStep ==
    ASSUME RecordInv, TypesInv, [Next]_vars
    PROVE  TypesInv'
<1>0. plan' = plan /\ Running' = Running /\ Running \subseteq Files /\ MaxKills \in Nat /\ MaxNow \in Nat
    BY DoorMoves, Names, DoorAssumption, RecordAssumption
       DEF RecordInv, DoorTyped, Running, DoorAssumption, RecordAssumption
<1>1. DOMAIN content' \subseteq Files
    <2>1. ASSUME NEW f \in DOMAIN content' PROVE f \in Files
        BY <1>0, FilesMove DEF RecordInv, TypesInv
    <2> QED BY <2>1
<1>2. lock' \in Running' \cup {None}
    BY <1>0, LockMoves DEF TypesInv
<1>3. kills' \in 0..MaxKills
    <2>1. kills' = kills \/ \E p \in Running : Killed(p)
        BY DoorMoves
    <2>2. ASSUME NEW p \in Running, Killed(p) PROVE kills' \in 0..MaxKills
        BY <1>0, <2>2 DEF Killed, Kill, TypesInv
    <2> QED BY <2>1, <2>2 DEF TypesInv
<1>4. raced' \subseteq Running
    <2>1. ASSUME NEW p \in Running, Claim(p) \/ Open(p) PROVE raced' \subseteq Running
        BY <2>1 DEF Claim, Open, TypesInv
    <2>2. raced' = raced \/ \E p \in Running : Claim(p) \/ Open(p)
        BY DEF Next, vars, doorVars, disk, recordVars, Tick, Look, Killed, Kill, Backup, Restore, Unlink,
               Unlock, CopyDb, CopyArtifacts, MarkPoint, Publish, Emitted, Actuate, Return, AppendEntry,
               AskRoot, Enqueue, Deliver, Act, Close, RootRefuses, Boot, RotateKey, RootSigns, RevokeKey
    <2> QED BY <2>1, <2>2 DEF TypesInv
<1>5. swapped' \subseteq Running
    BY DoorMoves DEF TypesInv
<1>6. now' \in 1..MaxNow
    <2>1. now' = now \/ (Tick /\ now' = now + 1)
        BY DEF Next, vars, recordVars, Tick, Killed, Publish, Emitted, Actuate, Return, AppendEntry,
               AskRoot, Enqueue, Deliver, Act, Close, RootRefuses, Boot, RotateKey, RootSigns, RevokeKey
    <2> QED BY <1>0, <2>1 DEF TypesInv, Tick
<1>7. world' \in [Acts -> Nat]
    <2>1. world' = world \/ \E p \in Running : Act(p)
        BY DEF Next, vars, recordVars, Tick, Killed, Publish, Emitted, Actuate, Return, AppendEntry,
               AskRoot, Enqueue, Deliver, Close, RootRefuses, Boot, RotateKey, RootSigns, RevokeKey
    <2>2. ASSUME NEW p \in Running, Act(p) PROVE world' \in [Acts -> Nat]
        <3>1. PICK c \in calls[p], done \in {0, 1} : world' = [world EXCEPT ![c.intent.says.of] = @ + done]
            BY <2>2 DEF Act
        <3>2. c.intent.says.of \in Acts
            BY DEF RecordInv, RolesInv
        <3>3. PICK a \in Acts : a = c.intent.says.of
            BY <3>2
        <3>4. world' = [world EXCEPT ![a] = world[a] + done]
            BY <3>1, <3>3
        <3>5. world[a] + done \in Nat
            BY DEF TypesInv
        <3> QED BY <3>4, <3>5 DEF TypesInv
    <2> QED BY <2>1, <2>2 DEF TypesInv
<1>8. crowded' \subseteq Acts
    <2>1. crowded' = crowded \/ \E p \in Running : Emitted(p) \/ Actuate(p)
        BY DEF Next, vars, recordVars, Tick, Killed, Publish, Return, AppendEntry,
               AskRoot, Enqueue, Deliver, Act, Close, RootRefuses, Boot, RotateKey, RootSigns, RevokeKey
    <2>2. ASSUME NEW p \in Running, NEW intent, Call(p, intent), intent.says.of \in Acts
          PROVE  crowded' \subseteq Acts
        BY <2>2 DEF Call, TypesInv
    <2>3. ASSUME NEW p \in Running, Emitted(p) PROVE crowded' \subseteq Acts
        <3>1. CASE crowded' = crowded
            BY <3>1 DEF TypesInv
        <3>2. CASE Drafted(p).says.kind = "intent" /\ Call(p, Drafted(p))
            <4>1. pc[p] \in Emitting
                BY <2>3 DEF Emitted, Emitting
            <4>2. Drafted(p).says.of \in Acts
                BY <3>2, <4>1 DEF RecordInv, RolesInv
            <4> QED BY <2>2, <3>2, <4>2
        <3> QED BY <2>3, <3>1, <3>2 DEF Emitted, Drafted
    <2>4. ASSUME NEW p \in Running, Actuate(p) PROVE crowded' \subseteq Acts
        <3>1. Ready(p) /\ Job(p).do = "act"
            BY <2>4 DEF Actuate
        <3>2. Job(p).of \in Acts
            BY <3>1, JobFits DEF RecordInv, DoorTyped
        <3>3. \/ crowded' = crowded
              \/ \E intent \in IntentsFor(Store(p).chain, Job(p).of) : Call(p, intent)
            BY <2>4 DEF Actuate
        <3>4. \A intent \in IntentsFor(Store(p).chain, Job(p).of) : intent.says.of \in Acts
            BY <3>2 DEF IntentsFor
        <3> QED BY <2>2, <3>3, <3>4 DEF TypesInv
    <2> QED BY <2>1, <2>3, <2>4 DEF TypesInv
<1> QED BY <1>0, <1>1, <1>2, <1>3, <1>4, <1>5, <1>6, <1>7, <1>8 DEF TypesInv

------------------------------------------------------------------------------
(* An action is announced once *)

\* A chain with one intent at most per action.
Single(c) ==
    \A j, k \in DOMAIN c :
        /\ c[j].says.kind = "intent" /\ c[k].says.kind = "intent"
        /\ c[j].says.of = c[k].says.of
        => j = k

IntentInv ==
    /\ \A f \in DOMAIN content : Single(content[f].chain)
    /\ Single(backup.db.chain)
    /\ \A p \in Running :
          /\ pc[p] = "drafted" /\ Drafted(p).says.kind = "intent"
          /\ Drafted(p).seq = Len(Store(p).chain) + 1
          => IntentsFor(Store(p).chain, Drafted(p).says.of) = {}

LEMMA IntentStep ==
    ASSUME RecordInv, IntentInv, [Next]_vars
    PROVE  IntentInv'
<1>0. DoorTyped /\ MadeOnce /\ ChainInv /\ NextTyped /\ plan' = plan /\ Running' = Running
    BY DoorMoves DEF RecordInv, Running
<1>1. ASSUME NEW f \in DOMAIN content' PROVE Single(content'[f].chain)
    <2>1. CASE f \notin DOMAIN content
        <3>1. Single(Empty.chain)
            BY DEF Single, Empty
        <3> QED BY <1>0, <2>1, <3>1, FilesMove DEF IntentInv
    <2>2. CASE f \in DOMAIN content /\ content'[f].chain = content[f].chain
        BY <2>2 DEF IntentInv
    <2>3. ASSUME f \in DOMAIN content, NEW p \in Running, Appends(p), handle[p] = f
          PROVE  Single(content'[f].chain)
        <3>1. PICK c : c = Store(p).chain
            OBVIOUS
        <3>2. PICK d : d = Append(c, Drafted(p))
            OBVIOUS
        <3>3. /\ \A k \in 1..Len(c) : d[k] = c[k]
              /\ d[Len(c) + 1] = Drafted(p) /\ DOMAIN d = 1..(Len(c) + 1)
              /\ Len(c) \in Nat /\ DOMAIN c = 1..Len(c) /\ content'[f].chain = d
            BY <2>3, <3>1, <3>2, AppendsChain
        <3>4. Single(c)
            BY <2>3, <3>1 DEF IntentInv, Store
        <3>5. Drafted(p).says.kind = "intent" =>
                  \A k \in 1..Len(c) : ~(c[k].says.kind = "intent" /\ c[k].says.of = Drafted(p).says.of)
            <4>1. pc[p] = "drafted" /\ Drafted(p).seq = Len(Store(p).chain) + 1
                BY <2>3 DEF Appends
            <4>2. Drafted(p).says.kind = "intent" => IntentsFor(c, Drafted(p).says.of) = {}
                BY <3>1, <4>1 DEF IntentInv
            <4> QED BY <3>3, <4>2 DEF IntentsFor, Entries
        <3>6. Single(d)
            BY <3>3, <3>4, <3>5 DEF Single
        <3> QED BY <3>3, <3>6
    <2> QED BY <1>0, <2>1, <2>2, <2>3, ChainsMove
<1>2. Single(backup'.db.chain)
    BY CopiesMove DEF IntentInv
<1>3. ASSUME NEW p \in Running, pc'[p] = "drafted", Drafted(p)'.says.kind = "intent",
             Drafted(p)'.seq = Len(content'[handle'[p]].chain) + 1
      PROVE  IntentsFor(content'[handle'[p]].chain, Drafted(p)'.says.of) = {}
    <2>1. CASE EmitsOn(p)
        <3>1. pc[p] = "drafted" /\ handle'[p] = handle[p] /\ Drafted(p)' = Drafted(p)
            <4>1. ~Appends(p)
                BY <1>0, <1>3 DEF Appends, DoorTyped
            <4>2. ~RootSigns(p)
                \* a root signs a delegation
                <5>1. RootSigns(p) => pc[p] = "asked"
                    BY DEF RootSigns
                <5>2. pc[p] = "asked" => Drafted(p).says.kind = "delegation"
                    BY DEF RecordInv, RolesInv, Emitting
                <5> QED BY <1>3, <2>1, <5>1, <5>2 DEF EmitsOn
            <4> QED BY <1>3, <2>1, <4>1, <4>2 DEF EmitsOn
        <3>2. handle[p] \in DOMAIN content
            BY <1>0, <3>1 DEF DoorTyped, ChainInv, Inside
        <3>3. CASE content'[handle[p]].chain = content[handle[p]].chain
            BY <1>3, <3>1, <3>3 DEF IntentInv, Store
        <3>4. ASSUME NEW q \in Running, Appends(q), handle[q] = handle[p]
              PROVE  FALSE
            \* the number it was given is taken
            <4>1. PICK c : c = Store(p).chain
                OBVIOUS
            <4>2. /\ content'[handle[p]].chain = Append(c, Drafted(q))
                  /\ Len(Append(c, Drafted(q))) = Len(c) + 1 /\ Len(c) \in Nat
                BY <3>4, <4>1, AppendsChain DEF Store
            <4>3. Fits(Drafted(p), c)
                BY <1>0, <3>1, <4>1 DEF ChainInv, DraftsFit, Store, Drafted
            <4>4. Drafted(p).seq \in 1..(Len(c) + 1)
                BY <4>3 DEF Fits
            <4> QED BY <1>3, <3>1, <4>2, <4>4
        <3> QED BY <1>0, <3>2, <3>3, <3>4, ChainsMove
    <2>2. CASE \E says, to : DraftsAs(p, signs[p], now, says, to) /\ Serves(p, says)
        <3>1. PICK says, to : DraftsAs(p, signs[p], now, says, to) /\ Serves(p, says)
            BY <2>2
        <3>2. Drafted(p)'.says = says /\ UNCHANGED <<content, handle>>
            BY <3>1 DEF DraftsAs
        <3>3. IntentsFor(Store(p).chain, says.of) = {}
            <4>1. says.kind = "intent"
                BY <1>3, <3>2
            <4> QED BY <3>1, <4>1 DEF Serves, Says
        <3> QED BY <3>2, <3>3 DEF Store
    <2>3. CASE pc'[p] = "asked"
        BY <1>3, <2>3
    <2>4. pc'[p] \in Emitting
        BY <1>3 DEF Emitting
    <2> QED BY <1>0, <2>1, <2>2, <2>3, <2>4, DraftsMove
<1> QED BY <1>0, <1>1, <1>2, <1>3 DEF IntentInv, Store

LEMMA IntentsHold ==
    ASSUME RecordInv, IntentInv
    PROVE  IntentOnce
<1> SUFFICES ASSUME NEW f \in DOMAIN content, NEW a \in Acts
             PROVE  Cardinality(IntentsFor(content[f].chain, a)) <= 1
    BY DEF IntentOnce
<1>1. PICK I : I = IntentsFor(content[f].chain, a)
    OBVIOUS
<1>2. ASSUME NEW d \in I, NEW e \in I PROVE d = e
    BY <1>1, <1>2 DEF IntentInv, Single, IntentsFor, Entries
<1>3. CASE I = {}
    BY <1>1, <1>3, FS_EmptySet
<1>4. CASE I # {}
    <2>1. PICK d \in I : TRUE
        BY <1>4
    <2>2. I = {d}
        BY <1>2, <2>1
    <2>3. Cardinality({d}) = 1
        BY FS_Singleton
    <2> QED BY <1>1, <2>2, <2>3
<1> QED BY <1>3, <1>4

------------------------------------------------------------------------------
(* A key a root introduced has its delegation *)

Whole == raced = {} /\ swapped = {}

HeadInv ==
    Whole => \A p \in Running : pc[p] \in {"drafted", "asked"} =>
                 Drafted(p).seq = Len(Store(p).chain) + 1

LEMMA HeadStep ==
    ASSUME RecordInv, HeadInv, [Next]_vars
    PROVE  HeadInv'
<1>0. /\ DoorTyped /\ MadeOnce /\ ChainInv /\ NextTyped /\ plan' = plan /\ Running' = Running
      /\ raced \subseteq raced' /\ swapped \subseteq swapped'
    BY DoorMoves DEF RecordInv, Running
<1> SUFFICES ASSUME raced' = {}, swapped' = {}, NEW p \in Running, pc'[p] \in {"drafted", "asked"}
             PROVE  Drafted(p)'.seq = Len(content'[handle'[p]].chain) + 1
    BY <1>0 DEF HeadInv, Whole, Store
<1>1. raced = {} /\ swapped = {}
    BY <1>0
<1>2. pc'[p] \in Emitting
    BY DEF Emitting
<1>3. CASE EmitsOn(p)
    <2>1. ~Appends(p)
        BY <1>0 DEF Appends, DoorTyped
    <2>2. pc[p] \in {"drafted", "asked"} /\ handle'[p] = handle[p] /\ Drafted(p)' = Drafted(p)
        BY <1>3, <2>1 DEF EmitsOn, RootSigns
    <2>3. handle[p] \in DOMAIN content
        BY <1>0, <2>2 DEF DoorTyped, ChainInv, Inside
    <2>4. content'[handle[p]].chain = content[handle[p]].chain
        <3>1. ASSUME NEW q \in Running, Appends(q) PROVE FALSE
            <4>1. pc[q] \in Inside /\ pc[p] \in Inside
                BY <2>2, <3>1 DEF Appends, Inside
            <4>2. q = p
                BY <1>1, <4>1, Alone
            <4> QED BY <2>1, <3>1, <4>2
        <3> QED BY <1>0, <2>3, <3>1, ChainsMove
    <2> QED BY <1>1, <2>2, <2>4 DEF HeadInv, Whole, Store
<1>4. CASE \E says, to : DraftsAs(p, signs[p], now, says, to)
    BY <1>4 DEF DraftsAs, NextSeq, Store
<1>5. CASE DraftsAs(p, 0, Instant(p), Says("delegation", None, Len(index) + 1, 0), {})
    BY <1>5 DEF DraftsAs, NextSeq, Store
<1> QED BY <1>0, <1>2, <1>3, <1>4, <1>5, DraftsMove

\* The ordinal a delegation names, and the one it is for.
ForOrdinal(e, o) == e.says.kind = "delegation" /\ (e.says.num = o \/ (e.says.num = 1 /\ o = 2))

DelegInv ==
    Whole /\ kills = 0 =>
        /\ \A p \in Running : pc[p] = "asked" => Drafted(p).says.num = Len(index) + 1
        /\ \A o \in DOMAIN index : index[o].declared # Open0 =>
              \/ \E k \in DOMAIN content["first"].chain : ForOrdinal(content["first"].chain[k], o)
              \/ \E p \in Running : pc[p] = "drafted" /\ Role(p) = "keys" /\ ForOrdinal(Drafted(p), o)

LEMMA DelegStep ==
    ASSUME RecordInv, WholeInv, KeyInv, HeadInv, DelegInv, [Next]_vars
    PROVE  DelegInv'
<1>0. /\ DoorTyped /\ MadeOnce /\ ChainInv /\ NextTyped /\ plan' = plan /\ Running' = Running
      /\ raced \subseteq raced' /\ swapped \subseteq swapped' /\ kills \in Nat
      /\ index \in Seq(KeyEntries) /\ OneOpen(index) /\ Len(index) \in Nat
    BY DoorMoves DEF RecordInv, Running, KeyInv
<1> SUFFICES ASSUME raced' = {}, swapped' = {}, kills' = 0
             PROVE  /\ \A p \in Running : pc'[p] = "asked" => Drafted(p)'.says.num = Len(index') + 1
                    /\ \A o \in DOMAIN index' : index'[o].declared # Open0 =>
                          \/ \E k \in DOMAIN content'["first"].chain :
                                ForOrdinal(content'["first"].chain[k], o)
                          \/ \E p \in Running :
                                pc'[p] = "drafted" /\ Role(p) = "keys" /\ ForOrdinal(Drafted(p)', o)
    BY <1>0 DEF DelegInv, Whole, ForOrdinal, Role
<1>1. raced = {} /\ swapped = {}
    BY <1>0
<1>2. kills = 0
    <2>1. kills' = kills \/ \E p \in Running : Killed(p)
        BY DoorMoves
    <2>2. ASSUME NEW p \in Running, Killed(p) PROVE kills' = kills + 1
        BY <2>2 DEF Killed, Kill
    <2> QED BY <1>0, <2>1, <2>2
<1>3. DOMAIN content = {"first"}
    BY <1>1 DEF WholeInv
<1>4. ASSUME NEW p \in Running, pc'[p] = "asked" PROVE Drafted(p)'.says.num = Len(index') + 1
    <2>1. CASE EmitsOn(p)
        <3>1. pc[p] = "asked" /\ Drafted(p)' = Drafted(p)
            BY <1>0, <1>4, <2>1 DEF EmitsOn, Appends, DoorTyped
        <3>2. Drafted(p).says.num = Len(index) + 1 /\ Role(p) = "keys"
            BY <1>1, <1>2, <3>1 DEF DelegInv, Whole, RecordInv, RolesInv, Emitting
        <3>3. index' = index
            <4>1. ASSUME NEW q \in Running, Boot(q) PROVE FALSE
                <5>1. pc[q] = "open" /\ pc[q] \in Inside /\ pc[p] \in Inside
                    BY <3>1, <4>1 DEF Boot, Inside
                <5>2. q = p
                    BY <1>1, <5>1, Alone
                <5> QED BY <3>1, <5>1, <5>2
            <4>2. ASSUME NEW q \in Running, pc[q] \in Inside,
                         CutsKey(q) \/ \E at \in Nat \ {0} : Introduces(q, at)
                  PROVE  index' = index
                <5>1. q = p
                    BY <1>1, <3>1, <4>2, Alone DEF Inside
                \* p waits for its root, and who else is inside?
                <5>2. index' = index \/ RotateKey(p) \/ RevokeKey(p) \/ RootSigns(p)
                      \/ \E r \in Running \ {p} : RotateKey(r) \/ RevokeKey(r) \/ RootSigns(r) \/ Boot(r)
                    <6>1. index' = index \/ \E r \in Running : RotateKey(r) \/ RevokeKey(r) \/ RootSigns(r) \/ Boot(r)
                        BY DEF Next, vars, recordVars, Tick, Killed, Publish, Emitted, Actuate, Return,
                               AppendEntry, AskRoot, Enqueue, Deliver, Act, Close, RootRefuses
                    <6> QED BY <4>1, <6>1
                <5>3. ~(RotateKey(p) \/ RevokeKey(p))
                    BY <3>1 DEF RotateKey, RevokeKey, Ready
                <5>4. ~RootSigns(p)
                    BY <1>0, <1>4 DEF RootSigns, Goto, DoorTyped
                <5>5. ASSUME NEW r \in Running, RotateKey(r) \/ RevokeKey(r) \/ RootSigns(r)
                      PROVE  r = p
                    <6>1. pc[r] \in Inside /\ pc[p] \in Inside
                        BY <3>1, <5>5 DEF RotateKey, RevokeKey, RootSigns, Ready, Inside
                    <6> QED BY <1>1, <6>1, Alone
                <5> QED BY <4>1, <5>2, <5>3, <5>4, <5>5
            <4> QED BY <4>1, <4>2, IndexMoves
        <3> QED BY <3>1, <3>2, <3>3
    <2>2. CASE DraftsAs(p, 0, Instant(p), Says("delegation", None, Len(index) + 1, 0), {})
        BY <2>2 DEF DraftsAs, Says
    <2>3. pc'[p] \in Emitting /\ pc'[p] # "drafted"
        BY <1>4 DEF Emitting
    <2> QED BY <1>0, <2>1, <2>2, <2>3, DraftsMove
\* A delegation that was on the record or on its way there still is.
<1>5. ASSUME NEW o,
             \/ \E k \in DOMAIN content["first"].chain : ForOrdinal(content["first"].chain[k], o)
             \/ \E p \in Running : pc[p] = "drafted" /\ Role(p) = "keys" /\ ForOrdinal(Drafted(p), o)
      PROVE  \/ \E k \in DOMAIN content'["first"].chain : ForOrdinal(content'["first"].chain[k], o)
             \/ \E p \in Running : pc'[p] = "drafted" /\ Role(p) = "keys" /\ ForOrdinal(Drafted(p)', o)
    <2>1. ASSUME NEW k \in DOMAIN content["first"].chain
          PROVE  k \in DOMAIN content'["first"].chain /\ content'["first"].chain[k] = content["first"].chain[k]
        <3>1. CASE content'["first"].chain = content["first"].chain
            BY <3>1
        <3>2. ASSUME NEW p \in Running, Appends(p), handle[p] = "first"
              PROVE  k \in DOMAIN content'["first"].chain
                     /\ content'["first"].chain[k] = content["first"].chain[k]
            <4>1. PICK c : c = Store(p).chain
                OBVIOUS
            <4>2. PICK d : d = Append(c, Drafted(p))
                OBVIOUS
            <4>3. /\ \A j \in 1..Len(c) : d[j] = c[j]
                  /\ DOMAIN d = 1..(Len(c) + 1)
                  /\ Len(c) \in Nat /\ DOMAIN c = 1..Len(c) /\ content'["first"].chain = d
                BY <3>2, <4>1, <4>2, AppendsChain
            <4> QED BY <3>2, <4>1, <4>3 DEF Store
        <3> QED BY <1>0, <1>3, <3>1, <3>2, ChainsMove
    <2>2. CASE \E k \in DOMAIN content["first"].chain : ForOrdinal(content["first"].chain[k], o)
        BY <2>1, <2>2
    <2>3. ASSUME NEW p \in Running, pc[p] = "drafted", Role(p) = "keys", ForOrdinal(Drafted(p), o)
          PROVE  \/ \E k \in DOMAIN content'["first"].chain : ForOrdinal(content'["first"].chain[k], o)
                 \/ pc'[p] = "drafted" /\ Role(p) = "keys" /\ ForOrdinal(Drafted(p)', o)
        <3>1. CASE pc'[p] = pc[p]
            <4>1. pc'[p] \in Emitting
                BY <2>3, <3>1 DEF Emitting
            <4>2. EmitsOn(p)
                <5>1. pc[p] # "open" /\ pc'[p] # "asked"
                    BY <2>3, <3>1
                <5> QED BY <1>0, <4>1, <5>1, DraftsMove DEF DraftsAs
            <4> QED BY <2>3, <3>1, <4>2 DEF EmitsOn
        <3>2. CASE pc'[p] # pc[p]
            <4>1. AppendEntry(p) \/ Killed(p)
                <5>1. ~(Look(p) \/ Claim(p) \/ Open(p) \/ Restore(p) \/ Unlink(p) \/ Unlock(p)
                         \/ CopyDb(p) \/ CopyArtifacts(p) \/ MarkPoint(p))
                    BY <2>3 DEF Look, Claim, Open, Restore, Starts, Unlink, Unlock, CopyDb,
                                CopyArtifacts, MarkPoint
                <5>2. ~Backup(p)
                    BY <2>3 DEF Backup, Role
                <5>3. ~(Publish(p) \/ Emitted(p) \/ Actuate(p) \/ Return(p) \/ Boot(p) \/ Close(p)
                         \/ AskRoot(p) \/ RootSigns(p) \/ RootRefuses(p) \/ RevokeKey(p))
                    BY <2>3 DEF Publish, Emitted, Actuate, Return, Boot, Close, AskRoot, RootSigns,
                                RootRefuses, RevokeKey, Ready
                <5> QED BY <1>0, <3>2, <5>1, <5>2, <5>3, OwnMoves
            <4>2. ~Killed(p)
                BY <1>0, <1>2 DEF Killed, Kill
            <4>3. Appends(p)
                <5>1. PICK c : c = Store(p).chain
                    OBVIOUS
                <5>2. handle[p] \in DOMAIN content
                    BY <1>0, <2>3 DEF DoorTyped, ChainInv, Inside
                <5>3. Unbroken(c)
                    BY <1>0, <5>1, <5>2 DEF ChainInv, Sound, Store
                <5>4. Drafted(p).seq = Len(c) + 1
                    BY <1>1, <2>3, <5>1 DEF HeadInv, Whole
                <5>5. Drafted(p).seq \notin Ids(c)
                    <6>1. Len(c) \in Nat /\ DOMAIN c = 1..Len(c)
                        BY <5>3 DEF Unbroken
                    <6>2. \A k \in 1..Len(c) : c[k].seq = k
                        BY <5>3 DEF Unbroken
                    <6>3. PICK n : n = Drafted(p).seq
                        OBVIOUS
                    <6>4. n = Len(c) + 1
                        BY <5>4, <6>3
                    <6>5. \A k \in DOMAIN c : c[k].seq # n
                        BY <6>1, <6>2, <6>4
                    <6> QED BY <6>3, <6>5 DEF Ids
                <5>6. Drafted(p).seq \notin Ids(Store(p).chain)
                    BY <5>1, <5>5
                <5>7. AppendEntry(p)
                    BY <4>1, <4>2
                <5> QED BY <1>0, <5>6, <5>7, AppendsOrNot
            <4>4. handle[p] = "first"
                BY <1>3, <4>3, AppendsChain
            <4>5. PICK d : d = Append(Store(p).chain, Drafted(p))
                OBVIOUS
            <4>6. /\ content'["first"].chain = d /\ d[Len(Store(p).chain) + 1] = Drafted(p)
                  /\ Len(Store(p).chain) \in Nat /\ DOMAIN d = 1..(Len(Store(p).chain) + 1)
                BY <4>3, <4>4, <4>5, AppendsChain
            <4> QED BY <2>3, <4>6
        <3> QED BY <3>1, <3>2
    <2> QED BY <1>5, <2>2, <2>3
<1>6. ASSUME NEW o \in DOMAIN index', index'[o].declared # Open0
      PROVE  \/ \E k \in DOMAIN content'["first"].chain : ForOrdinal(content'["first"].chain[k], o)
             \/ \E p \in Running : pc'[p] = "drafted" /\ Role(p) = "keys" /\ ForOrdinal(Drafted(p)', o)
    <2>1. CASE o \in DOMAIN index /\ index[o].declared # Open0
        BY <1>1, <1>2, <1>5, <2>1 DEF DelegInv, Whole
    <2>2. CASE index' = index
        BY <1>6, <2>1, <2>2
    <2>3. CASE index' = <<Key(Open0, Open0)>>
        <3>1. o = 1 /\ index'[1] = Key(Open0, Open0)
            BY <1>6, <2>3
        <3> QED BY <1>6, <3>1 DEF Key
    <2>4. ASSUME NEW p \in Running, Boot(p)
          PROVE  index' = index \/ index' = <<Key(Open0, Open0)>>
        BY <2>4 DEF Boot
    <2>5. ASSUME NEW p \in Running, RevokeKey(p), index' # index
          PROVE  o \in DOMAIN index /\ index[o].declared # Open0
        <3>1. CutsKey(p)
            BY <2>5 DEF RevokeKey, CutsKey
        <3>2. Active(index) # 0 /\ index' = Cut(index, Active(index), Job(p).at, "revocation")
            BY <3>1 DEF CutsKey
        <3>3. PICK since \in Nat \ {0} : since = Job(p).at
            BY <1>0, <3>1, JobFits DEF CutsKey, DoorTyped
        <3>4. "revocation" \in {"rotation", "revocation"}
            OBVIOUS
        <3>5. Closes(Cut(index, Active(index), since, "revocation"), index, since)
            BY <1>0, <3>2, <3>4, CutCloses, Zenon
        <3>6. Closes(index', index, since)
            BY <3>2, <3>3, <3>5
        <3>7. DOMAIN index' = 1..Len(index) /\ DOMAIN index = 1..Len(index)
            BY <1>0, <3>6 DEF Closes
        <3>8. index'[o].declared = index[o].declared
            BY <1>6, <3>2, <3>6, <3>7 DEF Closes
        <3> QED BY <1>6, <3>7, <3>8
    <2>6. ASSUME NEW p \in Running, RotateKey(p)
          PROVE  o \in DOMAIN index /\ index[o].declared # Open0
        <3>1. Ready(p) /\ index' = Rotated(index, Instant(p), Open0)
            BY <2>6 DEF RotateKey
        <3>2. now \in Nat \ {0} /\ Job(p).at \in Nat
            BY <1>0, <3>1, JobFits DEF RecordInv, RolesInv, DoorTyped
        <3>3. PICK at \in Nat \ {0} : at = Instant(p)
            BY <3>2 DEF Instant
        <3>4. Open0 \in Nat
            BY DEF Open0
        <3>5. Succeeds(index', index, at, Open0)
            BY <1>0, <3>1, <3>3, <3>4, RotatedShape
        <3> QED BY <1>0, <1>6, <3>5 DEF Succeeds
    <2>7. ASSUME NEW p \in Running, RootSigns(p)
          PROVE  \/ o \in DOMAIN index /\ index[o].declared # Open0
                 \/ pc'[p] = "drafted" /\ Role(p) = "keys" /\ ForOrdinal(Drafted(p)', o)
        <3>1. pc[p] = "asked" /\ pc'[p] = "drafted" /\ Drafted(p)' = Drafted(p)
            BY <1>0, <2>7 DEF RootSigns, Goto, DoorTyped, Drafted
        <3>2. Drafted(p).says.num = Len(index) + 1
            BY <1>1, <1>2, <3>1 DEF DelegInv, Whole
        <3>3. /\ Role(p) = "keys" /\ Drafted(p).says.kind = "delegation"
              /\ Drafted(p).at \in Nat \ {0}
            BY <3>1 DEF RecordInv, RolesInv, Emitting
        <3>4. PICK at \in Nat \ {0} : at = Drafted(p).at
            BY <3>3
        <3>5. PICK declared \in Nat : declared = at + Lifetime
            BY RecordAssumption DEF RecordAssumption
        <3>6. index' = Rotated(index, at, declared)
            BY <2>7, <3>4, <3>5 DEF RootSigns, Drafted
        <3>7. Succeeds(index', index, at, declared)
            BY <1>0, <3>6, RotatedShape
        <3>8. o = Len(index') \/ (o \in DOMAIN index /\ index[o].declared # Open0)
            BY <1>0, <1>6, <3>7 DEF Succeeds
        <3>9. CASE o = Len(index')
            <4>1. Len(index') = IF Len(index) = 0 THEN 2 ELSE Len(index) + 1
                BY <3>7 DEF Succeeds
            <4>2. Drafted(p).says.num = o \/ (Drafted(p).says.num = 1 /\ o = 2)
                BY <1>0, <3>2, <3>9, <4>1
            <4> QED BY <3>1, <3>3, <4>2 DEF ForOrdinal
        <3> QED BY <3>8, <3>9
    <2>8. index' = index \/ \E r \in Running : RotateKey(r) \/ RevokeKey(r) \/ RootSigns(r) \/ Boot(r)
        BY DEF Next, vars, recordVars, Tick, Killed, Publish, Emitted, Actuate, Return,
               AppendEntry, AskRoot, Enqueue, Deliver, Act, Close, RootRefuses
    <2>9. CASE \E p \in Running : pc'[p] = "drafted" /\ Role(p) = "keys" /\ ForOrdinal(Drafted(p)', o)
        BY <2>9
    <2> QED BY <2>1, <2>2, <2>3, <2>4, <2>5, <2>6, <2>7, <2>8, <2>9
<1> QED BY <1>4, <1>6

LEMMA DelegationsHold ==
    ASSUME RecordInv, WholeInv, DelegInv, kills \in Nat
    PROVE  DelegationBacksKey
<1> SUFFICES ASSUME NEW o \in DOMAIN index, index[o].declared # Open0,
                    kills = 0, raced = {}, swapped = {}
             PROVE  \/ db # None /\ \E e \in Entries(content[db].chain, "delegation") :
                          e.says.num = o \/ (e.says.num = 1 /\ o = 2)
                    \/ \E p \in Running : pc[p] = "drafted" /\ Role(p) = "keys"
    BY DEF DelegationBacksKey
<1>1. db = "first" /\ db # None
    BY DEF WholeInv, None
<1>2. ASSUME NEW k \in DOMAIN content["first"].chain, ForOrdinal(content["first"].chain[k], o)
      PROVE  \E e \in Entries(content[db].chain, "delegation") :
                 e.says.num = o \/ (e.says.num = 1 /\ o = 2)
    BY <1>1, <1>2 DEF ForOrdinal, Entries
<1> QED BY <1>1, <1>2 DEF DelegInv, Whole

------------------------------------------------------------------------------
(* Who is addressed is queued *)

LEMMA LeftGrows ==
    ASSUME [Next]_vars
    PROVE  left \subseteq left'
BY DEF Next, vars, recordVars, Tick, Killed, Publish, Emitted, Actuate, Return, AppendEntry,
       AskRoot, Enqueue, Deliver, Act, Close, RootRefuses, Boot, RotateKey, RootSigns, RevokeKey

\* What is queued stays queued or is delivered.
LEMMA QueuesMove ==
    ASSUME RecordInv, [Next]_vars, NEW f \in DOMAIN content
    PROVE  /\ left \subseteq left'
           /\ content[f].queue \cup left \subseteq content'[f].queue \cup left'
<1> USE DEF disk, doorVars, recordVars
<1>0. DoorTyped /\ MadeOnce /\ ChainInv
    BY DEF RecordInv
<1>1. left \subseteq left'
    BY LeftGrows
<1>2. content' = content => content[f].queue \cup left \subseteq content'[f].queue \cup left'
    BY <1>1
<1>3. content'[f].queue = content[f].queue =>
          content[f].queue \cup left \subseteq content'[f].queue \cup left'
    BY <1>1
<1>4. ASSUME NEW p \in Running, Open(p) \/ CopyDb(p)
      PROVE  content'[f].queue = content[f].queue
    <2>1. CASE Open(p) /\ db = None
        <3>1. p \notin DOMAIN content
            BY <1>0, <2>1 DEF Open, MadeOnce
        <3> QED BY <2>1, <3>1 DEF Open
    <2>2. CASE Open(p) /\ db # None
        BY <2>2 DEF Open
    <2>3. CASE CopyDb(p)
        <3>1. p \notin DOMAIN content
            BY <1>0, <2>3 DEF CopyDb, MadeOnce, Restoring
        <3> QED BY <2>3, <3>1 DEF CopyDb
    <2> QED BY <1>4, <2>1, <2>2, <2>3
<1>5. ASSUME NEW p \in Running, NEW v, pc[p] \in Inside,
             content' = [content EXCEPT ![handle[p]] = [Store(p) EXCEPT !.queue = v]]
      PROVE  /\ f # handle[p] => content'[f] = content[f]
             /\ f = handle[p] => content'[f].queue = v
    <2>1. IsStore(content[f])
        BY <1>0 DEF ChainInv, Sound
    <2>2. PICK new : new = [Store(p) EXCEPT !.queue = v]
        OBVIOUS
    <2>3. content' = [content EXCEPT ![handle[p]] = new]
        BY <1>5, <2>2
    <2>4. f = handle[p] => new.queue = v
        BY <2>1, <2>2 DEF IsStore, Store
    <2> QED BY <2>3, <2>4
<1>6. ASSUME NEW p \in Running, MarkPoint(p) PROVE content'[f].queue = content[f].queue
    <2>1. IsStore(content[f])
        BY <1>0 DEF ChainInv, Sound
    <2>2. PICK new : new = [content[handle[p]] EXCEPT !.points = content[handle[p]].points + 1]
        OBVIOUS
    <2>3. content' = [content EXCEPT ![handle[p]] = new]
        BY <1>6, <2>2 DEF MarkPoint
    <2>4. f = handle[p] => new.queue = content[f].queue
        BY <2>1, <2>2 DEF IsStore
    <2> QED BY <2>3, <2>4
<1>7. ASSUME NEW p \in Running, Enqueue(p) \/ Deliver(p)
      PROVE  content[f].queue \cup left \subseteq content'[f].queue \cup left'
    <2>1. CASE Enqueue(p)
        <3>1. PICK row : content' = [content EXCEPT ![handle[p]] =
                                        [Store(p) EXCEPT !.queue = Store(p).queue \cup {row}]]
            BY <2>1 DEF Enqueue, Write
        <3>2. pc[p] \in Inside
            BY <2>1 DEF Enqueue, Inside
        <3> QED BY <1>1, <1>5, <3>1, <3>2 DEF Store
    <2>2. CASE Deliver(p)
        <3>1. PICK row : /\ left' = left \cup {row}
                         /\ content' = [content EXCEPT ![handle[p]] =
                                          [Store(p) EXCEPT !.queue = Store(p).queue \ {row}]]
            BY <2>2 DEF Deliver, Write
        <3>2. pc[p] \in Inside
            BY <2>2 DEF Deliver, Inside
        <3>3. f = handle[p] => content'[f].queue = content[f].queue \ {row}
            BY <1>5, <3>1, <3>2 DEF Store
        <3> QED BY <1>1, <1>5, <3>1, <3>2, <3>3
    <2> QED BY <1>7, <2>1, <2>2
<1>8. ASSUME NEW p \in Running, AppendEntry(p) PROVE content'[f].queue = content[f].queue
    <2>1. CASE content' = content
        BY <2>1
    <2>2. CASE Appends(p)
        BY <2>2, AppendsChain DEF Store
    <2> QED BY <1>0, <1>8, <2>1, <2>2, AppendsOrNot
<1>9. \/ content' = content
      \/ \E p \in Running : Open(p) \/ CopyDb(p) \/ MarkPoint(p) \/ Enqueue(p) \/ Deliver(p) \/ AppendEntry(p)
    BY DEF Next, vars, Tick, Look, Claim, Killed, Kill, Backup, Restore, Unlink, Unlock, CopyArtifacts,
           Publish, Emitted, Actuate, Act, Return, Boot, Close, RotateKey, AskRoot, RootSigns,
           RootRefuses, RevokeKey
<1> QED BY <1>1, <1>2, <1>3, <1>4, <1>6, <1>7, <1>8, <1>9

\* The rows still to add change with each row that is added.
LEMMA RowsMove ==
    ASSUME RecordInv, [Next]_vars, NEW p \in Running, pc[p] \in Emitting, pc'[p] \in Emitting
    PROVE  draft'[p] = draft[p] \/ Enqueue(p)
<1>0. DoorTyped /\ draft = [q \in Running |-> draft[q]]
    BY DEF RecordInv, ChainInv, DraftsFit
<1>1. ASSUME NEW q \in Running,
             Killed(q) \/ RootRefuses(q) \/ Emitted(q) \/ AppendEntry(q)
      PROVE  draft'[p] = draft[p]
    <2>1. CASE draft' = draft
        BY <2>1
    <2>2. CASE draft' = [draft EXCEPT ![q] = NoDraft]
        <3>1. pc' = [pc EXCEPT ![q] = "gone"] \/ pc' = [pc EXCEPT ![q] = "open"]
              \/ draft' = draft
            BY <1>1 DEF Killed, Kill, RootRefuses, Shut, Emitted, AppendEntry, Goto
        <3>2. p # q \/ draft' = draft
            BY <1>0, <3>1 DEF Emitting, DoorTyped
        <3> QED BY <1>0, <2>2, <3>2
    <2> QED BY <1>1, <2>1, <2>2 DEF Killed, RootRefuses, Emitted, AppendEntry
<1>2. ASSUME NEW q \in Running, Publish(q) \/ Actuate(q) \/ Return(q) \/ AskRoot(q)
      PROVE  draft'[p] = draft[p]
    <2>1. p # q
        BY <1>2 DEF Publish, Actuate, Return, AskRoot, Ready, Emitting
    <2>2. draft' = draft \/ \E d : draft' = [draft EXCEPT ![q] = d]
        BY <1>2 DEF Publish, Actuate, Return, AskRoot, Draft, DraftBy
    <2> QED BY <1>0, <2>1, <2>2
<1>3. ASSUME NEW q \in Running, q # p, Enqueue(q) PROVE draft'[p] = draft[p]
    <2>1. PICK t : draft' = [draft EXCEPT ![q].rows = @ \ {t}]
        BY <1>3 DEF Enqueue
    <2> QED BY <1>0, <1>3, <2>1
<1>4. \/ draft' = draft
      \/ \E q \in Running : \/ Killed(q) \/ RootRefuses(q) \/ Emitted(q) \/ AppendEntry(q)
                            \/ Publish(q) \/ Actuate(q) \/ Return(q) \/ AskRoot(q) \/ Enqueue(q)
    BY DEF Next, vars, recordVars, Tick, Deliver, Act, Close, Boot, RotateKey, RootSigns, RevokeKey
<1> QED BY <1>1, <1>2, <1>3, <1>4

RowsInv ==
    /\ \A p \in Running : pc[p] \in {"drafted", "asked"} => draft[p].rows = Drafted(p).to
    /\ \A p \in Running : pc[p] = "appended" =>
          /\ Drafted(p).seq \in DOMAIN Store(p).chain
          /\ Store(p).chain[Drafted(p).seq] = Drafted(p)
          /\ \A t \in Drafted(p).to :
                t \in draft[p].rows \/ <<Drafted(p), t>> \in Store(p).queue \cup left

LEMMA RowsStep ==
    ASSUME RecordInv, RowsInv, [Next]_vars
    PROVE  RowsInv'
<1>0. DoorTyped /\ MadeOnce /\ ChainInv /\ NextTyped /\ plan' = plan /\ Running' = Running
    BY DoorMoves DEF RecordInv, Running
<1>1. ASSUME NEW p \in Running, pc'[p] \in {"drafted", "asked"} PROVE draft'[p].rows = Drafted(p)'.to
    <2>1. CASE EmitsOn(p)
        <3>1. pc[p] \in {"drafted", "asked"} /\ Drafted(p)' = Drafted(p)
            BY <1>0, <1>1, <2>1 DEF EmitsOn, Appends, RootSigns, DoorTyped
        <3>2. draft'[p] = draft[p]
            BY <1>1, <3>1, RowsMove DEF Emitting, Enqueue
        <3> QED BY <3>1, <3>2 DEF RowsInv
    <2>2. CASE \E says, to : DraftsAs(p, signs[p], now, says, to)
        BY <2>2 DEF DraftsAs
    <2>3. CASE DraftsAs(p, 0, Instant(p), Says("delegation", None, Len(index) + 1, 0), {})
        BY <2>3 DEF DraftsAs
    <2>4. pc'[p] \in Emitting
        BY <1>1 DEF Emitting
    <2> QED BY <1>0, <2>1, <2>2, <2>3, <2>4, DraftsMove
<1>2. ASSUME NEW p \in Running, pc'[p] = "appended"
      PROVE  /\ Drafted(p)'.seq \in DOMAIN content'[handle'[p]].chain
             /\ content'[handle'[p]].chain[Drafted(p)'.seq] = Drafted(p)'
             /\ \A t \in Drafted(p)'.to :
                   t \in draft'[p].rows \/ <<Drafted(p)', t>> \in content'[handle'[p]].queue \cup left'
    <2>0. EmitsOn(p)
        <3>1. pc'[p] \in Emitting /\ pc'[p] # "drafted" /\ pc'[p] # "asked"
            BY <1>2 DEF Emitting
        <3> QED BY <1>0, <3>1, DraftsMove
    <2>1. pc[p] \in Emitting /\ Drafted(p)' = Drafted(p) /\ handle'[p] = handle[p]
        BY <2>0 DEF EmitsOn
    <2>2. handle[p] \in DOMAIN content
        BY <1>0, <2>1 DEF DoorTyped, ChainInv, Emitting, Inside
    <2>3. PICK e : e = Drafted(p)
        OBVIOUS
    <2>4. CASE Appends(p)
        <3>1. pc[p] = "drafted" /\ e.seq = Len(Store(p).chain) + 1 /\ draft' = draft
            BY <2>3, <2>4 DEF Appends
        <3>2. PICK d : d = Append(Store(p).chain, e)
            OBVIOUS
        <3>3. /\ content'[handle[p]].chain = d /\ DOMAIN d = 1..(Len(Store(p).chain) + 1)
              /\ Len(Store(p).chain) \in Nat /\ d[Len(Store(p).chain) + 1] = e
            BY <2>3, <2>4, <3>2, AppendsChain
        <3>4. e.seq \in DOMAIN d /\ d[e.seq] = e
            BY <3>1, <3>3
        <3>5. draft[p].rows = e.to
            BY <2>3, <3>1 DEF RowsInv
        <3> QED BY <2>1, <2>3, <3>1, <3>3, <3>4, <3>5
    <2>5. CASE pc[p] = "appended"
        <3>1. /\ e.seq \in DOMAIN content[handle[p]].chain /\ content[handle[p]].chain[e.seq] = e
              /\ \A t \in e.to :
                    t \in draft[p].rows \/ <<e, t>> \in content[handle[p]].queue \cup left
            BY <2>3, <2>5 DEF RowsInv, Store
        <3>2. e.seq \in DOMAIN content'[handle[p]].chain /\ content'[handle[p]].chain[e.seq] = e
            <4>1. CASE content'[handle[p]].chain = content[handle[p]].chain
                BY <3>1, <4>1
            <4>2. ASSUME NEW q \in Running, Appends(q), handle[q] = handle[p]
                  PROVE  e.seq \in DOMAIN content'[handle[p]].chain
                         /\ content'[handle[p]].chain[e.seq] = e
                <5>1. PICK c : c = Store(q).chain
                    OBVIOUS
                <5>2. PICK d : d = Append(c, Drafted(q))
                    OBVIOUS
                <5>3. /\ content'[handle[q]].chain = d /\ DOMAIN d = 1..(Len(c) + 1)
                      /\ Len(c) \in Nat /\ DOMAIN c = 1..Len(c) /\ \A j \in 1..Len(c) : d[j] = c[j]
                    BY <4>2, <5>1, <5>2, AppendsChain
                <5>4. e.seq \in 1..Len(c) /\ c[e.seq] = e
                    BY <3>1, <4>2, <5>1, <5>3 DEF Store
                <5> QED BY <4>2, <5>3, <5>4
            <4> QED BY <1>0, <2>2, <4>1, <4>2, ChainsMove
        <3>3. \A row : row \in content[handle[p]].queue \cup left =>
                           row \in content'[handle[p]].queue \cup left'
            BY <2>2, QueuesMove
        <3>4. \A t \in e.to : t \in draft'[p].rows \/ <<e, t>> \in content'[handle[p]].queue \cup left'
            <4>1. CASE draft'[p] = draft[p]
                BY <3>1, <3>3, <4>1
            <4>2. CASE Enqueue(p)
                <5>1. PICK t \in draft[p].rows :
                          /\ content' = [content EXCEPT ![handle[p]] =
                                [Store(p) EXCEPT !.queue = Store(p).queue \cup {<<e, t>>}]]
                          /\ draft' = [draft EXCEPT ![p].rows = @ \ {t}]
                    BY <2>3, <4>2 DEF Enqueue, Write, Drafted
                <5>2. draft'[p].rows = draft[p].rows \ {t}
                    BY <1>0, <5>1 DEF ChainInv, DraftsFit
                <5>3. <<e, t>> \in content'[handle[p]].queue
                    <6>1. IsStore(Store(p))
                        BY <1>0, <2>2 DEF ChainInv, Sound, Store
                    <6>2. PICK new : new = [Store(p) EXCEPT !.queue = Store(p).queue \cup {<<e, t>>}]
                        OBVIOUS
                    <6>3. content' = [content EXCEPT ![handle[p]] = new]
                        BY <5>1, <6>2
                    <6>4. new.queue = Store(p).queue \cup {<<e, t>>}
                        BY <6>1, <6>2 DEF IsStore
                    <6> QED BY <2>2, <6>3, <6>4
                <5> QED BY <3>1, <3>3, <5>2, <5>3
            <4> QED BY <1>2, <2>1, <4>1, <4>2, RowsMove DEF Emitting
        <3> QED BY <2>1, <2>3, <3>2, <3>4
    <2>6. pc[p] \in {"drafted", "asked"} => Appends(p)
        BY <1>2, <2>0 DEF EmitsOn
    <2> QED BY <2>1, <2>4, <2>5, <2>6 DEF Emitting
<1> QED BY <1>0, <1>1, <1>2 DEF RowsInv, Store

\* Who is inside, or has written the lock and is about to be.
Within == {p \in Running : pc[p] \in Inside \cup {"claimed"}}

CameInv ==
    /\ \A p \in raced : pc[p] \in Inside \cup {"claimed", "gone"}
    /\ \A p \in Running : pc[p] \in Restoring \ {"verified"} => p \in swapped
    /\ \A p \in Running : pc[p] = "verified" => backup.taken
    /\ swapped # {} => backup.taken
    /\ swapped = {} => Cardinality(Within \ {lock}) <= Cardinality(raced)

LEMMA RunningFinite == RecordInv => IsFiniteSet(Running)
<1> SUFFICES ASSUME RecordInv PROVE IsFiniteSet(Running)
    OBVIOUS
<1>1. Running \in SUBSET Procs /\ IsFiniteSet(Procs)
    BY DoorAssumption DEF RecordInv, DoorTyped, DoorAssumption, Running
<1> QED BY <1>1, FS_Subset

LEMMA RacedMoves ==
    ASSUME RecordInv, [Next]_vars
    PROVE  raced' = raced \/ \E p \in Running : (Claim(p) \/ Open(p)) /\ raced' = raced \cup {p}
<1>1. ASSUME NEW p \in Running, Claim(p) \/ Open(p)
      PROVE  raced' = raced \/ raced' = raced \cup {p}
    BY <1>1 DEF Claim, Open
<1>2. raced' = raced \/ \E p \in Running : Claim(p) \/ Open(p)
    BY DEF Next, vars, doorVars, disk, recordVars, Tick, Look, Killed, Kill, Backup, Restore, Unlink,
           Unlock, CopyDb, CopyArtifacts, MarkPoint, Publish, Emitted, Actuate, Return, AppendEntry,
           AskRoot, Enqueue, Deliver, Act, Close, RootRefuses, Boot, RotateKey, RootSigns, RevokeKey
<1> QED BY <1>1, <1>2

\* The lock goes to who claims it, or is removed by who leaves.
LEMMA LockGoes ==
    ASSUME RecordInv, [Next]_vars
    PROVE  \/ lock' = lock
           \/ \E p \in Running : Claim(p) \/ Unlock(p)
           \/ lock' = None /\ \E p \in Running : pc[p] \in Inside /\ pc'[p] = "gone"
<1> USE DEF disk, doorVars, recordVars
<1>1. ASSUME NEW p \in Running,
             MarkPoint(p) \/ AppendEntry(p) \/ Close(p) \/ RootRefuses(p) \/ RevokeKey(p)
      PROVE  lock' = lock \/ (lock' = None /\ pc[p] \in Inside /\ pc'[p] = "gone")
    BY <1>1 DEF MarkPoint, AppendEntry, Close, RootRefuses, RevokeKey, Shut, Goto, Ready, Inside,
                RecordInv, DoorTyped
<1>2. \/ lock' = lock
      \/ \E p \in Running : Claim(p) \/ Unlock(p)
      \/ \E p \in Running : MarkPoint(p) \/ AppendEntry(p) \/ Close(p) \/ RootRefuses(p) \/ RevokeKey(p)
    BY DEF Next, vars, Tick, Look, Open, Killed, Kill, Backup, Restore, Unlink, CopyDb, CopyArtifacts,
           Publish, Emitted, Actuate, Return, AskRoot, Enqueue, Deliver, Act, Boot, RotateKey, RootSigns
<1> QED BY <1>1, <1>2

LEMMA CameStep ==
    ASSUME RecordInv, TypesInv, CameInv, [Next]_vars
    PROVE  CameInv'
<1>0. /\ DoorTyped /\ DoorTyped' /\ ChainInv /\ plan' = plan /\ Running' = Running
      /\ raced \subseteq raced' /\ swapped \subseteq swapped' /\ None \notin Running
      /\ raced \subseteq Running /\ raced' \subseteq Running
    <2>1. RecordInv' /\ TypesInv'
        BY RecordStep, TypesStep
    <2> QED BY <2>1, DoorMoves, Names DEF RecordInv, TypesInv, DoorTyped, Running
<1>1. backup.taken => backup'.taken
    <2>1. backup' = backup \/ \E p \in Running : Backup(p)
        BY DoorMoves
    <2>2. ASSUME NEW p \in Running, Backup(p) PROVE backup.taken => backup'.taken
        <3>1. IsBackup(backup)
            BY <1>0 DEF ChainInv
        <3>2. \/ backup' = backup
              \/ backup' = [backup EXCEPT !.db = content[db], !.taken = TRUE]
              \/ backup' = [backup EXCEPT !.arts = dir]
              \/ backup' = [backup EXCEPT !.manifest = TRUE]
            BY <1>0, <2>2, BackupMoves
        <3> QED BY <3>1, <3>2 DEF IsBackup
    <2> QED BY <2>1, <2>2
<1>2. ASSUME NEW p \in raced' PROVE pc'[p] \in Inside \cup {"claimed", "gone"}
    <2>0. p \in Running
        BY <1>0
    <2>1. CASE p \in raced /\ pc'[p] = pc[p]
        BY <2>1 DEF CameInv
    <2>2. CASE p \in raced /\ pc'[p] # pc[p]
        <3>1. pc[p] \in Inside \cup {"claimed", "gone"}
            BY <2>2 DEF CameInv
        <3>2. pc'[p] \in Places /\ pc'[p] # "new"
            BY <1>0, <2>0, <2>2, PlacesMove DEF DoorTyped
        <3>3. ~(Look(p) \/ Restore(p) \/ Unlink(p) \/ Unlock(p) \/ CopyDb(p) \/ CopyArtifacts(p))
            BY <3>1 DEF Look, Restore, Starts, Unlink, Unlock, CopyDb, CopyArtifacts, Inside
        <3>4. ~(Backup(p) /\ pc'[p] \in {"one", "two"})
            BY <1>0, <2>0, <3>1, BackupMoves DEF Inside
        <3> QED BY <1>0, <2>0, <2>2, <3>2, <3>3, <3>4, PlacesMove DEF Places
    <2>3. CASE (Claim(p) \/ Open(p))
        BY <1>0, <2>0, <2>3 DEF Claim, Open, Goto, DoorTyped, Inside
    <2> QED BY <2>1, <2>2, <2>3, RacedMoves
<1>3. ASSUME NEW p \in Running, pc'[p] \in Restoring \ {"verified"} PROVE p \in swapped'
    <2>1. CASE pc'[p] = pc[p]
        BY <1>0, <1>3, <2>1 DEF CameInv
    <2>2. CASE Unlink(p)
        BY <2>2 DEF Unlink
    <2>3. CASE Unlock(p) \/ CopyDb(p) \/ CopyArtifacts(p)
        <3>1. pc[p] \in Restoring \ {"verified"}
            BY <2>3 DEF Unlock, CopyDb, CopyArtifacts, Restoring
        <3> QED BY <1>0, <3>1 DEF CameInv
    <2> QED BY <1>0, <1>3, <2>1, <2>2, <2>3, PlacesMove DEF Restoring
<1>4. ASSUME NEW p \in Running, pc'[p] = "verified" PROVE backup'.taken
    <2>1. CASE pc'[p] = pc[p]
        BY <1>1, <1>4, <2>1 DEF CameInv
    <2>2. CASE Restore(p)
        BY <1>0, <1>1, <1>4, <2>2 DEF Restore, Goto, DoorTyped
    <2> QED BY <1>0, <1>4, <2>1, <2>2, PlacesMove
<1>5. ASSUME swapped' # {} PROVE backup'.taken
    <2>1. CASE swapped' = swapped
        BY <1>1, <1>5, <2>1 DEF CameInv
    <2>2. ASSUME NEW p \in Running, Unlink(p) PROVE backup'.taken
        <3>1. pc[p] = "verified"
            BY <2>2 DEF Unlink
        <3> QED BY <1>1, <3>1 DEF CameInv
    <2> QED BY <2>1, <2>2, DoorMoves
<1>6. ASSUME swapped' = {} PROVE Cardinality(Within' \ {lock'}) <= Cardinality(raced')
    <2>0. swapped = {} /\ Cardinality(Within \ {lock}) <= Cardinality(raced)
        BY <1>0, <1>6 DEF CameInv
    <2>1. IsFiniteSet(Running)
        BY RunningFinite
    <2>2. Within \in SUBSET Running /\ Within' \in SUBSET Running
        BY <1>0 DEF Within
    <2>3. /\ IsFiniteSet(Within) /\ IsFiniteSet(Within') /\ IsFiniteSet(raced) /\ IsFiniteSet(raced')
          /\ Cardinality(Within) \in Nat /\ Cardinality(raced) \in Nat /\ Cardinality(raced') \in Nat
        BY <1>0, <2>1, <2>2, FS_Subset, FS_CardinalityType
    <2>4. Cardinality(raced) <= Cardinality(raced')
        BY <1>0, <2>3, FS_Subset
    <2>5. /\ IsFiniteSet(Within \ {lock}) /\ Cardinality(Within \ {lock}) \in Nat
          /\ Cardinality(Within \ {lock}) =
                IF lock \in Within THEN Cardinality(Within) - 1 ELSE Cardinality(Within)
        BY <2>3, FS_RemoveElement, FS_CardinalityType
    <2>6. \A p \in Within' : p \in Within \/ Claim(p)
        <3> SUFFICES ASSUME NEW p \in Within', p \notin Within, ~Claim(p) PROVE FALSE
            OBVIOUS
        <3>1. p \in Running /\ pc'[p] \in Inside \cup {"claimed"} /\ pc[p] \notin Inside \cup {"claimed"}
            BY <1>0 DEF Within
        <3>2. Open(p)
            BY <1>0, <3>1, PlacesMove
        <3> QED BY <3>1, <3>2 DEF Open
    <2>7. ASSUME NEW p \in Running, Claim(p)
          PROVE  Cardinality(Within' \ {lock'}) <= Cardinality(raced')
        <3>1. pc[p] = "looked" /\ lock' = p /\ \A q \in Running : q # p => pc'[q] = pc[q]
            BY <1>0, <2>7 DEF Claim, Goto, DoorTyped
        <3>2. p \notin Within /\ p \notin raced
            BY <3>1 DEF Within, CameInv, Inside
        <3>3. Within' \ {lock'} \in SUBSET Within
            BY <1>0, <3>1 DEF Within
        <3>4. Cardinality(Within' \ {lock'}) <= Cardinality(Within)
              /\ IsFiniteSet(Within' \ {lock'}) /\ Cardinality(Within' \ {lock'}) \in Nat
            BY <2>3, <3>3, FS_Subset, FS_CardinalityType
        <3>5. CASE HeldByOther(p)
            <4>1. raced' = raced \cup {p}
                BY <2>7, <3>5 DEF Claim
            <4>2. Cardinality(raced') = Cardinality(raced) + 1
                BY <2>3, <3>2, <4>1, FS_AddElement
            <4> QED BY <2>0, <2>3, <2>5, <3>4, <4>2
        <3>6. CASE ~HeldByOther(p)
            <4>1. lock \notin Within
                BY <1>0, <3>2, <3>6 DEF HeldByOther, Alive, Within, Inside
            <4> QED BY <2>0, <2>3, <2>4, <2>5, <3>4, <4>1
        <3> QED BY <3>5, <3>6
    <2>8. CASE \A p \in Running : ~Claim(p)
        <3>1. Within' \in SUBSET Within
            BY <1>0, <2>6, <2>8 DEF Within
        <3>2. CASE lock' = lock
            <4>1. Within' \ {lock'} \in SUBSET (Within \ {lock})
                BY <3>1, <3>2
            <4>2. /\ Cardinality(Within' \ {lock'}) <= Cardinality(Within \ {lock})
                  /\ IsFiniteSet(Within' \ {lock'}) /\ Cardinality(Within' \ {lock'}) \in Nat
                BY <2>5, <4>1, FS_Subset, FS_CardinalityType
            <4> QED BY <2>0, <2>3, <2>4, <2>5, <4>2
        <3>3. ASSUME NEW p \in Running, pc[p] \in Inside, pc'[p] = "gone"
              PROVE  Cardinality(Within' \ {lock'}) <= Cardinality(raced')
            <4>1. p \in Within /\ p \notin Within'
                BY <1>0, <3>3 DEF Within, Inside
            <4>2. Within' \ {lock'} \in SUBSET (Within \ {p})
                BY <3>1, <4>1
            <4>3. Cardinality(Within \ {p}) = Cardinality(Within) - 1 /\ IsFiniteSet(Within \ {p})
                BY <2>3, <4>1, FS_RemoveElement
            <4>4. /\ Cardinality(Within' \ {lock'}) <= Cardinality(Within \ {p})
                  /\ IsFiniteSet(Within' \ {lock'}) /\ Cardinality(Within' \ {lock'}) \in Nat
                BY <4>2, <4>3, FS_Subset, FS_CardinalityType
            <4> QED BY <2>0, <2>3, <2>4, <2>5, <4>3, <4>4
        <3>4. \A p \in Running : ~Unlock(p)
            <4> SUFFICES ASSUME NEW p \in Running, Unlock(p) PROVE FALSE
                OBVIOUS
            <4>1. pc[p] \in Restoring \ {"verified"}
                BY DEF Unlock, Restoring
            <4> QED BY <2>0, <4>1 DEF CameInv
        <3> QED BY <2>8, <3>2, <3>3, <3>4, LockGoes
    <2> QED BY <2>7, <2>8
<1> QED BY <1>0, <1>2, <1>3, <1>4, <1>5, <1>6 DEF CameInv

\* The activities of a database that are short of a row, those of them somebody is still
\* adding rows for, and how many of the others there may be.
Pending(s) ==
    {k \in DOMAIN s.chain : \E t \in s.chain[k].to : <<s.chain[k], t>> \notin s.queue \cup left}
Owing(f) == {p \in Running : pc[p] = "appended" /\ handle[p] = f}
Owed(f) == {Drafted(p).seq : p \in Owing(f)}
Spare(f) == kills + IF f \in swapped THEN Cardinality(raced) + 1 ELSE 0

CountInv ==
    /\ \A f \in DOMAIN content : Cardinality(Pending(content[f]) \ Owed(f)) <= Spare(f)
    /\ Cardinality(Pending(backup.db)) <= kills + Cardinality(raced) + 1

LEMMA PendingFinite ==
    ASSUME NEW s, Unbroken(s.chain)
    PROVE  IsFiniteSet(Pending(s)) /\ Cardinality(Pending(s)) \in Nat
<1>1. Len(s.chain) \in Nat /\ DOMAIN s.chain = 1..Len(s.chain)
    <2>1. PICK c : c = s.chain
        OBVIOUS
    <2>2. PICK S : c \in Seq(S)
        BY <2>1 DEF Unbroken
    <2> QED BY <2>1, <2>2
<1>2. IsFiniteSet(1..Len(s.chain))
    BY <1>1, FS_Interval
<1>3. Pending(s) \in SUBSET (1..Len(s.chain))
    BY <1>1 DEF Pending
<1> QED BY <1>2, <1>3, FS_Subset, FS_CardinalityType

LEMMA OwedBound ==
    ASSUME RecordInv, NEW f
    PROVE  /\ IsFiniteSet(Owed(f)) /\ IsFiniteSet(Owing(f))
           /\ Cardinality(Owed(f)) \in Nat /\ Cardinality(Owing(f)) \in Nat
           /\ Cardinality(Owed(f)) <= Cardinality(Owing(f))
<1>1. IsFiniteSet(Owing(f))
    <2>1. Owing(f) \in SUBSET Running
        BY DEF Owing
    <2> QED BY <2>1, RunningFinite, FS_Subset
<1>2. PICK S : S = Owing(f)
    OBVIOUS
<1>3. PICK g : g = [p \in S |-> Drafted(p).seq]
    OBVIOUS
<1>4. PICK T : T = Owed(f)
    OBVIOUS
<1>5. g \in [S -> T] /\ \A t \in T : \E p \in S : g[p] = t
    BY <1>2, <1>3, <1>4 DEF Owed
<1>6. g \in Surjection(S, T)
    BY <1>5 DEF Surjection
<1>7. IsFiniteSet(T) /\ Cardinality(T) <= Cardinality(S)
    BY <1>1, <1>2, <1>6, FS_Surjection
<1> QED BY <1>1, <1>2, <1>4, <1>7, FS_CardinalityType

\* An activity comes to be short of rows only when who adds them is killed.
LEMMA PendingMoves ==
    ASSUME RecordInv, RowsInv, [Next]_vars, NEW f \in DOMAIN content,
           NEW x \in Pending(content[f])' \ Owed(f)'
    PROVE  \/ x \in Pending(content[f]) \ Owed(f)
           \/ \E p \in Running : Killed(p) /\ x = Drafted(p).seq
<1>0. /\ DoorTyped /\ DoorTyped' /\ MadeOnce /\ ChainInv /\ NextTyped /\ plan' = plan /\ Running' = Running
    BY RecordStep, DoorMoves DEF RecordInv, Running
<1>1. /\ x \in DOMAIN content'[f].chain
      /\ \E t \in content'[f].chain[x].to :
            <<content'[f].chain[x], t>> \notin content'[f].queue \cup left'
    BY DEF Pending
<1>2. \A p \in Running : pc'[p] = "appended" /\ handle'[p] = f => x # Drafted(p)'.seq
    BY <1>0 DEF Owed, Owing
<1>3. x \in DOMAIN content[f].chain /\ content'[f].chain[x] = content[f].chain[x]
    <2>1. CASE content'[f].chain = content[f].chain
        BY <1>1, <2>1
    <2>2. ASSUME NEW p \in Running, Appends(p), handle[p] = f
          PROVE  x \in DOMAIN content[f].chain /\ content'[f].chain[x] = content[f].chain[x]
        <3>1. PICK c : c = Store(p).chain
            OBVIOUS
        <3>2. PICK d : d = Append(c, Drafted(p))
            OBVIOUS
        <3>3. /\ content'[f].chain = d /\ DOMAIN d = 1..(Len(c) + 1)
              /\ Len(c) \in Nat /\ DOMAIN c = 1..Len(c) /\ \A j \in 1..Len(c) : d[j] = c[j]
            BY <2>2, <3>1, <3>2, AppendsChain
        <3>4. /\ pc'[p] = "appended" /\ handle'[p] = f /\ Drafted(p)' = Drafted(p)
              /\ Drafted(p).seq = Len(c) + 1
            BY <1>0, <2>2, <3>1 DEF Appends, DoorTyped, Drafted
        <3>5. x # Len(c) + 1
            BY <1>2, <3>4
        <3> QED BY <1>1, <2>2, <3>1, <3>3, <3>5 DEF Store
    <2> QED BY <1>0, <2>1, <2>2, ChainsMove
<1>4. x \in Pending(content[f])
    BY <1>1, <1>3, QueuesMove DEF Pending
<1>5. ASSUME NEW p \in Running, pc[p] = "appended", handle[p] = f, x = Drafted(p).seq
      PROVE  Killed(p)
    <2>1. CASE pc'[p] = pc[p]
        <3>1. EmitsOn(p)
            <4>1. pc'[p] \in Emitting /\ pc'[p] # "drafted" /\ pc'[p] # "asked"
                BY <1>5, <2>1 DEF Emitting
            <4> QED BY <1>0, <4>1, DraftsMove
        <3>2. pc'[p] = "appended" /\ handle'[p] = f /\ Drafted(p)' = Drafted(p)
            BY <1>5, <2>1, <3>1 DEF EmitsOn
        <3> QED BY <1>2, <1>5, <3>2
    <2>2. CASE pc'[p] # pc[p]
        <3>1. ~(Look(p) \/ Claim(p) \/ Open(p) \/ Restore(p) \/ Unlink(p) \/ Unlock(p)
                 \/ CopyDb(p) \/ CopyArtifacts(p) \/ MarkPoint(p))
            BY <1>5 DEF Look, Claim, Open, Restore, Starts, Unlink, Unlock, CopyDb,
                        CopyArtifacts, MarkPoint
        <3>2. ~Backup(p)
            BY <1>0, <1>5, <2>2, BackupMoves DEF Backup, Starts, At, BackupOrder
        <3>3. ~(Publish(p) \/ AppendEntry(p) \/ Actuate(p) \/ Return(p) \/ Boot(p) \/ Close(p)
                 \/ AskRoot(p) \/ RootSigns(p) \/ RootRefuses(p) \/ RevokeKey(p))
            BY <1>5 DEF Publish, AppendEntry, Actuate, Return, Boot, Close, AskRoot, RootSigns,
                        RootRefuses, RevokeKey, Ready
        <3>4. ~Emitted(p)
            <4> SUFFICES ASSUME Emitted(p) PROVE FALSE
                OBVIOUS
            <4>1. draft[p].rows = {}
                BY DEF Emitted
            <4>2. /\ content[f].chain[x] = Drafted(p)
                  /\ \A t \in Drafted(p).to : <<Drafted(p), t>> \in content[f].queue \cup left
                BY <1>5, <4>1 DEF RowsInv, Store
            <4> QED BY <1>4, <4>2 DEF Pending
        <3> QED BY <1>0, <2>2, <3>1, <3>2, <3>3, <3>4, OwnMoves
    <2> QED BY <2>1, <2>2
<1> QED BY <1>4, <1>5 DEF Owed, Owing

LEMMA CountStep ==
    ASSUME RecordInv, TypesInv, WholeInv, RowsInv, CameInv, CountInv, [Next]_vars
    PROVE  CountInv'
<1>0. /\ DoorTyped /\ MadeOnce /\ ChainInv /\ ChainInv' /\ plan' = plan /\ Running' = Running
      /\ raced \subseteq raced' /\ swapped \subseteq swapped' /\ raced' \subseteq Running
      /\ raced \subseteq Running /\ kills \in Nat
    <2>1. RecordInv' /\ TypesInv'
        BY RecordStep, TypesStep
    <2> QED BY <2>1, DoorMoves DEF RecordInv, TypesInv, Running
<1>1. /\ IsFiniteSet(raced) /\ IsFiniteSet(raced') /\ Cardinality(raced) \in Nat
      /\ Cardinality(raced') \in Nat /\ Cardinality(raced) <= Cardinality(raced')
    <2>1. IsFiniteSet(Running)
        BY RunningFinite
    <2>2. IsFiniteSet(raced) /\ IsFiniteSet(raced')
        BY <1>0, <2>1, FS_Subset
    <2> QED BY <1>0, <2>2, FS_Subset, FS_CardinalityType
<1>2. kills' = kills \/ (kills' = kills + 1 /\ \E p \in Running : Killed(p))
    <2>1. kills' = kills \/ \E p \in Running : Killed(p)
        BY DoorMoves
    <2>2. ASSUME NEW p \in Running, Killed(p) PROVE kills' = kills + 1
        BY <2>2 DEF Killed, Kill
    <2> QED BY <2>1, <2>2
<1>3. \A p, q \in Running : Killed(p) /\ Killed(q) => p = q
    BY <1>0 DEF Killed, Kill, Goto, Alive, DoorTyped
<1>4. ASSUME NEW f PROVE Spare(f) \in Nat /\ Spare(f)' \in Nat /\ Spare(f) + (kills' - kills) <= Spare(f)'
    BY <1>0, <1>1, <1>2 DEF Spare
<1>5. ASSUME NEW f \in DOMAIN content
      PROVE  Cardinality(Pending(content[f])' \ Owed(f)') <= Spare(f)'
    <2>1. f \in DOMAIN content'
        BY <1>0, ChainsMove
    <2>2. Unbroken(content[f].chain) /\ Unbroken(content'[f].chain)
        BY <1>0, <2>1 DEF ChainInv, Sound
    <2>3. PICK S : S = Pending(content[f]) \ Owed(f)
        OBVIOUS
    <2>4. IsFiniteSet(S) /\ Cardinality(S) \in Nat /\ Cardinality(S) <= Spare(f)
        <3>1. IsFiniteSet(Pending(content[f]))
            BY <2>2, PendingFinite
        <3>2. S \in SUBSET Pending(content[f])
            BY <2>3
        <3> QED BY <2>3, <3>1, <3>2, FS_Subset, FS_CardinalityType DEF CountInv
    <2>5. PICK T : T = Pending(content[f])' \ Owed(f)'
        OBVIOUS
    <2>6. CASE \A p \in Running : ~Killed(p)
        <3>1. T \in SUBSET S
            BY <2>3, <2>5, <2>6, PendingMoves
        <3>2. Cardinality(T) <= Cardinality(S) /\ Cardinality(T) \in Nat
            BY <2>4, <3>1, FS_Subset, FS_CardinalityType
        <3> QED BY <1>0, <1>2, <1>4, <2>4, <2>5, <3>2
    <2>7. ASSUME NEW p \in Running, Killed(p)
          PROVE  Cardinality(T) <= Spare(f)'
        <3>1. kills' = kills + 1
            BY <2>7 DEF Killed, Kill
        <3>2. PICK x : x = Drafted(p).seq
            OBVIOUS
        <3>3. T \in SUBSET (S \cup {x})
            BY <1>3, <2>3, <2>5, <2>7, <3>2, PendingMoves
        <3>4. /\ IsFiniteSet(S \cup {x}) /\ Cardinality(S \cup {x}) \in Nat
              /\ Cardinality(S \cup {x}) <= Cardinality(S) + 1
            <4>1. CASE x \in S
                <5>1. S \cup {x} = S
                    BY <4>1
                <5>2. IsFiniteSet(S \cup {x}) /\ Cardinality(S \cup {x}) = Cardinality(S)
                    BY <2>4, <5>1, Zenon
                <5> QED BY <2>4, <5>2
            <4>2. CASE x \notin S
                <5>1. /\ IsFiniteSet(S \cup {x})
                      /\ Cardinality(S \cup {x}) = Cardinality(S) + 1
                    BY <2>4, <4>2, FS_AddElement
                <5> QED BY <2>4, <5>1
            <4> QED BY <4>1, <4>2
        <3>5. Cardinality(T) <= Cardinality(S \cup {x}) /\ Cardinality(T) \in Nat
            BY <3>3, <3>4, FS_Subset, FS_CardinalityType
        <3> QED BY <1>0, <1>4, <2>4, <3>1, <3>4, <3>5
    <2> QED BY <2>5, <2>6, <2>7
<1>6. /\ IsFiniteSet(Pending(backup.db)) /\ Cardinality(Pending(backup.db)) \in Nat
      /\ Cardinality(Pending(backup.db)) <= kills + Cardinality(raced) + 1
    <2>1. Unbroken(backup.db.chain)
        BY <1>0 DEF ChainInv, Sound
    <2> QED BY <2>1, PendingFinite DEF CountInv
<1>7. left \subseteq left'
    BY LeftGrows
<1>8. ASSUME NEW f \in DOMAIN content', f \notin DOMAIN content
      PROVE  Cardinality(Pending(content[f])' \ Owed(f)') <= Spare(f)'
    <2>1. CASE content'[f] = Empty
        <3>1. Pending(content[f])' \ Owed(f)' = {}
            BY <2>1 DEF Pending, Empty
        <3>2. Spare(f)' \in Nat
            BY <1>4
        <3> QED BY <3>1, <3>2, FS_EmptySet
    <2>2. CASE content'[f] = backup.db /\ \E p \in Running : CopyDb(p) /\ f = p
        <3>1. pc[f] = "unlocked" /\ f \in Running
            BY <2>2 DEF CopyDb
        <3>2. f \in swapped'
            BY <1>0, <3>1 DEF CameInv, Restoring
        <3>3. Pending(content[f])' \ Owed(f)' \in SUBSET Pending(backup.db)
            BY <1>7, <2>2 DEF Pending
        <3>4. /\ Cardinality(Pending(content[f])' \ Owed(f)') <= Cardinality(Pending(backup.db))
              /\ Cardinality(Pending(content[f])' \ Owed(f)') \in Nat
            BY <1>6, <3>3, FS_Subset, FS_CardinalityType
        <3>5. Spare(f)' = kills' + Cardinality(raced') + 1
            BY <1>0, <1>1, <1>2, <3>2 DEF Spare
        <3> QED BY <1>0, <1>1, <1>2, <1>6, <3>4, <3>5
    <2> QED BY <1>0, <1>8, <2>1, <2>2, FilesMove
<1>9. Cardinality(Pending(backup.db)') <= kills' + Cardinality(raced') + 1
    <2>1. CASE Pending(backup.db)' \in SUBSET Pending(backup.db)
        <3>1. /\ Cardinality(Pending(backup.db)') <= Cardinality(Pending(backup.db))
              /\ Cardinality(Pending(backup.db)') \in Nat
            BY <1>6, <2>1, FS_Subset, FS_CardinalityType
        <3> QED BY <1>0, <1>1, <1>2, <1>6, <3>1
    <2>2. ASSUME NEW p \in Running, Backup(p), backup = NoBackup, db # None, backup'.db = content[db]
          PROVE  Cardinality(Pending(backup.db)') <= kills' + Cardinality(raced') + 1
        <3>1. swapped = {}
            BY <2>2 DEF CameInv, NoBackup
        <3>2. db = "first" /\ "first" \in DOMAIN content
            BY <3>1 DEF WholeInv
        <3>3. PICK S : S = Pending(content["first"])
            OBVIOUS
        <3>4. PICK T : T = Owed("first")
            OBVIOUS
        <3>5. IsFiniteSet(S) /\ Cardinality(S) \in Nat
            BY <1>0, <3>2, <3>3, PendingFinite DEF ChainInv, Sound
        <3>6. IsFiniteSet(T) /\ Cardinality(T) \in Nat /\ Cardinality(T) <= Cardinality(raced) + 1
            <4>1. /\ IsFiniteSet(T) /\ Cardinality(T) \in Nat
                  /\ Cardinality(T) <= Cardinality(Owing("first"))
                  /\ Cardinality(Owing("first")) \in Nat
                BY <3>4, OwedBound
            <4>2. IsFiniteSet(Within)
                <5>1. Within \in SUBSET Running
                    BY DEF Within
                <5> QED BY <5>1, RunningFinite, FS_Subset
            <4>3. Owing("first") \in SUBSET Within
                BY DEF Owing, Within, Inside
            <4>4. Cardinality(Owing("first")) <= Cardinality(Within) /\ Cardinality(Within) \in Nat
                BY <4>2, <4>3, FS_Subset, FS_CardinalityType
            <4>5. /\ IsFiniteSet(Within \ {lock}) /\ Cardinality(Within \ {lock}) \in Nat
                  /\ Cardinality(Within) <= Cardinality(Within \ {lock}) + 1
                <5>1. CASE lock \in Within
                    <6>1. /\ IsFiniteSet(Within \ {lock})
                          /\ Cardinality(Within \ {lock}) = Cardinality(Within) - 1
                        BY <4>2, <5>1, FS_RemoveElement
                    <6>2. Cardinality(Within \ {lock}) \in Nat
                        BY <6>1, FS_CardinalityType
                    <6> QED BY <4>4, <6>1, <6>2
                <5>2. CASE lock \notin Within
                    <6>1. Within \ {lock} = Within
                        BY <5>2
                    <6>2. /\ IsFiniteSet(Within \ {lock})
                          /\ Cardinality(Within \ {lock}) = Cardinality(Within)
                        BY <4>2, <6>1, Zenon
                    <6> QED BY <4>4, <6>2
                <5> QED BY <5>1, <5>2
            <4>6. Cardinality(Within \ {lock}) <= Cardinality(raced)
                BY <3>1 DEF CameInv
            <4> QED BY <1>1, <4>1, <4>4, <4>5, <4>6
        <3>7. S \ T \in SUBSET S /\ S \in SUBSET ((S \ T) \cup T)
            OBVIOUS
        <3>8. IsFiniteSet(S \ T) /\ Cardinality(S \ T) \in Nat
            BY <3>5, <3>7, FS_Subset, FS_CardinalityType
        <3>9. Cardinality(S \ T) <= kills
            <4>1. Spare("first") = kills
                BY <1>0, <3>1 DEF Spare
            <4> QED BY <3>2, <3>3, <3>4, <4>1 DEF CountInv
        <3>10. /\ IsFiniteSet((S \ T) \cup T)
               /\ Cardinality((S \ T) \cup T) <= Cardinality(S \ T) + Cardinality(T)
            <4>1. (S \ T) \cap T = {}
                OBVIOUS
            <4> QED BY <3>6, <3>8, <4>1, FS_Union, FS_EmptySet
        <3>11. Cardinality(S) <= Cardinality((S \ T) \cup T) /\ Cardinality((S \ T) \cup T) \in Nat
            BY <3>7, <3>10, FS_Subset, FS_CardinalityType
        <3>12. Pending(backup.db)' \in SUBSET S
            BY <1>7, <2>2, <3>2, <3>3 DEF Pending
        <3>13. Cardinality(Pending(backup.db)') <= Cardinality(S)
               /\ Cardinality(Pending(backup.db)') \in Nat
            BY <3>5, <3>12, FS_Subset, FS_CardinalityType
        <3> QED BY <1>0, <1>1, <1>2, <3>5, <3>6, <3>8, <3>9, <3>10, <3>11, <3>13
    <2>3. ASSUME NEW p \in Running, Backup(p), backup'.db = backup.db
          PROVE  Pending(backup.db)' \in SUBSET Pending(backup.db)
        BY <1>7, <2>3 DEF Pending
    <2>4. ASSUME NEW p \in Running, Backup(p)
          PROVE  backup'.db = backup.db \/ (backup = NoBackup /\ db # None /\ backup'.db = content[db])
        <3>1. IsBackup(backup)
            BY <1>0 DEF ChainInv
        <3> QED BY <1>0, <2>4, <3>1, BackupMoves DEF IsBackup
    <2>5. backup' = backup => Pending(backup.db)' \in SUBSET Pending(backup.db)
        BY <1>7 DEF Pending
    <2> QED BY <2>1, <2>2, <2>3, <2>4, <2>5, DoorMoves
<1> QED BY <1>5, <1>8, <1>9 DEF CountInv

LEMMA CountsHold ==
    ASSUME RecordInv, TypesInv, CountInv
    PROVE  EveryAddresseeQueued
<1> SUFFICES ASSUME NEW f \in DOMAIN content
             PROVE  Cardinality(Short(f)) <=
                        kills + Cardinality(raced) + Cardinality(swapped)
                              + Cardinality({p \in Uses : pc[p] = "appended" /\ handle[p] = f})
    BY DEF EveryAddresseeQueued
<1>0. kills \in Nat /\ raced \in SUBSET Running /\ swapped \in SUBSET Running
    BY DEF RecordInv, TypesInv
<1>1. /\ IsFiniteSet(raced) /\ IsFiniteSet(swapped)
      /\ Cardinality(raced) \in Nat /\ Cardinality(swapped) \in Nat
    BY <1>0, RunningFinite, FS_Subset, FS_CardinalityType
<1>2. f \in swapped => Cardinality(swapped) >= 1
    BY <1>1, FS_EmptySet
<1>3. {p \in Uses : pc[p] = "appended" /\ handle[p] = f} = Owing(f)
    <2>1. f # None
        BY Names DEF TypesInv, RecordInv, DoorTyped
    <2> QED BY <2>1 DEF Uses, Owing
<1>4. Short(f) = Pending(content[f])
    BY DEF Short, Pending
<1>5. PICK S : S = Pending(content[f])
    OBVIOUS
<1>6. PICK T : T = Owed(f)
    OBVIOUS
<1>7. IsFiniteSet(S) /\ Cardinality(S) \in Nat
    BY <1>5, PendingFinite DEF RecordInv, ChainInv, Sound
<1>8. /\ IsFiniteSet(T) /\ Cardinality(T) \in Nat
      /\ Cardinality(Owing(f)) \in Nat /\ Cardinality(T) <= Cardinality(Owing(f))
    BY <1>6, OwedBound
<1>9. S \ T \in SUBSET S /\ S \in SUBSET ((S \ T) \cup T)
    OBVIOUS
<1>10. IsFiniteSet(S \ T) /\ Cardinality(S \ T) \in Nat
    BY <1>7, <1>9, FS_Subset, FS_CardinalityType
<1>11. /\ IsFiniteSet((S \ T) \cup T)
       /\ Cardinality((S \ T) \cup T) <= Cardinality(S \ T) + Cardinality(T)
    <2>1. (S \ T) \cap T = {}
        OBVIOUS
    <2>2. Cardinality((S \ T) \cap T) = 0
        BY <2>1, FS_EmptySet, Zenon
    <2>3. /\ IsFiniteSet((S \ T) \cup T)
          /\ Cardinality((S \ T) \cup T) =
                Cardinality(S \ T) + Cardinality(T) - Cardinality((S \ T) \cap T)
        BY <1>8, <1>10, FS_Union
    <2> QED BY <1>8, <1>10, <2>2, <2>3
<1>12. Cardinality(S) <= Cardinality((S \ T) \cup T) /\ Cardinality((S \ T) \cup T) \in Nat
    BY <1>9, <1>11, FS_Subset, FS_CardinalityType
<1>13. Cardinality(S \ T) <= kills + Cardinality(raced) + Cardinality(swapped)
    <2>1. Cardinality(S \ T) <= Spare(f)
        BY <1>5, <1>6 DEF CountInv
    <2>2. CASE f \in swapped
        <3>1. Spare(f) = kills + Cardinality(raced) + 1
            BY <1>0, <1>1, <2>2 DEF Spare
        <3> QED BY <1>0, <1>1, <1>2, <1>10, <2>1, <2>2, <3>1
    <2>3. CASE f \notin swapped
        <3>1. Spare(f) = kills
            BY <1>0, <1>1, <2>3 DEF Spare
        <3> QED BY <1>0, <1>1, <1>10, <2>1, <3>1
    <2> QED BY <2>2, <2>3
<1>14. Cardinality(S) <= kills + Cardinality(raced) + Cardinality(swapped) + Cardinality(Owing(f))
    BY <1>0, <1>1, <1>7, <1>8, <1>10, <1>11, <1>12, <1>13
<1> QED BY <1>3, <1>4, <1>5, <1>14

LEMMA TypesHold ==
    ASSUME RecordInv, TypesInv, KeyInv
    PROVE  TypeOK
<1>1. /\ plan \in Plans /\ pc \in [Running -> Places] /\ db \in Files \cup {None}
      /\ handle \in [Running -> Files \cup {None}]
      /\ \A p \in Running : handle[p] \in DOMAIN content \cup {None}
    BY DEF RecordInv, DoorTyped, ChainInv
<1>2. handle \in [Running -> DOMAIN content \cup {None}]
    BY <1>1
<1>3. index \in Seq(KeyEntries) /\ Len(index) \in Nat /\ DOMAIN index = 1..Len(index)
    BY DEF KeyInv
<1>4. \A o \in DOMAIN index : index[o].by \in {"none", "rotation", "revocation"}
    <2>1. \A o \in 1..Len(index) : index[o] \in KeyEntries
        BY <1>3
    <2> QED BY <1>3, <2>1 DEF KeyEntries
<1>5. signs \in [Running -> 0..Len(index)]
    BY DEF KeyInv, RecordInv, NextTyped
<1>6. miscut \subseteq 0..Len(index)
    BY <1>3 DEF KeyInv
<1> QED BY <1>1, <1>2, <1>4, <1>5, <1>6 DEF TypeOK, TypesInv, Places, Inside

UpInv ==
    /\ TypesInv /\ IntentInv /\ HeadInv /\ DelegInv /\ RowsInv /\ CameInv /\ CountInv

LEMMA UpInit == Init => UpInv
<1> SUFFICES ASSUME Init PROVE UpInv
    OBVIOUS
<1>1. /\ content = [f \in {"first"} |-> Empty] /\ backup = NoBackup /\ lock = None
      /\ kills = 0 /\ raced = {} /\ swapped = {} /\ now = 1 /\ crowded = {} /\ index = << >>
      /\ world = [a \in Acts |-> 0] /\ \A p \in Running : pc[p] = "new"
    BY DEF Init, DoorInit, Running
<1>2. TypesInv
    BY <1>1, RecordAssumption, DoorAssumption DEF TypesInv, Files, RecordAssumption, DoorAssumption
<1>3. IntentInv
    BY <1>1 DEF IntentInv, Single, Empty, NoBackup
<1>4. HeadInv /\ RowsInv
    BY <1>1 DEF HeadInv, RowsInv
<1>5. DelegInv
    <2>1. DOMAIN index = {}
        BY <1>1
    <2> QED BY <1>1, <2>1 DEF DelegInv
<1>6. Cardinality(raced) = 0 /\ Cardinality({}) = 0
    BY <1>1, FS_EmptySet
<1>7. CameInv
    <2>1. Within = {}
        BY <1>1 DEF Within, Inside
    <2>2. Within \ {lock} = {}
        BY <2>1
    <2>3. Cardinality(Within \ {lock}) = 0
        BY <1>6, <2>2, Zenon
    <2> QED BY <1>1, <1>6, <2>3 DEF CameInv, Restoring
<1>8. CountInv
    <2>1. Pending(Empty) = {}
        BY DEF Pending, Empty
    <2>2. \A f \in DOMAIN content : Pending(content[f]) \ Owed(f) = {} /\ Spare(f) = 0
        BY <1>1, <2>1 DEF Spare
    <2>3. Pending(backup.db) = {}
        BY <1>1, <2>1 DEF NoBackup
    <2>4. Cardinality(Pending(backup.db)) = 0
        BY <1>6, <2>3, Zenon
    <2>5. \A f \in DOMAIN content : Cardinality(Pending(content[f]) \ Owed(f)) = 0
        BY <1>6, <2>2, Zenon
    <2> QED BY <1>1, <1>6, <2>2, <2>4, <2>5 DEF CountInv
<1> QED BY <1>2, <1>3, <1>4, <1>5, <1>7, <1>8 DEF UpInv

LEMMA UpStep ==
    ASSUME RecordInv, KeysInv, UpInv, [Next]_vars
    PROVE  UpInv'
BY TypesStep, IntentStep, HeadStep, DelegStep, RowsStep, CameStep, CountStep DEF KeysInv, UpInv

LEMMA UpStands == Spec => [](RecordInv /\ KeysInv /\ UpInv)
<1>1. Init => UpInv
    BY UpInit
<1>2. (RecordInv /\ KeysInv) /\ UpInv /\ [Next]_vars => UpInv'
    BY UpStep
<1> QED BY <1>1, <1>2, KeysInvStands, PTL DEF Spec

\* What was done is on the record, once: whatever the processes, their jobs, the kills and
\* the restore, and however many there are.
THEOREM RecordUpStands == Spec => []RecordKeepsUp
<1>1. RecordInv /\ KeysInv /\ UpInv => RecordKeepsUp
    <2> SUFFICES ASSUME RecordInv, KeysInv, UpInv PROVE RecordKeepsUp
        OBVIOUS
    <2>1. TypeOK
        BY TypesHold DEF KeysInv, UpInv
    <2>2. EveryAddresseeQueued
        BY CountsHold DEF UpInv
    <2>3. DelegationBacksKey
        BY DelegationsHold DEF KeysInv, UpInv, RecordInv
    <2>4. IntentOnce
        BY IntentsHold DEF UpInv
    <2> QED BY <2>1, <2>2, <2>3, <2>4 DEF RecordKeepsUp
<1> QED BY <1>1, UpStands, PTL

------------------------------------------------------------------------------
(* The world is not acted on again *)

\* The one database there is while no restore has begun.
First == content["first"].chain
Answered(n) == \E k \in DOMAIN First : First[k].says.kind = "result" /\ First[k].says.num = n
Announced(c) == c.intent.seq \in DOMAIN First /\ First[c.intent.seq] = c.intent

\* A call was announced; until its Result is drafted nothing answers its intent, and one
\* that is not crowded is the only call of its key.
CallInv ==
    Whole =>
        /\ \A k \in DOMAIN First :
              First[k].says.kind = "result" => First[k].says.num \in DOMAIN First
        /\ \A p \in Running : pc[p] = "drafted" /\ Drafted(p).says.kind = "result" =>
              Drafted(p).says.num \in DOMAIN First
        /\ \A p \in Running : pc[p] = "appended" /\ Drafted(p).says.kind = "intent" =>
              ~Answered(Drafted(p).seq)
        /\ \A p \in Running : \A c \in calls[p] :
              /\ Announced(c)
              /\ c.intent.says.of \notin crowded =>
                    /\ ~Answered(c.intent.seq)
                    /\ \A d \in calls[p] : d.intent.says.of = c.intent.says.of => d = c
                    /\ pc[p] = "drafted" /\ Drafted(p).says.kind = "result" =>
                          Drafted(p).says.num # c.intent.seq

LEMMA AtFirst ==
    ASSUME RecordInv, WholeInv, swapped = {}, NEW p \in Running, pc[p] \in Inside
    PROVE  handle[p] = "first" /\ Store(p) = content["first"]
<1>1. handle[p] \in DOMAIN content \cup {None} /\ handle[p] # None
    BY DEF RecordInv, DoorTyped, ChainInv
<1>2. DOMAIN content = {"first"}
    BY DEF WholeInv
<1> QED BY <1>1, <1>2 DEF Store

\* The chain gets one entry more, at its end.
Lengthens(p) ==
    /\ pc[p] = "drafted" /\ pc'[p] = "appended" /\ Drafted(p)' = Drafted(p)
    /\ calls' = calls /\ crowded' = crowded
    /\ Drafted(p).seq \notin DOMAIN First
    /\ DOMAIN First' = DOMAIN First \cup {Drafted(p).seq}
    /\ First'[Drafted(p).seq] = Drafted(p)
    /\ \A k \in DOMAIN First : First'[k] = First[k]

LEMMA FirstMoves ==
    ASSUME RecordInv, WholeInv, swapped = {}, [Next]_vars
    PROVE  First' = First \/ \E p \in Running : Lengthens(p)
<1>0. DoorTyped /\ MadeOnce /\ ChainInv /\ "first" \in DOMAIN content
    BY DEF RecordInv, WholeInv
<1>1. ASSUME NEW p \in Running, Appends(p), handle[p] = "first" PROVE Lengthens(p)
    <2>1. PICK c : c = First
        OBVIOUS
    <2>2. PICK d : d = Append(c, Drafted(p))
        OBVIOUS
    <2>3. /\ First' = d /\ DOMAIN d = 1..(Len(c) + 1) /\ d[Len(c) + 1] = Drafted(p)
          /\ Len(c) \in Nat /\ DOMAIN c = 1..Len(c) /\ \A j \in 1..Len(c) : d[j] = c[j]
        BY <1>1, <2>1, <2>2, AppendsChain DEF First, Store
    <2>4. /\ pc[p] = "drafted" /\ pc'[p] = "appended" /\ Drafted(p)' = Drafted(p)
          /\ calls' = calls /\ crowded' = crowded /\ Drafted(p).seq = Len(c) + 1
        BY <1>0, <1>1, <2>1 DEF Appends, DoorTyped, Drafted, First, Store
    <2>5. DOMAIN d = DOMAIN c \cup {Len(c) + 1} /\ Len(c) + 1 \notin DOMAIN c
        BY <2>3
    <2> QED BY <2>1, <2>3, <2>4, <2>5 DEF Lengthens
<1> QED BY <1>0, <1>1, ChainsMove DEF First

LEMMA ResultsMove ==
    ASSUME RecordInv, [Next]_vars, NEW p \in Running, pc'[p] = "drafted",
           Drafted(p)'.says.kind = "result"
    PROVE  \/ pc[p] = "drafted" /\ Drafted(p)' = Drafted(p)
           \/ /\ pc[p] = "open" /\ content' = content /\ crowded' = crowded
              /\ \E c \in calls[p] : /\ calls'[p] = calls[p] \ {c}
                                     /\ Drafted(p)'.says.num = c.intent.seq
<1>0. DoorTyped /\ NextTyped /\ ChainInv /\ RolesInv /\ pc'[p] \in Emitting
    BY DEF RecordInv, Emitting
<1>1. CASE EmitsOn(p)
    <2>1. ~Appends(p)
        BY <1>0 DEF Appends, DoorTyped
    <2>2. ~RootSigns(p)
        <3>1. pc[p] = "asked" => Drafted(p).says.kind = "delegation"
            BY <1>0 DEF RolesInv, Emitting
        <3> QED BY <1>1, <3>1 DEF RootSigns, EmitsOn
    <2> QED BY <1>1, <2>1, <2>2 DEF EmitsOn
<1>2. ASSUME NEW says, NEW to, DraftsAs(p, signs[p], now, says, to), Serves(p, says)
      PROVE  /\ pc[p] = "open" /\ content' = content /\ crowded' = crowded
             /\ \E c \in calls[p] : /\ calls'[p] = calls[p] \ {c}
                                    /\ Drafted(p)'.says.num = c.intent.seq
    <2>1. pc[p] = "open" /\ content' = content /\ Drafted(p)'.says = says
        BY <1>2 DEF DraftsAs
    <2>2. says.kind = "result"
        BY <2>1
    <2>3. crowded' = crowded
        BY <1>2 DEF Serves
    <2>4. PICK c \in calls[p] :
              /\ calls' = [calls EXCEPT ![p] = @ \ {c}]
              /\ says = Says(IF c.got = "good" THEN "result" ELSE "error",
                             c.intent.says.of, c.intent.seq, 0)
        BY <1>2, <2>2 DEF Serves
    <2>5. calls'[p] = calls[p] \ {c}
        BY <1>0, <2>4 DEF RolesInv
    <2>6. says.num = c.intent.seq
        BY <2>4 DEF Says
    <2> QED BY <2>1, <2>3, <2>5, <2>6
<1>3. pc'[p] # "asked"
    OBVIOUS
<1> QED BY <1>0, <1>1, <1>2, <1>3, DraftsMove

LEMMA CrowdedGrows == [Next]_vars => crowded \subseteq crowded'
BY DEF Next, vars, recordVars, Tick, Killed, Publish, Emitted, Actuate, Call, Return, AppendEntry,
       AskRoot, Enqueue, Deliver, Act, Close, RootRefuses, Boot, RotateKey, RootSigns, RevokeKey

\* A call is made for `intent`, and is crowded when one of its key runs.
Begins(p, intent) ==
    /\ \E c : calls'[p] = calls[p] \cup {c} /\ c.intent = intent
    /\ \A c \in calls[p] : c.intent.says.of = intent.says.of => intent.says.of \in crowded'
    /\ pc'[p] = "open"
    /\ \/ pc[p] = "appended" /\ intent = Drafted(p) /\ Drafted(p).says.kind = "intent"
       \/ /\ pc[p] = "open" /\ \E a : intent \in IntentsFor(Store(p).chain, a)
          /\ ~Reconciled(Store(p).chain, intent)

\* The outside world answers, or fails.
Answers(p) ==
    /\ pc'[p] = pc[p] /\ draft' = draft /\ content' = content /\ crowded' = crowded
    /\ \E d \in calls[p] : \E S :
          /\ calls'[p] = (calls[p] \ {d}) \cup S
          /\ \A e \in S : e.intent = d.intent
          /\ \A e, f \in S : e = f

LEMMA CallsGrow ==
    ASSUME RecordInv, [Next]_vars, NEW p \in Running
    PROVE  \/ calls'[p] \subseteq calls[p]
           \/ Answers(p)
           \/ \E intent : Begins(p, intent)
<1>0. DoorTyped /\ NextTyped /\ ChainInv /\ RolesInv
    BY DEF RecordInv
<1>1. ASSUME Act(p) PROVE Answers(p)
    <2>1. PICK d \in calls[p], got \in {"good", "bad", "error"} :
              calls' = [calls EXCEPT ![p] = (calls[p] \ {d}) \cup
                              IF got = "error" THEN {} ELSE {[d EXCEPT !.got = got]}]
        BY <1>1 DEF Act
    <2>2. PICK S : S = IF got = "error" THEN {} ELSE {[d EXCEPT !.got = got]}
        OBVIOUS
    <2>3. calls'[p] = (calls[p] \ {d}) \cup S
        BY <1>0, <2>1, <2>2 DEF RolesInv
    <2>4. d = [intent |-> d.intent, job |-> d.job, got |-> d.got]
        BY <1>0 DEF RolesInv
    <2>5. \A e \in S : e.intent = d.intent
        BY <2>2, <2>4
    <2>6. \A e, f \in S : e = f
        BY <2>2
    <2>7. pc' = pc /\ draft' = draft /\ content' = content /\ crowded' = crowded
        BY <1>1 DEF Act, doorVars, disk
    <2> QED BY <2>3, <2>5, <2>6, <2>7 DEF Answers
<1>2. ASSUME NEW c, NEW intent, NewCall(p, c, intent)
      PROVE  /\ \E e : calls'[p] = calls[p] \cup {e} /\ e.intent = intent
             /\ \A e \in calls[p] : e.intent.says.of = intent.says.of => intent.says.of \in crowded'
    <2>1. calls' = [calls EXCEPT ![p] = calls[p] \cup {c}] /\ c.intent = intent
        BY <1>2 DEF NewCall, Call
    <2>2. calls'[p] = calls[p] \cup {c}
        BY <1>0, <2>1 DEF RolesInv
    <2>3. ASSUME NEW e \in calls[p], e.intent.says.of = intent.says.of
          PROVE  intent.says.of \in crowded'
        <3>1. p \in {r \in Running : \E b \in calls[r] : b.intent.says.of = intent.says.of}
            BY <2>3
        <3> QED BY <1>2, <3>1 DEF NewCall, Call
    <2> QED BY <2>1, <2>2, <2>3
<1>3. ASSUME NEW c, NewCall(p, c, Drafted(p)), pc[p] = "appended", Emitted(p),
             Drafted(p).says.kind = "intent"
      PROVE  \E intent : Begins(p, intent)
    <2>1. pc'[p] = "open"
        BY <1>0, <1>3 DEF Emitted, Goto, DoorTyped
    <2> QED BY <1>2, <1>3, <2>1 DEF Begins
<1>4. ASSUME NEW c, NEW intent \in IntentsFor(Store(p).chain, Job(p).of), NewCall(p, c, intent),
             Actuate(p), ~Reconciled(Store(p).chain, intent)
      PROVE  calls'[p] \subseteq calls[p] \/ \E i : Begins(p, i)
    <2>1. pc[p] = "open" /\ (calls' = calls \/ pc' = pc)
        BY <1>4 DEF Actuate, Ready
    <2>2. calls'[p] = calls[p] \cup {c}
        <3>1. calls' = [calls EXCEPT ![p] = calls[p] \cup {c}]
            BY <1>4 DEF NewCall, Call
        <3> QED BY <1>0, <3>1 DEF RolesInv
    <2>3. CASE calls' = calls
        BY <2>3
    <2>4. CASE pc' = pc
        BY <1>2, <1>4, <2>1, <2>4 DEF Begins
    <2> QED BY <2>1, <2>3, <2>4
<1> QED BY <1>0, <1>1, <1>3, <1>4, CallsMove

LEMMA CallStep ==
    ASSUME RecordInv, WholeInv, RowsInv, CallInv, [Next]_vars
    PROVE  CallInv'
<1>0. /\ DoorTyped /\ MadeOnce /\ ChainInv /\ NextTyped /\ RolesInv /\ Running' = Running
      /\ raced \subseteq raced' /\ swapped \subseteq swapped' /\ crowded \subseteq crowded'
    BY DoorMoves, CrowdedGrows DEF RecordInv, Running
<1> SUFFICES ASSUME raced' = {}, swapped' = {} PROVE CallInv'
    BY DEF CallInv, Whole
<1>1. raced = {} /\ swapped = {} /\ Whole
    BY <1>0 DEF Whole
<1>2. \A p, q \in Running : pc[p] \in Inside /\ pc[q] \in Inside => p = q
    BY <1>1, Alone
<1>3. \A p \in Running : calls[p] # {} => pc[p] \in Inside
    BY <1>0 DEF RolesInv
<1>4. First' = First \/ \E p \in Running : Lengthens(p)
    BY <1>1, FirstMoves
<1>5. \A p \in Running : pc[p] \in Inside => Store(p) = content["first"]
    BY <1>1, AtFirst
\* What was on the chain stays there, and what answered still does.
<1>6. \A k \in DOMAIN First : k \in DOMAIN First' /\ First'[k] = First[k]
    BY <1>4 DEF Lengthens
<1>7. ASSUME NEW n, Answered(n)'
      PROVE  \/ Answered(n)
             \/ \E p \in Running : Lengthens(p) /\ Drafted(p).says.kind = "result"
                                   /\ Drafted(p).says.num = n
    <2>1. PICK k \in DOMAIN First' : First'[k].says.kind = "result" /\ First'[k].says.num = n
        BY <1>7 DEF Answered
    <2> QED BY <1>4, <2>1 DEF Answered, Lengthens
<1>8. ASSUME NEW k \in DOMAIN First', First'[k].says.kind = "result"
      PROVE  First'[k].says.num \in DOMAIN First'
    <2>1. CASE k \in DOMAIN First /\ First'[k] = First[k]
        BY <1>1, <1>6, <1>8, <2>1 DEF CallInv
    <2>2. ASSUME NEW p \in Running, Lengthens(p), k = Drafted(p).seq
          PROVE  First'[k].says.num \in DOMAIN First'
        <3>1. Drafted(p).says.num \in DOMAIN First
            BY <1>1, <1>8, <2>2 DEF Lengthens, CallInv
        <3> QED BY <1>6, <2>2, <3>1 DEF Lengthens
    <2> QED BY <1>4, <1>8, <2>1, <2>2 DEF Lengthens
<1>9. ASSUME NEW p \in Running, pc'[p] = "drafted", Drafted(p)'.says.kind = "result"
      PROVE  Drafted(p)'.says.num \in DOMAIN First'
    <2>1. Drafted(p)'.says.num \in DOMAIN First
        BY <1>1, <1>9, ResultsMove DEF CallInv, Announced
    <2> QED BY <1>6, <2>1
<1>10. ASSUME NEW p \in Running, pc'[p] = "appended", Drafted(p)'.says.kind = "intent"
       PROVE  ~\E k \in DOMAIN First' :
                  First'[k].says.kind = "result" /\ First'[k].says.num = Drafted(p)'.seq
    <2>1. EmitsOn(p)
        <3>1. pc'[p] \in Emitting /\ pc'[p] # "drafted" /\ pc'[p] # "asked"
            BY <1>10 DEF Emitting
        <3> QED BY <1>0, <3>1, DraftsMove
    <2>2. pc[p] \in Inside /\ Drafted(p)' = Drafted(p)
        BY <2>1 DEF EmitsOn, Emitting, Inside
    <2>3. ASSUME NEW q \in Running, Lengthens(q) PROVE q = p
        BY <1>2, <2>2, <2>3 DEF Lengthens, Inside
    <2>4. ~Answered(Drafted(p).seq)
        <3>1. CASE pc[p] = "appended"
            BY <1>1, <1>10, <2>2, <3>1 DEF CallInv
        <3>2. CASE Appends(p)
            <4>1. pc[p] = "drafted" /\ handle[p] = "first" /\ Drafted(p).seq = Len(First) + 1
                BY <1>1, <2>2, <3>2, AtFirst DEF Appends, First
            <4>2. Len(First) \in Nat /\ DOMAIN First = 1..Len(First)
                <5>1. PICK c : c = First
                    OBVIOUS
                <5>2. Unbroken(c)
                    BY <1>0, <1>1, <2>2, <4>1, <5>1 DEF ChainInv, Sound, First, DoorTyped, WholeInv
                <5>3. PICK S : c \in Seq(S)
                    BY <5>2 DEF Unbroken
                <5> QED BY <5>1, <5>3
            <4>3. Drafted(p).seq \notin DOMAIN First
                BY <4>1, <4>2
            <4> QED BY <1>1, <4>3 DEF CallInv, Answered
        <3>3. pc[p] = "appended" \/ Appends(p)
            BY <1>10, <2>1 DEF EmitsOn, RootSigns
        <3> QED BY <3>1, <3>2, <3>3
    <2>5. ASSUME NEW q \in Running, Lengthens(q), Drafted(q).says.kind = "result" PROVE FALSE
        BY <1>10, <2>2, <2>3, <2>5
    <2>6. PICK n : n = Drafted(p).seq
        OBVIOUS
    <2>7. ~Answered(n)'
        BY <1>7, <2>4, <2>5, <2>6
    <2> QED BY <2>2, <2>6, <2>7 DEF Answered
<1>11. ASSUME NEW p \in Running, NEW c \in calls'[p]
       PROVE  /\ Announced(c)'
              /\ c.intent.says.of \notin crowded' =>
                    /\ ~Answered(c.intent.seq)'
                    /\ \A d \in calls'[p] : d.intent.says.of = c.intent.says.of => d = c
                    /\ pc'[p] = "drafted" /\ Drafted(p)'.says.kind = "result" =>
                          Drafted(p)'.says.num # c.intent.seq
    <2>1. CASE calls'[p] \subseteq calls[p]
        <3>0. c \in calls[p] /\ Announced(c) /\ pc[p] \in Inside
            BY <1>1, <1>3, <2>1 DEF CallInv
        <3>1. Announced(c)'
            BY <1>6, <3>0 DEF Announced
        <3>2. ASSUME c.intent.says.of \notin crowded' PROVE ~Answered(c.intent.seq)'
            <4>1. ~Answered(c.intent.seq)
                BY <1>0, <1>1, <3>0, <3>2 DEF CallInv
            <4>2. ASSUME NEW q \in Running, Lengthens(q), Drafted(q).says.kind = "result"
                  PROVE  Drafted(q).says.num # c.intent.seq
                <5>1. q = p /\ pc[p] = "drafted"
                    BY <1>2, <3>0, <4>2 DEF Lengthens, Inside
                <5> QED BY <1>0, <1>1, <3>0, <3>2, <4>2, <5>1 DEF CallInv
            <4> QED BY <1>7, <4>1, <4>2
        <3>3. ASSUME c.intent.says.of \notin crowded', NEW d \in calls'[p],
                     d.intent.says.of = c.intent.says.of
              PROVE  d = c
            BY <1>0, <1>1, <2>1, <3>0, <3>3 DEF CallInv
        <3>4. ASSUME c.intent.says.of \notin crowded', pc'[p] = "drafted",
                     Drafted(p)'.says.kind = "result"
              PROVE  Drafted(p)'.says.num # c.intent.seq
            <4>1. CASE pc[p] = "drafted" /\ Drafted(p)' = Drafted(p)
                BY <1>0, <1>1, <3>0, <3>4, <4>1 DEF CallInv
            <4>2. ASSUME NEW d \in calls[p], calls'[p] = calls[p] \ {d},
                         Drafted(p)'.says.num = d.intent.seq, d.intent.seq = c.intent.seq
                  PROVE  FALSE
                <5>1. Announced(d)
                    BY <1>1 DEF CallInv
                <5>2. d.intent = c.intent
                    BY <3>0, <4>2, <5>1 DEF Announced
                <5>3. d = c
                    BY <1>0, <1>1, <3>0, <3>4, <5>2 DEF CallInv
                <5> QED BY <4>2, <5>3
            <4> QED BY <3>4, <4>1, <4>2, ResultsMove
        <3> QED BY <3>1, <3>2, <3>3, <3>4
    <2>2. CASE Answers(p)
        <3>1. PICK d \in calls[p] : \E S :
                  /\ calls'[p] = (calls[p] \ {d}) \cup S
                  /\ \A e \in S : e.intent = d.intent
                  /\ \A e, f \in S : e = f
            BY <2>2 DEF Answers
        <3>2. PICK S : /\ calls'[p] = (calls[p] \ {d}) \cup S
                       /\ \A e \in S : e.intent = d.intent
                       /\ \A e, f \in S : e = f
            BY <3>1
        <3>3. First' = First /\ Drafted(p)' = Drafted(p) /\ pc'[p] = pc[p] /\ crowded' = crowded
            BY <2>2 DEF Answers, First, Drafted
        <3>4. PICK b \in calls[p] : b.intent = c.intent /\ (c \in S => b = d)
                                    /\ (c \notin S => b = c)
            BY <3>2
        <3>5. Announced(c)' /\ Announced(b)
            BY <1>1, <3>3, <3>4 DEF CallInv, Announced
        <3>6. ASSUME c.intent.says.of \notin crowded'
              PROVE  /\ ~Answered(c.intent.seq)
                     /\ \A e \in calls[p] : e.intent.says.of = c.intent.says.of => e = b
                     /\ pc[p] = "drafted" /\ Drafted(p).says.kind = "result" =>
                           Drafted(p).says.num # c.intent.seq
            BY <1>1, <3>3, <3>4, <3>6 DEF CallInv
        <3>7. ASSUME c.intent.says.of \notin crowded', NEW e \in calls'[p],
                     e.intent.says.of = c.intent.says.of
              PROVE  e = c
            <4>1. PICK a \in calls[p] : a.intent = e.intent /\ (e \in S => a = d)
                                        /\ (e \notin S => a = e /\ a # d)
                BY <3>2
            <4>2. a = b
                BY <3>6, <3>7, <4>1
            <4>3. c \notin S => b # d
                BY <3>2, <3>4
            <4> QED BY <3>2, <3>4, <4>1, <4>2, <4>3
        <3>8. Answered(c.intent.seq)' => Answered(c.intent.seq)
            BY <3>3 DEF Answered
        <3> QED BY <3>3, <3>5, <3>6, <3>7, <3>8
    <2>3. ASSUME NEW intent, Begins(p, intent)
          PROVE  /\ Announced(c)'
                 /\ c.intent.says.of \notin crowded' =>
                       /\ ~Answered(c.intent.seq)'
                       /\ \A d \in calls'[p] : d.intent.says.of = c.intent.says.of => d = c
        <3>1. PICK n : calls'[p] = calls[p] \cup {n} /\ n.intent = intent
            BY <2>3 DEF Begins
        <3>2. pc[p] \in {"appended", "open"} /\ pc[p] \in Inside /\ Store(p) = content["first"]
            BY <1>5, <2>3 DEF Begins, Inside
        <3>3. First' = First
            <4>1. ASSUME NEW q \in Running, Lengthens(q) PROVE FALSE
                BY <1>2, <3>2, <4>1 DEF Lengthens, Inside
            <4> QED BY <1>4, <4>1
        <3>4. intent.seq \in DOMAIN First /\ First[intent.seq] = intent /\ ~Answered(intent.seq)
            <4>1. CASE pc[p] = "appended" /\ intent = Drafted(p) /\ Drafted(p).says.kind = "intent"
                BY <1>1, <3>2, <4>1 DEF RowsInv, CallInv, First
            <4>2. ASSUME NEW a, intent \in IntentsFor(Store(p).chain, a),
                         ~Reconciled(Store(p).chain, intent)
                  PROVE  intent.seq \in DOMAIN First /\ First[intent.seq] = intent
                         /\ ~Answered(intent.seq)
                <5>1. PICK k \in DOMAIN First : First[k] = intent
                    BY <3>2, <4>2 DEF IntentsFor, Entries, First
                <5>2. Unbroken(First)
                    BY <1>0, <1>1 DEF ChainInv, Sound, First, WholeInv
                <5>3. intent.seq = k
                    <6>1. PICK h : h = First
                        OBVIOUS
                    <6>2. PICK S : h \in Seq(S)
                        BY <5>2, <6>1 DEF Unbroken
                    <6>3. k \in 1..Len(h) /\ h[k] = intent
                        BY <5>1, <6>1, <6>2
                    <6>4. h[k].seq = k
                        BY <5>2, <6>1, <6>3 DEF Unbroken
                    <6> QED BY <6>3, <6>4
                <5>4. ~Answered(intent.seq)
                    BY <3>2, <4>2 DEF Reconciled, Entries, Answered, First
                <5> QED BY <5>1, <5>3, <5>4
            <4> QED BY <2>3, <4>1, <4>2 DEF Begins
        <3>5. c \in calls[p] \/ c = n
            BY <3>1
        <3>6. \A d \in calls[p] : d.intent.says.of = intent.says.of => intent.says.of \in crowded'
            BY <2>3 DEF Begins
        <3>7. CASE c \in calls[p]
            <4>1. Announced(c)'
                BY <1>1, <3>3, <3>7 DEF CallInv, Announced
            <4>2. ASSUME c.intent.says.of \notin crowded'
                  PROVE  /\ ~Answered(c.intent.seq)
                         /\ \A d \in calls[p] : d.intent.says.of = c.intent.says.of => d = c
                BY <1>0, <1>1, <3>7, <4>2 DEF CallInv
            <4>3. c.intent.says.of \notin crowded' => n.intent.says.of # c.intent.says.of
                BY <3>1, <3>6, <3>7
            <4>4. Answered(c.intent.seq)' => Answered(c.intent.seq)
                BY <3>3 DEF Answered
            <4>5. ASSUME c.intent.says.of \notin crowded', NEW d \in calls'[p],
                         d.intent.says.of = c.intent.says.of
                  PROVE  d = c
                BY <3>1, <4>2, <4>3, <4>5
            <4> QED BY <4>1, <4>2, <4>4, <4>5
        <3>8. CASE c = n
            <4>1. Announced(c)'
                BY <3>1, <3>3, <3>4, <3>8 DEF Announced
            <4>2. Answered(c.intent.seq)' => Answered(intent.seq)
                BY <3>1, <3>3, <3>8 DEF Answered
            <4> QED BY <3>1, <3>4, <3>6, <3>8, <4>1, <4>2
        <3> QED BY <3>5, <3>7, <3>8
    <2>4. \A intent : Begins(p, intent) => pc'[p] # "drafted"
        BY DEF Begins
    <2> QED BY <1>0, <2>1, <2>2, <2>3, <2>4, CallsGrow
<1> QED BY <1>0, <1>8, <1>9, <1>10, <1>11 DEF CallInv, Answered

\* The world is not acted on for an intent that is already reconciled, but for the
\* exceptions the property names: whatever the processes, their jobs and the kills.
THEOREM NoActStands == Spec => NoActAfterReconciled
<1>1. Init => CallInv
    <2> SUFFICES ASSUME Init PROVE CallInv
        OBVIOUS
    <2>1. /\ First = << >> /\ DOMAIN First = {} /\ \A p \in Running : pc[p] = "new" /\ calls[p] = {}
        BY DEF Init, DoorInit, Running, First, Empty
    <2> QED BY <2>1 DEF CallInv
<1>2. (RecordInv /\ KeysInv /\ UpInv) /\ CallInv /\ [Next]_vars => CallInv'
    BY CallStep DEF KeysInv, UpInv
<1>3. (RecordInv /\ KeysInv /\ UpInv) /\ CallInv /\ [Next]_vars =>
          [\A p \in Running : \A c \in calls[p] :
              /\ world'[c.intent.says.of] > world[c.intent.says.of]
              /\ \E e \in Entries(Store(p).chain, "result") : e.says.num = c.intent.seq
              => c.intent.says.of \in crowded \/ raced # {} \/ swapped # {}]_vars
    <2> SUFFICES ASSUME RecordInv, KeysInv, CallInv, raced = {}, swapped = {},
                        NEW p \in Running, NEW c \in calls[p],
                        NEW e \in Entries(Store(p).chain, "result"), e.says.num = c.intent.seq
                 PROVE  c.intent.says.of \in crowded
        OBVIOUS
    <2>1. pc[p] \in Inside
        BY DEF RecordInv, RolesInv
    <2>2. Store(p) = content["first"]
        BY <2>1, AtFirst DEF KeysInv
    <2>3. Answered(c.intent.seq)
        BY <2>2 DEF Entries, Answered, First
    <2> QED BY <2>3 DEF CallInv, Whole
<1> QED BY <1>1, <1>2, <1>3, UpStands, PTL DEF Spec, NoActAfterReconciled
=============================================================================
