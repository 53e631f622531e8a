--------------------------- MODULE RecoveryProofs ---------------------------
(***************************************************************************)
(* Proofs about Recovery, for any number of processes, attachments and     *)
(* archives.  The lock keeps restores and servers apart; that a restore of *)
(* a complete archive leaves a file for every row needs, besides, what a   *)
(* backup has copied at each of its steps.                                 *)
(***************************************************************************)
EXTENDS Recovery, TLAPS

Pending(p) == proc[p].pc \in {"storing", "undoing"}
BackingUp(p) == proc[p].pc \in {"dump", "list", "copy", "manifest"}
Restoring(p) == proc[p].pc \in {"lock", "clean", "load", "storage"}

Sound(a) == archive[a].rows \subseteq archive[a].objs

ProcessState == [pc : {"down", "boot"} \cup Running \cup {"dump", "list", "copy", "manifest", "lock"} \cup Mutating,
                 k : Key \cup {Nil}, a : Archive \cup {Nil}, left : SUBSET Key]
ArchiveState == [st : {"none", "open", "complete", "damaged"}, rows : SUBSET Key, objs : SUBSET Key, torn : BOOLEAN]

TypeOK ==
  /\ proc \in [Proc -> ProcessState]
  /\ lock \in [Proc -> {"none", "shared", "exclusive"}]
  /\ rows \in SUBSET Key /\ objects \in SUBSET Key /\ used \in SUBSET Key
  /\ archive \in [Archive -> ArchiveState]
  /\ torn \in BOOLEAN

(* Who runs holds the lock, and who holds it exclusively holds it alone.   *)
Locks ==
  \A p \in Proc :
    /\ proc[p].pc \in Running => lock[p] = "shared"
    /\ proc[p].pc \in Mutating => lock[p] = "exclusive"
    /\ lock[p] = "exclusive" => \A q \in Proc \ {p} : lock[q] = "none"

(* A key between its object and its row is its server's alone.             *)
Keys ==
  /\ rows \subseteq used
  /\ \A a \in Archive : archive[a].rows \subseteq used
  /\ \A p \in Proc : Pending(p) =>
       /\ proc[p].k \in used
       /\ proc[p].k \notin rows
       /\ \A a \in Archive : proc[p].k \notin archive[a].rows
       /\ \A q \in Proc \ {p} : Pending(q) => proc[q].k # proc[p].k
       /\ proc[p].pc = "storing" => proc[p].k \in objects

(* Only backups and restores have an archive.                              *)
Named == \A p \in Proc : proc[p].a # Nil => BackingUp(p) \/ Restoring(p)

(* What is in an archive by the time its backup has come so far.           *)
Backups ==
  \A p \in Proc : BackingUp(p) =>
    LET a == proc[p].a IN
    /\ a \in Archive
    /\ archive[a].st = "open"
    /\ \A q \in Proc \ {p} : proc[q].a # a
    /\ proc[p].pc = "list" /\ ~archive[a].torn => archive[a].rows \subseteq objects
    /\ proc[p].pc = "copy" /\ ~archive[a].torn => archive[a].rows \subseteq archive[a].objs \cup proc[p].left
    /\ proc[p].pc = "manifest" /\ ~archive[a].torn => Sound(a)

(* What a restore has yet to put back.                                     *)
Restores ==
  \A p \in Proc : Restoring(p) =>
    LET a == proc[p].a IN
    /\ a \in Archive
    /\ archive[a].st = "complete"
    /\ proc[p].pc = "load" => torn
    /\ proc[p].pc = "storage" =>
         /\ torn
         /\ rows = archive[a].rows
         /\ ~archive[a].torn => rows \subseteq objects \cup proc[p].left

IInv == TypeOK /\ Locks /\ Keys /\ Named /\ Backups /\ Restores /\ EveryFileCanBeOpened

-----------------------------------------------------------------------------
LEMMA InitIInv == Init => IInv
<1> SUFFICES ASSUME Init PROVE IInv
  OBVIOUS
<1> USE DEF Init, Down, NoArchive
<1>1. TypeOK
  BY DEF TypeOK, ProcessState, ArchiveState
<1>2. Locks /\ Keys /\ EveryFileCanBeOpened
  BY DEF Locks, Keys, EveryFileCanBeOpened, Running, Mutating, Pending
<1>3. Named /\ Backups /\ Restores
  BY DEF Named, Backups, Restores, BackingUp, Restoring
<1> QED BY <1>1, <1>2, <1>3 DEF IInv

-----------------------------------------------------------------------------
(* Types.                                                                  *)

LEMMA ServerTyped ==
  ASSUME TypeOK, Keys, NEW p \in Proc, ServerStep(p)
  PROVE  TypeOK'
<1> USE DEF TypeOK, At, Becomes, GoesTo
<1>1. \A pc \in {"boot", "migrating", "serving", "undoing"} : [proc[p] EXCEPT !.pc = pc] \in ProcessState
  BY DEF ProcessState, Running
<1>2. [Down EXCEPT !.pc = "serving"] \in ProcessState
  BY DEF Down, ProcessState, Running
<1>3. CASE Start(p) \/ serveAcquireStoreLock(p) \/ Migrate(p) \/ SoftDelete(p)
  BY <1>1, <1>3 DEF Start, serveAcquireStoreLock, Migrate, SoftDelete
<1>4. CASE Put(p)
  <2>1. PICK k \in Key \ used, pc \in {"storing", "undoing"} :
          /\ used' = used \cup {k} /\ objects' = objects \cup {k}
          /\ proc' = [proc EXCEPT ![p] = [proc[p] EXCEPT !.pc = pc, !.k = k]]
    BY <1>4 DEF Put
  <2>2. [proc[p] EXCEPT !.pc = pc, !.k = k] \in ProcessState
    BY DEF ProcessState, Running
  <2> QED BY <1>4, <2>1, <2>2 DEF Put
<1>5. CASE CreateAttachment(p)
  <2>1. proc[p].k \in Key
    BY <1>5 DEF CreateAttachment, Keys, Pending
  <2> QED BY <1>1, <1>2, <1>5, <2>1 DEF CreateAttachment
<1>6. CASE Undo(p)
  <2>1. objects' \in SUBSET Key
    BY <1>6 DEF Undo
  <2> QED BY <1>2, <1>6, <2>1 DEF Undo
<1> QED BY <1>3, <1>4, <1>5, <1>6 DEF ServerStep

LEMMA BackupTyped ==
  ASSUME TypeOK, Backups, NEW p \in Proc, BackupStep(p)
  PROVE  TypeOK'
<1> USE DEF TypeOK, At, Becomes, GoesTo, Ends
<1>1. \A pc \in {"dump", "list", "copy", "manifest"}, l \in SUBSET Key :
        /\ [proc[p] EXCEPT !.pc = pc] \in ProcessState
        /\ [proc[p] EXCEPT !.pc = pc, !.left = l] \in ProcessState
        /\ [proc[p] EXCEPT !.left = l] \in ProcessState
  BY DEF ProcessState
<1>2. Down \in ProcessState /\ \A a \in Archive : [Down EXCEPT !.pc = "dump", !.a = a] \in ProcessState
  BY DEF Down, ProcessState
<1>3. BackingUp(p) => proc[p].a \in Archive
  BY DEF Backups
<1>4. CASE Backup(p)
  <2>1. PICK a \in Archive : archive' = [archive EXCEPT ![a].st = "open"] /\ Becomes(p, [Down EXCEPT !.pc = "dump", !.a = a])
    BY <1>4 DEF Backup, BackupOrder
  <2>2. archive' \in [Archive -> ArchiveState]
    BY <2>1 DEF ArchiveState
  <2> QED BY <1>2, <1>4, <2>1, <2>2 DEF Backup
<1>5. CASE dumpPostgres(p)
  <2>1. archive' \in [Archive -> ArchiveState]
    BY <1>3, <1>5 DEF dumpPostgres, BackingUp, ArchiveState
  <2> QED BY <1>1, <1>5, <2>1 DEF dumpPostgres, BackupOrder
<1>6. CASE ListObjects(p)
  BY <1>1, <1>6 DEF ListObjects
<1>7. CASE CopyObject(p)
  <2>1. PICK k \in proc[p].left \cap objects :
          /\ archive' = [archive EXCEPT ![proc[p].a].objs = @ \cup {k}]
          /\ Becomes(p, [proc[p] EXCEPT !.left = @ \ {k}])
    BY <1>7 DEF CopyObject
  <2>2. archive' \in [Archive -> ArchiveState]
    BY <1>3, <1>7, <2>1 DEF CopyObject, BackingUp, ArchiveState
  <2>3. [proc[p] EXCEPT !.left = @ \ {k}] \in ProcessState
    BY DEF ProcessState
  <2> QED BY <1>7, <2>1, <2>2, <2>3 DEF CopyObject
<1>8. CASE CopiedAll(p)
  BY <1>1, <1>8 DEF CopiedAll, BackupOrder
<1>9. CASE writeManifest(p)
  <2>1. archive' \in [Archive -> ArchiveState]
    BY <1>3, <1>9 DEF writeManifest, BackingUp, ArchiveState
  <2> QED BY <1>2, <1>9, <2>1 DEF writeManifest
<1> QED BY <1>4, <1>5, <1>6, <1>7, <1>8, <1>9 DEF BackupStep

LEMMA RestoreTyped ==
  ASSUME TypeOK, Restores, NEW p \in Proc, RestoreStep(p)
  PROVE  TypeOK'
<1> USE DEF TypeOK, At, Becomes, GoesTo, Ends
<1>1. \A pc \in {"clean", "load"} : [proc[p] EXCEPT !.pc = pc] \in ProcessState
  BY DEF ProcessState, Mutating
<1>2. Down \in ProcessState /\ \A a \in Archive : [Down EXCEPT !.pc = "lock", !.a = a] \in ProcessState
  BY DEF Down, ProcessState
<1>3. Restoring(p) => archive[proc[p].a] \in ArchiveState
  BY DEF Restores
<1>4. CASE Restore(p) \/ restoreTryStoreLock(p) \/ CleanDatabase(p)
  BY <1>1, <1>2, <1>4 DEF Restore, restoreTryStoreLock, CleanDatabase
<1>5. CASE restorePostgres(p)
  <2>1. archive[proc[p].a].rows \in SUBSET Key /\ archive[proc[p].a].objs \in SUBSET Key
    BY <1>3, <1>5 DEF restorePostgres, Restoring, ArchiveState
  <2>2. \A l \in SUBSET Key : [proc[p] EXCEPT !.pc = "storage", !.left = l] \in ProcessState
    BY DEF ProcessState, Mutating
  <2> QED BY <1>5, <2>1, <2>2 DEF restorePostgres
<1>6. CASE restoreBreaksOff(p)
  <2>1. rows' \in SUBSET Key
    BY <1>3, <1>6 DEF restoreBreaksOff, Restoring, ArchiveState
  <2> QED BY <1>2, <1>6, <2>1 DEF restoreBreaksOff
<1>7. CASE restoreObject(p)
  <2>1. PICK k \in proc[p].left : objects' = objects \cup {k} /\ Becomes(p, [proc[p] EXCEPT !.left = @ \ {k}])
    BY <1>7 DEF restoreObject
  <2>2. [proc[p] EXCEPT !.left = @ \ {k}] \in ProcessState /\ k \in Key
    BY DEF ProcessState
  <2> QED BY <1>7, <2>1, <2>2 DEF restoreObject
<1>8. CASE RestoreComplete(p)
  BY <1>2, <1>3, <1>8 DEF RestoreComplete, Restoring, ArchiveState
<1> QED BY <1>4, <1>5, <1>6, <1>7, <1>8 DEF RestoreStep

LEMMA NextTyped == IInv /\ [Next]_vars => TypeOK'
<1> SUFFICES ASSUME IInv, [Next]_vars PROVE TypeOK'
  OBVIOUS
<1> USE DEF IInv
<1>1. CASE UNCHANGED vars
  BY <1>1 DEF vars, TypeOK
<1>2. ASSUME NEW p \in Proc, Exit(p) PROVE TypeOK'
  BY <1>2 DEF TypeOK, Exit, Ends, Becomes, Down, ProcessState
<1>3. CASE Damage
  <2>1. archive' \in [Archive -> ArchiveState]
    BY <1>3 DEF Damage, TypeOK, ArchiveState
  <2> QED BY <1>3, <2>1 DEF Damage, TypeOK
<1>4. CASE NewInstallation
  BY <1>4 DEF NewInstallation, TypeOK
<1> QED BY <1>1, <1>2, <1>3, <1>4, ServerTyped, BackupTyped, RestoreTyped DEF Next, Step

-----------------------------------------------------------------------------
(* The lock.                                                               *)

(* A step is one process's: it leaves the others where they are.           *)
LEMMA OthersStay ==
  ASSUME TypeOK, NEW p \in Proc, Step(p), NEW q \in Proc \ {p}
  PROVE  proc'[q] = proc[q] /\ lock'[q] = lock[q]
<1> USE DEF TypeOK, Becomes, GoesTo, Ends
<1>1. CASE Exit(p)
  BY <1>1 DEF Exit
<1>2. CASE ServerStep(p)
  BY <1>2 DEF ServerStep, Start, serveAcquireStoreLock, Migrate, Put, CreateAttachment, Undo, SoftDelete
<1>3. CASE BackupStep(p)
  BY <1>3 DEF BackupStep, Backup, dumpPostgres, ListObjects, CopyObject, CopiedAll, writeManifest
<1>4. CASE RestoreStep(p)
  BY <1>4 DEF RestoreStep, Restore, restoreTryStoreLock, CleanDatabase, restorePostgres, restoreBreaksOff,
              restoreObject, RestoreComplete
<1> QED BY <1>1, <1>2, <1>3, <1>4 DEF Step

(* Where each step takes its process.                                      *)
LEMMA ServerMoves ==
  ASSUME TypeOK, NEW p \in Proc
  PROVE  /\ ServerStep(p) => proc'[p].a \in {proc[p].a, Nil}
         /\ Start(p) => proc[p].pc = "down" /\ proc'[p].pc = "boot"
         /\ serveAcquireStoreLock(p) => proc[p].pc = "boot" /\ proc'[p].pc = "migrating"
         /\ Migrate(p) => proc[p].pc = "migrating" /\ proc'[p].pc = "serving"
         /\ Put(p) => proc[p].pc = "serving" /\ proc'[p].pc \in {"storing", "undoing"}
         /\ CreateAttachment(p) => proc[p].pc = "storing" /\ proc'[p].pc \in {"serving", "undoing"}
         /\ Undo(p) => proc[p].pc = "undoing" /\ proc'[p].pc = "serving"
         /\ SoftDelete(p) => proc[p].pc = "serving" /\ proc' = proc
<1> USE DEF TypeOK, ProcessState, At, Becomes, GoesTo, Down
<1>1. Start(p) => proc[p].pc = "down" /\ proc'[p].pc = "boot"
  BY DEF Start
<1>2. serveAcquireStoreLock(p) => proc[p].pc = "boot" /\ proc'[p].pc = "migrating"
  BY DEF serveAcquireStoreLock
<1>3. Migrate(p) => proc[p].pc = "migrating" /\ proc'[p].pc = "serving"
  BY DEF Migrate
<1>4. Put(p) => proc[p].pc = "serving" /\ proc'[p].pc \in {"storing", "undoing"}
  BY DEF Put
<1>5. CreateAttachment(p) => proc[p].pc = "storing" /\ proc'[p].pc \in {"serving", "undoing"}
  BY DEF CreateAttachment
<1>6. Undo(p) => proc[p].pc = "undoing" /\ proc'[p].pc = "serving"
  BY DEF Undo
<1>7. SoftDelete(p) => proc[p].pc = "serving" /\ proc' = proc
  BY DEF SoftDelete
<1>8. ServerStep(p) => proc'[p].a \in {proc[p].a, Nil}
  <2>1. Start(p) \/ serveAcquireStoreLock(p) \/ Migrate(p) => proc'[p].a = proc[p].a
    BY DEF Start, serveAcquireStoreLock, Migrate
  <2>2. Put(p) => proc'[p].a = proc[p].a
    BY DEF Put
  <2>3. CreateAttachment(p) => proc'[p].a \in {proc[p].a, Nil}
    BY DEF CreateAttachment
  <2>4. Undo(p) \/ SoftDelete(p) => proc'[p].a \in {proc[p].a, Nil}
    BY DEF Undo, SoftDelete
  <2> QED BY <2>1, <2>2, <2>3, <2>4 DEF ServerStep
<1> QED BY <1>1, <1>2, <1>3, <1>4, <1>5, <1>6, <1>7, <1>8

LEMMA BackupMoves ==
  ASSUME TypeOK, NEW p \in Proc
  PROVE  /\ Backup(p) => proc[p].pc = "down" /\ proc'[p].pc = "dump"
         /\ dumpPostgres(p) => proc[p].pc = "dump" /\ proc'[p].pc = "list" /\ proc'[p].a = proc[p].a
         /\ ListObjects(p) => /\ proc[p].pc = "list" /\ proc'[p].pc = "copy"
                              /\ proc'[p].a = proc[p].a /\ proc'[p].left = objects
         /\ CopyObject(p) => proc[p].pc = "copy" /\ proc'[p].pc = "copy" /\ proc'[p].a = proc[p].a
         /\ CopiedAll(p) => proc[p].pc = "copy" /\ proc'[p].pc = "manifest" /\ proc'[p].a = proc[p].a
         /\ writeManifest(p) => proc[p].pc = "manifest" /\ proc'[p].pc = "down" /\ proc'[p].a = Nil
<1> USE DEF TypeOK, ProcessState, At, Becomes, GoesTo, Ends, Down, BackupOrder
<1>1. Backup(p) => proc[p].pc = "down" /\ proc'[p].pc = "dump"
  BY DEF Backup
<1>2. dumpPostgres(p) => proc[p].pc = "dump" /\ proc'[p].pc = "list" /\ proc'[p].a = proc[p].a
  BY DEF dumpPostgres
<1>3. ListObjects(p) => /\ proc[p].pc = "list" /\ proc'[p].pc = "copy"
                        /\ proc'[p].a = proc[p].a /\ proc'[p].left = objects
  BY DEF ListObjects
<1>4. CopyObject(p) => proc[p].pc = "copy" /\ proc'[p].pc = "copy" /\ proc'[p].a = proc[p].a
  BY DEF CopyObject
<1>5. CopiedAll(p) => proc[p].pc = "copy" /\ proc'[p].pc = "manifest" /\ proc'[p].a = proc[p].a
  BY DEF CopiedAll
<1>6. writeManifest(p) => proc[p].pc = "manifest" /\ proc'[p].pc = "down" /\ proc'[p].a = Nil
  BY DEF writeManifest
<1> QED BY <1>1, <1>2, <1>3, <1>4, <1>5, <1>6

LEMMA RestoreMoves ==
  ASSUME TypeOK, NEW p \in Proc
  PROVE  /\ Restore(p) => proc[p].pc = "down" /\ proc'[p].pc = "lock"
         /\ restoreTryStoreLock(p) => /\ proc[p].pc = "lock"
                                      /\ proc'[p].pc \in {"clean", "down"}
                                      /\ proc'[p].pc = "clean" => proc'[p].a = proc[p].a
         /\ CleanDatabase(p) => proc[p].pc = "clean" /\ proc'[p].pc = "load" /\ proc'[p].a = proc[p].a
         /\ restorePostgres(p) => /\ proc[p].pc = "load" /\ proc'[p].pc = "storage"
                                  /\ proc'[p].a = proc[p].a /\ proc'[p].left = archive[proc[p].a].objs
         /\ restoreBreaksOff(p) => proc[p].pc = "load" /\ proc'[p].pc = "down"
         /\ restoreObject(p) => proc[p].pc = "storage" /\ proc'[p].pc = "storage" /\ proc'[p].a = proc[p].a
         /\ RestoreComplete(p) => proc[p].pc = "storage" /\ proc'[p].pc = "down"
<1> USE DEF TypeOK, ProcessState, At, Becomes, GoesTo, Ends, Down
<1>1. Restore(p) => proc[p].pc = "down" /\ proc'[p].pc = "lock"
  BY DEF Restore
<1>2. restoreTryStoreLock(p) => /\ proc[p].pc = "lock"
                                /\ proc'[p].pc \in {"clean", "down"}
                                /\ proc'[p].pc = "clean" => proc'[p].a = proc[p].a
  BY DEF restoreTryStoreLock
<1>3. CleanDatabase(p) => proc[p].pc = "clean" /\ proc'[p].pc = "load" /\ proc'[p].a = proc[p].a
  BY DEF CleanDatabase
<1>4. restorePostgres(p) => /\ proc[p].pc = "load" /\ proc'[p].pc = "storage"
                            /\ proc'[p].a = proc[p].a /\ proc'[p].left = archive[proc[p].a].objs
  BY DEF restorePostgres
<1>5. restoreBreaksOff(p) => proc[p].pc = "load" /\ proc'[p].pc = "down"
  BY DEF restoreBreaksOff
<1>6. restoreObject(p) => proc[p].pc = "storage" /\ proc'[p].pc = "storage" /\ proc'[p].a = proc[p].a
  BY DEF restoreObject
<1>7. RestoreComplete(p) => proc[p].pc = "storage" /\ proc'[p].pc = "down"
  BY DEF RestoreComplete
<1> QED BY <1>1, <1>2, <1>3, <1>4, <1>5, <1>6, <1>7

(* What a step does with its process's lock.                               *)
LEMMA OwnLock ==
  ASSUME TypeOK, NEW p \in Proc, Step(p)
  PROVE  \/ lock'[p] = lock[p] /\ proc'[p].pc \notin Running \cup Mutating
         \/ lock'[p] = lock[p] /\ proc[p].pc \in Running /\ proc'[p].pc \in Running
         \/ lock'[p] = lock[p] /\ proc[p].pc \in Mutating /\ proc'[p].pc \in Mutating
         \/ lock'[p] = "none" /\ proc'[p].pc = "down"
         \/ /\ \A q \in Proc : lock[q] # "exclusive"
            /\ lock'[p] = "shared" /\ proc'[p].pc \in Running
         \/ /\ \A q \in Proc : lock[q] = "none"
            /\ lock'[p] = "exclusive" /\ proc'[p].pc \in Mutating
<1>0. \A m : lock' = [lock EXCEPT ![p] = m] => lock'[p] = m
  BY DEF TypeOK
<1> USE DEF Ends, Running, Mutating
<1>1. CASE Exit(p)
  BY <1>1 DEF Exit, TypeOK, Becomes, Down
<1>2. CASE ServerStep(p)
  BY <1>0, <1>2, ServerMoves DEF ServerStep, Start, serveAcquireStoreLock, Migrate, Put, CreateAttachment, Undo,
                                 SoftDelete
<1>3. CASE BackupStep(p)
  BY <1>0, <1>3, BackupMoves DEF BackupStep, Backup, dumpPostgres, ListObjects, CopyObject, CopiedAll, writeManifest
<1>4. CASE Restore(p) \/ restoreTryStoreLock(p)
  <2>1. CASE Restore(p)
    BY <2>1, RestoreMoves DEF Restore
  <2>2. CASE restoreTryStoreLock(p) /\ StoreLockFree(p)
    BY <1>0, <2>2 DEF restoreTryStoreLock, StoreLockFree, TypeOK, ProcessState, GoesTo, Becomes
  <2>3. CASE restoreTryStoreLock(p) /\ ~StoreLockFree(p)
    BY <1>0, <2>3 DEF restoreTryStoreLock, TypeOK, Becomes, Down
  <2> QED BY <1>4, <2>1, <2>2, <2>3
<1>5. CASE CleanDatabase(p) \/ restorePostgres(p) \/ restoreBreaksOff(p) \/ restoreObject(p) \/ RestoreComplete(p)
  BY <1>0, <1>5, RestoreMoves DEF CleanDatabase, restorePostgres, restoreBreaksOff, restoreObject, RestoreComplete
<1> QED BY <1>1, <1>2, <1>3, <1>4, <1>5 DEF Step, RestoreStep

LEMMA StepLocks ==
  ASSUME TypeOK, Locks, NEW p \in Proc, Step(p)
  PROVE  Locks'
<1>1. \A q \in Proc \ {p} : proc'[q] = proc[q] /\ lock'[q] = lock[q]
  BY OthersStay
<1>2. lock[p] \in {"none", "shared", "exclusive"}
  BY DEF TypeOK
<1> QED BY <1>1, <1>2, OwnLock DEF Locks, Running, Mutating

-----------------------------------------------------------------------------
(* Keys between their object and their row.                                *)

LEMMA ServerKeys ==
  ASSUME TypeOK, Locks, Keys, NEW p \in Proc, ServerStep(p)
  PROVE  Keys'
<1>1. \A q \in Proc \ {p} : proc'[q] = proc[q]
  BY OthersStay DEF Step
<1> USE DEF TypeOK, ProcessState, At, Becomes, GoesTo, Pending
<1>2. CASE Start(p) \/ serveAcquireStoreLock(p) \/ Migrate(p) \/ SoftDelete(p)
  <2>1. ~Pending(p) \/ SoftDelete(p)
    BY <1>2 DEF Start, serveAcquireStoreLock, Migrate
  <2>2. \A q \in Proc : Pending(q)' => Pending(q) /\ proc'[q] = proc[q]
    BY <1>1, <1>2 DEF Start, serveAcquireStoreLock, Migrate, SoftDelete
  <2>3. rows' \subseteq rows /\ objects' = objects /\ used' = used /\ archive' = archive
    BY <1>2 DEF Start, serveAcquireStoreLock, Migrate, SoftDelete
  <2> QED BY <2>2, <2>3 DEF Keys
<1>3. CASE Put(p)
  <2>1. PICK k \in Key \ used, pc \in {"storing", "undoing"} :
          /\ used' = used \cup {k} /\ objects' = objects \cup {k}
          /\ proc' = [proc EXCEPT ![p] = [proc[p] EXCEPT !.pc = pc, !.k = k]]
    BY <1>3 DEF Put
  <2>2. proc'[p].k = k /\ rows' = rows /\ archive' = archive
    BY <1>3, <2>1 DEF Put
  <2> QED BY <1>1, <2>1, <2>2 DEF Keys
<1>4. CASE CreateAttachment(p)
  <2>1. Pending(p) /\ proc[p].pc = "storing" /\ objects' = objects /\ used' = used /\ archive' = archive
    BY <1>4 DEF CreateAttachment
  <2>2. \/ rows' = rows \cup {proc[p].k} /\ ~Pending(p)'
        \/ rows' = rows /\ Pending(p)' /\ proc'[p].k = proc[p].k /\ proc'[p].pc = "undoing"
    BY <1>4 DEF CreateAttachment, Down
  <2> QED BY <1>1, <2>1, <2>2 DEF Keys
<1>5. CASE Undo(p)
  <2>1. Pending(p) /\ ~Pending(p)' /\ objects \ {proc[p].k} \subseteq objects'
    BY <1>5 DEF Undo, Down
  <2> QED BY <1>1, <1>5, <2>1 DEF Keys, Undo
<1> QED BY <1>2, <1>3, <1>4, <1>5 DEF ServerStep

LEMMA BackupKeys ==
  ASSUME TypeOK, Keys, Backups, NEW p \in Proc, BackupStep(p)
  PROVE  Keys'
<1>1. \A q \in Proc \ {p} : proc'[q] = proc[q]
  BY OthersStay DEF Step
<1>2. ~Pending(p)' /\ (BackingUp(p) => proc[p].a \in Archive)
  BY BackupMoves DEF BackupStep, Pending, Backups
<1>3. rows' = rows /\ objects' = objects /\ used' = used
  BY DEF BackupStep, Backup, dumpPostgres, ListObjects, CopyObject, CopiedAll, writeManifest
<1>4. \A a \in Archive : archive'[a].rows \in {archive[a].rows, rows}
  <2> USE DEF TypeOK, ArchiveState
  <2>1. CASE dumpPostgres(p)
    BY <2>1 DEF dumpPostgres
  <2>2. CASE Backup(p)
    BY <2>2 DEF Backup
  <2>3. CASE CopyObject(p)
    BY <2>3 DEF CopyObject
  <2>4. CASE ListObjects(p) \/ CopiedAll(p) \/ writeManifest(p)
    BY <2>4 DEF ListObjects, CopiedAll, writeManifest
  <2> QED BY <2>1, <2>2, <2>3, <2>4 DEF BackupStep
<1>5. \A q \in Proc : Pending(q)' => Pending(q) /\ proc'[q] = proc[q]
  BY <1>1, <1>2 DEF Pending
<1> QED BY <1>3, <1>4, <1>5 DEF Keys

LEMMA RestoreKeys ==
  ASSUME TypeOK, Keys, Restores, NEW p \in Proc, RestoreStep(p)
  PROVE  Keys'
<1>1. \A q \in Proc \ {p} : proc'[q] = proc[q]
  BY OthersStay DEF Step
<1>2. ~Pending(p)'
  BY RestoreMoves DEF RestoreStep, Pending
<1>3. used' = used /\ archive' = archive /\ objects \subseteq objects'
  BY DEF RestoreStep, Restore, restoreTryStoreLock, CleanDatabase, restorePostgres, restoreBreaksOff,
         restoreObject, RestoreComplete
<1>4. rows' \subseteq rows \/ \E a \in Archive : rows' \subseteq archive[a].rows
  <2>1. Restoring(p) => proc[p].a \in Archive
    BY DEF Restores
  <2>2. CASE restorePostgres(p) \/ restoreBreaksOff(p)
    BY <2>1, <2>2 DEF restorePostgres, restoreBreaksOff, At, Restoring
  <2>3. CASE ~(restorePostgres(p) \/ restoreBreaksOff(p))
    BY <2>3 DEF RestoreStep, Restore, restoreTryStoreLock, CleanDatabase, restoreObject, RestoreComplete
  <2> QED BY <2>2, <2>3
<1>5. \A q \in Proc : Pending(q)' => Pending(q) /\ proc'[q] = proc[q]
  BY <1>1, <1>2 DEF Pending
<1> QED BY <1>3, <1>4, <1>5 DEF Keys

LEMMA NextKeys == IInv /\ [Next]_vars => Keys'
<1> SUFFICES ASSUME IInv, [Next]_vars PROVE Keys'
  OBVIOUS
<1> USE DEF IInv
<1>1. CASE UNCHANGED vars
  BY <1>1 DEF vars, Keys, Pending
<1>2. ASSUME NEW p \in Proc, Exit(p) PROVE Keys'
  <2>1. \A q \in Proc : Pending(q)' => Pending(q) /\ proc'[q] = proc[q]
    BY <1>2, OthersStay DEF Step, TypeOK, Exit, Ends, Becomes, Down, Pending
  <2> QED BY <1>2, <2>1 DEF Exit, Keys
<1>3. CASE Damage
  <2>1. \A a \in Archive : archive'[a].rows = archive[a].rows
    BY <1>3 DEF Damage, TypeOK, ArchiveState
  <2> QED BY <1>3, <2>1 DEF Damage, Keys, Pending
<1>4. CASE NewInstallation
  BY <1>4 DEF NewInstallation, At, Keys, Pending
<1> QED BY <1>1, <1>2, <1>3, <1>4, ServerKeys, BackupKeys, RestoreKeys DEF Next, Step

-----------------------------------------------------------------------------
(* What a step leaves of the archives, the rows and the objects.           *)

(* It writes to no archive but the one it is backing up to.                *)
LEMMA ArchivesKept ==
  ASSUME IInv, NEW p \in Proc, Step(p), NEW a \in Archive, archive[a].st # "none",
         BackingUp(p) => a # proc[p].a
  PROVE  archive'[a] = archive[a]
<1> USE DEF IInv, TypeOK, BackingUp
<1>1. CASE Backup(p)
  BY <1>1 DEF Backup
<1>2. CASE dumpPostgres(p) \/ CopyObject(p) \/ writeManifest(p)
  <2>1. a # proc[p].a
    BY <1>2, BackupMoves
  <2> QED BY <1>2, <2>1 DEF dumpPostgres, CopyObject, writeManifest
<1>3. CASE ListObjects(p) \/ CopiedAll(p)
  BY <1>3 DEF ListObjects, CopiedAll
<1>4. CASE Exit(p) \/ ServerStep(p)
  BY <1>4 DEF Exit, ServerStep, Start, serveAcquireStoreLock, Migrate, Put, CreateAttachment, Undo, SoftDelete
<1>5. CASE RestoreStep(p)
  BY <1>5 DEF RestoreStep, Restore, restoreTryStoreLock, CleanDatabase, restorePostgres, restoreBreaksOff,
              restoreObject, RestoreComplete
<1> QED BY <1>1, <1>2, <1>3, <1>4, <1>5 DEF Step, BackupStep

(* Only a server that takes an upload back removes an object.              *)
LEMMA ObjectsKept ==
  ASSUME IInv, NEW p \in Proc, Step(p), NEW k \in objects \ objects'
  PROVE  k \notin rows /\ rows' = rows /\ torn' = torn /\ \A a \in Archive : k \notin archive[a].rows
<1>1. CASE Undo(p)
  <2>1. k = proc[p].k /\ Pending(p)
    BY <1>1 DEF Undo, At, Pending
  <2> QED BY <1>1, <2>1 DEF IInv, Keys, Undo
<1>2. CASE ~Undo(p)
  BY <1>2 DEF Step, Exit, ServerStep, Start, serveAcquireStoreLock, Migrate, Put, CreateAttachment, SoftDelete,
     BackupStep, Backup, dumpPostgres, ListObjects, CopyObject, CopiedAll, writeManifest,
     RestoreStep, Restore, restoreTryStoreLock, CleanDatabase, restorePostgres, restoreBreaksOff,
     restoreObject, RestoreComplete
<1> QED BY <1>1, <1>2

(* Only servers and restores change the database and the object store.     *)
LEMMA OthersQuiet ==
  ASSUME TypeOK, NEW p \in Proc, Step(p), proc[p].pc \notin Running \cup Mutating
  PROVE  rows' = rows /\ objects' = objects /\ torn' = torn
<1> USE DEF Running, Mutating
<1>1. CASE Exit(p) \/ BackupStep(p)
  BY <1>1 DEF Exit, BackupStep, Backup, dumpPostgres, ListObjects, CopyObject, CopiedAll, writeManifest
<1>2. CASE ServerStep(p)
  BY <1>2, ServerMoves DEF ServerStep, Start, serveAcquireStoreLock, Migrate
<1>3. CASE RestoreStep(p)
  BY <1>3, RestoreMoves DEF RestoreStep, Restore, restoreTryStoreLock
<1> QED BY <1>1, <1>2, <1>3 DEF Step

LEMMA RestoresAlone ==
  ASSUME TypeOK, Locks, NEW p \in Proc, NEW q \in Proc \ {p}, proc[q].pc \in Mutating
  PROVE  proc[p].pc \notin Running \cup Mutating
BY DEF Locks, Running, Mutating

(* Where a process's archive comes from.                                   *)
LEMMA OwnArchive ==
  ASSUME TypeOK, NEW p \in Proc, Step(p), proc'[p].a \notin {proc[p].a, Nil}
  PROVE  \/ Backup(p) /\ proc'[p].a \in Archive /\ archive[proc'[p].a].st = "none"
         \/ Restore(p) /\ proc'[p].a \in Archive /\ archive[proc'[p].a].st = "complete"
<1> USE DEF TypeOK, ProcessState, Becomes, Ends, Down
<1>1. CASE Exit(p)
  BY <1>1 DEF Exit
<1>2. CASE ServerStep(p)
  BY <1>2, ServerMoves
<1>3. CASE Backup(p)
  <2>1. PICK a \in Archive : archive[a].st = "none" /\ proc' = [proc EXCEPT ![p] = [Down EXCEPT !.pc = BackupOrder.start, !.a = a]]
    BY <1>3 DEF Backup
  <2>2. proc'[p].a = a
    BY <2>1
  <2> QED BY <1>3, <2>1, <2>2
<1>4. CASE BackupStep(p) /\ ~Backup(p)
  BY <1>4, BackupMoves DEF BackupStep
<1>5. CASE Restore(p)
  BY <1>5 DEF Restore, validateManifest
<1>6. CASE restoreTryStoreLock(p)
  BY <1>6 DEF restoreTryStoreLock, GoesTo
<1>7. CASE restoreBreaksOff(p) \/ RestoreComplete(p)
  BY <1>7 DEF restoreBreaksOff, RestoreComplete
<1>8. CASE CleanDatabase(p) \/ restorePostgres(p) \/ restoreObject(p)
  BY <1>8, RestoreMoves
<1> QED BY <1>1, <1>2, <1>3, <1>4, <1>5, <1>6, <1>7, <1>8 DEF Step, RestoreStep

-----------------------------------------------------------------------------
(* What a backup has in its archive, and a restore has yet to put back.    *)

LEMMA StepNamed ==
  ASSUME IInv, NEW p \in Proc, Step(p)
  PROVE  Named'
<1> USE DEF IInv, BackingUp, Restoring
<1>1. \A q \in Proc \ {p} : proc'[q] = proc[q]
  BY OthersStay
<1>2. proc'[p].a # Nil => proc'[p].pc \in {"dump", "list", "copy", "manifest", "lock", "clean", "load", "storage"}
  <2>1. CASE Backup(p) \/ Restore(p)
    BY <2>1, BackupMoves, RestoreMoves
  <2>2. CASE proc'[p].a \in {proc[p].a, Nil}
    <3>1. CASE Exit(p)
      BY <3>1 DEF Exit, Ends, Becomes, Down, TypeOK
    <3>2. CASE ServerStep(p)
      BY <2>2, <3>2, ServerMoves DEF ServerStep, Named
    <3>3. CASE BackupStep(p)
      BY <3>3, BackupMoves DEF BackupStep
    <3>4. CASE Restore(p) \/ CleanDatabase(p) \/ restorePostgres(p) \/ restoreObject(p)
      BY <3>4, RestoreMoves
    <3>5. CASE restoreTryStoreLock(p)
      BY <3>5 DEF restoreTryStoreLock, GoesTo, Ends, Becomes, Down, TypeOK, ProcessState
    <3>6. CASE restoreBreaksOff(p) \/ RestoreComplete(p)
      BY <3>6 DEF restoreBreaksOff, RestoreComplete, Ends, Becomes, Down, TypeOK
    <3> QED BY <3>1, <3>2, <3>3, <3>4, <3>5, <3>6 DEF Step, RestoreStep
  <2> QED BY <2>1, <2>2, OwnArchive
<1> QED BY <1>1, <1>2 DEF Named

(* A backup that another process's step leaves where it is.                *)
LEMMA OtherBackups ==
  ASSUME IInv, NEW p \in Proc, Step(p), NEW q \in Proc \ {p}, BackingUp(q)',
         NEW a, a = proc'[q].a
  PROVE  /\ a \in Archive /\ archive'[a].st = "open"
         /\ proc'[p].a # a
         /\ proc'[q].pc = "list" /\ ~archive'[a].torn => archive'[a].rows \subseteq objects'
         /\ proc'[q].pc = "copy" /\ ~archive'[a].torn => archive'[a].rows \subseteq archive'[a].objs \cup proc'[q].left
         /\ proc'[q].pc = "manifest" /\ ~archive'[a].torn => Sound(a)'
<1> USE DEF IInv
<1>1. proc'[q] = proc[q] /\ BackingUp(q) /\ a = proc[q].a
  BY OthersStay DEF BackingUp
<1>2. a \in Archive /\ archive[a].st = "open" /\ proc[p].a # a
  BY <1>1 DEF Backups
<1>3. archive'[a] = archive[a]
  BY <1>2, ArchivesKept
<1>4. proc'[p].a # a
  BY <1>2, OwnArchive, NilIsNoKey
<1>5. archive[a].rows \subseteq objects => archive[a].rows \subseteq objects'
  BY <1>2, ObjectsKept
<1> QED BY <1>1, <1>2, <1>3, <1>4, <1>5 DEF Backups, Sound

(* The backup whose step it is.                                            *)
LEMMA OwnBackup ==
  ASSUME IInv, NEW p \in Proc, BackupStep(p), BackingUp(p)',
         NEW a, a = proc'[p].a
  PROVE  /\ a \in Archive /\ archive'[a].st = "open"
         /\ \A q \in Proc \ {p} : proc[q].a # a
         /\ proc'[p].pc = "list" /\ ~archive'[a].torn => archive'[a].rows \subseteq objects'
         /\ proc'[p].pc = "copy" /\ ~archive'[a].torn => archive'[a].rows \subseteq archive'[a].objs \cup proc'[p].left
         /\ proc'[p].pc = "manifest" /\ ~archive'[a].torn => Sound(a)'
<1> USE DEF IInv, BackingUp, Sound
<1>1. CASE Backup(p)
  <2>1. PICK b \in Archive : /\ archive[b].st = "none"
                             /\ archive' = [archive EXCEPT ![b].st = "open"]
                             /\ proc' = [proc EXCEPT ![p] = [Down EXCEPT !.pc = BackupOrder.start, !.a = b]]
    BY <1>1 DEF Backup, Becomes
  <2>2. a = b /\ proc'[p].pc = "dump"
    BY <2>1 DEF TypeOK, Down, BackupOrder
  <2>3. archive'[b].st = "open"
    BY <2>1 DEF TypeOK, ArchiveState
  <2>4. \A q \in Proc \ {p} : proc[q].a # b
    BY <2>1, NilIsNoKey DEF Named, Backups, Restores
  <2> QED BY <2>2, <2>3, <2>4
<1>2. ASSUME BackingUp(p), a = proc[p].a
      PROVE  a \in Archive /\ archive[a].st = "open" /\ \A q \in Proc \ {p} : proc[q].a # a
  BY <1>2 DEF Backups
<1>3. CASE dumpPostgres(p)
  <2>1. a = proc[p].a /\ BackingUp(p) /\ proc'[p].pc = "list"
    BY <1>3, BackupMoves
  <2>2. archive'[a].rows = rows /\ archive'[a].torn = torn /\ archive'[a].st = archive[a].st /\ objects' = objects
    BY <1>2, <1>3, <2>1 DEF dumpPostgres, TypeOK, ArchiveState
  <2> QED BY <1>2, <2>1, <2>2 DEF EveryFileCanBeOpened
<1>4. CASE ListObjects(p)
  <2>1. a = proc[p].a /\ BackingUp(p) /\ proc[p].pc = "list" /\ proc'[p].pc = "copy" /\ proc'[p].left = objects
    BY <1>4, BackupMoves
  <2> QED BY <1>2, <1>4, <2>1 DEF ListObjects, Backups
<1>5. CASE CopyObject(p)
  <2>1. a = proc[p].a /\ BackingUp(p) /\ proc[p].pc = "copy" /\ proc'[p].pc = "copy"
    BY <1>5, BackupMoves
  <2>2. PICK k \in proc[p].left : /\ archive' = [archive EXCEPT ![a].objs = @ \cup {k}]
                                  /\ proc' = [proc EXCEPT ![p] = [proc[p] EXCEPT !.left = @ \ {k}]]
    BY <1>5, <2>1 DEF CopyObject, Becomes
  <2>3. /\ archive'[a].objs = archive[a].objs \cup {k} /\ archive'[a].rows = archive[a].rows
        /\ archive'[a].st = archive[a].st /\ archive'[a].torn = archive[a].torn
    BY <1>2, <2>1, <2>2 DEF TypeOK, ArchiveState
  <2>4. proc'[p].left = proc[p].left \ {k}
    BY <2>2 DEF TypeOK, ProcessState
  <2> QED BY <1>2, <2>1, <2>3, <2>4 DEF Backups
<1>6. CASE CopiedAll(p)
  <2>1. /\ a = proc[p].a /\ BackingUp(p) /\ proc[p].pc = "copy" /\ proc'[p].pc = "manifest"
        /\ proc[p].left = {} /\ archive' = archive
    BY <1>6, BackupMoves DEF CopiedAll
  <2> QED BY <1>2, <2>1 DEF Backups
<1>7. CASE writeManifest(p)
  BY <1>7, BackupMoves
<1> QED BY <1>1, <1>3, <1>4, <1>5, <1>6, <1>7 DEF BackupStep

LEMMA StepBackups ==
  ASSUME IInv, NEW p \in Proc, Step(p)
  PROVE  Backups'
<1>1. \A q \in Proc \ {p} : proc'[q] = proc[q]
  BY OthersStay DEF IInv
<1>2. BackingUp(p)' => BackupStep(p)
  <2>1. CASE Exit(p)
    BY <2>1 DEF Exit, Ends, Becomes, Down, BackingUp, IInv, TypeOK
  <2>2. CASE ServerStep(p)
    BY <2>2, ServerMoves DEF ServerStep, BackingUp, IInv
  <2>3. CASE RestoreStep(p)
    BY <2>3, RestoreMoves DEF RestoreStep, BackingUp, IInv
  <2> QED BY <2>1, <2>2, <2>3 DEF Step
<1>3. ASSUME NEW q \in Proc, BackingUp(q)', q # p
      PROVE  \A r \in Proc \ {q} : proc'[r].a # proc'[q].a
  BY <1>1, <1>3, OtherBackups DEF IInv, Backups, BackingUp
<1> QED BY <1>1, <1>2, <1>3, OtherBackups, OwnBackup DEF Backups

(* A restore that another process's step leaves where it is: once it has   *)
(* the lock, nobody else changes the database or the object store.         *)
LEMMA OtherRestores ==
  ASSUME IInv, NEW p \in Proc, Step(p), NEW q \in Proc \ {p}, Restoring(q)',
         NEW a, a = proc'[q].a
  PROVE  /\ a \in Archive /\ archive'[a].st = "complete"
         /\ proc'[q].pc = "load" => torn'
         /\ proc'[q].pc = "storage" =>
              /\ torn'
              /\ rows' = archive'[a].rows
              /\ ~archive'[a].torn => rows' \subseteq objects' \cup proc'[q].left
<1> USE DEF IInv
<1>1. proc'[q] = proc[q] /\ Restoring(q) /\ a = proc[q].a
  BY OthersStay DEF Restoring
<1>2. a \in Archive /\ archive[a].st = "complete"
  BY <1>1 DEF Restores
<1>3. BackingUp(p) => a # proc[p].a
  BY <1>2 DEF Backups
<1>4. archive'[a] = archive[a]
  BY <1>2, <1>3, ArchivesKept
<1>5. proc[q].pc \in Mutating => rows' = rows /\ objects' = objects /\ torn' = torn
  BY RestoresAlone, OthersQuiet
<1> QED BY <1>1, <1>2, <1>4, <1>5 DEF Restores, Mutating

(* The restore whose step it is.                                           *)
LEMMA OwnRestore ==
  ASSUME IInv, NEW p \in Proc, RestoreStep(p), Restoring(p)',
         NEW a, a = proc'[p].a
  PROVE  /\ a \in Archive /\ archive'[a].st = "complete"
         /\ proc'[p].pc = "load" => torn'
         /\ proc'[p].pc = "storage" =>
              /\ torn'
              /\ rows' = archive'[a].rows
              /\ ~archive'[a].torn => rows' \subseteq objects' \cup proc'[p].left
<1> USE DEF IInv, Restoring
<1>1. archive' = archive
  BY DEF RestoreStep, Restore, restoreTryStoreLock, CleanDatabase, restorePostgres, restoreBreaksOff,
         restoreObject, RestoreComplete
<1>2. CASE Restore(p)
  <2>1. PICK b \in Archive : archive[b].st = "complete" /\ proc' = [proc EXCEPT ![p] = [Down EXCEPT !.pc = "lock", !.a = b]]
    BY <1>2 DEF Restore, validateManifest, Becomes
  <2>2. a = b /\ proc'[p].pc = "lock"
    BY <2>1 DEF TypeOK, Down
  <2> QED BY <1>1, <2>1, <2>2
<1>3. CASE restoreTryStoreLock(p)
  BY <1>1, <1>3, RestoreMoves DEF Restores
<1>4. CASE CleanDatabase(p)
  BY <1>1, <1>4, RestoreMoves DEF Restores, CleanDatabase
<1>5. CASE restorePostgres(p)
  <2>1. /\ a = proc[p].a /\ proc[p].pc = "load" /\ proc'[p].left = archive[a].objs
        /\ proc'[p].pc = "storage" /\ rows' = archive[a].rows /\ torn' = torn
    BY <1>5, RestoreMoves DEF restorePostgres
  <2>2. a \in Archive /\ archive[a].st = "complete" /\ torn
    BY <2>1 DEF Restores
  <2> QED BY <1>1, <2>1, <2>2 DEF EveryFileCanBeOpened
<1>6. CASE restoreObject(p)
  <2>1. PICK k \in proc[p].left : objects' = objects \cup {k} /\ proc' = [proc EXCEPT ![p] = [proc[p] EXCEPT !.left = @ \ {k}]]
    BY <1>6 DEF restoreObject, Becomes
  <2>2. proc'[p].left = proc[p].left \ {k}
    BY <2>1 DEF TypeOK, ProcessState
  <2>3. proc[p].pc = "storage" /\ proc'[p].pc = "storage" /\ a = proc[p].a /\ rows' = rows /\ torn' = torn
    BY <1>6, RestoreMoves DEF restoreObject
  <2> QED BY <1>1, <2>1, <2>2, <2>3 DEF Restores
<1>7. CASE restoreBreaksOff(p) \/ RestoreComplete(p)
  BY <1>7, RestoreMoves
<1> QED BY <1>2, <1>3, <1>4, <1>5, <1>6, <1>7 DEF RestoreStep

LEMMA StepRestores ==
  ASSUME IInv, NEW p \in Proc, Step(p)
  PROVE  Restores'
<1>1. Restoring(p)' => RestoreStep(p)
  <2>1. CASE Exit(p)
    BY <2>1 DEF Exit, Ends, Becomes, Down, Restoring, IInv, TypeOK
  <2>2. CASE ServerStep(p)
    BY <2>2, ServerMoves DEF ServerStep, Restoring, IInv
  <2>3. CASE BackupStep(p)
    BY <2>3, BackupMoves DEF BackupStep, Restoring, IInv
  <2> QED BY <2>1, <2>2, <2>3 DEF Step
<1> QED BY <1>1, OtherRestores, OwnRestore DEF Restores

-----------------------------------------------------------------------------
(* A file for every row.                                                   *)

LEMMA StepRows ==
  ASSUME IInv, NEW p \in Proc, Step(p)
  PROVE  ~torn' => rows' \subseteq objects'
<1> USE DEF IInv, EveryFileCanBeOpened
<1>1. CASE CreateAttachment(p)
  <2>1. proc[p].k \in objects
    BY <1>1 DEF CreateAttachment, At, Keys, Pending
  <2> QED BY <1>1, <2>1 DEF CreateAttachment
<1>2. CASE Put(p) \/ SoftDelete(p)
  BY <1>2 DEF Put, SoftDelete
<1>3. CASE Undo(p)
  BY <1>3, ObjectsKept DEF Undo
<1>4. CASE CleanDatabase(p)
  BY <1>4 DEF CleanDatabase
<1>5. CASE restorePostgres(p) \/ restoreBreaksOff(p)
  <2>1. proc[p].pc = "load" /\ torn' = torn
    BY <1>5 DEF restorePostgres, restoreBreaksOff, At
  <2> QED BY <2>1 DEF Restores, Restoring
<1>6. CASE restoreObject(p)
  BY <1>6 DEF restoreObject
<1>7. CASE RestoreComplete(p)
  <2>1. proc[p].pc = "storage" /\ proc[p].left = {} /\ rows' = rows /\ objects' = objects /\ torn' = archive[proc[p].a].torn
    BY <1>7 DEF RestoreComplete, At
  <2> QED BY <2>1 DEF Restores, Restoring
<1>8. CASE Exit(p) \/ Start(p) \/ serveAcquireStoreLock(p) \/ Migrate(p) \/ BackupStep(p)
           \/ Restore(p) \/ restoreTryStoreLock(p)
  BY <1>8 DEF Exit, Start, serveAcquireStoreLock, Migrate, BackupStep, Backup, dumpPostgres, ListObjects, CopyObject,
              CopiedAll, writeManifest, Restore, restoreTryStoreLock
<1> QED BY <1>1, <1>2, <1>3, <1>4, <1>5, <1>6, <1>7, <1>8 DEF Step, ServerStep, RestoreStep

LEMMA StepArchives ==
  ASSUME IInv, NEW p \in Proc, Step(p), NEW a \in Archive, archive'[a].st = "complete", ~archive'[a].torn
  PROVE  archive'[a].rows \subseteq archive'[a].objs
<1> USE DEF IInv
<1>1. BackingUp(p) => proc[p].a \in Archive /\ archive[proc[p].a].st = "open"
  BY DEF Backups
<1>2. CASE Backup(p)
  <2>1. archive[a].st = "complete" /\ archive'[a] = archive[a]
    BY <1>2 DEF Backup, TypeOK, ArchiveState
  <2> QED BY <2>1 DEF EveryFileCanBeOpened
<1>3. CASE dumpPostgres(p) \/ CopyObject(p)
  <2>1. BackingUp(p)
    BY <1>3, BackupMoves DEF BackingUp
  <2>2. archive'[proc[p].a].st = "open"
    <3>1. CASE dumpPostgres(p)
      BY <1>1, <2>1, <3>1 DEF dumpPostgres, TypeOK, ArchiveState
    <3>2. CASE CopyObject(p)
      BY <1>1, <2>1, <3>2 DEF CopyObject, TypeOK, ArchiveState
    <3> QED BY <1>3, <3>1, <3>2
  <2>3. archive'[a] = archive[a]
    BY <1>3, <2>2 DEF dumpPostgres, CopyObject, TypeOK
  <2> QED BY <2>3 DEF EveryFileCanBeOpened
<1>4. CASE writeManifest(p)
  <2>1. BackingUp(p) /\ proc[p].pc = "manifest"
    BY <1>4, BackupMoves DEF BackingUp
  <2>2. archive'[a].rows = archive[a].rows /\ archive'[a].objs = archive[a].objs /\ archive'[a].torn = archive[a].torn
    BY <1>4 DEF writeManifest, TypeOK, ArchiveState
  <2>3. a = proc[p].a \/ archive[a].st = "complete"
    BY <1>4 DEF writeManifest, TypeOK, ArchiveState
  <2> QED BY <2>1, <2>2, <2>3 DEF Backups, Sound, EveryFileCanBeOpened
<1>5. CASE ~(Backup(p) \/ dumpPostgres(p) \/ CopyObject(p) \/ writeManifest(p))
  <2>1. archive' = archive
    BY <1>5 DEF Step, Exit, ServerStep, Start, serveAcquireStoreLock, Migrate, Put, CreateAttachment, Undo, SoftDelete,
       BackupStep, ListObjects, CopiedAll, RestoreStep, Restore, restoreTryStoreLock, CleanDatabase, restorePostgres,
       restoreBreaksOff, restoreObject, RestoreComplete
  <2> QED BY <2>1 DEF EveryFileCanBeOpened
<1> QED BY <1>2, <1>3, <1>4, <1>5

LEMMA DamageIInv ==
  ASSUME IInv, Damage
  PROVE  Locks' /\ Named' /\ Backups' /\ Restores' /\ EveryFileCanBeOpened'
<1> USE DEF IInv
<1>1. PICK b \in Archive, k \in Key :
        /\ \A p \in Proc : proc[p].a # b
        /\ archive' = [archive EXCEPT ![b].st = "damaged", ![b].objs = @ \ {k}]
  BY DEF Damage
<1>2. UNCHANGED <<proc, lock, rows, objects, torn>>
  BY DEF Damage
<1>3. archive'[b].st = "damaged" /\ \A a \in Archive \ {b} : archive'[a] = archive[a]
  BY <1>1 DEF TypeOK, ArchiveState
<1>4. Locks' /\ Named'
  BY <1>2 DEF Locks, Named, BackingUp, Restoring
<1>5. Backups'
  <2>1. ASSUME NEW p \in Proc, BackingUp(p) PROVE proc[p].a \in Archive /\ archive'[proc[p].a] = archive[proc[p].a]
    BY <1>1, <1>3, <2>1 DEF Backups
  <2>2. \A p \in Proc : BackingUp(p)' <=> BackingUp(p)
    BY <1>2 DEF BackingUp
  <2> QED BY <1>2, <2>1, <2>2 DEF Backups, Sound
<1>6. Restores'
  BY <1>1, <1>2, <1>3 DEF Restores, Restoring
<1>7. EveryFileCanBeOpened'
  BY <1>2, <1>3 DEF EveryFileCanBeOpened
<1> QED BY <1>4, <1>5, <1>6, <1>7

LEMMA NewInstallationIInv ==
  ASSUME IInv, NewInstallation
  PROVE  Locks' /\ Named' /\ Backups' /\ Restores' /\ EveryFileCanBeOpened'
<1> USE DEF IInv, NewInstallation, At
<1>1. Locks' /\ Named'
  BY DEF Locks, Named, BackingUp, Restoring
<1>2. Backups' /\ Restores'
  BY DEF Backups, Restores, BackingUp, Restoring
<1>3. EveryFileCanBeOpened'
  BY DEF EveryFileCanBeOpened
<1> QED BY <1>1, <1>2, <1>3

LEMMA NextIInv == IInv /\ [Next]_vars => IInv'
<1> SUFFICES ASSUME IInv, [Next]_vars PROVE IInv'
  OBVIOUS
<1>1. TypeOK' /\ Keys'
  BY NextTyped, NextKeys
<1>2. CASE UNCHANGED vars
  BY <1>2 DEF vars, IInv, TypeOK, Locks, Keys, Named, Backups, Restores, EveryFileCanBeOpened, Pending, BackingUp,
              Restoring, Sound
<1>3. ASSUME NEW p \in Proc, Step(p) PROVE IInv'
  BY <1>1, <1>3, StepLocks, StepNamed, StepBackups, StepRestores, StepRows, StepArchives DEF IInv, EveryFileCanBeOpened
<1>4. CASE Damage \/ NewInstallation
  BY <1>1, <1>4, DamageIInv, NewInstallationIInv DEF IInv
<1> QED BY <1>2, <1>3, <1>4 DEF Next

(* Every reachable state is one the invariant describes.                   *)
LEMMA AlwaysIInv == Spec => []IInv
<1>1. Init => IInv
  BY InitIInv
<1>2. IInv /\ [Next]_vars => IInv'
  BY NextIInv
<1> QED BY <1>1, <1>2, PTL DEF Spec

-----------------------------------------------------------------------------
(* A restore runs alone, however many servers and restores are started and *)
(* end at any point: a server runs under the shared lock, and a restore    *)
(* writes under the exclusive one.                                         *)
THEOREM RestoresRunAlone == Spec => []NoRestoreUnderAServer
<1>1. IInv => NoRestoreUnderAServer
  BY DEF IInv, Locks, NoRestoreUnderAServer, Running, Mutating
<1> QED BY <1>1, AlwaysIInv, PTL

(* The order of an upload (object, then row) and of a backup (rows, then   *)
(* objects, then the manifest) leave a file for every row, in the          *)
(* installation and in every complete archive of a whole one.              *)
THEOREM FilesStayWithTheirRows == Spec => []EveryFileCanBeOpened
<1>1. IInv => EveryFileCanBeOpened
  BY DEF IInv
<1> QED BY <1>1, AlwaysIInv, PTL

(* Every variable keeps to its type: a process is in one of the steps of   *)
(* its program, and an archive has been opened, written whole or damaged.  *)
THEOREM RecoveryTypeCorrect == Spec => []TypeOK
<1>1. IInv => TypeOK
  BY DEF IInv
<1> QED BY <1>1, AlwaysIInv, PTL
=============================================================================
