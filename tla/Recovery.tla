------------------------------- MODULE Recovery -------------------------------
(***************************************************************************)
(* Backup and restore of an installation, beside the servers that use it:  *)
(* cmd/server (backup.go, restore.go, dblock.go, serve.go, main.go) and    *)
(* internal/core/attachments/service.go for what the servers do meanwhile. *)
(* The database is the set of the attachments it has a live row for, the   *)
(* object store the set of the keys it holds; a restore that is broken off *)
(* leaves them apart.                                                      *)
(***************************************************************************)
EXTENDS Integers, FiniteSets, TLC

CONSTANTS Proc,        \* operating-system processes: servers, backups, restores
          Key,         \* attachments; a key is never used a second time
          Archive,     \* backup files
          Nil

ASSUME NilIsNoKey == Nil \notin Key /\ Nil \notin Archive

VARIABLES proc,      \* what each process is doing
          lock,      \* the mode in which its connection holds serveStoreLockKey
          rows,      \* the database
          objects,   \* the object store
          used,      \* keys given out
          archive,
          torn       \* a restore has begun since the last one that completed

vars == <<proc, lock, rows, objects, used, archive, torn>>

Down == [pc |-> "down", k |-> Nil, a |-> Nil, left |-> {}]
NoArchive == [st |-> "none", rows |-> {}, objs |-> {}, torn |-> FALSE]

Init ==
  /\ proc = [p \in Proc |-> Down]
  /\ lock = [p \in Proc |-> "none"]
  /\ rows = {} /\ objects = {} /\ used = {}
  /\ archive = [a \in Archive |-> NoArchive]
  /\ torn = FALSE

At(p, pc) == proc[p].pc = pc
Becomes(p, r) == proc' = [proc EXCEPT ![p] = r]
GoesTo(p, pc) == Becomes(p, [proc[p] EXCEPT !.pc = pc])

(* The process ends, for whatever reason, and its connections with it.     *)
Ends(p) == Becomes(p, Down) /\ lock' = [lock EXCEPT ![p] = "none"]

Exit(p) ==
  /\ ~At(p, "down")
  /\ Ends(p)
  /\ UNCHANGED <<rows, objects, used, archive, torn>>

-----------------------------------------------------------------------------
(* The server: lock, migrate, serve.                                       *)

Start(p) ==
  /\ At(p, "down")
  /\ GoesTo(p, "boot")
  /\ UNCHANGED <<lock, rows, objects, used, archive, torn>>

(* Shared: it waits for a restore, and not for another server.             *)
serveAcquireStoreLock(p) ==
  /\ At(p, "boot")
  /\ \A q \in Proc : lock[q] # "exclusive"
  /\ lock' = [lock EXCEPT ![p] = "shared"]
  /\ GoesTo(p, "migrating")
  /\ UNCHANGED <<rows, objects, used, archive, torn>>

Migrate(p) ==
  /\ At(p, "migrating")
  /\ GoesTo(p, "serving")
  /\ UNCHANGED <<lock, rows, objects, used, archive, torn>>

(* An upload stores the object, then the row; if either goes wrong it      *)
(* tries to remove the object.                                             *)
Put(p) ==
  /\ At(p, "serving")
  /\ \E k \in Key \ used :
       /\ used' = used \cup {k}
       /\ objects' = objects \cup {k}
       /\ \E pc \in {"storing", "undoing"} : Becomes(p, [proc[p] EXCEPT !.pc = pc, !.k = k])
  /\ UNCHANGED <<lock, rows, archive, torn>>

CreateAttachment(p) ==
  /\ At(p, "storing")
  /\ \/ rows' = rows \cup {proc[p].k} /\ Becomes(p, [Down EXCEPT !.pc = "serving"])
     \/ UNCHANGED rows /\ GoesTo(p, "undoing")
  /\ UNCHANGED <<lock, objects, used, archive, torn>>

Undo(p) ==
  /\ At(p, "undoing")
  /\ objects' \in {objects, objects \ {proc[p].k}}
  /\ Becomes(p, [Down EXCEPT !.pc = "serving"])
  /\ UNCHANGED <<lock, rows, used, archive, torn>>

(* The row goes and the object stays.                                      *)
SoftDelete(p) ==
  /\ At(p, "serving")
  /\ \E k \in rows : rows' = rows \ {k}
  /\ UNCHANGED <<proc, lock, objects, used, archive, torn>>

-----------------------------------------------------------------------------
(* Backup.  It takes no lock; the dump comes before the objects, and the   *)
(* manifest, without which no restore reads the archive, comes last.       *)

ObjectsFirst == [start |-> "list", dumped |-> "manifest", copied |-> "dump"]   \* mutant
BackupOrder  == [start |-> "dump", dumped |-> "list", copied |-> "manifest"]

Backup(p) ==
  /\ At(p, "down")
  /\ \E a \in Archive :
       /\ archive[a].st = "none"
       /\ archive' = [archive EXCEPT ![a].st = "open"]
       /\ Becomes(p, [Down EXCEPT !.pc = BackupOrder.start, !.a = a])
  /\ UNCHANGED <<lock, rows, objects, used, torn>>

dumpPostgres(p) ==
  /\ At(p, "dump")
  /\ archive' = [archive EXCEPT ![proc[p].a].rows = rows, ![proc[p].a].torn = torn]
  /\ GoesTo(p, BackupOrder.dumped)
  /\ UNCHANGED <<lock, rows, objects, used, torn>>

ListObjects(p) ==
  /\ At(p, "list")
  /\ Becomes(p, [proc[p] EXCEPT !.pc = "copy", !.left = objects])
  /\ UNCHANGED <<lock, rows, objects, used, archive, torn>>

(* A listed object that is gone when it is fetched fails the backup.       *)
CopyObject(p) ==
  /\ At(p, "copy")
  /\ \E k \in proc[p].left \cap objects :
       /\ archive' = [archive EXCEPT ![proc[p].a].objs = @ \cup {k}]
       /\ Becomes(p, [proc[p] EXCEPT !.left = @ \ {k}])
  /\ UNCHANGED <<lock, rows, objects, used, torn>>

CopiedAll(p) ==
  /\ At(p, "copy")
  /\ proc[p].left = {}
  /\ GoesTo(p, BackupOrder.copied)
  /\ UNCHANGED <<lock, rows, objects, used, archive, torn>>

writeManifest(p) ==
  /\ At(p, "manifest")
  /\ archive' = [archive EXCEPT ![proc[p].a].st = "complete"]
  /\ Ends(p)
  /\ UNCHANGED <<rows, objects, used, torn>>

(* A member of the archive is lost or altered where it is kept; a restore  *)
(* that is running has read it whole.                                      *)
Damage ==
  /\ \E a \in Archive, k \in Key :
       /\ archive[a].st = "complete"
       /\ \A p \in Proc : proc[p].a # a
       /\ k \in archive[a].objs
       /\ archive' = [archive EXCEPT ![a].st = "damaged", ![a].objs = @ \ {k}]
  /\ UNCHANGED <<proc, lock, rows, objects, used, torn>>

-----------------------------------------------------------------------------
(* Restore *)

validateManifest(a) == archive[a].st = "complete"

Restore(p) ==
  /\ At(p, "down")
  /\ \E a \in Archive :
       /\ validateManifest(a)
       /\ Becomes(p, [Down EXCEPT !.pc = "lock", !.a = a])
  /\ UNCHANGED <<lock, rows, objects, used, archive, torn>>

ServersMayRun(p) == \A q \in Proc : lock[q] # "exclusive"   \* mutant: the lock is asked for in shared mode
StoreLockFree(p) == \A q \in Proc : lock[q] = "none"

(* Refused at once when anyone holds it in either mode.                    *)
restoreTryStoreLock(p) ==
  /\ At(p, "lock")
  /\ IF StoreLockFree(p)
     THEN lock' = [lock EXCEPT ![p] = "exclusive"] /\ GoesTo(p, "clean")
     ELSE Ends(p)
  /\ UNCHANGED <<rows, objects, used, archive, torn>>

(* psql runs the dump: it drops what is there and loads what was dumped,   *)
(* statement by statement in no transaction.                               *)
CleanDatabase(p) ==
  /\ At(p, "clean")
  /\ rows' = {}
  /\ torn' = TRUE
  /\ GoesTo(p, "load")
  /\ UNCHANGED <<lock, objects, used, archive>>

restorePostgres(p) ==
  /\ At(p, "load")
  /\ rows' = archive[proc[p].a].rows
  /\ Becomes(p, [proc[p] EXCEPT !.pc = "storage", !.left = archive[proc[p].a].objs])
  /\ UNCHANGED <<lock, objects, used, archive, torn>>

restoreBreaksOff(p) ==
  /\ At(p, "load")
  /\ rows' \in SUBSET archive[proc[p].a].rows
  /\ Ends(p)
  /\ UNCHANGED <<objects, used, archive, torn>>

(* Objects are put back over what is there; none is removed.               *)
restoreObject(p) ==
  /\ At(p, "storage")
  /\ \E k \in proc[p].left :
       /\ objects' = objects \cup {k}
       /\ Becomes(p, [proc[p] EXCEPT !.left = @ \ {k}])
  /\ UNCHANGED <<lock, rows, used, archive, torn>>

RestoreComplete(p) ==
  /\ At(p, "storage")
  /\ proc[p].left = {}
  /\ torn' = archive[proc[p].a].torn
  /\ Ends(p)
  /\ UNCHANGED <<rows, objects, used, archive>>

-----------------------------------------------------------------------------
(* What there was is lost, and an empty installation takes its place.      *)
NewInstallation ==
  /\ \A p \in Proc : At(p, "down")
  /\ rows' = {} /\ objects' = {}
  /\ torn' = FALSE
  /\ UNCHANGED <<proc, lock, used, archive>>

ServerStep(p) ==
  \/ Start(p) \/ serveAcquireStoreLock(p) \/ Migrate(p)
  \/ Put(p) \/ CreateAttachment(p) \/ Undo(p) \/ SoftDelete(p)

BackupStep(p) ==
  Backup(p) \/ dumpPostgres(p) \/ ListObjects(p) \/ CopyObject(p) \/ CopiedAll(p) \/ writeManifest(p)

RestoreStep(p) ==
  \/ Restore(p) \/ restoreTryStoreLock(p) \/ CleanDatabase(p) \/ restorePostgres(p) \/ restoreBreaksOff(p)
  \/ restoreObject(p) \/ RestoreComplete(p)

Step(p) == Exit(p) \/ ServerStep(p) \/ BackupStep(p) \/ RestoreStep(p)

Next == (\E p \in Proc : Step(p)) \/ Damage \/ NewInstallation

Spec == Init /\ [][Next]_vars

-----------------------------------------------------------------------------
Running == {"migrating", "serving", "storing", "undoing"}
Mutating == {"clean", "load", "storage"}

(* No restore changes the database or the object store while a server runs *)
(* or another restore does (serveAcquireStoreLock, restoreTryStoreLock).   *)
NoRestoreUnderAServer ==
  \A p, q \in Proc : p # q /\ proc[p].pc \in Mutating => proc[q].pc \notin Running \cup Mutating

(* Unless a restore was broken off and none has completed since, every     *)
(* attachment the database lists can be opened; a restore that completed   *)
(* brings that about from any archive that was written of such a state,    *)
(* taken beside running servers or not (runBackup, restoreStorage).        *)
EveryFileCanBeOpened ==
  /\ ~torn => rows \subseteq objects
  /\ \A a \in Archive : archive[a].st = "complete" /\ ~archive[a].torn => archive[a].rows \subseteq archive[a].objs

(* Processes, files and archives are told apart by what they do only.      *)
Symmetry == Permutations(Proc) \cup Permutations(Key) \cup Permutations(Archive)
=============================================================================
