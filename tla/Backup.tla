--------------------------------- MODULE Backup --------------------------------
(***************************************************************************)
(* SQLiteBackupService of src/cargomesh/platform/backup.py.                *)
(*                                                                         *)
(* A call looks at its paths, creates its destination, fills it and looks  *)
(* at the result; other calls, the application that owns the database, and *)
(* somebody who damages a backup, act in between.  A call that fails       *)
(* removes the file it created; one that dies leaves it.  The version of a *)
(* database stands for its bytes; some of the versions share one PRAGMA    *)
(* user_version.                                                           *)
(***************************************************************************)
EXTENDS Naturals

CONSTANTS
  BackupCalls,
  Paths,           \* paths of backups and restored databases
  MaxVersion,      \* bound on the versions of the live database
  UserVersion,     \* the user_version of each version
  Empty, Damaged, NoFile

ASSUME BackupAssumption ==
  MaxVersion \in Nat /\ NoFile \notin Nat \cup {Empty, Damaged}

VARIABLES
  live,            \* the version of the database in service
  files,           \* per path: what the file holds
  job,             \* per call: what it does
  manifests,       \* manifests handed out: path, digest and user_version
  restored,        \* history: restores that returned, with what they left
  damage           \* history: the paths somebody has damaged

backupVars == <<live, files, job, manifests, restored, damage>>

(* BackupManifest.                                                          *)
Manifest(path, version, user) == [path |-> path, version |-> version, user |-> user]

BackupInit ==
  /\ live = 0
  /\ files = [p \in Paths |-> NoFile]
  /\ job = [c \in BackupCalls |->
       [kind |-> "none", phase |-> "idle", path |-> NoFile, manifest |-> NoFile]]
  /\ manifests = {} /\ restored = {} /\ damage = {}

Advance(c, phase) == job' = [job EXCEPT ![c].phase = phase]

(* The application writes.                                                  *)
LiveWrites ==
  /\ live < MaxVersion /\ live' = live + 1
  /\ UNCHANGED <<files, job, manifests, restored, damage>>

Damage(p) ==
  /\ files[p] \notin {NoFile, Damaged}
  /\ files' = [files EXCEPT ![p] = Damaged] /\ damage' = damage \cup {p}
  /\ UNCHANGED <<live, job, manifests, restored>>

(* backup and restore begin: the destination does not exist.  The manifest  *)
(* will have the user_version read here, before the copy is made.           *)
BeginBackup(c, p) ==
  /\ job[c].phase = "idle" /\ files[p] = NoFile
  /\ job' = [job EXCEPT ![c] = [kind |-> "backup", phase |-> "checked", path |-> p,
                                manifest |-> Manifest(p, NoFile, UserVersion[live])]]
  /\ UNCHANGED <<live, files, manifests, restored, damage>>

(* _validate_manifest_file: the backup is what its manifest says.           *)
BeginRestore(c, m, p) ==
  /\ job[c].phase = "idle" /\ files[p] = NoFile
  /\ files[m.path] = m.version
  /\ job' = [job EXCEPT ![c] = [kind |-> "restore", phase |-> "checked", path |-> p,
                                manifest |-> m]]
  /\ UNCHANGED <<live, files, manifests, restored, damage>>

(* Fault: a file that has appeared is opened and used.                      *)
ExclusiveFault(p) == TRUE

(* O_EXCL *)
Exclusive(p) == files[p] = NoFile

(* _create_exclusive; a destination that has appeared meanwhile is refused, *)
(* and is not removed.                                                      *)
CreateDestination(c) ==
  LET p == job[c].path IN
  /\ job[c].phase = "checked"
  /\ IF Exclusive(p) THEN files' = [files EXCEPT ![p] = Empty] /\ Advance(c, "created")
     ELSE UNCHANGED files /\ Advance(c, "failed")
  /\ UNCHANGED <<live, manifests, restored, damage>>

(* The online backup copies a consistent version; restore copies the bytes  *)
(* that are there now.                                                      *)
Fill(c) ==
  LET copied == IF job[c].kind = "backup" THEN live ELSE files[job[c].manifest.path] IN
  /\ job[c].phase = "created"
  /\ files' = [files EXCEPT ![job[c].path] = copied]
  /\ Advance(c, "filled")
  /\ UNCHANGED <<live, manifests, restored, damage>>

(* _check_database: the integrity and the identity of what was copied; only *)
(* restore compares the user_version too.                                   *)
Inspect(c) ==
  LET content == files[job[c].path] IN
  /\ job[c].phase = "filled"
  /\ content \notin {NoFile, Empty, Damaged}
  /\ job[c].kind = "restore" => UserVersion[content] = job[c].manifest.user
  /\ Advance(c, "inspected")
  /\ UNCHANGED <<live, files, manifests, restored, damage>>

DigestMatches(c) == job[c].kind = "restore" => files[job[c].path] = job[c].manifest.version

(* The file is read back and its digest taken, and compared by restore.     *)
Return(c) ==
  LET p == job[c].path IN
  /\ job[c].phase = "inspected" /\ DigestMatches(c)
  /\ Advance(c, "returned")
  /\ IF job[c].kind = "backup"
     THEN manifests' = manifests \cup {[job[c].manifest EXCEPT !.version = files[p]]}
          /\ UNCHANGED restored
     ELSE restored' = restored \cup {[manifest |-> job[c].manifest, content |-> files[p]]}
          /\ UNCHANGED manifests
  /\ UNCHANGED <<live, files, damage>>

(* An error after the destination was created: _remove_created.             *)
CallFails(c) ==
  /\ job[c].phase \in {"created", "filled", "inspected"}
  /\ files' = [files EXCEPT ![job[c].path] = NoFile]
  /\ Advance(c, "failed")
  /\ UNCHANGED <<live, manifests, restored, damage>>

CallDies(c) ==
  /\ job[c].phase \in {"checked", "created", "filled", "inspected"}
  /\ Advance(c, "dead")
  /\ UNCHANGED <<live, files, manifests, restored, damage>>

BackupNext ==
  \/ LiveWrites
  \/ \E p \in Paths : Damage(p)
  \/ \E c \in BackupCalls :
       \/ \E p \in Paths : BeginBackup(c, p) \/ \E m \in manifests : BeginRestore(c, m, p)
       \/ CreateDestination(c) \/ Fill(c) \/ Inspect(c) \/ Return(c) \/ CallFails(c) \/ CallDies(c)

-----------------------------------------------------------------------------
(* A manifest that was handed out keeps describing its file until somebody  *)
(* damages the file: no other call overwrites or removes it, however the    *)
(* calls race for a path, fail or die.  And what a restore reports is the   *)
(* version of its manifest, even if the backup was damaged while it was     *)
(* being copied (backup.py, "never overwrites caller files").               *)
ManifestsHold ==
  /\ \A m \in manifests : m.path \notin damage => files[m.path] = m.version
  /\ \A done \in restored : done.content = done.manifest.version
=============================================================================
