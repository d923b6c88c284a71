--------------------------- MODULE BackupRestore ---------------------------
(* Backups of a SQLite database and the restore from one:                      *)
(* qe_platform/ops/backup.py and qe_platform/ops/restore.py.                   *)
(*                                                                            *)
(* A backup is two files, a database and a manifest with its checksum, and is   *)
(* published by two renames with a marker beside them from before the first     *)
(* until after the second.  Every operation on one of these files is a step;    *)
(* between two of them another call may run, a rename may fail or the process   *)
(* may be killed.  Temporary files have names of their own and belong to their  *)
(* call.  A database's contents are a snapshot, and its checksum stands for     *)
(* them: a manifest is the snapshot it was written for.                         *)
EXTENDS Naturals

CONSTANTS Backups, Restores,   \* calls that may be under way at the same time
          Snapshots,           \* contents of a sound database
          SchemaVersion,       \* the schema version recorded in each, 0 if none
          CodeVersion,         \* the newest version the restoring code knows
          Damaged,             \* contents that fail the integrity check
          Nothing              \* no file, no call

ASSUME FilesAssumption ==
  /\ Damaged \notin Snapshots /\ Nothing \notin Snapshots /\ Damaged # Nothing
ASSUME SchemaAssumption == SchemaVersion \in [Snapshots -> Nat] /\ CodeVersion \in Nat

VARIABLES
  database,  \* the service's database, backed up from and restored to
  target,    \* the published database
  manifest,  \* the published manifest
  pending,   \* whether the marker is there
  backup,    \* the local state of each backup, or Nothing
  restore,   \* the local state of each restore, or Nothing
  last,      \* history, if calls take turns: what the last backup that returned was of
  alone      \* whether calls take turns

published == <<target, manifest, pending>>
vars == <<database, published, backup, restore, last, alone>>

File == Snapshots \cup {Damaged, Nothing}
Manifest == Snapshots \cup {Nothing}

\* Places of a backup: up to "mark" nothing is published, "recoverDatabase" and
\* "recoverManifest" put back what the publication replaced.
BackupPlaces == {"copy", "look", "keepDatabase", "keepManifest", "mark", "database", "manifest",
                 "published", "recoverDatabase", "recoverManifest", "recovered"}
BackupCall == [at : BackupPlaces, new : Manifest, oldDatabase : File, oldManifest : Manifest]

RestorePlaces == {"pending", "manifest", "checksum", "schema", "integrity", "stage", "check", "replace"}
RestoreCall == [at : RestorePlaces, claimed : Manifest, version : Nat, staging : File]

VersionOf(file) == IF file \in Snapshots THEN SchemaVersion[file] ELSE 0
Compatible(file) == VersionOf(file) \in 1..CodeVersion

\* A sound backup, or none, and no call under way.  A database may be there
\* without a manifest, not made by backup_database.
Init ==
  /\ database \in Snapshots
  /\ target \in Manifest
  /\ manifest \in {target, Nothing}
  /\ pending = FALSE
  /\ backup = [b \in Backups |-> Nothing]
  /\ restore = [r \in Restores |-> Nothing]
  /\ alone \in BOOLEAN
  /\ last = IF alone THEN manifest ELSE Nothing

MayStart == alone => /\ \A b \in Backups : backup[b] = Nothing
                     /\ \A r \in Restores : restore[r] = Nothing

-----------------------------------------------------------------------------
(* backup_database                                                            *)

BackupAt(b, place) == backup[b] # Nothing /\ backup[b].at = place
BackupTo(b, place) == backup' = [backup EXCEPT ![b].at = place]
BackupEnds(b) == backup' = [backup EXCEPT ![b] = Nothing]
OthersRest == UNCHANGED <<database, restore, last, alone>>

\* A marker refuses the call.
StartBackup(b) ==
  /\ backup[b] = Nothing /\ MayStart
  /\ ~pending
  /\ backup' = [backup EXCEPT ![b] =
       [at |-> "copy", new |-> Nothing, oldDatabase |-> Nothing, oldManifest |-> Nothing]]
  /\ UNCHANGED published /\ OthersRest

\* SQLite's online backup is one consistent snapshot; the versions and the
\* checksum of the manifest are taken of the copy.
CopyDatabase(b) ==
  /\ BackupAt(b, "copy")
  /\ backup' = [backup EXCEPT ![b].new = database, ![b].at = "look"]
  /\ UNCHANGED published /\ OthersRest

LookForPrevious(b) ==
  /\ BackupAt(b, "look")
  /\ BackupTo(b, IF target # Nothing /\ manifest # Nothing THEN "keepDatabase" ELSE "mark")
  /\ UNCHANGED published /\ OthersRest

KeepDatabase(b) ==
  /\ BackupAt(b, "keepDatabase") /\ target # Nothing
  /\ backup' = [backup EXCEPT ![b].oldDatabase = target, ![b].at = "keepManifest"]
  /\ UNCHANGED published /\ OthersRest

\* Mutant: the published database is kept in place of the manifest.
KeepDatabaseTwice(b) ==
  /\ BackupAt(b, "keepManifest") /\ target # Nothing
  /\ backup' = [backup EXCEPT ![b].oldManifest = target, ![b].at = "mark"]
  /\ UNCHANGED published /\ OthersRest

KeepManifest(b) ==
  /\ BackupAt(b, "keepManifest") /\ manifest # Nothing
  /\ backup' = [backup EXCEPT ![b].oldManifest = manifest, ![b].at = "mark"]
  /\ UNCHANGED published /\ OthersRest

\* Anything may fail before the marker is set: nothing has been published.
FailEarly(b) ==
  /\ backup[b] # Nothing
  /\ backup[b].at \in {"copy", "look", "keepDatabase", "keepManifest", "mark"}
  /\ BackupEnds(b)
  /\ UNCHANGED published /\ OthersRest

Mark(b) ==
  /\ BackupAt(b, "mark")
  /\ pending' = TRUE
  /\ BackupTo(b, "database")
  /\ UNCHANGED <<target, manifest>> /\ OthersRest

ReplaceDatabase(b) ==
  /\ BackupAt(b, "database")
  /\ target' = backup[b].new
  /\ BackupTo(b, "manifest")
  /\ UNCHANGED <<manifest, pending>> /\ OthersRest

ReplaceManifest(b) ==
  /\ BackupAt(b, "manifest")
  /\ manifest' = backup[b].new
  /\ BackupTo(b, "published")
  /\ UNCHANGED <<target, pending>> /\ OthersRest

\* Either rename raises OSError.
PublicationFails(b) ==
  /\ BackupAt(b, "database") \/ BackupAt(b, "manifest")
  /\ BackupTo(b, "recoverDatabase")
  /\ UNCHANGED published /\ OthersRest

\* What was kept goes back; where nothing was kept the files are removed.
Kept(b) == backup[b].oldDatabase # Nothing /\ backup[b].oldManifest # Nothing

RecoverDatabase(b) ==
  /\ BackupAt(b, "recoverDatabase")
  /\ target' = IF Kept(b) THEN backup[b].oldDatabase ELSE Nothing
  /\ BackupTo(b, "recoverManifest")
  /\ UNCHANGED <<manifest, pending>> /\ OthersRest

RecoverManifest(b) ==
  /\ BackupAt(b, "recoverManifest")
  /\ manifest' = IF Kept(b) THEN backup[b].oldManifest ELSE Nothing
  /\ BackupTo(b, "recovered")
  /\ UNCHANGED <<target, pending>> /\ OthersRest

\* The finally block: the marker goes only when the publication is over.
Unmark(b) ==
  /\ BackupAt(b, "published") \/ BackupAt(b, "recovered")
  /\ pending' = FALSE
  /\ last' = IF alone /\ backup[b].at = "published" THEN backup[b].new ELSE last
  /\ BackupEnds(b)
  /\ UNCHANGED <<target, manifest, database, restore, alone>>

\* Mutant: the finally block takes the marker away whatever has happened.
AbandonUnmarked(b) ==
  /\ backup[b] # Nothing
  /\ backup[b].at \notin {"copy", "look", "keepDatabase", "keepManifest", "mark"}
  /\ pending' = FALSE
  /\ BackupEnds(b)
  /\ UNCHANGED <<target, manifest>> /\ OthersRest

\* The recovery fails as well, or the process is killed: the marker stays.
Abandon(b) ==
  /\ backup[b] # Nothing
  /\ backup[b].at \notin {"copy", "look", "keepDatabase", "keepManifest", "mark"}
  /\ BackupEnds(b)
  /\ UNCHANGED published /\ OthersRest

BackupStep(b) ==
  \/ StartBackup(b) \/ CopyDatabase(b) \/ LookForPrevious(b) \/ KeepDatabase(b) \/ KeepManifest(b)
  \/ FailEarly(b) \/ Mark(b) \/ ReplaceDatabase(b) \/ ReplaceManifest(b) \/ PublicationFails(b)
  \/ RecoverDatabase(b) \/ RecoverManifest(b) \/ Unmark(b) \/ Abandon(b)

-----------------------------------------------------------------------------
(* restore_database                                                           *)

RestoreAt(r, place) == restore[r] # Nothing /\ restore[r].at = place
RestoreTo(r, place) == restore' = [restore EXCEPT ![r].at = place]
RestoreEnds(r) == restore' = [restore EXCEPT ![r] = Nothing]
OnlyReads == UNCHANGED <<database, published, backup, last, alone>>

StartRestore(r) ==
  /\ restore[r] = Nothing /\ MayStart
  /\ target # Nothing
  /\ restore' = [restore EXCEPT ![r] =
       [at |-> "pending", claimed |-> Nothing, version |-> 0, staging |-> Nothing]]
  /\ OnlyReads

ReadPending(r) ==
  /\ RestoreAt(r, "pending") /\ ~pending
  /\ RestoreTo(r, "manifest")
  /\ OnlyReads

ReadManifest(r) ==
  /\ RestoreAt(r, "manifest") /\ manifest # Nothing
  /\ restore' = [restore EXCEPT ![r].claimed = manifest, ![r].at = "checksum"]
  /\ OnlyReads

CompareChecksum(r) ==
  /\ RestoreAt(r, "checksum") /\ target = restore[r].claimed
  /\ RestoreTo(r, "schema")
  /\ OnlyReads

\* A damaged file may still show a version, and any.
ShownVersions(file) == IF file \in Snapshots THEN {SchemaVersion[file]} ELSE 0..CodeVersion

ReadSchema(r) ==
  /\ RestoreAt(r, "schema") /\ target # Nothing
  /\ \E v \in ShownVersions(target) :
       restore' = [restore EXCEPT ![r].version = v, ![r].at = "integrity"]
  /\ OnlyReads

CheckIntegrity(r) ==
  /\ RestoreAt(r, "integrity") /\ target \in Snapshots
  /\ restore[r].version = SchemaVersion[restore[r].claimed]
  /\ restore[r].version \in 1..CodeVersion
  /\ RestoreTo(r, "stage")
  /\ OnlyReads

Stage(r) ==
  /\ RestoreAt(r, "stage") /\ target # Nothing
  /\ restore' = [restore EXCEPT ![r].staging = target, ![r].at = "check"]
  /\ OnlyReads

\* Mutant: what was checked in the backup is not checked in its copy.
TrustStaging(r) ==
  /\ RestoreAt(r, "check")
  /\ RestoreTo(r, "replace")
  /\ OnlyReads

CheckStaging(r) ==
  /\ RestoreAt(r, "check") /\ restore[r].staging \in Snapshots
  /\ restore[r].version = SchemaVersion[restore[r].staging]
  /\ RestoreTo(r, "replace")
  /\ OnlyReads

Replace(r) ==
  /\ RestoreAt(r, "replace")
  /\ database' = restore[r].staging
  /\ RestoreEnds(r)
  /\ UNCHANGED <<published, backup, last, alone>>

\* A check refuses, the target's sidecar files say it is in use, an operation
\* fails, or the process is killed: the database has not been touched.
RestoreFails(r) ==
  /\ restore[r] # Nothing
  /\ RestoreEnds(r)
  /\ OnlyReads

RestoreStep(r) ==
  \/ StartRestore(r) \/ ReadPending(r) \/ ReadManifest(r) \/ CompareChecksum(r) \/ ReadSchema(r)
  \/ CheckIntegrity(r) \/ Stage(r) \/ CheckStaging(r) \/ Replace(r) \/ RestoreFails(r)

-----------------------------------------------------------------------------
\* The service writes.
Write ==
  /\ database' \in Snapshots
  /\ UNCHANGED <<published, backup, restore, last, alone>>

\* The published database is damaged on its disk.
Damage ==
  /\ target # Nothing
  /\ target' = Damaged
  /\ UNCHANGED <<database, manifest, pending, backup, restore, last, alone>>

Next ==
  \/ \E b \in Backups : BackupStep(b)
  \/ \E r \in Restores : RestoreStep(r)
  \/ Write \/ Damage

Spec == Init /\ [][Next]_vars

-----------------------------------------------------------------------------
\* The types of the files and of the calls; the service's database is sound.
TypeOK ==
  /\ database \in Snapshots
  /\ target \in File
  /\ manifest \in Manifest
  /\ pending \in BOOLEAN
  /\ backup \in [Backups -> BackupCall \cup {Nothing}]
  /\ restore \in [Restores -> RestoreCall \cup {Nothing}]
  /\ last \in Manifest
  /\ alone \in BOOLEAN

\* When calls take turns, whatever is published without the marker is the backup
\* of the last call that returned, whole: a call that failed, failed to recover
\* or was killed between the two renames has left that one or the marker
\* (backup.py:116-141).
AlonePublished ==
  alone /\ ~pending =>
    /\ manifest = last
    /\ last # Nothing => target \in {last, Damaged}

\* What a restore is about to install is sound and of a schema the code knows,
\* although the backup is read four times and others may publish or damage it in
\* between; and when calls take turns it is the backup of the last call that
\* returned (restore.py:84-109).
RestoreSound ==
  \A r \in Restores : RestoreAt(r, "replace") =>
    /\ restore[r].staging \in Snapshots
    /\ Compatible(restore[r].staging)
    /\ alone => restore[r].staging = last
=============================================================================
