---------------------------- MODULE Migrations ----------------------------
(* The migrations of one component of a SQLite database, run by every process  *)
(* that opens it: qe_platform/storage/migrations.py.                            *)
(*                                                                            *)
(* A start reads the recorded version outside any transaction, refuses a       *)
(* database newer than its own code, and then applies each pending migration   *)
(* in a transaction of its own that also records the version.  Nothing reads   *)
(* the version again once the transaction has begun, so what two starts do to  *)
(* one database depends on their order.  A migration is known by its version;  *)
(* its effect is present or absent, and Rerunnable tells the ones (CREATE ...   *)
(* IF NOT EXISTS, UPDATE) that may find their effect already there from the     *)
(* ones (ALTER TABLE ... ADD COLUMN) that fail on it.                           *)
EXTENDS Integers

CONSTANTS Starts,       \* processes that open the database
          Versions,     \* versions of the migrations that exist anywhere
          CodeVersion,  \* the newest migration each start's code knows
          Rerunnable,   \* migrations that may be applied again without failing
          NoOne         \* the database's write lock is free

ASSUME StartsAssumption == NoOne \notin Starts
ASSUME VersionsAssumption == Versions \subseteq Nat \ {0}
ASSUME CodeAssumption == CodeVersion \in [Starts -> Versions]

VARIABLES
  version,  \* schema_meta: the version recorded, 0 when there is no row
  applied,  \* the migrations whose effect is committed
  writer,   \* the start whose transaction is open, or NoOne
  pc,       \* where each start is
  current,  \* the version each start goes by, its local variable
  alone     \* whether the operator lets only one process open the database at a time

migrationsVars == <<version, applied, writer, pc, current, alone>>

\* Places of a start: "opened" has created schema_meta, "upgrading" is between
\* two transactions, "migrating" and "migrated" are inside one, before and after
\* the migration's statements; "ready", "failed" and "refused" are the ways apply ends.
Places == {"idle", "opened", "upgrading", "migrating", "migrated", "ready", "failed", "refused"}
InTransaction(s) == pc[s] \in {"migrating", "migrated"}
Upgrading(s) == pc[s] \in {"upgrading", "migrating", "migrated"}
Applying(s) == pc[s] = "opened" \/ Upgrading(s)

\* The migrations the loop has left to apply, and the next of them.
\* Mutant: the loop skips only the versions below the current one.
RemainingAgain(s) == {m \in Versions : current[s] <= m /\ m <= CodeVersion[s]}
Remaining(s) == {m \in Versions : current[s] < m /\ m <= CodeVersion[s]}
IsNext(s, m) == m \in Remaining(s) /\ \A k \in Remaining(s) : m <= k

At(s, place) == pc' = [pc EXCEPT ![s] = place]

\* Any database the component's releases can have left: new, or migrated in full.
MigrationsInit ==
  /\ version \in Versions \cup {0}
  /\ applied = {m \in Versions : m <= version}
  /\ writer = NoOne
  /\ pc = [s \in Starts |-> "idle"]
  /\ current = [s \in Starts |-> 0]
  /\ alone \in BOOLEAN

Open(s) ==
  /\ pc[s] = "idle"
  /\ alone => \A r \in Starts : ~Applying(r)
  /\ At(s, "opened")
  /\ UNCHANGED <<version, applied, writer, current, alone>>

ReadVersion(s) ==
  /\ pc[s] = "opened"
  /\ current' = [current EXCEPT ![s] = version]
  /\ At(s, IF version > CodeVersion[s] THEN "refused" ELSE "upgrading")
  /\ UNCHANGED <<version, applied, writer, alone>>

\* Mutant: the version is recorded before the migration runs, not with it.
BeginRecorded(s) ==
  /\ pc[s] = "upgrading" /\ Remaining(s) # {}
  /\ writer = NoOne
  /\ writer' = s
  /\ \E m \in Versions : IsNext(s, m) /\ version' = m
  /\ At(s, "migrating")
  /\ UNCHANGED <<applied, current, alone>>

Begin(s) ==
  /\ pc[s] = "upgrading" /\ Remaining(s) # {}
  /\ writer = NoOne
  /\ writer' = s
  /\ At(s, "migrating")
  /\ UNCHANGED <<version, applied, current, alone>>

\* Another start, or a service at work, holds the lock for longer than
\* busy_timeout: BEGIN IMMEDIATE raises.
LockTimeout(s) ==
  /\ pc[s] = "upgrading" /\ Remaining(s) # {}
  /\ At(s, "failed")
  /\ UNCHANGED <<version, applied, writer, current, alone>>

\* The migration's statements run to their end, uncommitted.
Migrate(s) ==
  /\ pc[s] = "migrating"
  /\ \E m \in Versions : IsNext(s, m) /\ (m \in applied => m \in Rerunnable)
  /\ At(s, "migrated")
  /\ UNCHANGED <<version, applied, writer, current, alone>>

\* Mutant: the migration's statements commit one by one, so rollback keeps them.
AbortKeeping(s) ==
  /\ InTransaction(s)
  /\ \E m \in Versions : IsNext(s, m) /\ applied' = applied \cup {m}
  /\ writer' = NoOne
  /\ At(s, "failed")
  /\ UNCHANGED <<version, current, alone>>

\* Mutant: the exception is swallowed and the loop goes on with the next one.
AbortContinues(s) ==
  /\ InTransaction(s)
  /\ \E m \in Versions : IsNext(s, m) /\ current' = [current EXCEPT ![s] = m]
  /\ writer' = NoOne
  /\ At(s, "upgrading")
  /\ UNCHANGED <<version, applied, alone>>

\* A migration that finds its effect already there, or any other exception
\* (a full disk, an interrupt) inside the transaction: rollback and raise.
Abort(s) ==
  /\ InTransaction(s)
  /\ writer' = NoOne
  /\ At(s, "failed")
  /\ UNCHANGED <<version, applied, current, alone>>

Record(s, m) ==
  /\ version' = m
  /\ applied' = applied \cup {m}
  /\ current' = [current EXCEPT ![s] = m]

Commit(s) ==
  /\ pc[s] = "migrated"
  /\ \E m \in Versions : IsNext(s, m) /\ Record(s, m)
  /\ writer' = NoOne
  /\ At(s, "upgrading")
  /\ UNCHANGED alone

Finish(s) ==
  /\ pc[s] = "upgrading" /\ Remaining(s) = {}
  /\ At(s, "ready")
  /\ UNCHANGED <<version, applied, writer, current, alone>>

\* A process ends, killed at any place; SQLite rolls an open transaction back.
Exit(s) ==
  /\ pc[s] # "idle"
  /\ At(s, "idle")
  /\ writer' = IF writer = s THEN NoOne ELSE writer
  /\ UNCHANGED <<version, applied, current, alone>>

MigrationsNext == \E s \in Starts :
  Open(s) \/ ReadVersion(s) \/ Begin(s) \/ LockTimeout(s) \/ Migrate(s) \/ Abort(s)
  \/ Commit(s) \/ Finish(s) \/ Exit(s)

MigrationsSpec == MigrationsInit /\ [][MigrationsNext]_migrationsVars

-----------------------------------------------------------------------------
\* The type of the database and of every start: the version is one that exists,
\* and the write lock belongs to the start whose transaction is open.
MigrationsTypeOK ==
  /\ version \in Versions \cup {0}
  /\ applied \subseteq Versions
  /\ writer \in Starts \cup {NoOne}
  /\ pc \in [Starts -> Places]
  /\ current \in [Starts -> Versions \cup {0}]
  /\ alone \in BOOLEAN

\* The recorded version can be believed, however many processes started at once,
\* ran different releases, failed or were killed: every migration up to it is in
\* the database (migrations.py:66 skips exactly those).
Covered == \A m \in Versions : m <= version => m \in applied

\* A start that apply let through works on a database that holds every migration
\* its own code knows, also when another start lowered or raised the recorded
\* version in the meantime (migrations.py:57-76).
ReadyIsMigrated ==
  \A s \in Starts : pc[s] = "ready" =>
    \A m \in Versions : m <= CodeVersion[s] => m \in applied

\* What the next start would apply does not fail on an effect already present.
Upgradable == \A m \in applied : m <= version \/ m \in Rerunnable

\* With one process at a time a failed or killed migration never leaves the
\* database where later starts fail for good: its effect and its version commit
\* or vanish together (migrations.py:68-75).
AloneUpgradable == alone => Upgradable

\* Each migration is committed once and the version only rises
\* (tests/test_storage_migrations.py:10).
AppliesOnce(s) ==
  Commit(s) => \A m \in Versions : IsNext(s, m) => m \notin applied /\ version < m
AppliedOnce == [][\A s \in Starts : AppliesOnce(s)]_migrationsVars

\* The same with one process at a time, over failures, kills, restarts and
\* releases of different ages.
AloneAppliedOnce == [][alone => \A s \in Starts : AppliesOnce(s)]_migrationsVars
=============================================================================
