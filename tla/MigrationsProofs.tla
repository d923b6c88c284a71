------------------------- MODULE MigrationsProofs -------------------------
(* What a database's migrations guarantee for any number of starts, releases  *)
(* and versions.  The inductive invariant says what a start's local version is *)
(* worth: every migration up to it is in the database, whatever the others did *)
(* since it was read; and that with one process at a time it is the version     *)
(* recorded.                                                                   *)
EXTENDS Migrations, TLAPS

USE StartsAssumption, VersionsAssumption, CodeAssumption

\* The write lock belongs to the one start whose transaction is open.
LockInv == \A s \in Starts : InTransaction(s) <=> writer = s

\* A start past its read goes by a version its code knows and whose migrations
\* are all in the database.
LocalInv ==
  \A s \in Starts : Upgrading(s) =>
    /\ current[s] <= CodeVersion[s]
    /\ \A m \in Versions : m <= current[s] => m \in applied

\* With one process at a time the local version is the recorded one, no effect
\* is ahead of it, and a start inside its loop is the only one.
AloneInv == alone =>
  /\ \A s \in Starts : Upgrading(s) => current[s] = version
  /\ \A m \in applied : m <= version
  /\ \A r, s \in Starts : Applying(r) /\ Applying(s) => r = s

IInv == MigrationsTypeOK /\ LockInv /\ LocalInv /\ AloneInv /\ Covered /\ ReadyIsMigrated

\* The versions a start works with are numbers.
LEMMA Numbers ==
  ASSUME MigrationsTypeOK
  PROVE  /\ version \in Nat
         /\ \A m \in Versions : m \in Nat
         /\ \A m \in applied : m \in Nat
         /\ \A s \in Starts : current[s] \in Nat /\ CodeVersion[s] \in Nat
<1>1. \A m \in Versions : m \in Nat
    BY VersionsAssumption
<1>2. version \in Nat /\ \A m \in applied : m \in Nat
    BY <1>1 DEF MigrationsTypeOK
<1>3. ASSUME NEW s \in Starts PROVE CodeVersion[s] \in Nat
  <2>1. CodeVersion[s] \in Versions
      BY CodeAssumption
  <2> QED
      BY <1>1, <2>1
<1>4. ASSUME NEW s \in Starts PROVE current[s] \in Nat
  <2>1. Versions \cup {0} \subseteq Nat
      BY <1>1
  <2>2. current[s] \in Versions \cup {0}
      BY DEF MigrationsTypeOK
  <2> QED
      BY <2>1, <2>2
<1> QED
    BY <1>1, <1>2, <1>3, <1>4

LEMMA InitIInv == MigrationsInit => IInv
<1> SUFFICES ASSUME MigrationsInit PROVE IInv
    OBVIOUS
<1>1. MigrationsTypeOK
    BY DEF MigrationsInit, MigrationsTypeOK, Places
<1>2. LockInv /\ LocalInv /\ ReadyIsMigrated
    BY DEF MigrationsInit, LockInv, LocalInv, ReadyIsMigrated, InTransaction, Upgrading
<1>3. AloneInv /\ Covered
    BY DEF MigrationsInit, AloneInv, Covered, Upgrading, Applying
<1> QED
    BY <1>1, <1>2, <1>3 DEF IInv

\* A step that writes nothing and gains no place in the loop keeps the invariant.
LEMMA QuietStep ==
  ASSUME IInv, NEW s \in Starts, NEW place \in Places, At(s, place),
         UNCHANGED <<version, applied, current, alone>>,
         writer' \in {writer, NoOne},
         writer' = writer => (InTransaction(s) <=> place \in {"migrating", "migrated"}),
         writer' # writer => writer = s /\ place \notin {"migrating", "migrated"},
         place \in {"upgrading", "migrating", "migrated"} => Upgrading(s),
         place = "opened" /\ alone => \A r \in Starts : ~Applying(r),
         place = "ready" => Remaining(s) = {} /\ Upgrading(s)
  PROVE  IInv'
<1> USE DEF IInv
<1>1. pc' = [pc EXCEPT ![s] = place] /\ pc'[s] = place
    BY DEF At, MigrationsTypeOK
<1>2. MigrationsTypeOK'
    BY <1>1 DEF MigrationsTypeOK
<1>3. \A r \in Starts : r # s => pc'[r] = pc[r]
    BY <1>1 DEF MigrationsTypeOK
<1>4. LockInv'
    BY <1>1, <1>3 DEF LockInv, InTransaction, MigrationsTypeOK
<1>5. LocalInv'
    BY <1>1, <1>3 DEF LocalInv, Upgrading
<1>6. AloneInv'
    BY <1>1, <1>3 DEF AloneInv, Upgrading, Applying
<1>7. Covered'
    BY DEF Covered
<1>8. ReadyIsMigrated'
  <2>1. place = "ready" => \A m \in Versions : m <= CodeVersion[s] => m \in applied
    <3>1. ASSUME place = "ready", NEW m \in Versions, m <= CodeVersion[s]
          PROVE  m \in applied
        BY <3>1, Numbers DEF LocalInv, Remaining
    <3> QED
        BY <3>1
  <2> QED
      BY <1>1, <1>3, <2>1 DEF ReadyIsMigrated
<1> QED
    BY <1>2, <1>4, <1>5, <1>6, <1>7, <1>8

\* The read leaves the database alone and earns the start its local version.
LEMMA ReadStep ==
  ASSUME IInv, NEW s \in Starts, ReadVersion(s)
  PROVE  IInv'
<1> USE DEF IInv, ReadVersion
<1> DEFINE place == IF version > CodeVersion[s] THEN "refused" ELSE "upgrading"
<1>1. pc' = [pc EXCEPT ![s] = place] /\ pc'[s] = place /\ place \in {"refused", "upgrading"}
    BY DEF At, MigrationsTypeOK
<1>2. \A r \in Starts : r # s => pc'[r] = pc[r] /\ current'[r] = current[r]
    BY <1>1 DEF MigrationsTypeOK
<1>3. current'[s] = version
    BY DEF MigrationsTypeOK
<1>4. MigrationsTypeOK'
    BY <1>1 DEF MigrationsTypeOK, Places
<1>5. LockInv'
    BY <1>1, <1>2 DEF LockInv, InTransaction
<1>6. LocalInv'
  <2>1. place = "upgrading" => version <= CodeVersion[s]
      BY Numbers
  <2> HIDE DEF place
  <2> QED
      BY <1>1, <1>2, <1>3, <2>1 DEF LocalInv, Upgrading, Covered
<1>7. AloneInv'
  <2>1. Applying(s)
      BY DEF Applying
  <2> HIDE DEF place
  <2> QED
      BY <1>1, <1>2, <1>3, <2>1 DEF AloneInv, Upgrading, Applying
<1>8. Covered' /\ ReadyIsMigrated'
    BY <1>1, <1>2 DEF Covered, ReadyIsMigrated
<1> QED
    BY <1>4, <1>5, <1>6, <1>7, <1>8

\* What a commit does: the next pending migration of its start and its version
\* enter the database together, above everything the start went by.
LEMMA CommitStep ==
  ASSUME IInv, NEW s \in Starts, Commit(s)
  PROVE  IInv' /\ (alone => AppliesOnce(s))
<1> USE DEF IInv, Commit
<1> PICK m \in Versions : IsNext(s, m) /\ Record(s, m)
    OBVIOUS
<1>1. /\ version' = m
      /\ applied' = applied \cup {m}
      /\ current' = [current EXCEPT ![s] = m]
    BY DEF Record
<1>2. pc' = [pc EXCEPT ![s] = "upgrading"] /\ pc'[s] = "upgrading" /\ current'[s] = m
    BY <1>1 DEF At, MigrationsTypeOK
<1>3. \A r \in Starts : r # s => pc'[r] = pc[r] /\ current'[r] = current[r]
    BY <1>1, <1>2 DEF MigrationsTypeOK
<1>4. current[s] < m /\ m <= CodeVersion[s]
    BY DEF IsNext, Remaining
<1>5. \A k \in Versions : k < m => k <= current[s]
  <2>1. ASSUME NEW k \in Versions, k < m, ~(k <= current[s]) PROVE FALSE
    <3>1. k \in Nat /\ m \in Nat /\ current[s] \in Nat /\ CodeVersion[s] \in Nat
        BY Numbers
    <3>2. k \in Remaining(s)
        BY <1>4, <2>1, <3>1 DEF Remaining
    <3>3. m <= k
        BY <3>2 DEF IsNext
    <3> QED
        BY <2>1, <3>1, <3>3
  <2> QED
      BY <2>1
<1>6. \A k \in Versions : k <= m => k \in applied'
  <2>1. ASSUME NEW k \in Versions, k <= m, k # m PROVE k \in applied
      BY <1>5, <2>1 DEF LocalInv, Upgrading
  <2> QED
      BY <1>1, <2>1
<1>7. MigrationsTypeOK'
    BY <1>1, <1>2 DEF MigrationsTypeOK, Places
<1>8. LockInv'
    BY <1>2, <1>3 DEF LockInv, InTransaction
<1>9. LocalInv'
    BY <1>1, <1>2, <1>3, <1>4, <1>6 DEF LocalInv, Upgrading
<1>10. Covered' /\ ReadyIsMigrated'
    BY <1>1, <1>2, <1>3, <1>6 DEF Covered, ReadyIsMigrated
<1>11. alone => version < m /\ m \notin applied
  <2>1. m \in Nat /\ current[s] \in Nat
      BY Numbers
  <2>2. alone => current[s] = version /\ \A k \in applied : k <= version
      BY DEF AloneInv, Upgrading
  <2> QED
      BY <1>4, <2>1, <2>2, Numbers
<1>12. AloneInv'
  <2>1. alone => \A k \in applied' : k <= m
      BY <1>1, <1>11 DEF AloneInv, MigrationsTypeOK
  <2>2. Applying(s) /\ \A r \in Starts : Upgrading(r) => Applying(r)
      BY DEF Applying, Upgrading
  <2>3. \A r \in Starts : r # s => Applying(r)' = Applying(r) /\ Upgrading(r)' = Upgrading(r)
      BY <1>3 DEF Applying, Upgrading
  <2> QED
      BY <1>1, <1>2, <2>1, <2>2, <2>3 DEF AloneInv
<1>13. alone => AppliesOnce(s)
  <2>1. \A k \in Versions : IsNext(s, k) => k = m
      BY Numbers DEF IsNext, Remaining
  <2> QED
      BY <1>11, <2>1 DEF AppliesOnce
<1> QED
    BY <1>7, <1>8, <1>9, <1>10, <1>12, <1>13

LEMMA NextIInv == IInv /\ [MigrationsNext]_migrationsVars => IInv' /\ (alone => \A s \in Starts : AppliesOnce(s))
<1> SUFFICES ASSUME IInv, [MigrationsNext]_migrationsVars
             PROVE  IInv' /\ (alone => \A s \in Starts : AppliesOnce(s))
    OBVIOUS
<1>1. alone => \A s \in Starts : AppliesOnce(s)
    BY CommitStep DEF AppliesOnce
<1>2. CASE UNCHANGED migrationsVars
  <2>1. MigrationsTypeOK' /\ LockInv' /\ LocalInv'
      BY <1>2 DEF migrationsVars, IInv, MigrationsTypeOK, LockInv, LocalInv, InTransaction, Upgrading
  <2>2. AloneInv' /\ Covered' /\ ReadyIsMigrated'
      BY <1>2 DEF migrationsVars, IInv, AloneInv, Covered, ReadyIsMigrated, Upgrading, Applying
  <2>3. alone => \A s \in Starts : AppliesOnce(s)
      BY <1>1
  <2> QED
      BY <2>1, <2>2, <2>3 DEF IInv
<1>3. ASSUME NEW s \in Starts, Open(s) PROVE IInv'
  <2>1. ~Applying(s)
      BY <1>3 DEF Open, Applying, Upgrading
  <2> QED
      BY <1>3, QuietStep DEF Open, Places, InTransaction
<1>4. ASSUME NEW s \in Starts, ReadVersion(s) PROVE IInv'
    BY <1>4, ReadStep
<1>5. ASSUME NEW s \in Starts, Begin(s) PROVE IInv'
  <2> USE <1>5 DEF IInv, Begin
  <2>1. pc' = [pc EXCEPT ![s] = "migrating"] /\ pc'[s] = "migrating"
      BY DEF At, MigrationsTypeOK
  <2>2. \A r \in Starts : r # s => pc'[r] = pc[r]
      BY <2>1 DEF MigrationsTypeOK
  <2>3. MigrationsTypeOK'
      BY <2>1 DEF MigrationsTypeOK, Places
  <2>4. LockInv'
      BY <2>1, <2>2 DEF LockInv, InTransaction
  <2>5. LocalInv'
      BY <2>1, <2>2 DEF LocalInv, Upgrading
  <2>6. AloneInv'
      BY <2>1, <2>2 DEF AloneInv, Upgrading, Applying
  <2>7. Covered' /\ ReadyIsMigrated'
      BY <2>1, <2>2 DEF Covered, ReadyIsMigrated
  <2> QED
      BY <2>3, <2>4, <2>5, <2>6, <2>7
<1>6. ASSUME NEW s \in Starts, LockTimeout(s) PROVE IInv'
    BY <1>6, QuietStep DEF LockTimeout, Places, InTransaction
<1>7. ASSUME NEW s \in Starts, Migrate(s) PROVE IInv'
    BY <1>7, QuietStep DEF Migrate, Places, InTransaction, Upgrading
<1>8. ASSUME NEW s \in Starts, Abort(s) PROVE IInv'
  <2>1. writer = s
      BY <1>8 DEF Abort, IInv, LockInv
  <2> QED
      BY <1>8, <2>1, QuietStep DEF Abort, Places
<1>9. ASSUME NEW s \in Starts, Commit(s) PROVE IInv'
    BY <1>9, CommitStep
<1>10. ASSUME NEW s \in Starts, Finish(s) PROVE IInv'
    BY <1>10, QuietStep DEF Finish, Places, InTransaction, Upgrading
<1>11. ASSUME NEW s \in Starts, Exit(s) PROVE IInv'
  <2>1. InTransaction(s) <=> writer = s
      BY DEF IInv, LockInv
  <2>2. CASE writer = s
      BY <1>11, <2>1, <2>2, QuietStep DEF Exit, Places
  <2>3. CASE writer # s
      BY <1>11, <2>1, <2>3, QuietStep DEF Exit, Places
  <2> QED
      BY <2>2, <2>3
<1> QED
    BY <1>1, <1>2, <1>3, <1>4, <1>5, <1>6, <1>7, <1>8, <1>9, <1>10, <1>11 DEF MigrationsNext

LEMMA Inductive == MigrationsSpec => []IInv
<1> QED
    BY InitIInv, NextIInv, PTL DEF MigrationsSpec

\* The database and every start keep their types.
THEOREM TypeCorrect == MigrationsSpec => []MigrationsTypeOK
<1>1. IInv => MigrationsTypeOK
    BY DEF IInv
<1> QED
    BY <1>1, Inductive, PTL

\* The recorded version can be believed, whichever starts ran together.
THEOREM VersionCovered == MigrationsSpec => []Covered
<1>1. IInv => Covered
    BY DEF IInv
<1> QED
    BY <1>1, Inductive, PTL

\* A start that apply lets through works on a fully migrated database.
THEOREM ReadyAlwaysMigrated == MigrationsSpec => []ReadyIsMigrated
<1>1. IInv => ReadyIsMigrated
    BY DEF IInv
<1> QED
    BY <1>1, Inductive, PTL

\* With one process at a time no failure or kill leaves a database that the next
\* start cannot migrate.
THEOREM AloneAlwaysUpgradable == MigrationsSpec => []AloneUpgradable
<1>1. IInv => AloneUpgradable
    BY DEF IInv, AloneInv, AloneUpgradable, Upgradable
<1> QED
    BY <1>1, Inductive, PTL

\* With one process at a time each migration commits once, in rising order.
THEOREM AloneAppliesOnce == MigrationsSpec => AloneAppliedOnce
<1>1. IInv /\ [MigrationsNext]_migrationsVars => [alone => \A s \in Starts : AppliesOnce(s)]_migrationsVars
    BY NextIInv
<1> QED
    BY <1>1, Inductive, PTL DEF MigrationsSpec, AloneAppliedOnce
=============================================================================
