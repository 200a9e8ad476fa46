------------------------ MODULE MigrationRunnerProofs ------------------------
(***************************************************************************)
(* Any number of runners, with any bundles, on a database of any origin:   *)
(* the advisory lock makes the rows a runner has read stay true, and with  *)
(* it the transaction makes the records tell what SQL took effect.         *)
(***************************************************************************)
EXTENDS MigrationRunner, FiniteSetTheorems, TLAPS

(* Where a runner holds the advisory lock, and where the table exists.     *)
Tabled == {"add_column", "read_legacy", "backfill", "set_not_null", "read", "begin",
           "lock_table", "reread", "apply"}
Holding == Tabled \cup {"create_table", "table_exists", "unlock"}

Reported(r) ==
  \/ stage[r] \in {"begin"} \cup TransactionStage
  \/ stage[r] = "unlock" /\ result[r] \in {"reported", "up_to_date"}

(* What a transaction has applied, and has yet to apply, is unrecorded and *)
(* has no migration twice.                                                 *)
Unrecorded(r) ==
  /\ plan[r] \subseteq DOMAIN Bundle[r]
  /\ \A i \in plan[r] : Bundle[r][i].id \notin DOMAIN log
  /\ \A j \in DOMAIN applied[r] :
       /\ applied[r][j].id \notin DOMAIN log
       /\ \A i \in plan[r] : Bundle[r][i].id # applied[r][j].id
       /\ \A k \in DOMAIN applied[r] : applied[r][j].id = applied[r][k].id => j = k

RunnerInv(r) ==
  /\ stage[r] \in Holding => held[r] > 0
  /\ stage[r] \in Tabled => table # "missing"
  /\ stage[r] = "backfill" => r \in AllowBackfill
  /\ stage[r] # "apply" => applied[r] = <<>>
  /\ stage[r] = "apply" => Unrecorded(r)
  /\ Reported(r) => seen[r] = log

OneHolder == \A r, s \in Runners : held[r] > 0 /\ held[s] > 0 => r = s

MissingIsEmpty == table = "missing" => log = NoRows

IInv ==
  /\ TypeOK
  /\ \A r \in Runners : RunnerInv(r)
  /\ OneHolder
  /\ MissingIsEmpty
  /\ LogMatchesSchema

-----------------------------------------------------------------------------
LEMMA StagesAreTyped ==
  /\ Holding \cup {"idle", "advisory_lock", "done"} = Stage
  /\ \A x \in Holding : x # "idle" /\ x # "advisory_lock" /\ x # "done"
BY DEF Holding, Tabled, Stage, EnsureStage, TransactionStage

LEMMA BundlesAreTyped ==
  ASSUME NEW r \in Runners
  PROVE  /\ Bundle[r] \in Seq(Migration)
         /\ DOMAIN Bundle[r] \subseteq Nat
         /\ \A i \in DOMAIN Bundle[r] :
              /\ Bundle[r][i] \in Migration /\ Bundle[r][i].id \in Nat
              /\ Bundle[r][i].checksum \in Checksums
         /\ \A i, j \in DOMAIN Bundle[r] : Bundle[r][i].id = Bundle[r][j].id => i = j
<1>1. Bundle[r] \in Seq(Migration)
  BY BundleAssumption
<1>2. \A i, j \in DOMAIN Bundle[r] : Bundle[r][i].id = Bundle[r][j].id => i = j
  BY BundleAssumption
<1>3. \A i \in DOMAIN Bundle[r] : i \in Nat /\ Bundle[r][i] \in Migration
  BY <1>1
<1> QED
  BY <1>1, <1>2, <1>3 DEF Migration

LEMMA NoRowsAreRows == Rows(NoRows) /\ DOMAIN NoRows = {}
BY DEF Rows, NoRows

(* A runner that does something under the advisory lock is alone with it.  *)
LEMMA Alone ==
  ASSUME IInv, NEW r \in Runners, stage[r] \in Holding,
         NEW s \in Runners \ {r}
  PROVE  stage[s] \notin Holding /\ held[s] = 0
BY DEF IInv, TypeOK, RunnerInv, OneHolder

(* The step of r changes what another runner relies on only if r holds the *)
(* lock, and then the other runner relies on nothing.                      *)
LEMMA OthersRely ==
  ASSUME IInv, NEW r \in Runners,
         \/ stage[r] \in Holding
         \/ UNCHANGED <<log, table>>,
         \A s \in Runners \ {r} :
           /\ stage'[s] = stage[s] /\ held'[s] = held[s] /\ result'[s] = result[s]
           /\ seen'[s] = seen[s] /\ plan'[s] = plan[s] /\ applied'[s] = applied[s],
         RunnerInv(r)'
  PROVE  \A s \in Runners : RunnerInv(s)'
<1> SUFFICES ASSUME NEW s \in Runners \ {r} PROVE RunnerInv(s)'
  OBVIOUS
<1>1. RunnerInv(s)
  BY DEF IInv
<1>2. /\ stage'[s] = stage[s] /\ held'[s] = held[s] /\ result'[s] = result[s]
      /\ seen'[s] = seen[s] /\ plan'[s] = plan[s] /\ applied'[s] = applied[s]
  OBVIOUS
<1>3. CASE stage[r] \in Holding
  <2>1. stage[s] \notin Holding
    BY <1>3, Alone
  <2> QED
    BY <1>1, <1>2, <2>1 DEF RunnerInv, Reported, TransactionStage, Holding, Tabled
<1>4. CASE UNCHANGED <<log, table>>
  BY <1>1, <1>2, <1>4 DEF RunnerInv, Reported, Unrecorded
<1> QED
  BY <1>3, <1>4

-----------------------------------------------------------------------------
(* Types. *)

LEMMA TypeOfEnds ==
  ASSUME TypeOK, NEW r \in Runners, NEW as \in Result, Ends(r, as)
  PROVE  stage' \in [Runners -> Stage] /\ result' \in [Runners -> Result]
BY DEF TypeOK, Ends, Goto, Stage

LEMMA TypeOfRollback ==
  ASSUME TypeOK, NEW r \in Runners, Rollback(r)
  PROVE  /\ plan' \in [Runners -> SUBSET Nat] /\ applied' \in [Runners -> Seq(Migration)]
         /\ began' \in [Runners -> Nat] /\ tableLock' \in Optional(Runners)
<1>1. <<>> \in Seq(Migration)
  OBVIOUS
<1>2. applied' \in [Runners -> Seq(Migration)]
  BY <1>1 DEF TypeOK, Rollback
<1>3. plan' \in [Runners -> SUBSET Nat]
  BY DEF TypeOK, Rollback
<1>4. tableLock' \in Optional(Runners)
  BY DEF TypeOK, Rollback, Optional
<1> QED
  BY <1>2, <1>3, <1>4 DEF TypeOK, Rollback

LEMMA TypeOfSteps ==
  ASSUME IInv, NEW r \in Runners,
         \/ Request(r) \/ AdvisoryLock(r) \/ AdvisoryLockTimesOut(r) \/ Unlock(r)
         \/ UnlockFails(r) \/ LoseConnection(r) \/ ReadLegacyChecksums(r)
         \/ ReadTableExists(r) \/ ReadAppliedMigrations(r) \/ Begin(r) \/ LockTable(r)
         \/ RereadAppliedMigrations(r) \/ ApplyMigration(r) \/ StatementFails(r)
         \/ CreateTable(r) \/ AddChecksumColumn(r) \/ SetNotNull(r)
  PROVE  TypeOK'
<1> USE DEF database, locks, transaction, session
<1>0. TypeOK
  BY DEF IInv
<1>1. CASE Request(r)
  BY <1>0, <1>1 DEF TypeOK, Request, Goto, Stage, Result
<1>2. CASE AdvisoryLock(r)
  BY <1>0, <1>2 DEF TypeOK, AdvisoryLock, Goto, Stage, EnsureStage
<1>3. CASE AdvisoryLockTimesOut(r)
  BY <1>0, <1>3 DEF TypeOK, AdvisoryLockTimesOut, Goto, Stage, Result
<1>4. CASE Unlock(r)
  <2>1. held[r] > 0 /\ held[r] \in Nat
    BY <1>0, <1>4 DEF Unlock, IInv, RunnerInv, Holding, TypeOK
  <2> QED
    BY <1>0, <1>4, <2>1 DEF TypeOK, Unlock, Goto, Stage
<1>5. CASE UnlockFails(r)
  BY <1>0, <1>5 DEF TypeOK, UnlockFails, Goto, Stage
<1>6. CASE LoseConnection(r)
  BY <1>0, <1>6, TypeOfRollback DEF TypeOK, LoseConnection, SessionEnds, Goto, Stage, Result
<1>7. CASE ReadLegacyChecksums(r)
  BY <1>0, <1>7 DEF TypeOK, ReadLegacyChecksums, Ends, Goto, Stage, EnsureStage, Result
<1>8. CASE ReadTableExists(r)
  <2>1. stage' \in [Runners -> Stage] /\ result' \in [Runners -> Result]
    BY <1>0, <1>8 DEF TypeOK, ReadTableExists, Ends, Goto, Stage, Result
  <2>2. ASSUME NEW s \in Runners PROVE Rows(seen'[s])
    <3>1. seen'[s] = seen[s] \/ seen'[s] = NoRows
      BY <1>0, <1>8 DEF TypeOK, ReadTableExists
    <3>2. Rows(seen[s])
      BY <1>0 DEF TypeOK
    <3> QED
      BY <3>1, <3>2, NoRowsAreRows
  <2> QED
    BY <1>0, <1>8, <2>1, <2>2 DEF TypeOK, ReadTableExists
<1>9. CASE ReadAppliedMigrations(r)
  <2>1. stage' \in [Runners -> Stage] /\ result' \in [Runners -> Result]
    BY <1>0, <1>9 DEF TypeOK, ReadAppliedMigrations, Ends, Goto, Stage, Result
  <2>2. \A s \in Runners : Rows(seen'[s])
    BY <1>0, <1>9 DEF TypeOK, ReadAppliedMigrations
  <2> QED
    BY <1>0, <1>9, <2>1, <2>2 DEF TypeOK, ReadAppliedMigrations
<1>10. CASE Begin(r)
  BY <1>0, <1>10 DEF TypeOK, Begin, Goto, Stage, TransactionStage
<1>11. CASE LockTable(r)
  BY <1>0, <1>11 DEF TypeOK, LockTable, Goto, Stage, TransactionStage, Optional
<1>12. CASE RereadAppliedMigrations(r)
  <2>1. \A s \in Runners : Rows(seen'[s])
    BY <1>0, <1>12 DEF TypeOK, RereadAppliedMigrations
  <2>2. CASE Ends(r, IF Accepts(r, log) THEN "up_to_date" ELSE "refused") /\ Rollback(r)
    BY <1>0, <1>12, <2>1, <2>2, TypeOfEnds, TypeOfRollback
       DEF TypeOK, RereadAppliedMigrations, Result
  <2>3. CASE /\ plan' = [plan EXCEPT ![r] = Pending(r, log)]
             /\ Goto(r, "apply") /\ UNCHANGED <<tableLock, applied, began, result>>
    <3>1. Pending(r, log) \subseteq Nat
      BY BundlesAreTyped DEF Pending
    <3> QED
      BY <1>0, <1>12, <2>1, <2>3, <3>1
         DEF TypeOK, RereadAppliedMigrations, Goto, Stage, TransactionStage
  <2> QED
    BY <1>12, <2>2, <2>3 DEF RereadAppliedMigrations
<1>13. CASE ApplyMigration(r)
  <2>1. PICK i \in plan[r] : /\ applied' = [applied EXCEPT ![r] = Append(@, Bundle[r][i])]
                             /\ plan' = [plan EXCEPT ![r] = @ \ {i}]
    BY <1>13 DEF ApplyMigration
  <2>2. Bundle[r][i] \in Migration
    BY <1>13, <2>1, BundlesAreTyped DEF ApplyMigration, IInv, RunnerInv, Unrecorded
  <2>3. applied' \in [Runners -> Seq(Migration)] /\ plan' \in [Runners -> SUBSET Nat]
    BY <1>0, <2>1, <2>2 DEF TypeOK
  <2> QED
    BY <1>0, <1>13, <2>3 DEF TypeOK, ApplyMigration
<1>14. CASE StatementFails(r)
  BY <1>0, <1>14, TypeOfEnds, TypeOfRollback DEF TypeOK, StatementFails, Result
<1>15. CASE CreateTable(r) \/ AddChecksumColumn(r)
  BY <1>0, <1>15 DEF TypeOK, CreateTable, AddChecksumColumn, Goto, Stage, EnsureStage
<1>16. CASE SetNotNull(r)
  BY <1>0, <1>16 DEF TypeOK, SetNotNull, Ends, Goto, Stage, Result
<1> QED
  BY <1>1, <1>2, <1>3, <1>4, <1>5, <1>6, <1>7, <1>8, <1>9, <1>10, <1>11, <1>12, <1>13,
     <1>14, <1>15, <1>16

(* The rows after a COMMIT: those before it, and one of each migration     *)
(* that the transaction applied.                                           *)
LEMMA RecordsAdd ==
  ASSUME IInv, NEW r \in Runners, stage[r] = "apply"
  PROVE  /\ Rows(Records(r))
         /\ DOMAIN Records(r) = DOMAIN log \cup {applied[r][i].id : i \in DOMAIN applied[r]}
         /\ \A id \in DOMAIN log : Records(r)[id] = log[id]
         /\ \A i \in DOMAIN applied[r] :
              /\ applied[r][i].id \notin DOMAIN log
              /\ Records(r)[applied[r][i].id].checksum = {applied[r][i].checksum}
              /\ Records(r)[applied[r][i].id].appliedAt = began[r]
<1>1. /\ applied[r] \in Seq(Migration) /\ began[r] \in Nat
      /\ Rows(log) /\ Unrecorded(r)
  BY DEF IInv, TypeOK, RunnerInv
<1>2. \A i \in DOMAIN applied[r] :
        /\ applied[r][i] \in Migration /\ applied[r][i].id \in Nat
        /\ applied[r][i].checksum \in Checksums
        /\ applied[r][i].id \notin DOMAIN log
        /\ \A k \in DOMAIN applied[r] : applied[r][i].id = applied[r][k].id => i = k
  <2>1. \A i \in DOMAIN applied[r] : applied[r][i] \in Migration
    BY <1>1
  <2> QED
    BY <1>1, <2>1 DEF Migration, Unrecorded
<1>3. DOMAIN Records(r) = DOMAIN log \cup {applied[r][i].id : i \in DOMAIN applied[r]}
  BY DEF Records
<1>4. \A id \in DOMAIN log : Records(r)[id] = log[id]
  BY DEF Records
<1>5. ASSUME NEW i \in DOMAIN applied[r]
      PROVE  Records(r)[applied[r][i].id] =
               [checksum |-> {applied[r][i].checksum}, appliedAt |-> began[r]]
  <2>1. {j \in DOMAIN applied[r] : applied[r][j].id = applied[r][i].id} = {i}
    BY <1>2
  <2>2. {applied[r][k].checksum :
           k \in {j \in DOMAIN applied[r] : applied[r][j].id = applied[r][i].id}}
          = {applied[r][i].checksum}
    BY <2>1
  <2> QED
    BY <1>2, <2>2 DEF Records
<1>6. ASSUME NEW i \in DOMAIN applied[r]
      PROVE  /\ Records(r)[applied[r][i].id] \in Row
             /\ Records(r)[applied[r][i].id].checksum = {applied[r][i].checksum}
             /\ Records(r)[applied[r][i].id].appliedAt = began[r]
  <2>1. PICK c : c = {applied[r][i].checksum}
    OBVIOUS
  <2>2. c \in Optional(Checksums)
    BY <1>2, <2>1 DEF Optional
  <2>3. Records(r)[applied[r][i].id] = [checksum |-> c, appliedAt |-> began[r]]
    BY <1>5, <2>1
  <2> QED
    BY <1>1, <2>1, <2>2, <2>3 DEF Row
<1>7. \A id \in DOMAIN Records(r) : Records(r)[id] \in Row /\ id \in Nat
  BY <1>1, <1>2, <1>3, <1>4, <1>6 DEF Rows
<1>8. Records(r) = [id \in DOMAIN Records(r) |-> Records(r)[id]]
  BY DEF Records
<1>9. Rows(Records(r))
  BY <1>7, <1>8 DEF Rows
<1> QED
  BY <1>2, <1>3, <1>4, <1>6, <1>9

LEMMA TypeOfCommit ==
  ASSUME IInv, NEW r \in Runners, CommitMigrations(r) \/ LoseCommitAnswer(r)
  PROVE  TypeOK'
<1> USE DEF database, locks, transaction, session
<1>1. TypeOK /\ Rollback(r) /\ Commit(r)
  BY DEF IInv, CommitMigrations, LoseCommitAnswer
<1>2. Rows(log')
  BY <1>1, RecordsAdd DEF Commit
<1>3. schema' \in Seq(Migration)
  <2>1. schema \in Seq(Migration) /\ applied[r] \in Seq(Migration)
    BY <1>1 DEF TypeOK
  <2>2. schema' = schema \o applied[r]
    BY <1>1 DEF Commit
  <2> QED
    BY <2>1, <2>2
<1>4. stage' \in [Runners -> Stage] /\ result' \in [Runners -> Result]
  <2>1. CASE CommitMigrations(r)
    BY <1>1, <2>1, TypeOfEnds DEF CommitMigrations, Result
  <2>2. CASE LoseCommitAnswer(r)
    BY <1>1, <2>2 DEF LoseCommitAnswer, SessionEnds, Goto, TypeOK, Stage, Result
  <2> QED
    BY <2>1, <2>2
<1>5. held' \in [Runners -> Nat] /\ faults' \in Nat
  <2>1. CASE CommitMigrations(r)
    BY <1>1, <2>1 DEF CommitMigrations, TypeOK
  <2>2. CASE LoseCommitAnswer(r)
    BY <1>1, <2>2 DEF LoseCommitAnswer, SessionEnds, TypeOK
  <2> QED
    BY <2>1, <2>2
<1>6. UNCHANGED <<table, now, op, calls, seen>>
  BY <1>1 DEF CommitMigrations, LoseCommitAnswer, SessionEnds, Commit
<1> QED
  BY <1>1, <1>2, <1>3, <1>4, <1>5, <1>6, TypeOfRollback DEF TypeOK

(* Backfill writes the checksum of the bundle to one row without one.      *)
LEMMA BackfillSteps ==
  ASSUME IInv, NEW r \in Runners, Backfill(r)
  PROVE  \/ log' = log /\ Goto(r, "set_not_null")
         \/ /\ stage' = stage
            /\ \E i \in DOMAIN Bundle[r] :
                 LET m == Bundle[r][i]
                 IN  /\ m.id \in DOMAIN log /\ log[m.id].checksum = {}
                     /\ DOMAIN log' = DOMAIN log
                     /\ log'[m.id] = [checksum |-> {m.checksum},
                                      appliedAt |-> log[m.id].appliedAt]
                     /\ \A id \in DOMAIN log \ {m.id} : log'[id] = log[id]
                     /\ Rows(log')
<1>1. CASE log' = log /\ Goto(r, "set_not_null")
  BY <1>1
<1>2. ASSUME NEW i \in Unstamped(r), stage' = stage,
             log' = [log EXCEPT ![Bundle[r][i].id].checksum = {Bundle[r][i].checksum}]
      PROVE  LET m == Bundle[r][i]
             IN  /\ i \in DOMAIN Bundle[r]
                 /\ m.id \in DOMAIN log /\ log[m.id].checksum = {}
                 /\ DOMAIN log' = DOMAIN log
                 /\ log'[m.id] = [checksum |-> {m.checksum},
                                  appliedAt |-> log[m.id].appliedAt]
                 /\ \A id \in DOMAIN log \ {m.id} : log'[id] = log[id]
                 /\ Rows(log')
  <2>1. PICK m : m = Bundle[r][i]
    OBVIOUS
  <2>2. /\ i \in DOMAIN Bundle[r] /\ m.id \in DOMAIN log /\ log[m.id].checksum = {}
        /\ m.checksum \in Checksums
    BY <1>2, <2>1, BundlesAreTyped DEF Unstamped
  <2>3. Rows(log)
    BY DEF IInv, TypeOK
  <2>4. log' = [log EXCEPT ![m.id].checksum = {m.checksum}]
    BY <1>2, <2>1
  <2>5. log[m.id] \in Row
    BY <2>2, <2>3 DEF Rows
  <2>6. /\ DOMAIN log' = DOMAIN log
        /\ log'[m.id] = [checksum |-> {m.checksum}, appliedAt |-> log[m.id].appliedAt]
        /\ \A id \in DOMAIN log \ {m.id} : log'[id] = log[id]
    BY <2>2, <2>3, <2>4, <2>5 DEF Rows, Row
  <2>7. log'[m.id] \in Row
    BY <2>2, <2>5, <2>6 DEF Row, Optional
  <2>8. Rows(log')
    <3>1. \A id \in DOMAIN log : log'[id] \in Row
      BY <2>3, <2>6, <2>7 DEF Rows
    <3>2. log' = [id \in DOMAIN log |-> log'[id]]
      BY <2>3, <2>4 DEF Rows
    <3> QED
      BY <2>3, <3>1, <3>2, <2>6 DEF Rows
  <2> QED
    BY <2>1, <2>2, <2>6, <2>8
<1> QED
  BY <1>1, <1>2 DEF Backfill

LEMMA TypeOfBackfill ==
  ASSUME IInv, NEW r \in Runners, Backfill(r)
  PROVE  TypeOK'
<1> USE DEF database, locks, transaction, session
<1>1. TypeOK
  BY DEF IInv
<1>2. Rows(log')
  BY <1>1, BackfillSteps DEF TypeOK
<1>3. stage' \in [Runners -> Stage]
  BY <1>1, BackfillSteps DEF TypeOK, Goto, Stage, EnsureStage
<1> QED
  BY <1>1, <1>2, <1>3 DEF Backfill, TypeOK

-----------------------------------------------------------------------------
(* What each runner relies on. *)

(* All but the writes of the log and of the table.                         *)
LEMMA ReadersRely ==
  ASSUME IInv, NEW r \in Runners,
         \/ Request(r) \/ AdvisoryLock(r) \/ AdvisoryLockTimesOut(r) \/ Unlock(r)
         \/ UnlockFails(r) \/ LoseConnection(r) \/ ReadLegacyChecksums(r)
         \/ ReadTableExists(r) \/ ReadAppliedMigrations(r) \/ Begin(r) \/ LockTable(r)
         \/ StatementFails(r)
  PROVE  /\ \A s \in Runners : RunnerInv(s)'
         /\ UNCHANGED database
<1> USE DEF locks, transaction, session
<1>0. TypeOK /\ RunnerInv(r) /\ MissingIsEmpty
  BY DEF IInv
<1>1. UNCHANGED <<log, table, schema>>
  BY DEF Request, AdvisoryLock, AdvisoryLockTimesOut, Unlock, UnlockFails, LoseConnection,
         ReadLegacyChecksums, ReadTableExists, ReadAppliedMigrations, Begin, LockTable,
         StatementFails, database
<1>2. ASSUME NEW s \in Runners \ {r}
      PROVE  /\ stage'[s] = stage[s] /\ held'[s] = held[s] /\ result'[s] = result[s]
             /\ seen'[s] = seen[s] /\ plan'[s] = plan[s] /\ applied'[s] = applied[s]
  <2> USE DEF Goto, Ends
  <2>1. CASE Request(r)
    BY <1>0, <2>1 DEF TypeOK, Request
  <2>2. CASE AdvisoryLock(r)
    BY <1>0, <2>2 DEF TypeOK, AdvisoryLock
  <2>3. CASE AdvisoryLockTimesOut(r)
    BY <1>0, <2>3 DEF TypeOK, AdvisoryLockTimesOut
  <2>4. CASE Unlock(r) \/ UnlockFails(r)
    BY <1>0, <2>4 DEF TypeOK, Unlock, UnlockFails
  <2>5. CASE LoseConnection(r)
    BY <1>0, <2>5 DEF TypeOK, LoseConnection, SessionEnds, Rollback
  <2>6. CASE ReadLegacyChecksums(r)
    BY <1>0, <2>6 DEF TypeOK, ReadLegacyChecksums
  <2>7. CASE ReadTableExists(r)
    BY <1>0, <2>7 DEF TypeOK, ReadTableExists
  <2>8. CASE ReadAppliedMigrations(r)
    BY <1>0, <2>8 DEF TypeOK, ReadAppliedMigrations
  <2>9. CASE Begin(r) \/ LockTable(r)
    BY <1>0, <2>9 DEF TypeOK, Begin, LockTable
  <2>10. CASE StatementFails(r)
    BY <1>0, <2>10 DEF TypeOK, StatementFails, Rollback
  <2> QED
    BY <2>1, <2>2, <2>3, <2>4, <2>5, <2>6, <2>7, <2>8, <2>9, <2>10
<1>3. RunnerInv(r)'
  <2> USE DEF RunnerInv, Reported, Holding, Tabled, TransactionStage
  <2>1. CASE Request(r)
    BY <1>0, <2>1 DEF TypeOK, Request, Goto
  <2>2. CASE AdvisoryLock(r)
    BY <1>0, <2>2 DEF TypeOK, AdvisoryLock, Goto
  <2>3. CASE AdvisoryLockTimesOut(r)
    BY <1>0, <2>3 DEF TypeOK, AdvisoryLockTimesOut, Goto
  <2>4. CASE Unlock(r) \/ UnlockFails(r)
    BY <1>0, <2>4 DEF TypeOK, Unlock, UnlockFails, Goto
  <2>5. CASE LoseConnection(r)
    BY <1>0, <2>5 DEF TypeOK, LoseConnection, SessionEnds, Rollback, Goto
  <2>6. CASE ReadLegacyChecksums(r)
    BY <1>0, <1>1, <2>6 DEF TypeOK, ReadLegacyChecksums, Ends, Goto
  <2>7. CASE ReadTableExists(r)
    BY <1>0, <1>1, <2>7 DEF TypeOK, ReadTableExists, Ends, Goto, MissingIsEmpty
  <2>8. CASE ReadAppliedMigrations(r)
    BY <1>0, <1>1, <2>8 DEF TypeOK, ReadAppliedMigrations, Ends, Goto
  <2>9. CASE Begin(r) \/ LockTable(r)
    BY <1>0, <1>1, <2>9 DEF TypeOK, Begin, LockTable, Goto
  <2>10. CASE StatementFails(r)
    BY <1>0, <1>1, <2>10 DEF TypeOK, StatementFails, Ends, Rollback, Goto, EnsureStage
  <2> QED
    BY <2>1, <2>2, <2>3, <2>4, <2>5, <2>6, <2>7, <2>8, <2>9, <2>10
<1> QED
  BY <1>1, <1>2, <1>3, OthersRely DEF database

(* The steps under the lock that write. *)
LEMMA WritersRely ==
  ASSUME IInv, NEW r \in Runners,
         \/ CreateTable(r) \/ AddChecksumColumn(r) \/ SetNotNull(r) \/ Backfill(r)
         \/ CommitMigrations(r) \/ LoseCommitAnswer(r)
  PROVE  \A s \in Runners : RunnerInv(s)'
<1> USE DEF locks, transaction, session
<1>0. TypeOK /\ RunnerInv(r)
  BY DEF IInv
<1>1. stage[r] \in Holding
  BY DEF CreateTable, AddChecksumColumn, SetNotNull, Backfill, CommitMigrations,
         LoseCommitAnswer, Commit, Holding, Tabled
<1>2. ASSUME NEW s \in Runners \ {r}
      PROVE  /\ stage'[s] = stage[s] /\ held'[s] = held[s] /\ result'[s] = result[s]
             /\ seen'[s] = seen[s] /\ plan'[s] = plan[s] /\ applied'[s] = applied[s]
  <2> USE DEF Goto, Ends
  <2>1. CASE CreateTable(r) \/ AddChecksumColumn(r)
    BY <1>0, <2>1 DEF TypeOK, CreateTable, AddChecksumColumn
  <2>2. CASE SetNotNull(r) \/ Backfill(r)
    BY <1>0, <2>2 DEF TypeOK, SetNotNull, Backfill
  <2>3. CASE CommitMigrations(r)
    BY <1>0, <2>3 DEF TypeOK, CommitMigrations, Rollback
  <2>4. CASE LoseCommitAnswer(r)
    BY <1>0, <2>4 DEF TypeOK, LoseCommitAnswer, SessionEnds, Rollback
  <2> QED
    BY <2>1, <2>2, <2>3, <2>4
<1>3. RunnerInv(r)'
  <2> USE DEF RunnerInv, Reported, Holding, Tabled, TransactionStage
  <2>1. CASE CreateTable(r) \/ AddChecksumColumn(r)
    BY <1>0, <2>1 DEF TypeOK, CreateTable, AddChecksumColumn, Goto
  <2>2. CASE SetNotNull(r)
    BY <1>0, <2>2 DEF TypeOK, SetNotNull, Ends, Goto
  <2>3. CASE Backfill(r)
    BY <1>0, <2>3 DEF TypeOK, Backfill, Goto
  <2>4. CASE CommitMigrations(r)
    BY <1>0, <2>4 DEF TypeOK, CommitMigrations, Commit, Rollback, Ends, Goto
  <2>5. CASE LoseCommitAnswer(r)
    BY <1>0, <2>5 DEF TypeOK, LoseCommitAnswer, SessionEnds, Rollback, Goto
  <2> QED
    BY <2>1, <2>2, <2>3, <2>4, <2>5
<1> QED
  BY <1>1, <1>2, <1>3, OthersRely

(* The read that makes the plan. *)
LEMMA RereadRelies ==
  ASSUME IInv, NEW r \in Runners, RereadAppliedMigrations(r)
  PROVE  \A s \in Runners : RunnerInv(s)'
<1> USE DEF locks, transaction, session, database
<1>0. TypeOK /\ RunnerInv(r)
  BY DEF IInv
<1>1. ASSUME NEW s \in Runners \ {r}
      PROVE  /\ stage'[s] = stage[s] /\ held'[s] = held[s] /\ result'[s] = result[s]
             /\ seen'[s] = seen[s] /\ plan'[s] = plan[s] /\ applied'[s] = applied[s]
  BY <1>0 DEF TypeOK, RereadAppliedMigrations, Rollback, Ends, Goto
<1>2. RunnerInv(r)'
  <2>1. CASE Accepts(r, log) /\ Pending(r, log) # {}
    <3>1. /\ plan'[r] = Pending(r, log) /\ stage'[r] = "apply" /\ applied' = applied
          /\ seen'[r] = log /\ log' = log /\ table' = table /\ held' = held
      BY <1>0, <2>1 DEF TypeOK, RereadAppliedMigrations, Goto
    <3>2. applied[r] = <<>> /\ held[r] > 0 /\ table # "missing"
      BY <1>0 DEF RunnerInv, RereadAppliedMigrations, Holding, Tabled
    <3>3. Unrecorded(r)'
      BY <3>1, <3>2 DEF Unrecorded, Pending
    <3> QED
      BY <3>1, <3>2, <3>3 DEF RunnerInv, Reported
  <2>2. CASE ~(Accepts(r, log) /\ Pending(r, log) # {})
    BY <1>0, <2>2
       DEF TypeOK, RereadAppliedMigrations, Rollback, Ends, Goto, RunnerInv, Reported, Holding,
           Tabled, TransactionStage
  <2> QED
    BY <2>1, <2>2
<1> QED
  BY <1>1, <1>2, OthersRely DEF RereadAppliedMigrations

(* What has been applied leaves the plan, and the ids of a bundle differ.  *)
LEMMA ApplyRelies ==
  ASSUME IInv, NEW r \in Runners, ApplyMigration(r)
  PROVE  \A s \in Runners : RunnerInv(s)'
<1> USE DEF locks, transaction, session, database
<1>0. TypeOK /\ RunnerInv(r) /\ Unrecorded(r) /\ stage[r] = "apply"
  BY DEF IInv, RunnerInv, ApplyMigration
<1>1. ASSUME NEW s \in Runners \ {r}
      PROVE  /\ stage'[s] = stage[s] /\ held'[s] = held[s] /\ result'[s] = result[s]
             /\ seen'[s] = seen[s] /\ plan'[s] = plan[s] /\ applied'[s] = applied[s]
  BY <1>0 DEF TypeOK, ApplyMigration
<1>2. Unrecorded(r)'
  <2>1. PICK i \in plan[r] :
          /\ applied' = [applied EXCEPT ![r] = Append(@, Bundle[r][i])]
          /\ plan' = [plan EXCEPT ![r] = @ \ {i}]
    BY DEF ApplyMigration
  <2>2. PICK m : m = Bundle[r][i]
    OBVIOUS
  <2>3. /\ applied[r] \in Seq(Migration) /\ m \in Migration /\ i \in DOMAIN Bundle[r]
        /\ m.id \notin DOMAIN log
        /\ plan'[r] = plan[r] \ {i} /\ applied'[r] = Append(applied[r], m) /\ log' = log
    BY <1>0, <2>1, <2>2, BundlesAreTyped DEF TypeOK, Unrecorded, ApplyMigration
  <2>4. \A j \in DOMAIN applied[r] : applied[r][j].id # m.id
    BY <1>0, <2>1, <2>2 DEF Unrecorded
  <2>5. \A j \in DOMAIN applied'[r] :
          \/ j \in DOMAIN applied[r] /\ applied'[r][j] = applied[r][j]
          \/ j = Len(applied[r]) + 1 /\ applied'[r][j] = m
    BY <2>3
  <2>6. \A k \in plan'[r] : k \in plan[r] /\ k # i
    BY <2>3
  <2>7. \A k \in plan'[r] : Bundle[r][k].id # m.id
    BY <1>0, <2>2, <2>3, <2>6, BundlesAreTyped DEF Unrecorded
  <2>8. \A j \in DOMAIN applied'[r] :
          /\ applied'[r][j].id \notin DOMAIN log
          /\ \A k \in plan'[r] : Bundle[r][k].id # applied'[r][j].id
    BY <1>0, <2>3, <2>5, <2>6, <2>7 DEF Unrecorded
  <2>9. ASSUME NEW j \in DOMAIN applied'[r], NEW k \in DOMAIN applied'[r],
               applied'[r][j].id = applied'[r][k].id
        PROVE  j = k
    BY <1>0, <2>4, <2>5, <2>9 DEF Unrecorded
  <2>10. plan'[r] \subseteq DOMAIN Bundle[r] /\ \A k \in plan'[r] : Bundle[r][k].id \notin DOMAIN log'
    BY <1>0, <2>3, <2>6 DEF Unrecorded
  <2> QED
    BY <2>3, <2>8, <2>9, <2>10 DEF Unrecorded
<1>3. RunnerInv(r)'
  BY <1>0, <1>2 DEF ApplyMigration, RunnerInv, Reported
<1> QED
  BY <1>1, <1>3, OthersRely DEF ApplyMigration

-----------------------------------------------------------------------------
(* The lock, and the records. *)

LEMMA OneHolderStays ==
  ASSUME IInv, NEW r \in Runners, Request(r) \/ Advance(r) \/ Fault(r)
  PROVE  OneHolder'
<1> USE DEF locks, transaction, session, database
<1>0. TypeOK /\ OneHolder /\ RunnerInv(r)
  BY DEF IInv
<1>1. CASE AdvisoryLock(r)
  BY <1>0, <1>1 DEF TypeOK, OneHolder, AdvisoryLock
<1>2. CASE UNCHANGED held
  BY <1>0, <1>2 DEF OneHolder
<1>3. ASSUME NEW n \in Nat, held' = [held EXCEPT ![r] = n], n > 0 => held[r] > 0
      PROVE  OneHolder'
  BY <1>0, <1>3 DEF TypeOK, OneHolder
<1>4. CASE Unlock(r)
  <2>1. held[r] > 0 /\ held[r] \in Nat
    BY <1>0, <1>4 DEF TypeOK, RunnerInv, Holding, Unlock
  <2>2. held' = [held EXCEPT ![r] = IF r \in OwnClient THEN 0 ELSE held[r] - 1]
    BY <1>4 DEF Unlock
  <2>3. PICK n : n = IF r \in OwnClient THEN 0 ELSE held[r] - 1
    OBVIOUS
  <2>4. n \in Nat /\ (n > 0 => held[r] > 0)
    BY <2>1, <2>3
  <2> QED
    BY <1>3, <2>2, <2>3, <2>4
<1>5. CASE UnlockFails(r)
  <2>1. held[r] \in Nat
    BY <1>0 DEF TypeOK
  <2>2. held' = [held EXCEPT ![r] = IF r \in OwnClient THEN 0 ELSE held[r]]
    BY <1>5 DEF UnlockFails
  <2>3. PICK n : n = IF r \in OwnClient THEN 0 ELSE held[r]
    OBVIOUS
  <2>4. n \in Nat /\ (n > 0 => held[r] > 0)
    BY <2>1, <2>3
  <2> QED
    BY <1>3, <2>2, <2>3, <2>4
<1>6. CASE LoseConnection(r) \/ LoseCommitAnswer(r)
  BY <1>3, <1>6 DEF LoseConnection, LoseCommitAnswer, SessionEnds
<1> QED
  BY <1>1, <1>2, <1>4, <1>5, <1>6
     DEF Advance, Fault, Request, AdvisoryLockTimesOut, CreateTable, AddChecksumColumn,
         ReadLegacyChecksums, Backfill, SetNotNull, ReadTableExists, ReadAppliedMigrations,
         Begin, LockTable, RereadAppliedMigrations, ApplyMigration, CommitMigrations,
         StatementFails

LEMMA JoinedPlaces ==
  ASSUME NEW s \in Seq(Migration), NEW t \in Seq(Migration)
  PROVE  /\ \A i \in DOMAIN s : i \in DOMAIN (s \o t) /\ (s \o t)[i] = s[i]
         /\ \A j \in DOMAIN t : /\ Len(s) + j \in DOMAIN (s \o t) \ DOMAIN s
                                /\ (s \o t)[Len(s) + j] = t[j]
         /\ \A i \in DOMAIN (s \o t) :
              i \in DOMAIN s \/ \E j \in DOMAIN t : i = Len(s) + j
<1>1. /\ Len(s) \in Nat /\ Len(t) \in Nat
      /\ DOMAIN s = 1..Len(s) /\ DOMAIN t = 1..Len(t)
      /\ DOMAIN (s \o t) = 1..(Len(s) + Len(t))
  OBVIOUS
<1>2. ASSUME NEW j \in DOMAIN t
      PROVE  Len(s) + j \in DOMAIN (s \o t) \ DOMAIN s /\ (s \o t)[Len(s) + j] = t[j]
  <2>1. Len(s) + j \in DOMAIN (s \o t) \ DOMAIN s
    BY <1>1
  <2>2. (s \o t)[Len(s) + j] = t[(Len(s) + j) - Len(s)]
    BY <1>1, <2>1
  <2>3. (Len(s) + j) - Len(s) = j
    BY <1>1
  <2> QED
    BY <2>1, <2>2, <2>3
<1>3. ASSUME NEW i \in DOMAIN (s \o t), i \notin DOMAIN s
      PROVE  \E j \in DOMAIN t : i = Len(s) + j
  <2>1. i - Len(s) \in DOMAIN t /\ i = Len(s) + (i - Len(s))
    BY <1>1, <1>3
  <2> QED
    BY <2>1
<1>4. \A i \in DOMAIN s : i \in DOMAIN (s \o t) /\ (s \o t)[i] = s[i]
  BY <1>1
<1> QED
  BY <1>2, <1>3, <1>4

(* A COMMIT adds the SQL of the transaction to the schema and its records  *)
(* to the rows, and the records are of ids that the schema does not have.  *)
LEMMA CommitKeepsRecords ==
  ASSUME IInv, NEW r \in Runners, Commit(r)
  PROVE  LogMatchesSchema'
<1>1. /\ schema' = schema \o applied[r] /\ log' = Records(r) /\ stage[r] = "apply"
      /\ schema \in Seq(Migration) /\ applied[r] \in Seq(Migration)
      /\ LogMatchesSchema /\ Unrecorded(r)
  BY DEF Commit, IInv, TypeOK, RunnerInv
<1>2. /\ \A i \in DOMAIN schema : i \in DOMAIN schema' /\ schema'[i] = schema[i]
      /\ \A j \in DOMAIN applied[r] : /\ Len(schema) + j \in DOMAIN schema' \ DOMAIN schema
                                     /\ schema'[Len(schema) + j] = applied[r][j]
      /\ \A i \in DOMAIN schema' :
           i \in DOMAIN schema \/ \E j \in DOMAIN applied[r] : i = Len(schema) + j
  BY <1>1, JoinedPlaces
<1>3. /\ DOMAIN log' = DOMAIN log \cup {applied[r][i].id : i \in DOMAIN applied[r]}
      /\ \A id \in DOMAIN log : log'[id] = log[id]
      /\ \A i \in DOMAIN applied[r] :
           /\ applied[r][i].id \notin DOMAIN log
           /\ log'[applied[r][i].id].checksum = {applied[r][i].checksum}
  BY <1>1, RecordsAdd
<1>4. DOMAIN log = {schema[i].id : i \in DOMAIN schema}
  BY <1>1 DEF LogMatchesSchema
<1>5. DOMAIN log' = {schema'[i].id : i \in DOMAIN schema'}
  <2>1. ASSUME NEW id \in DOMAIN log' PROVE \E i \in DOMAIN schema' : schema'[i].id = id
    <3>1. CASE id \in DOMAIN log
      BY <1>2, <1>4, <3>1
    <3>2. CASE id \in {applied[r][i].id : i \in DOMAIN applied[r]}
      BY <1>2, <3>2
    <3> QED
      BY <1>3, <3>1, <3>2
  <2>2. ASSUME NEW i \in DOMAIN schema' PROVE schema'[i].id \in DOMAIN log'
    BY <1>2, <1>3, <1>4
  <2> QED
    BY <2>1, <2>2
<1>6. ASSUME NEW id \in DOMAIN log'
      PROVE  \E i \in DOMAIN schema' :
               /\ Applied(id)' = {i}
               /\ log'[id].checksum \subseteq {schema'[i].checksum} \cup Stamps(id)
  <2>1. CASE id \in DOMAIN log
    <3>1. PICK i \in DOMAIN schema :
            /\ Applied(id) = {i}
            /\ log[id].checksum \subseteq {schema[i].checksum} \cup Stamps(id)
      BY <1>1, <2>1 DEF LogMatchesSchema
    <3>2. ASSUME NEW k \in DOMAIN schema', schema'[k].id = id PROVE k = i
      <4>1. k \in DOMAIN schema
        BY <1>2, <1>3, <2>1, <3>2
      <4> QED
        BY <1>2, <3>1, <3>2, <4>1 DEF Applied
    <3>3. i \in DOMAIN schema' /\ schema'[i] = schema[i] /\ schema[i].id = id
      BY <1>2, <3>1 DEF Applied
    <3>4. Applied(id)' = {i}
      BY <3>2, <3>3 DEF Applied
    <3> QED
      BY <1>3, <2>1, <3>1, <3>3, <3>4
  <2>2. ASSUME NEW j \in DOMAIN applied[r], id = applied[r][j].id
        PROVE  \E i \in DOMAIN schema' :
                 /\ Applied(id)' = {i}
                 /\ log'[id].checksum \subseteq {schema'[i].checksum} \cup Stamps(id)
    <3> DEFINE i == Len(schema) + j
    <3>1. i \in DOMAIN schema' /\ schema'[i] = applied[r][j]
      BY <1>2
    <3>2. ASSUME NEW k \in DOMAIN schema', schema'[k].id = id PROVE k = i
      <4>1. k \notin DOMAIN schema
        BY <1>2, <1>3, <1>4, <2>2, <3>2
      <4>2. PICK h \in DOMAIN applied[r] : k = Len(schema) + h
        BY <1>2, <4>1
      <4>3. applied[r][h].id = applied[r][j].id
        BY <1>2, <2>2, <3>2, <4>2
      <4> QED
        BY <1>1, <4>2, <4>3 DEF Unrecorded
    <3>3. Applied(id)' = {i}
      BY <2>2, <3>1, <3>2 DEF Applied
    <3>4. log'[id].checksum = {schema'[i].checksum}
      BY <1>3, <2>2, <3>1
    <3> QED
      BY <3>1, <3>3, <3>4
  <2> QED
    BY <1>3, <2>1, <2>2
<1> QED
  BY <1>5, <1>6 DEF LogMatchesSchema, Stamps, Bundled

(* A backfilled checksum is a stamp of the runner that was told to.        *)
LEMMA BackfillKeepsRecords ==
  ASSUME IInv, NEW r \in Runners, Backfill(r)
  PROVE  LogMatchesSchema'
<1>1. schema' = schema /\ LogMatchesSchema /\ r \in AllowBackfill
  BY DEF IInv, Backfill, RunnerInv
<1>2. CASE log' = log
  BY <1>1, <1>2 DEF LogMatchesSchema, Applied, Stamps, Bundled
<1>3. ASSUME NEW i \in DOMAIN Bundle[r], NEW m, m = Bundle[r][i],
             m.id \in DOMAIN log, DOMAIN log' = DOMAIN log,
             log'[m.id] = [checksum |-> {m.checksum}, appliedAt |-> log[m.id].appliedAt],
             \A id \in DOMAIN log \ {m.id} : log'[id] = log[id]
      PROVE  LogMatchesSchema'
  <2>1. m.checksum \in Stamps(m.id)
    BY <1>1, <1>3 DEF Stamps, Bundled
  <2>2. log'[m.id].checksum = {m.checksum}
    BY <1>3
  <2>3. ASSUME NEW id \in DOMAIN log'
        PROVE  \E j \in DOMAIN schema' :
                 /\ Applied(id)' = {j}
                 /\ log'[id].checksum \subseteq {schema'[j].checksum} \cup Stamps(id)
    <3>1. PICK j \in DOMAIN schema :
            /\ Applied(id) = {j}
            /\ log[id].checksum \subseteq {schema[j].checksum} \cup Stamps(id)
      BY <1>1, <1>3 DEF LogMatchesSchema
    <3>2. log'[id].checksum \subseteq {schema[j].checksum} \cup Stamps(id)
      BY <1>3, <2>1, <2>2, <3>1
    <3> QED
      BY <1>1, <3>1, <3>2 DEF Applied
  <2>4. DOMAIN log' = {schema'[j].id : j \in DOMAIN schema'}
    BY <1>1, <1>3 DEF LogMatchesSchema
  <2> QED
    BY <2>3, <2>4 DEF LogMatchesSchema, Stamps, Bundled
<1> QED
  BY <1>2, <1>3, BackfillSteps

(* A record is never taken back or rewritten.                              *)
LEMMA StepsKeepRecords ==
  ASSUME IInv, NEW r \in Runners, Request(r) \/ Advance(r) \/ Fault(r)
  PROVE  \A id \in DOMAIN log :
           /\ id \in DOMAIN log'
           /\ log'[id].appliedAt = log[id].appliedAt
           /\ log'[id].checksum # log[id].checksum =>
                log[id].checksum = {} /\ \E s \in AllowBackfill : stage[s] = "backfill"
<1> USE DEF database
<1>1. CASE Backfill(r)
  <2>1. r \in AllowBackfill /\ stage[r] = "backfill"
    BY <1>1 DEF Backfill, IInv, RunnerInv
  <2>2. CASE log' = log
    BY <2>2
  <2>3. ASSUME NEW m, m.id \in DOMAIN log, log[m.id].checksum = {}, DOMAIN log' = DOMAIN log,
               log'[m.id] = [checksum |-> {m.checksum}, appliedAt |-> log[m.id].appliedAt],
               \A id \in DOMAIN log \ {m.id} : log'[id] = log[id],
               NEW id \in DOMAIN log
        PROVE  /\ id \in DOMAIN log'
               /\ log'[id].appliedAt = log[id].appliedAt
               /\ log'[id].checksum # log[id].checksum => log[id].checksum = {}
    <3>1. log'[m.id].appliedAt = log[m.id].appliedAt
      BY <2>3
    <3> QED
      BY <2>3, <3>1
  <2> QED
    BY <1>1, <2>1, <2>2, <2>3, BackfillSteps
<1>2. CASE CommitMigrations(r) \/ LoseCommitAnswer(r)
  <2>1. stage[r] = "apply" /\ log' = Records(r)
    BY <1>2 DEF CommitMigrations, LoseCommitAnswer, Commit
  <2>2. /\ DOMAIN log \subseteq DOMAIN Records(r)
        /\ \A id \in DOMAIN log : Records(r)[id] = log[id]
    BY <2>1, RecordsAdd
  <2> QED
    BY <2>1, <2>2
<1>3. CASE UNCHANGED log
  BY <1>3
<1> QED
  BY <1>1, <1>2, <1>3
     DEF Advance, Fault, Request, AdvisoryLock, AdvisoryLockTimesOut, CreateTable,
         AddChecksumColumn, ReadLegacyChecksums, SetNotNull, ReadTableExists,
         ReadAppliedMigrations, Begin, LockTable, RereadAppliedMigrations, ApplyMigration,
         StatementFails, Unlock, UnlockFails, LoseConnection

-----------------------------------------------------------------------------
LEMMA InitEstablishes == Init => IInv
<1> SUFFICES ASSUME Init PROVE IInv
  OBVIOUS
<1>1. /\ schema \in Seq(Migration)
      /\ \A i, j \in DOMAIN schema : schema[i].id = schema[j].id => i = j
  BY BundleAssumption DEF Init
<1>2. DOMAIN log = {schema[i].id : i \in DOMAIN schema}
  BY DEF Init
<1>3. \A id \in DOMAIN log : log[id] = [checksum |-> {}, appliedAt |-> 0]
  BY DEF Init
<1>4. \A id \in DOMAIN log : log[id] \in Row
  BY <1>3 DEF Row, Optional
<1>5. DOMAIN log \subseteq Nat
  <2>1. \A i \in DOMAIN schema : schema[i] \in Migration
    BY <1>1
  <2> QED
    BY <1>2, <2>1 DEF Migration
<1>6. Rows(log)
  <2>1. log = [id \in DOMAIN log |-> log[id]]
    BY DEF Init
  <2> QED
    BY <1>4, <1>5, <2>1 DEF Rows
<1>7. TypeOK
  <2>1. seen = [r \in Runners |-> NoRows] /\ schema \in Seq(Migration) /\ Rows(log)
    BY <1>1, <1>6 DEF Init
  <2>2. <<>> \in Seq(Migration)
    OBVIOUS
  <2>3. applied \in [Runners -> Seq(Migration)]
    BY <2>2 DEF Init
  <2> QED
    BY <2>1, <2>3, NoRowsAreRows DEF Init, TypeOK, Stage, Result, Optional
<1>8. \A r \in Runners : RunnerInv(r)
  BY DEF Init, RunnerInv, Reported, Holding, Tabled, TransactionStage
<1>9. OneHolder
  BY DEF Init, OneHolder
<1>10. MissingIsEmpty
  <2>1. ASSUME table = "missing" PROVE log = NoRows
    <3>1. schema = <<>>
      BY <2>1 DEF Init
    <3>2. log = [id \in {} |-> [checksum |-> {}, appliedAt |-> 0]]
      <4>1. {schema[i].id : i \in DOMAIN schema} = {}
        BY <3>1
      <4> QED
        BY <4>1 DEF Init
    <3>3. [id \in {} |-> [checksum |-> {}, appliedAt |-> 0]] = [id \in {} |-> id]
      OBVIOUS
    <3> QED
      BY <3>2, <3>3 DEF NoRows
  <2> QED
    BY <2>1 DEF MissingIsEmpty
<1>11. LogMatchesSchema
  <2>1. ASSUME NEW id \in DOMAIN log
        PROVE  \E i \in DOMAIN schema :
                 /\ Applied(id) = {i}
                 /\ log[id].checksum \subseteq {schema[i].checksum} \cup Stamps(id)
    <3>1. PICK i \in DOMAIN schema : schema[i].id = id
      BY <1>2
    <3>2. Applied(id) = {i}
      BY <1>1, <3>1 DEF Applied
    <3>3. log[id].checksum = {}
      BY <1>3
    <3> QED
      BY <3>2, <3>3
  <2> QED
    BY <1>2, <2>1 DEF LogMatchesSchema
<1> QED
  BY <1>7, <1>8, <1>9, <1>10, <1>11 DEF IInv

(* One step of a runner. *)
LEMMA RunnersKeep ==
  ASSUME IInv, NEW r \in Runners, Request(r) \/ Advance(r) \/ Fault(r)
  PROVE  IInv'
<1>1. TypeOK'
  BY TypeOfSteps, TypeOfCommit, TypeOfBackfill DEF Advance, Fault
<1>2. \A s \in Runners : RunnerInv(s)'
  BY ReadersRely, WritersRely, RereadRelies, ApplyRelies DEF Advance, Fault
<1>3. OneHolder'
  BY OneHolderStays
<1>4. MissingIsEmpty'
  <2>1. MissingIsEmpty /\ RunnerInv(r)
    BY DEF IInv
  <2>2. CASE UNCHANGED <<log, table>>
    BY <2>1, <2>2 DEF MissingIsEmpty
  <2>3. CASE table' # "missing"
    BY <2>3 DEF MissingIsEmpty
  <2>4. CASE CreateTable(r) \/ AddChecksumColumn(r) \/ SetNotNull(r)
    BY <2>1, <2>4 DEF CreateTable, AddChecksumColumn, SetNotNull, MissingIsEmpty, NoRows
  <2>5. CASE Backfill(r) \/ CommitMigrations(r) \/ LoseCommitAnswer(r)
    BY <2>1, <2>3, <2>5
       DEF Backfill, CommitMigrations, LoseCommitAnswer, Commit, RunnerInv, Tabled
  <2> QED
    BY <2>2, <2>4, <2>5
       DEF Advance, Fault, Request, AdvisoryLock, AdvisoryLockTimesOut, ReadLegacyChecksums,
           ReadTableExists, ReadAppliedMigrations, Begin, LockTable,
           RereadAppliedMigrations, ApplyMigration, StatementFails, Unlock, UnlockFails,
           LoseConnection, database
<1>5. LogMatchesSchema'
  <2>1. CASE UNCHANGED <<log, schema>>
    BY <2>1 DEF IInv, LogMatchesSchema, Applied, Stamps, Bundled
  <2>2. CASE Commit(r)
    BY <2>2, CommitKeepsRecords
  <2>3. CASE Backfill(r)
    BY <2>3, BackfillKeepsRecords
  <2> QED
    BY <2>1, <2>2, <2>3
       DEF Advance, Fault, Request, AdvisoryLock, AdvisoryLockTimesOut, CreateTable,
           AddChecksumColumn, ReadLegacyChecksums, SetNotNull, ReadTableExists,
           ReadAppliedMigrations, Begin, LockTable, RereadAppliedMigrations, ApplyMigration,
           CommitMigrations, StatementFails, Unlock, UnlockFails, LoseConnection,
           LoseCommitAnswer, database
<1> QED
  BY <1>1, <1>2, <1>3, <1>4, <1>5 DEF IInv

LEMMA NothingKeeps ==
  ASSUME IInv, Tick \/ UNCHANGED vars
  PROVE  IInv' /\ UNCHANGED log
<1> USE DEF vars, database, locks, transaction, session
<1>0. TypeOK /\ OneHolder /\ MissingIsEmpty /\ LogMatchesSchema
  BY DEF IInv
<1>1. /\ UNCHANGED <<table, log, schema, held, tableLock, stage, op, result, seen, plan,
                     applied, began, calls, faults>>
      /\ now' \in Nat
  BY <1>0 DEF Tick, TypeOK
<1>2. TypeOK'
  BY <1>0, <1>1 DEF TypeOK
<1>3. \A r \in Runners : RunnerInv(r)'
  BY <1>1 DEF IInv, RunnerInv, Reported, Unrecorded
<1>4. OneHolder' /\ MissingIsEmpty' /\ LogMatchesSchema'
  BY <1>0, <1>1
     DEF OneHolder, MissingIsEmpty, LogMatchesSchema, Applied, Stamps, Bundled
<1> QED
  BY <1>1, <1>2, <1>3, <1>4 DEF IInv

LEMMA Inductive == IInv /\ [Next]_vars => IInv'
BY RunnersKeep, NothingKeeps DEF Next

LEMMA Always == Spec => []IInv
BY InitEstablishes, Inductive, PTL DEF Spec

-----------------------------------------------------------------------------
(* The records are in the order of time.                                   *)
TimeInv ==
  /\ \A id \in DOMAIN log : log[id].appliedAt <= now
  /\ \A r \in Runners : stage[r] \in TransactionStage =>
       began[r] <= now /\ \A id \in DOMAIN log : log[id].appliedAt <= began[r]
  /\ \A i, j \in DOMAIN schema : i < j =>
       log[schema[i].id].appliedAt <= log[schema[j].id].appliedAt

LEMMA CommitKeepsTime ==
  ASSUME IInv, TimeInv, NEW r \in Runners, CommitMigrations(r) \/ LoseCommitAnswer(r)
  PROVE  TimeInv'
<1> USE DEF database, locks, transaction, session
<1>1. /\ Commit(r) /\ stage[r] = "apply" /\ UNCHANGED <<began, now>>
      /\ stage'[r] \in {"unlock", "done"} /\ \A s \in Runners \ {r} : stage'[s] = stage[s]
      /\ now \in Nat /\ began[r] \in Nat /\ Rows(log)
      /\ schema \in Seq(Migration) /\ applied[r] \in Seq(Migration)
      /\ DOMAIN log = {schema[i].id : i \in DOMAIN schema}
  BY DEF CommitMigrations, LoseCommitAnswer, SessionEnds, Rollback, Ends, Goto, Commit, IInv,
         TypeOK, LogMatchesSchema
<1>2. \A s \in Runners : stage'[s] \notin TransactionStage
  <2>1. \A s \in Runners \ {r} : stage[s] \notin TransactionStage
    BY <1>1, Alone DEF Holding, Tabled, TransactionStage
  <2> QED
    BY <1>1, <2>1 DEF TransactionStage
<1>3. /\ DOMAIN log' = DOMAIN log \cup {applied[r][i].id : i \in DOMAIN applied[r]}
      /\ \A id \in DOMAIN log : log'[id] = log[id]
      /\ \A i \in DOMAIN applied[r] : log'[applied[r][i].id].appliedAt = began[r]
  BY <1>1, RecordsAdd DEF Commit
<1>4. /\ began[r] <= now
      /\ \A id \in DOMAIN log : log[id].appliedAt <= began[r]
  BY <1>1 DEF TimeInv, TransactionStage
<1>5. \A id \in DOMAIN log' : log'[id].appliedAt <= now'
  BY <1>1, <1>3, <1>4 DEF TimeInv
<1>6. /\ \A i \in DOMAIN schema : i \in DOMAIN schema' /\ schema'[i] = schema[i]
      /\ \A j \in DOMAIN applied[r] : /\ Len(schema) + j \in DOMAIN schema' \ DOMAIN schema
                                     /\ schema'[Len(schema) + j] = applied[r][j]
      /\ \A i \in DOMAIN schema' :
           i \in DOMAIN schema \/ \E j \in DOMAIN applied[r] : i = Len(schema) + j
  <2>1. schema' = schema \o applied[r]
    BY <1>1 DEF Commit
  <2> QED
    BY <1>1, <2>1, JoinedPlaces
<1>7. \A i \in DOMAIN schema :
        /\ schema[i].id \in DOMAIN log
        /\ log'[schema'[i].id].appliedAt = log[schema[i].id].appliedAt
  BY <1>1, <1>3, <1>6
<1>8. \A i \in DOMAIN schema' \ DOMAIN schema : log'[schema'[i].id].appliedAt = began[r]
  BY <1>3, <1>6
<1>9. ASSUME NEW i \in DOMAIN schema', NEW j \in DOMAIN schema', i < j
      PROVE  log'[schema'[i].id].appliedAt <= log'[schema'[j].id].appliedAt
  <2>1. CASE j \in DOMAIN schema
    <3>1. i \in DOMAIN schema
      BY <1>1, <1>6, <1>9, <2>1
    <3> QED
      BY <1>7, <1>9, <2>1, <3>1 DEF TimeInv
  <2>2. CASE j \notin DOMAIN schema /\ i \in DOMAIN schema
    BY <1>4, <1>7, <1>8, <2>2
  <2>3. CASE j \notin DOMAIN schema /\ i \notin DOMAIN schema
    BY <1>1, <1>8, <2>3
  <2> QED
    BY <2>1, <2>2, <2>3
<1> QED
  BY <1>2, <1>5, <1>9 DEF TimeInv

LEMMA TimeInductive ==
  ASSUME IInv, TimeInv, [Next]_vars
  PROVE  TimeInv'
<1> USE DEF vars, database, locks, transaction, session
<1>0. TypeOK /\ LogMatchesSchema
  BY DEF IInv
<1>1. ASSUME NEW r \in Runners, CommitMigrations(r) \/ LoseCommitAnswer(r)
      PROVE  TimeInv'
  BY <1>1, CommitKeepsTime
<1>2. ASSUME NEW r \in Runners, Begin(r)
      PROVE  TimeInv'
  <2>1. /\ UNCHANGED <<log, schema, now>> /\ now \in Nat
        /\ \A s \in Runners : s = r \/ (stage'[s] = stage[s] /\ began'[s] = began[s])
        /\ began'[r] = now
    BY <1>0, <1>2 DEF Begin, Goto, TypeOK
  <2> QED
    BY <2>1 DEF TimeInv
<1>3. ASSUME NEW r \in Runners, Backfill(r)
      PROVE  TimeInv'
  <2>1. /\ UNCHANGED <<schema, now, began>>
        /\ \A s \in Runners : stage'[s] = stage[s] \/ stage'[s] = "set_not_null"
    BY <1>0, <1>3 DEF Backfill, Goto, TypeOK
  <2>2. DOMAIN log' = DOMAIN log
    BY <1>3, BackfillSteps
  <2>3. \A id \in DOMAIN log : log'[id].appliedAt = log[id].appliedAt
    BY <1>3, StepsKeepRecords DEF Advance
  <2>4. \A i \in DOMAIN schema : schema[i].id \in DOMAIN log
    BY <1>0 DEF LogMatchesSchema
  <2> QED
    BY <2>1, <2>2, <2>3, <2>4 DEF TimeInv, TransactionStage
<1>4. ASSUME UNCHANGED <<log, schema, began>>, now' = now \/ now' = now + 1,
             \A s \in Runners : stage'[s] \in TransactionStage => stage[s] \in TransactionStage
      PROVE  TimeInv'
  <2>1. now \in Nat /\ now <= now' /\ \A r \in Runners : began[r] \in Nat
    BY <1>0, <1>4 DEF TypeOK
  <2>2. \A id \in DOMAIN log : log[id].appliedAt \in Nat
    BY <1>0 DEF TypeOK, Rows, Row
  <2> QED
    BY <1>4, <2>1, <2>2 DEF TimeInv
<1>5. CASE Tick \/ UNCHANGED vars
  BY <1>4, <1>5 DEF Tick
<1>6. ASSUME NEW r \in Runners,
             \/ Request(r) \/ AdvisoryLock(r) \/ AdvisoryLockTimesOut(r) \/ CreateTable(r)
             \/ AddChecksumColumn(r) \/ ReadLegacyChecksums(r) \/ SetNotNull(r)
             \/ ReadTableExists(r) \/ ReadAppliedMigrations(r) \/ Unlock(r) \/ UnlockFails(r)
      PROVE  TimeInv'
  <2>1. UNCHANGED <<log, schema, began, now>>
    BY <1>6 DEF Request, AdvisoryLock, AdvisoryLockTimesOut, CreateTable, AddChecksumColumn,
         ReadLegacyChecksums, SetNotNull, ReadTableExists, ReadAppliedMigrations, Unlock,
         UnlockFails
  <2>2. \A s \in Runners : stage'[s] \in TransactionStage => stage[s] \in TransactionStage
    BY <1>0, <1>6
       DEF Request, AdvisoryLock, AdvisoryLockTimesOut, CreateTable, AddChecksumColumn,
           ReadLegacyChecksums, SetNotNull, ReadTableExists, ReadAppliedMigrations, Unlock,
           UnlockFails, Ends, Goto, TypeOK, TransactionStage
  <2> QED
    BY <1>4, <2>1, <2>2
<1>7. ASSUME NEW r \in Runners,
             \/ LockTable(r) \/ RereadAppliedMigrations(r) \/ ApplyMigration(r)
             \/ StatementFails(r) \/ LoseConnection(r)
      PROVE  TimeInv'
  <2>1. UNCHANGED <<log, schema, began, now>>
    BY <1>7 DEF LockTable, RereadAppliedMigrations, ApplyMigration, StatementFails,
         LoseConnection, SessionEnds, Rollback
  <2>2. \A s \in Runners : stage'[s] \in TransactionStage => stage[s] \in TransactionStage
    BY <1>0, <1>7
       DEF LockTable, RereadAppliedMigrations, ApplyMigration, StatementFails,
           LoseConnection, SessionEnds, Ends, Goto, TypeOK, TransactionStage
  <2> QED
    BY <1>4, <2>1, <2>2
<1> QED
  BY <1>1, <1>2, <1>3, <1>5, <1>6, <1>7 DEF Next, Advance, Fault

LEMMA InitIsTimely == Init => TimeInv
<1> SUFFICES ASSUME Init PROVE TimeInv
  OBVIOUS
<1>1. \A id \in DOMAIN log : log[id].appliedAt = 0
  BY DEF Init
<1>2. \A i \in DOMAIN schema : schema[i].id \in DOMAIN log
  BY DEF Init
<1>3. now = 0 /\ \A r \in Runners : stage[r] = "idle"
  BY DEF Init
<1> QED
  BY <1>1, <1>2, <1>3 DEF TimeInv, TransactionStage

LEMMA AlwaysTimely == Spec => []TimeInv
<1>1. IInv /\ TimeInv /\ [Next]_vars => TimeInv'
  BY TimeInductive
<1> QED
  BY <1>1, InitIsTimely, Always, PTL DEF Spec

(* Of ids in order, as many are up to the n-th as n.                       *)
LEMMA Position ==
  ASSUME NEW ids, NEW n \in Nat, NEW p \in 1..n, ids \in [1..n -> Nat],
         \A i, j \in 1..n : i < j => ids[i] < ids[j]
  PROVE  Cardinality({x \in {ids[i] : i \in 1..n} : x <= ids[p]}) = p
<1> DEFINE upTo == {x \in {ids[i] : i \in 1..n} : x <= ids[p]}
           f == [i \in 1..p |-> ids[i]]
<1>1. \A i \in 1..p : i \in 1..n /\ ids[i] \in Nat /\ ids[i] <= ids[p]
  OBVIOUS
<1>2. \A i \in 1..n : ids[i] <= ids[p] => i \in 1..p
  OBVIOUS
<1>3. f \in [1..p -> upTo]
  BY <1>1
<1>4. \A i, j \in 1..p : f[i] = f[j] => i = j
  <2>1. \A i, j \in 1..p : i < j => ids[i] < ids[j]
    BY <1>1
  <2> QED
    BY <1>1, <2>1
<1>5. \A x \in upTo : \E i \in 1..p : f[i] = x
  BY <1>2
<1>6. f \in Bijection(1..p, upTo)
  BY <1>3, <1>4, <1>5 DEF Bijection, Injection, Surjection, IsInjective
<1>7. ExistsBijection(1..p, upTo)
  BY <1>6 DEF ExistsBijection
<1> QED
  BY <1>7, FS_CountingElements

(* Every variable of every runner keeps its type: the constants may be     *)
(* any runners, bundles and origins that BundleAssumption allows.          *)
THEOREM TypeCorrect == Spec => []TypeOK
<1>1. IInv => TypeOK
  BY DEF IInv
<1> QED
  BY <1>1, Always, PTL

(* The advisory lock covers the reads: what a runner decides and reports   *)
(* on is what the table holds, until its operation ends or commits.        *)
THEOREM ReadsAreCurrent == Spec => []ReadsStayCurrent
<1>1. IInv => ReadsStayCurrent
  BY DEF IInv, RunnerInv, Reported, ReadsStayCurrent
<1> QED
  BY <1>1, Always, PTL

(* The rows of the table tell which SQL took effect, once and as it was    *)
(* recorded, across failures, lost connections and lost answers.           *)
THEOREM RecordsTellTheSchema == Spec => []LogMatchesSchema
<1>1. IInv => LogMatchesSchema
  BY DEF IInv
<1> QED
  BY <1>1, Always, PTL

(* No step takes a record back or rewrites it; only a runner that was told *)
(* to fills in a checksum that is missing.                                 *)
THEOREM RecordsAreNeverRewritten == Spec => RecordsAreKept
<1>1. IInv /\ [Next]_vars =>
        [\A id \in DOMAIN log :
           /\ id \in DOMAIN log'
           /\ log'[id].appliedAt = log[id].appliedAt
           /\ log'[id].checksum # log[id].checksum =>
                log[id].checksum = {} /\ \E r \in AllowBackfill : stage[r] = "backfill"]_vars
  BY StepsKeepRecords, NothingKeeps DEF Next
<1> QED
  BY <1>1, Always, PTL DEF Spec, RecordsAreKept

(* A bundle that goes on from what ran is accepted by true records of it:  *)
(* its rows are the first of the bundle, and in the order of time.         *)
LEMMA SuccessorsPass ==
  ASSUME IInv, TimeInv, NEW r \in Runners,
         InOrder(Bundle[r]), Contains(r, schema), RecordsAreTrue
  PROVE  Accepts(r, log)
<1> DEFINE n == Len(schema)
           ids == [i \in 1..n |-> Bundle[r][i].id]
<1>1. /\ schema \in Seq(Migration) /\ n \in Nat /\ DOMAIN schema = 1..n
      /\ Bundle[r] \in Seq(Migration) /\ n <= Len(Bundle[r])
      /\ 1..n \subseteq DOMAIN Bundle[r]
  BY BundlesAreTyped DEF IInv, TypeOK, Contains
<1>2. \A i \in 1..n : /\ Bundle[r][i].id \in Nat /\ schema[i].id = ids[i]
                     /\ log[ids[i]].checksum = {schema[i].checksum}
  BY <1>1, BundlesAreTyped DEF Contains, RecordsAreTrue
<1>3. DOMAIN log = {ids[i] : i \in 1..n}
  BY <1>1, <1>2 DEF IInv, LogMatchesSchema
<1>4. HaveChecksums(log)
  BY <1>2, <1>3 DEF HaveChecksums
<1>5. ChecksumsMatch(r, log)
  <2>1. ASSUME NEW i \in 1..n
        PROVE  /\ i \in DOMAIN Bundle[r] /\ Bundle[r][i].id = ids[i]
               /\ log[ids[i]].checksum \subseteq {Bundle[r][i].checksum} \cup Bundle[r][i].compatible
    <3>1. schema[i].checksum \in {Bundle[r][i].checksum} \cup Bundle[r][i].compatible
      BY <1>1 DEF Contains
    <3> QED
      BY <1>1, <1>2, <3>1
  <2> QED
    BY <1>3, <2>1 DEF ChecksumsMatch
<1>6. \A i, j \in 1..n : i < j => ids[i] < ids[j]
  BY <1>1 DEF InOrder
<1>7. ids \in [1..n -> Nat]
  BY <1>2
<1>8. ASSUME NEW p \in 1..n
      PROVE  Cardinality({other \in DOMAIN log : other <= ids[p]}) = p
  <2> HIDE DEF ids, n
  <2>1. Cardinality({x \in {ids[i] : i \in 1..n} : x <= ids[p]}) = p
    BY <1>1, <1>6, <1>7, Position
  <2> QED
    BY <1>3, <2>1
<1>9. \A i, j \in 1..n : ids[i] < ids[j] => log[ids[i]].appliedAt <= log[ids[j]].appliedAt
  <2>1. \A i, j \in 1..n : ids[i] < ids[j] => i < j
    BY <1>6, <1>7
  <2> QED
    BY <1>1, <1>2, <2>1 DEF TimeInv
<1>10. IsBundledPrefix(r, log)
  <2>1. \A p \in 1..n : p \in DOMAIN Bundle[r] /\ Bundle[r][p].id = ids[p]
    BY <1>1
  <2> HIDE DEF ids, n
  <2> QED
    BY <1>3, <1>8, <1>9, <2>1 DEF IsBundledPrefix
<1> QED
  BY <1>4, <1>5, <1>10 DEF Accepts

(* Runners, failures and lost answers in any order never leave records     *)
(* that a package containing all that ran would be refused by.             *)
THEOREM SuccessorsAreAccepted == Spec => []SuccessorIsAccepted
<1>1. IInv /\ TimeInv => SuccessorIsAccepted
  BY SuccessorsPass DEF SuccessorIsAccepted
<1> QED
  BY <1>1, Always, AlwaysTimely, PTL

-----------------------------------------------------------------------------
(* Releases whose migrations are in the order of their ids.                *)

Ordered == \A bundle \in {Bundle[r] : r \in Runners} \cup Origins : InOrder(bundle)

(* What ran is the first of the bundle. *)
GoesOn(r) ==
  /\ Len(schema) <= Len(Bundle[r])
  /\ \A i \in DOMAIN schema : schema[i].id = Bundle[r][i].id

(* The first i migrations of the bundle have run, in the transaction or    *)
(* before it, and the others are its plan.                                 *)
Continues(r) ==
  /\ GoesOn(r)
  /\ Len(schema) + Len(applied[r]) <= Len(Bundle[r])
  /\ \A j \in DOMAIN applied[r] : applied[r][j] = Bundle[r][Len(schema) + j]
  /\ plan[r] = {i \in DOMAIN Bundle[r] : i > Len(schema) + Len(applied[r])}

OrderInv ==
  /\ InOrder(schema)
  /\ \A r \in Runners : stage[r] = "apply" => Continues(r)
  /\ MigratedStays

(* The rows of a schema in order pass for those of a bundle only if it     *)
(* goes on from the schema, and what is missing is then the rest of it.    *)
LEMMA AcceptedGoesOn ==
  ASSUME IInv, InOrder(schema), NEW r \in Runners, Accepts(r, log)
  PROVE  /\ GoesOn(r)
         /\ Pending(r, log) = {i \in DOMAIN Bundle[r] : i > Len(schema)}
<1> DEFINE n == Len(schema)
           ids == [i \in 1..n |-> schema[i].id]
<1>1. /\ schema \in Seq(Migration) /\ n \in Nat /\ DOMAIN schema = 1..n
      /\ DOMAIN log = {schema[i].id : i \in DOMAIN schema}
      /\ Bundle[r] \in Seq(Migration) /\ DOMAIN Bundle[r] = 1..Len(Bundle[r])
      /\ Len(Bundle[r]) \in Nat
  BY BundlesAreTyped DEF IInv, TypeOK, LogMatchesSchema
<1>2. \A i \in 1..n : schema[i].id \in Nat
  <2>1. \A i \in 1..n : schema[i] \in Migration
    BY <1>1
  <2> QED
    BY <2>1 DEF Migration
<1>3. ids \in [1..n -> Nat] /\ \A i, j \in 1..n : i < j => ids[i] < ids[j]
  BY <1>1, <1>2 DEF InOrder
<1>4. DOMAIN log = {ids[i] : i \in 1..n}
  BY <1>1
<1>5. ASSUME NEW p \in 1..n
      PROVE  p \in DOMAIN Bundle[r] /\ Bundle[r][p].id = schema[p].id
  <2>1. ids[p] = schema[p].id /\ ids[p] \in DOMAIN log
    BY <1>4
  <2> HIDE DEF ids, n
  <2>2. Cardinality({x \in {ids[i] : i \in 1..n} : x <= ids[p]}) = p
    BY <1>1, <1>3, Position
  <2>3. Cardinality({other \in DOMAIN log : other <= ids[p]}) = p
    BY <1>4, <2>2
  <2> QED
    BY <2>1, <2>3 DEF Accepts, IsBundledPrefix
<1>6. GoesOn(r)
  <2>1. n <= Len(Bundle[r])
    <3>1. CASE n = 0
      BY <1>1, <3>1
    <3>2. CASE n # 0
      BY <1>1, <1>5, <3>2
    <3> QED
      BY <3>1, <3>2
  <2> QED
    BY <1>1, <1>5, <2>1 DEF GoesOn
<1>7. ASSUME NEW i \in DOMAIN Bundle[r]
      PROVE  Bundle[r][i].id \notin DOMAIN log <=> i > n
  <2>1. CASE i > n
    <3>1. ASSUME Bundle[r][i].id \in DOMAIN log PROVE FALSE
      <4>1. PICK k \in 1..n : schema[k].id = Bundle[r][i].id
        BY <1>1, <3>1
      <4>2. k = i
        BY <1>5, <4>1, BundlesAreTyped
      <4> QED
        BY <1>1, <2>1, <4>2
    <3> QED
      BY <2>1, <3>1
  <2>2. CASE ~(i > n)
    <3>1. i \in 1..n
      BY <1>1, <2>2
    <3> QED
      BY <1>1, <1>5, <2>2, <3>1
  <2> QED
    BY <2>1, <2>2
<1> QED
  BY <1>6, <1>7 DEF Pending

(* A transaction commits the rest of a release, exactly where the database *)
(* stands.                                                                 *)
LEMMA CommitDeploys ==
  ASSUME IInv, Ordered, OrderInv, NEW r \in Runners, Commit(r)
  PROVE  /\ GoesOn(r)
         /\ applied[r] = SubSeq(Bundle[r], Len(schema) + 1, Len(Bundle[r]))
         /\ \A i \in DOMAIN Bundle[r] : i \in DOMAIN schema' /\ schema'[i].id = Bundle[r][i].id
         /\ \A i \in DOMAIN schema : i \in DOMAIN schema' /\ schema'[i] = schema[i]
         /\ InOrder(schema')
<1> DEFINE n == Len(schema)
           m == Len(applied[r])
           N == Len(Bundle[r])
<1>1. /\ schema \in Seq(Migration) /\ applied[r] \in Seq(Migration)
      /\ Bundle[r] \in Seq(Migration) /\ InOrder(Bundle[r])
      /\ n \in Nat /\ m \in Nat /\ N \in Nat
      /\ DOMAIN schema = 1..n /\ DOMAIN applied[r] = 1..m /\ DOMAIN Bundle[r] = 1..N
      /\ schema' = schema \o applied[r] /\ plan[r] = {} /\ Continues(r)
  BY BundlesAreTyped DEF IInv, TypeOK, Ordered, OrderInv, Commit
<1>2. n + m = N
  <2>1. \A i \in 1..N : ~(i > n + m)
    BY <1>1 DEF Continues
  <2>2. n + m <= N
    BY <1>1 DEF Continues
  <2> HIDE DEF n, m, N
  <2>3. ASSUME n + m < N PROVE FALSE
    <3>1. N \in 1..N /\ N > n + m
      BY <1>1, <2>3
    <3> QED
      BY <2>1, <3>1
  <2> QED
    BY <1>1, <2>2, <2>3
<1>3. /\ \A i \in DOMAIN schema : i \in DOMAIN schema' /\ schema'[i] = schema[i]
      /\ \A j \in DOMAIN applied[r] : n + j \in DOMAIN schema' /\ schema'[n + j] = applied[r][j]
      /\ DOMAIN schema' = 1..(n + m)
  BY <1>1, JoinedPlaces
<1>4. ASSUME NEW i \in DOMAIN Bundle[r]
      PROVE  i \in DOMAIN schema' /\ schema'[i].id = Bundle[r][i].id
  <2>1. CASE i \in 1..n
    BY <1>1, <1>3, <2>1 DEF Continues, GoesOn
  <2>2. CASE i \notin 1..n
    <3>1. PICK j \in 1..m : i = n + j
      <4>1. i - n \in 1..m /\ i = n + (i - n)
        BY <1>1, <1>2, <2>2
      <4> QED
        BY <4>1
    <3>2. schema'[i] = applied[r][j] /\ applied[r][j] = Bundle[r][i]
      BY <1>1, <1>3, <3>1 DEF Continues
    <3> QED
      BY <1>1, <1>2, <1>3, <3>2
  <2> QED
    BY <2>1, <2>2
<1>5. InOrder(schema')
  <2>1. \A i, j \in 1..N : i < j => Bundle[r][i].id < Bundle[r][j].id
    BY <1>1 DEF InOrder
  <2>2. DOMAIN schema' = 1..N /\ \A i \in 1..N : schema'[i].id = Bundle[r][i].id
    BY <1>1, <1>2, <1>3, <1>4
  <2> HIDE DEF N
  <2>3. \A i, j \in DOMAIN schema' : i < j => schema'[i].id < schema'[j].id
    BY <2>1, <2>2
  <2> QED
    BY <2>3 DEF InOrder
<1>6. applied[r] = SubSeq(Bundle[r], n + 1, N)
  <2>1. \A j \in 1..m : applied[r][j] = Bundle[r][n + j]
    BY <1>1 DEF Continues
  <2>2. PICK rest : rest = SubSeq(Bundle[r], n + 1, N)
    OBVIOUS
  <2>3. /\ rest \in Seq(Migration) /\ Len(rest) = m
        /\ \A j \in 1..m : rest[j] = Bundle[r][n + j]
    BY <1>1, <1>2, <2>2
  <2> QED
    BY <1>1, <2>1, <2>2, <2>3
<1> QED
  BY <1>1, <1>3, <1>4, <1>5, <1>6 DEF Continues

(* Whatever a step of r does but run a migration, commit and read anew.    *)
LEMMA QuietKeepsOrder ==
  ASSUME IInv, OrderInv, NEW r \in Runners, UNCHANGED schema,
         stage'[r] # "apply",
         \A s \in Runners \ {r} :
           /\ stage'[s] = stage[s] /\ result'[s] = result[s]
           /\ plan'[s] = plan[s] /\ applied'[s] = applied[s],
         \/ result'[r] \notin {"migrated", "up_to_date"}
         \/ result'[r] = result[r]
         \/ Accepts(r, log) /\ Pending(r, log) = {}
  PROVE  OrderInv'
<1>1. InOrder(schema')
  BY DEF OrderInv
<1>2. ASSUME NEW s \in Runners, stage'[s] = "apply" PROVE Continues(s)'
  <2>1. s \in Runners \ {r}
    BY <1>2
  <2>2. Continues(s) /\ plan'[s] = plan[s] /\ applied'[s] = applied[s]
    BY <1>2, <2>1 DEF OrderInv
  <2> QED
    BY <2>2 DEF Continues, GoesOn
<1>3. ASSUME NEW s \in Runners, result'[s] \in {"migrated", "up_to_date"}
      PROVE  \A i \in DOMAIN Bundle[s] : i \in DOMAIN schema /\ schema[i].id = Bundle[s][i].id
  <2>1. CASE result'[s] = result[s]
    BY <1>3, <2>1 DEF OrderInv, MigratedStays
  <2>2. CASE s = r /\ Accepts(r, log) /\ Pending(r, log) = {}
    <3>1. GoesOn(r) /\ {i \in DOMAIN Bundle[r] : i > Len(schema)} = {}
      BY <2>2, AcceptedGoesOn DEF OrderInv
    <3>2. /\ schema \in Seq(Migration) /\ Bundle[r] \in Seq(Migration)
          /\ Len(schema) \in Nat /\ DOMAIN schema = 1..Len(schema)
          /\ DOMAIN Bundle[r] = 1..Len(Bundle[r]) /\ Len(Bundle[r]) \in Nat
      BY BundlesAreTyped DEF IInv, TypeOK
    <3>3. ASSUME NEW i \in DOMAIN Bundle[r] PROVE i \in DOMAIN schema
      <4>1. ~(i > Len(schema)) /\ i \in 1..Len(Bundle[r])
        BY <3>1, <3>2
      <4> QED
        BY <3>2, <4>1
    <3> QED
      BY <2>2, <3>1, <3>3 DEF GoesOn
  <2> QED
    BY <1>3, <2>1, <2>2
<1> QED
  BY <1>1, <1>2, <1>3 DEF OrderInv, MigratedStays

LEMMA ReadKeepsOrder ==
  ASSUME IInv, OrderInv, NEW r \in Runners,
         ReadAppliedMigrations(r) \/ RereadAppliedMigrations(r)
  PROVE  OrderInv'
<1> USE DEF transaction, session, database, locks
<1>0. TypeOK /\ RunnerInv(r)
  BY DEF IInv
<1>1. /\ UNCHANGED schema
      /\ \A s \in Runners \ {r} :
           /\ stage'[s] = stage[s] /\ result'[s] = result[s]
           /\ plan'[s] = plan[s] /\ applied'[s] = applied[s]
  BY <1>0 DEF TypeOK, ReadAppliedMigrations, RereadAppliedMigrations, Rollback, Ends, Goto
<1>2. CASE ReadAppliedMigrations(r)
  <2>1. stage'[r] # "apply"
    BY <1>0, <1>2 DEF TypeOK, ReadAppliedMigrations, Ends, Goto
  <2>2. \/ result'[r] \notin {"migrated", "up_to_date"}
        \/ result'[r] = result[r]
        \/ Accepts(r, log) /\ Pending(r, log) = {}
    BY <1>0, <1>2 DEF TypeOK, ReadAppliedMigrations, Ends
  <2> QED
    BY <1>1, <2>1, <2>2, QuietKeepsOrder
<1>3. CASE RereadAppliedMigrations(r) /\ ~(Accepts(r, log) /\ Pending(r, log) # {})
  <2>1. stage'[r] # "apply"
    BY <1>0, <1>3 DEF TypeOK, RereadAppliedMigrations, Ends, Goto
  <2>2. \/ result'[r] \notin {"migrated", "up_to_date"}
        \/ Accepts(r, log) /\ Pending(r, log) = {}
    BY <1>0, <1>3 DEF TypeOK, RereadAppliedMigrations, Ends
  <2> QED
    BY <1>1, <2>1, <2>2, QuietKeepsOrder
<1>4. CASE RereadAppliedMigrations(r) /\ Accepts(r, log) /\ Pending(r, log) # {}
  <2>1. /\ plan'[r] = Pending(r, log) /\ applied'[r] = <<>>
        /\ result' = result /\ schema' = schema
    BY <1>0, <1>4 DEF TypeOK, RereadAppliedMigrations, RunnerInv
  <2>2. GoesOn(r) /\ Pending(r, log) = {i \in DOMAIN Bundle[r] : i > Len(schema)}
    BY <1>4, AcceptedGoesOn DEF OrderInv
  <2>3. Len(schema) \in Nat
    BY <1>0 DEF TypeOK
  <2>4. Continues(r)'
    BY <2>1, <2>2, <2>3 DEF Continues, GoesOn
  <2>5. ASSUME NEW s \in Runners \ {r}, stage'[s] = "apply" PROVE Continues(s)'
    BY <1>1, <2>5 DEF OrderInv, Continues, GoesOn
  <2> QED
    BY <2>1, <2>4, <2>5 DEF OrderInv, MigratedStays
<1> QED
  BY <1>2, <1>3, <1>4

LEMMA ApplyKeepsOrder ==
  ASSUME IInv, OrderInv, NEW r \in Runners, ApplyMigration(r)
  PROVE  OrderInv'
<1> USE DEF transaction, session, database, locks
<1>0. TypeOK /\ Continues(r)
  BY DEF IInv, OrderInv, ApplyMigration
<1>1. /\ UNCHANGED <<schema, stage, result>>
      /\ \A s \in Runners \ {r} : plan'[s] = plan[s] /\ applied'[s] = applied[s]
  BY <1>0 DEF TypeOK, ApplyMigration
<1>2. PICK i \in plan[r] :
        /\ IsFirst(i, plan[r])
        /\ applied' = [applied EXCEPT ![r] = Append(@, Bundle[r][i])]
        /\ plan' = [plan EXCEPT ![r] = @ \ {i}]
  BY DEF ApplyMigration
<1>3. PICK n, N, m, old : n = Len(schema) /\ N = Len(Bundle[r]) /\ m = Len(old)
                          /\ old = applied[r]
  OBVIOUS
<1>4. /\ n \in Nat /\ N \in Nat /\ m \in Nat /\ old \in Seq(Migration)
      /\ DOMAIN Bundle[r] = 1..N /\ i \in 1..N /\ Bundle[r][i] \in Migration
      /\ plan[r] = {k \in 1..N : k > n + m}
      /\ \A j \in 1..m : old[j] = Bundle[r][n + j]
  <2>1. /\ schema \in Seq(Migration) /\ old \in Seq(Migration)
        /\ Bundle[r] \in Seq(Migration)
    BY <1>0, <1>3, BundlesAreTyped DEF TypeOK
  <2>2. /\ n \in Nat /\ N \in Nat /\ m \in Nat
        /\ DOMAIN Bundle[r] = 1..N /\ DOMAIN old = 1..m
    BY <1>3, <2>1
  <2>3. /\ plan[r] = {k \in 1..N : k > n + m}
        /\ \A j \in 1..m : old[j] = Bundle[r][n + j]
    BY <1>0, <1>3, <2>2 DEF Continues
  <2> QED
    BY <2>1, <2>2, <2>3, BundlesAreTyped
<1>5. i = n + m + 1
  <2>1. i > n + m /\ n + m + 1 \in plan[r]
    BY <1>4
  <2>2. i <= n + m + 1
    BY <1>2, <2>1 DEF IsFirst
  <2> QED
    BY <1>4, <2>1, <2>2
<1>6. /\ applied'[r] = Append(old, Bundle[r][i]) /\ plan'[r] = plan[r] \ {i}
  BY <1>0, <1>2, <1>3 DEF TypeOK
<1>7. /\ Len(applied'[r]) = m + 1 /\ DOMAIN applied'[r] = 1..(m + 1)
      /\ \A j \in 1..m : applied'[r][j] = old[j]
      /\ applied'[r][m + 1] = Bundle[r][i]
  BY <1>3, <1>4, <1>6
<1>8. \A j \in 1..(m + 1) : applied'[r][j] = Bundle[r][n + j]
  <2>1. \A j \in 1..(m + 1) : j \in 1..m \/ j = m + 1
    BY <1>4
  <2>2. n + (m + 1) = i
    BY <1>4, <1>5
  <2> QED
    BY <1>4, <1>7, <2>1, <2>2
<1>9. plan'[r] = {k \in 1..N : k > n + (m + 1)}
  BY <1>4, <1>5, <1>6
<1>10. n + (m + 1) <= N
  BY <1>4, <1>5
<1>11. Continues(r)'
  BY <1>0, <1>1, <1>3, <1>4, <1>7, <1>8, <1>9, <1>10 DEF Continues, GoesOn
<1>12. ASSUME NEW s \in Runners \ {r}, stage'[s] = "apply" PROVE Continues(s)'
  BY <1>1, <1>12 DEF OrderInv, Continues, GoesOn
<1> QED
  BY <1>1, <1>11, <1>12 DEF OrderInv, MigratedStays

LEMMA CommitKeepsOrder ==
  ASSUME IInv, Ordered, OrderInv, NEW r \in Runners,
         CommitMigrations(r) \/ LoseCommitAnswer(r)
  PROVE  OrderInv'
<1>0. TypeOK /\ Commit(r) /\ stage[r] \in Holding
  BY DEF IInv, CommitMigrations, LoseCommitAnswer, Commit, Holding, Tabled
<1>1. /\ \A i \in DOMAIN Bundle[r] : i \in DOMAIN schema' /\ schema'[i].id = Bundle[r][i].id
      /\ \A i \in DOMAIN schema : i \in DOMAIN schema' /\ schema'[i] = schema[i]
      /\ InOrder(schema')
  BY <1>0, CommitDeploys
<1>2. /\ stage'[r] # "apply"
      /\ \A s \in Runners \ {r} : stage'[s] = stage[s] /\ result'[s] = result[s]
  BY <1>0 DEF TypeOK, CommitMigrations, LoseCommitAnswer, SessionEnds, Ends, Goto
<1>3. ASSUME NEW s \in Runners PROVE stage'[s] # "apply"
  <2>1. CASE s = r
    BY <1>2, <2>1
  <2>2. CASE s # r
    <3>1. stage[s] \notin Holding
      BY <1>0, <2>2, Alone
    <3> QED
      BY <1>2, <2>2, <3>1 DEF Holding, Tabled
  <2> QED
    BY <2>1, <2>2
<1>4. MigratedStays'
  BY <1>1, <1>2 DEF OrderInv, MigratedStays
<1> QED
  BY <1>1, <1>3, <1>4 DEF OrderInv

LEMMA OrderSteps ==
  ASSUME IInv, Ordered, OrderInv, NEW r \in Runners, Request(r) \/ Advance(r) \/ Fault(r)
  PROVE  OrderInv'
<1> USE DEF transaction, session, database, locks
<1>0. TypeOK
  BY DEF IInv
<1>1. CASE ReadAppliedMigrations(r) \/ RereadAppliedMigrations(r)
  BY <1>1, ReadKeepsOrder
<1>2. CASE ApplyMigration(r)
  BY <1>2, ApplyKeepsOrder
<1>3. CASE CommitMigrations(r) \/ LoseCommitAnswer(r)
  BY <1>3, CommitKeepsOrder
<1>4. CASE \/ Request(r) \/ AdvisoryLock(r) \/ AdvisoryLockTimesOut(r) \/ CreateTable(r)
           \/ AddChecksumColumn(r) \/ Backfill(r) \/ Begin(r) \/ LockTable(r)
           \/ Unlock(r) \/ UnlockFails(r)
  <2>1. UNCHANGED <<schema, plan, applied>>
    BY <1>4
       DEF Request, AdvisoryLock, AdvisoryLockTimesOut, CreateTable, AddChecksumColumn,
           Backfill, Begin, LockTable, Unlock, UnlockFails
  <2>2. /\ stage'[r] # "apply"
        /\ \A s \in Runners \ {r} : stage'[s] = stage[s] /\ result'[s] = result[s]
        /\ result'[r] \notin {"migrated", "up_to_date"} \/ result'[r] = result[r]
    BY <1>0, <1>4
       DEF TypeOK, Request, AdvisoryLock, AdvisoryLockTimesOut, CreateTable,
           AddChecksumColumn, Backfill, Begin, LockTable, Unlock, UnlockFails, Goto
  <2> QED
    BY <2>1, <2>2, QuietKeepsOrder
<1>5. CASE \/ ReadLegacyChecksums(r) \/ SetNotNull(r) \/ ReadTableExists(r)
           \/ StatementFails(r) \/ LoseConnection(r)
  <2>1. /\ UNCHANGED schema
        /\ \A s \in Runners \ {r} : plan'[s] = plan[s] /\ applied'[s] = applied[s]
    BY <1>0, <1>5
       DEF TypeOK, ReadLegacyChecksums, SetNotNull, ReadTableExists, StatementFails,
           LoseConnection, Rollback
  <2>2. /\ stage'[r] # "apply"
        /\ \A s \in Runners \ {r} : stage'[s] = stage[s] /\ result'[s] = result[s]
        /\ result'[r] \notin {"migrated", "up_to_date"} \/ result'[r] = result[r]
    BY <1>0, <1>5
       DEF TypeOK, ReadLegacyChecksums, SetNotNull, ReadTableExists, StatementFails,
           LoseConnection, SessionEnds, Ends, Goto
  <2> QED
    BY <2>1, <2>2, QuietKeepsOrder
<1> QED
  BY <1>1, <1>2, <1>3, <1>4, <1>5 DEF Advance, Fault

LEMMA OrderInductive ==
  ASSUME IInv, Ordered, OrderInv, [Next]_vars
  PROVE  OrderInv'
<1>1. CASE Tick \/ UNCHANGED vars
  <2>1. UNCHANGED <<schema, stage, result, plan, applied>>
    BY <1>1 DEF Tick, vars, database, locks, transaction, session
  <2> QED
    BY <2>1 DEF OrderInv, Continues, GoesOn, MigratedStays
<1> QED
  BY <1>1, OrderSteps DEF Next

LEMMA InitIsOrdered == Init /\ Ordered => OrderInv
BY DEF Init, Ordered, OrderInv, MigratedStays

LEMMA AlwaysOrdered ==
  ASSUME Ordered
  PROVE  Spec => []OrderInv
<1>1. Init => OrderInv
  BY InitIsOrdered
<1>2. IInv /\ OrderInv /\ [Next]_vars => OrderInv'
  BY OrderInductive
<1> QED
  BY <1>1, <1>2, Always, PTL DEF Spec

(* A migrate that returned has left its bundle in place, and no other      *)
(* runner takes any of it away: for releases in the order of ids, which    *)
(* the rows are compared in.                                               *)
THEOREM BundlesStay ==
  ASSUME Ordered
  PROVE  Spec => []MigratedStays
<1>1. OrderInv => MigratedStays
  BY DEF OrderInv
<1> QED
  BY <1>1, AlwaysOrdered, PTL

-----------------------------------------------------------------------------
(* The refinement of MigrationHistory. *)

History == INSTANCE MigrationHistory WITH
  Releases <- {Bundle[r] : r \in Runners}

LEMMA OnlyCommitsDeploy ==
  ASSUME IInv, NEW r \in Runners, Request(r) \/ Advance(r) \/ Fault(r), ~Commit(r)
  PROVE  UNCHANGED schema
BY DEF Advance, Fault, Request, AdvisoryLock, AdvisoryLockTimesOut, CreateTable,
       AddChecksumColumn, ReadLegacyChecksums, Backfill, SetNotNull, ReadTableExists,
       ReadAppliedMigrations, Begin, LockTable, RereadAppliedMigrations, ApplyMigration,
       CommitMigrations, StatementFails, Unlock, UnlockFails, LoseConnection,
       LoseCommitAnswer, database

(* Every COMMIT, answered or not, deploys the rest of one release, and no  *)
(* other statement changes the schema.                                     *)
THEOREM RunnersImplementHistory ==
  ASSUME Ordered
  PROVE  Spec => History!Spec
<1>1. Init => History!Init
  BY DEF Init, History!Init
<1>2. ASSUME IInv, OrderInv, NEW r \in Runners, Commit(r) PROVE History!Next
  <2>1. /\ GoesOn(r)
        /\ applied[r] = SubSeq(Bundle[r], Len(schema) + 1, Len(Bundle[r]))
    BY <1>2, CommitDeploys
  <2>2. History!Deploy(Bundle[r])
    BY <1>2, <2>1 DEF Commit, GoesOn, History!Deploy, History!GoesOn
  <2> QED
    BY <2>2 DEF History!Next
<1>3. IInv /\ OrderInv /\ [Next]_vars => [History!Next]_schema
  <2> SUFFICES ASSUME IInv, OrderInv, [Next]_vars PROVE [History!Next]_schema
    OBVIOUS
  <2>1. CASE Tick \/ UNCHANGED vars
    BY <2>1 DEF Tick, vars, database
  <2>2. ASSUME NEW r \in Runners, Request(r) \/ Advance(r) \/ Fault(r)
        PROVE  [History!Next]_schema
    BY <1>2, <2>2, OnlyCommitsDeploy
  <2> QED
    BY <2>1, <2>2 DEF Next
<1> QED
  BY <1>1, <1>3, Always, AlwaysOrdered, PTL DEF Spec, History!Spec
=============================================================================
