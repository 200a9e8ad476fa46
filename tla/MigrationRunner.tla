--------------------------- MODULE MigrationRunner ---------------------------
(***************************************************************************)
(* PostgresMigrationRunner: deployments that migrate one database at the   *)
(* same time, each a runner with a connection and a bundled list of        *)
(* migrations of its own.  Each statement is a step.  An advisory lock of  *)
(* the session surrounds every operation; inside it, the migrations and    *)
(* their records are one transaction that locks the table of records.      *)
(***************************************************************************)
EXTENDS Naturals, Sequences, FiniteSets

CONSTANTS
  Runners,
  Checksums,
  Bundle,         \* the migrations of each runner
  Origins,        \* what was recorded before there were checksums
  LockTimeout,    \* runners with advisoryLockTimeoutMs
  AllowBackfill,  \* runners with unsafeAllowLegacyChecksumBackfill
  OwnClient,      \* runners that withPostgresClient connects for one call
  MaxCalls,       \* bound: operations asked for
  MaxTime,        \* bound: the clock of the server stops here
  MaxFaults       \* bound: connections lost, and unlocks that fail

Migration == [id : Nat, checksum : Checksums, compatible : SUBSET Checksums]

(* assertUniqueMigrationIds, of every bundle. *)
ASSUME BundleAssumption ==
  /\ Bundle \in [Runners -> Seq(Migration)]
  /\ Origins \subseteq Seq(Migration)
  /\ \A bundle \in {Bundle[r] : r \in Runners} \cup Origins :
       \A i, j \in DOMAIN bundle : bundle[i].id = bundle[j].id => i = j
  /\ LockTimeout \subseteq Runners
  /\ AllowBackfill \subseteq Runners
  /\ OwnClient \subseteq Runners

VARIABLES
  table,      \* what columns rollbackkit_schema_migrations has
  log,        \* its committed rows, by id
  schema,     \* the migrations whose SQL is committed, in that order
  held,       \* how often each session holds the advisory lock
  tableLock,  \* the session that locked the table
  now,        \* the clock of the server
  stage,      \* what each runner does next
  op,         \* the operation it is in
  result,     \* how its last operation ended, or is about to end
  seen,       \* the rows it read last
  plan,       \* the places in its bundle its transaction has yet to run
  applied,    \* those it has run
  began,      \* when its transaction began
  calls,      \* history: how many operations were asked for
  faults      \* history: how many faults happened

database == <<table, log, schema>>
locks == <<held, tableLock>>
transaction == <<plan, applied, began>>
session == <<op, calls>>
vars == <<database, locks, now, stage, session, result, seen, transaction, faults>>

Operation == {"migrate", "status", "applied"}
Result == {"none", "failed", "refused", "migrated", "up_to_date", "reported"}
TransactionStage == {"lock_table", "reread", "apply"}
EnsureStage == {"create_table", "add_column", "read_legacy", "backfill", "set_not_null"}
Stage == {"idle", "advisory_lock", "table_exists", "read", "begin", "unlock", "done"}
           \cup EnsureStage \cup TransactionStage

Optional(S) == {{}} \cup {{x} : x \in S}
Row == [checksum : Optional(Checksums), appliedAt : Nat]
Rows(f) == DOMAIN f \subseteq Nat /\ f \in [DOMAIN f -> Row]

NoRows == [id \in {} |-> id]

TypeOK ==
  /\ table \in {"missing", "no_checksum", "nullable", "not_null"}
  /\ Rows(log)
  /\ schema \in Seq(Migration)
  /\ held \in [Runners -> Nat]
  /\ tableLock \in Optional(Runners)
  /\ now \in Nat
  /\ stage \in [Runners -> Stage]
  /\ op \in [Runners -> Operation \cup {"none"}]
  /\ result \in [Runners -> Result]
  /\ DOMAIN seen = Runners /\ \A r \in Runners : Rows(seen[r])
  /\ plan \in [Runners -> SUBSET Nat]
  /\ applied \in [Runners -> Seq(Migration)]
  /\ began \in [Runners -> Nat]
  /\ calls \in Nat
  /\ faults \in Nat

Init ==
  /\ schema \in Origins
  /\ IF schema = <<>> THEN table = "missing" ELSE table \in {"no_checksum", "nullable"}
  /\ log = [id \in {schema[i].id : i \in DOMAIN schema} |-> [checksum |-> {}, appliedAt |-> 0]]
  /\ held = [r \in Runners |-> 0]
  /\ tableLock = {}
  /\ now = 0
  /\ stage = [r \in Runners |-> "idle"]
  /\ op = [r \in Runners |-> "none"]
  /\ result = [r \in Runners |-> "none"]
  /\ seen = [r \in Runners |-> NoRows]
  /\ plan = [r \in Runners |-> {}]
  /\ applied = [r \in Runners |-> <<>>]
  /\ began = [r \in Runners |-> 0]
  /\ calls = 0
  /\ faults = 0

Goto(r, to) == stage' = [stage EXCEPT ![r] = to]

-----------------------------------------------------------------------------
(* What a runner makes of the rows it has read. *)

(* mapMigrationChecksum throws on no row. *)
HaveChecksums(rows) == \A id \in DOMAIN rows : rows[id].checksum # {}

(* assertAppliedMigrationChecksums: every row is bundled, as it is. *)
ChecksumsMatch(r, rows) ==
  \A id \in DOMAIN rows : \E i \in DOMAIN Bundle[r] :
    /\ Bundle[r][i].id = id
    /\ rows[id].checksum \subseteq {Bundle[r][i].checksum} \cup Bundle[r][i].compatible

(* Fault: a gap before a pending migration goes unnoticed. *)
FaultyIsBundledPrefix(r, rows) ==
  \A id \in DOMAIN rows : \E i \in DOMAIN Bundle[r] : Bundle[r][i].id = id

(* assertAppliedMigrationsAreBundledPrefix: the rows in the order of their *)
(* ids are the first bundled ones, recorded in that order.                 *)
IsBundledPrefix(r, rows) ==
  /\ \A id \in DOMAIN rows :
       LET position == Cardinality({other \in DOMAIN rows : other <= id})
       IN  position \in DOMAIN Bundle[r] /\ Bundle[r][position].id = id
  /\ \A id, other \in DOMAIN rows :
       id < other => rows[id].appliedAt <= rows[other].appliedAt

(* createMigrationStatus returns. *)
Accepts(r, rows) ==
  HaveChecksums(rows) /\ ChecksumsMatch(r, rows) /\ IsBundledPrefix(r, rows)

Bundled(runners) == UNION {{Bundle[r][i] : i \in DOMAIN Bundle[r]} : r \in runners}

Pending(r, rows) == {i \in DOMAIN Bundle[r] : Bundle[r][i].id \notin DOMAIN rows}

IsFirst(i, places) == i \in places /\ \A j \in places : i <= j

-----------------------------------------------------------------------------
(* Sessions. *)

(* An operation is asked for; lock_timeout is set before it begins. *)
Request(r) ==
  /\ stage[r] \in {"idle", "done"}
  /\ calls < MaxCalls
  /\ calls' = calls + 1
  /\ \E operation \in Operation : op' = [op EXCEPT ![r] = operation]
  /\ result' = [result EXCEPT ![r] = "none"]
  /\ Goto(r, "advisory_lock")
  /\ UNCHANGED <<database, locks, now, seen, transaction, faults>>

(* Fault: the lock is shared. *)
FaultyAdvisoryLock(r) ==
  /\ stage[r] = "advisory_lock"
  /\ held' = [held EXCEPT ![r] = @ + 1]
  /\ Goto(r, IF op[r] = "migrate" THEN "create_table" ELSE "table_exists")
  /\ UNCHANGED <<database, tableLock, now, session, result, seen, transaction, faults>>

(* pg_advisory_lock: a session that holds it takes it once more. *)
AdvisoryLock(r) ==
  /\ stage[r] = "advisory_lock"
  /\ \A other \in Runners \ {r} : held[other] = 0
  /\ held' = [held EXCEPT ![r] = @ + 1]
  /\ Goto(r, IF op[r] = "migrate" THEN "create_table" ELSE "table_exists")
  /\ UNCHANGED <<database, tableLock, now, session, result, seen, transaction, faults>>

(* Fault: a runner that never had the lock unlocks it. *)
FaultyTimesOut(r) ==
  /\ stage[r] = "advisory_lock"
  /\ r \in LockTimeout
  /\ \E other \in Runners \ {r} : held[other] > 0
  /\ result' = [result EXCEPT ![r] = "failed"]
  /\ Goto(r, "unlock")
  /\ UNCHANGED <<database, locks, now, session, seen, transaction, faults>>

(* lock_timeout passes; there is nothing to unlock. *)
AdvisoryLockTimesOut(r) ==
  /\ stage[r] = "advisory_lock"
  /\ r \in LockTimeout
  /\ \E other \in Runners \ {r} : held[other] > 0
  /\ result' = [result EXCEPT ![r] = "failed"]
  /\ Goto(r, "done")
  /\ UNCHANGED <<database, locks, now, session, seen, transaction, faults>>

(* The session goes on; its operation has its result and unlocks.          *)
Ends(r, as) ==
  /\ result' = [result EXCEPT ![r] = as]
  /\ Goto(r, "unlock")

(* Fault: an operation that throws does not unlock. *)
FaultyUnlock(r) ==
  /\ stage[r] = "unlock"
  /\ held' = [held EXCEPT ![r] =
       IF r \in OwnClient THEN 0 ELSE IF result[r] \in {"failed", "refused"} THEN @ ELSE @ - 1]
  /\ Goto(r, "done")
  /\ UNCHANGED <<database, tableLock, now, session, result, seen, transaction, faults>>

(* pg_advisory_unlock; withPostgresClient ends the session after it. *)
Unlock(r) ==
  /\ stage[r] = "unlock"
  /\ held' = [held EXCEPT ![r] = IF r \in OwnClient THEN 0 ELSE @ - 1]
  /\ Goto(r, "done")
  /\ UNCHANGED <<database, tableLock, now, session, result, seen, transaction, faults>>

(* A failure to unlock is ignored. *)
UnlockFails(r) ==
  /\ stage[r] = "unlock"
  /\ faults < MaxFaults
  /\ faults' = faults + 1
  /\ held' = [held EXCEPT ![r] = IF r \in OwnClient THEN 0 ELSE @]
  /\ Goto(r, "done")
  /\ UNCHANGED <<database, tableLock, now, session, result, seen, transaction>>

(* The server rolls the transaction of the runner back. *)
Rollback(r) ==
  /\ plan' = [plan EXCEPT ![r] = {}]
  /\ applied' = [applied EXCEPT ![r] = <<>>]
  /\ tableLock' = tableLock \ {r}
  /\ UNCHANGED began

(* The connection is lost: the server ends the session and its locks.      *)
SessionEnds(r) ==
  /\ faults < MaxFaults
  /\ faults' = faults + 1
  /\ held' = [held EXCEPT ![r] = 0]
  /\ result' = [result EXCEPT ![r] = "failed"]
  /\ Goto(r, "done")
  /\ UNCHANGED <<now, session, seen>>

LoseConnection(r) ==
  /\ stage[r] \notin {"idle", "done"}
  /\ SessionEnds(r)
  /\ Rollback(r)
  /\ UNCHANGED database

-----------------------------------------------------------------------------
(* migrate: ensureSchemaMigrationsTable, outside a transaction. *)

CreateTable(r) ==
  /\ stage[r] = "create_table"
  /\ table' = IF table = "missing" THEN "not_null" ELSE table
  /\ Goto(r, "add_column")
  /\ UNCHANGED <<log, schema, locks, now, session, result, seen, transaction, faults>>

AddChecksumColumn(r) ==
  /\ stage[r] = "add_column"
  /\ table' = IF table = "no_checksum" THEN "nullable" ELSE table
  /\ Goto(r, "read_legacy")
  /\ UNCHANGED <<log, schema, locks, now, session, result, seen, transaction, faults>>

ReadLegacyChecksums(r) ==
  /\ stage[r] = "read_legacy"
  /\ IF r \in AllowBackfill
     THEN Goto(r, "backfill") /\ UNCHANGED result
     ELSE IF HaveChecksums(log)
     THEN Goto(r, "set_not_null") /\ UNCHANGED result
     ELSE Ends(r, "refused")
  /\ UNCHANGED <<database, locks, now, session, seen, transaction, faults>>

(* Fault: the update is not restricted to rows without a checksum. *)
FaultyUnstamped(r) ==
  {i \in DOMAIN Bundle[r] : /\ Bundle[r][i].id \in DOMAIN log
                            /\ log[Bundle[r][i].id].checksum # {Bundle[r][i].checksum}}

(* The bundled migrations without a checksum. *)
Unstamped(r) ==
  {i \in DOMAIN Bundle[r] : /\ Bundle[r][i].id \in DOMAIN log
                            /\ log[Bundle[r][i].id].checksum = {}}

(* One UPDATE for each, first to last, or the loop is over. *)
Backfill(r) ==
  /\ stage[r] = "backfill"
  /\ \/ /\ Unstamped(r) = {}
        /\ Goto(r, "set_not_null")
        /\ UNCHANGED log
     \/ \E i \in Unstamped(r) :
          /\ IsFirst(i, Unstamped(r))
          /\ log' = [log EXCEPT ![Bundle[r][i].id].checksum = {Bundle[r][i].checksum}]
          /\ UNCHANGED stage
  /\ UNCHANGED <<table, schema, locks, now, session, result, seen, transaction, faults>>

(* Fails on a row that no bundled migration could stamp. *)
SetNotNull(r) ==
  /\ stage[r] = "set_not_null"
  /\ IF HaveChecksums(log)
     THEN table' = "not_null" /\ Goto(r, "read") /\ UNCHANGED result
     ELSE Ends(r, "failed") /\ UNCHANGED table
  /\ UNCHANGED <<log, schema, locks, now, session, seen, transaction, faults>>

-----------------------------------------------------------------------------
(* The reads, and the transaction of migrate. *)

(* getMigrationStatus and getAppliedMigrations: to_regclass. *)
ReadTableExists(r) ==
  /\ stage[r] = "table_exists"
  /\ IF table = "missing"
     THEN Ends(r, "reported") /\ seen' = [seen EXCEPT ![r] = NoRows]
     ELSE Goto(r, "read") /\ UNCHANGED <<result, seen>>
  /\ UNCHANGED <<database, locks, now, session, transaction, faults>>

(* The read that decides: a table without the column, a row without a      *)
(* checksum, or rows that the bundle does not go on from are errors;       *)
(* getAppliedMigrations does not compare the rows with the bundle.         *)
ReadAppliedMigrations(r) ==
  /\ stage[r] = "read"
  /\ seen' = [seen EXCEPT ![r] = log]
  /\ IF table = "no_checksum"
     THEN Ends(r, "failed")
     ELSE IF ~HaveChecksums(log) \/ (op[r] # "applied" /\ ~Accepts(r, log))
     THEN Ends(r, "refused")
     ELSE IF op[r] # "migrate"
     THEN Ends(r, "reported")
     ELSE IF Pending(r, log) = {}
     THEN Ends(r, "up_to_date")
     ELSE Goto(r, "begin") /\ UNCHANGED result
  /\ UNCHANGED <<database, locks, now, session, transaction, faults>>

(* BEGIN: now() of the transaction, and so its appliedAt, is fixed. *)
Begin(r) ==
  /\ stage[r] = "begin"
  /\ began' = [began EXCEPT ![r] = now]
  /\ Goto(r, "lock_table")
  /\ UNCHANGED <<database, locks, now, session, result, seen, plan, applied, faults>>

(* LOCK TABLE ... IN SHARE ROW EXCLUSIVE MODE waits for another holder. *)
LockTable(r) ==
  /\ stage[r] = "lock_table"
  /\ tableLock \subseteq {r}
  /\ tableLock' = {r}
  /\ Goto(r, "reread")
  /\ UNCHANGED <<database, held, now, session, result, seen, transaction, faults>>

(* The second status, under the table lock, is the one that counts. *)
RereadAppliedMigrations(r) ==
  /\ stage[r] = "reread"
  /\ seen' = [seen EXCEPT ![r] = log]
  /\ IF Accepts(r, log) /\ Pending(r, log) # {}
     THEN /\ plan' = [plan EXCEPT ![r] = Pending(r, log)]
          /\ Goto(r, "apply")
          /\ UNCHANGED <<tableLock, applied, began, result>>
     ELSE /\ Ends(r, IF Accepts(r, log) THEN "up_to_date" ELSE "refused")
          /\ Rollback(r)
  /\ UNCHANGED <<database, held, now, session, faults>>

(* Fault: the SQL of a migration takes effect outside the transaction.     *)
FaultyApplyMigration(r) ==
  /\ stage[r] = "apply"
  /\ \E i \in plan[r] :
       /\ IsFirst(i, plan[r])
       /\ Bundle[r][i].id \notin DOMAIN log
       /\ applied' = [applied EXCEPT ![r] = Append(@, Bundle[r][i])]
       /\ plan' = [plan EXCEPT ![r] = @ \ {i}]
       /\ schema' = Append(schema, Bundle[r][i])
  /\ UNCHANGED <<table, log, locks, now, stage, session, result, seen, began, faults>>

(* The SQL of the next migration, and the INSERT of its row. *)
ApplyMigration(r) ==
  /\ stage[r] = "apply"
  /\ \E i \in plan[r] :
       /\ IsFirst(i, plan[r])
       /\ Bundle[r][i].id \notin DOMAIN log
       /\ applied' = [applied EXCEPT ![r] = Append(@, Bundle[r][i])]
       /\ plan' = [plan EXCEPT ![r] = @ \ {i}]
  /\ UNCHANGED <<database, locks, now, stage, session, result, seen, began, faults>>

Records(r) ==
  [id \in DOMAIN log \cup {applied[r][i].id : i \in DOMAIN applied[r]} |->
     IF id \in DOMAIN log THEN log[id]
     ELSE [checksum |-> {applied[r][i].checksum :
                           i \in {j \in DOMAIN applied[r] : applied[r][j].id = id}},
           appliedAt |-> began[r]]]

(* Fault: every migration is committed on its own. *)
FaultyCommit(r) ==
  /\ stage[r] = "apply"
  /\ schema' = schema \o applied[r]
  /\ log' = Records(r)
  /\ UNCHANGED table

(* COMMIT, once every pending migration has run. *)
Commit(r) ==
  /\ stage[r] = "apply"
  /\ plan[r] = {}
  /\ schema' = schema \o applied[r]
  /\ log' = Records(r)
  /\ UNCHANGED table

CommitMigrations(r) ==
  /\ Commit(r)
  /\ Rollback(r)
  /\ Ends(r, "migrated")
  /\ UNCHANGED <<held, now, session, seen, faults>>

(* The server commits and its answer is lost with the connection. *)
LoseCommitAnswer(r) ==
  /\ Commit(r)
  /\ Rollback(r)
  /\ SessionEnds(r)

(* A statement throws: the SQL of a migration meets data it refuses, a     *)
(* lock_timeout passes, COMMIT is refused.  A transaction is rolled back;  *)
(* every failure ends the operation.                                       *)
StatementFails(r) ==
  /\ stage[r] \in EnsureStage \cup TransactionStage \cup {"table_exists", "read", "begin"}
  /\ Ends(r, "failed")
  /\ Rollback(r)
  /\ UNCHANGED <<database, held, now, session, seen, faults>>

Tick ==
  /\ now < MaxTime
  /\ now' = now + 1
  /\ UNCHANGED <<database, locks, stage, session, result, seen, transaction, faults>>

(* An operation that has begun, until it ends. *)
Advance(r) ==
  \/ AdvisoryLock(r) \/ AdvisoryLockTimesOut(r)
  \/ CreateTable(r) \/ AddChecksumColumn(r) \/ ReadLegacyChecksums(r)
  \/ Backfill(r) \/ SetNotNull(r)
  \/ ReadTableExists(r) \/ ReadAppliedMigrations(r)
  \/ Begin(r) \/ LockTable(r) \/ RereadAppliedMigrations(r)
  \/ ApplyMigration(r) \/ CommitMigrations(r)
  \/ Unlock(r)

Fault(r) ==
  StatementFails(r) \/ UnlockFails(r) \/ LoseConnection(r) \/ LoseCommitAnswer(r)

Next == Tick \/ \E r \in Runners : Request(r) \/ Advance(r) \/ Fault(r)

Spec == Init /\ [][Next]_vars

(* The server answers statements and grants a lock that is free.           *)
FairSpec == Spec /\ \A r \in Runners : WF_vars(Advance(r))

-----------------------------------------------------------------------------
Stamps(id) == {m.checksum : m \in {b \in Bundled(AllowBackfill) : b.id = id}}
Applied(id) == {i \in DOMAIN schema : schema[i].id = id}

(* The records tell which SQL took effect: every recorded migration ran    *)
(* once, nothing ran without a record, and the checksum recorded is that   *)
(* of the SQL that ran, unless a runner stamped a legacy row with its own. *)
LogMatchesSchema ==
  /\ DOMAIN log = {schema[i].id : i \in DOMAIN schema}
  /\ \A id \in DOMAIN log : \E i \in DOMAIN schema :
       /\ Applied(id) = {i}
       /\ log[id].checksum \subseteq {schema[i].checksum} \cup Stamps(id)

(* After its own read, and until its operation ends or commits, nobody     *)
(* changes the rows a runner decides and reports on: the advisory lock     *)
(* covers the reads outside the transaction too.                           *)
ReadsStayCurrent ==
  \A r \in Runners :
    (\/ stage[r] \in {"begin"} \cup TransactionStage
     \/ stage[r] = "unlock" /\ result[r] \in {"reported", "up_to_date"})
    => seen[r] = log

InOrder(bundle) == \A i, j \in DOMAIN bundle : i < j => bundle[i].id < bundle[j].id

(* Every migration that ran is one of the first of the bundle, as it is. *)
Contains(r, steps) ==
  /\ Len(steps) <= Len(Bundle[r])
  /\ \A i \in DOMAIN steps :
       /\ Bundle[r][i].id = steps[i].id
       /\ steps[i].checksum \in {Bundle[r][i].checksum} \cup Bundle[r][i].compatible

(* No row is without a checksum, or was stamped with another's.            *)
RecordsAreTrue ==
  \A i \in DOMAIN schema : log[schema[i].id].checksum = {schema[i].checksum}

(* A package that contains what the database ran is never refused by true  *)
(* records of it, deployments and failures in any order: none of them      *)
(* looks edited, leaves a gap, or is out of the order of time.             *)
SuccessorIsAccepted ==
  \A r \in Runners :
    InOrder(Bundle[r]) /\ Contains(r, schema) /\ RecordsAreTrue => Accepts(r, log)

(* A migrate that returned has left its whole bundle in place, and nothing *)
(* that is in place is ever removed.                                       *)
MigratedStays ==
  \A r \in Runners :
    result[r] \in {"migrated", "up_to_date"} =>
      \A i \in DOMAIN Bundle[r] :
        i \in DOMAIN schema /\ schema[i].id = Bundle[r][i].id

(* A record is never taken back or rewritten; only a runner that was told  *)
(* to fills in a checksum, and only where there is none.                   *)
RecordsAreKept ==
  [][\A id \in DOMAIN log :
       /\ id \in DOMAIN log'
       /\ log'[id].appliedAt = log[id].appliedAt
       /\ log'[id].checksum # log[id].checksum =>
            log[id].checksum = {} /\ \E r \in AllowBackfill : stage[r] = "backfill"]_vars

(* A runner without a timeout waits for a lock whose unlock failed on a    *)
(* connection that lives on.                                               *)
Blocked(r) ==
  /\ faults > 0
  /\ r \notin LockTimeout
  /\ \E other \in Runners \ ({r} \cup OwnClient) :
       held[other] > 0 /\ stage[other] \in {"idle", "done"}

(* Every operation ends, although runners wait for each other and fail.    *)
EveryCallReturns ==
  \A r \in Runners : stage[r] # "idle" ~> stage[r] = "done" \/ Blocked(r)
=============================================================================
