--------------------------- MODULE PostgresRuntime ---------------------------
(***************************************************************************)
(* RollbackKit.execute and RollbackKit.undo over PostgresStore.  Each call *)
(* has a connection of its own, as the store requires, and each statement  *)
(* is a step: outside BEGIN ... COMMIT it takes effect at once, inside it  *)
(* is private to its connection until COMMIT.  A connection may be lost    *)
(* between any two statements, and an answer to COMMIT may be lost.        *)
(*                                                                         *)
(* The handlers write the tables of the product on the same connection;    *)
(* "product" is what those writes amount to for one run.                   *)
(***************************************************************************)
EXTENDS LifecycleRules, FiniteSets

CONSTANTS
  Calls,            \* requests in flight; a run is named by its creator
  Undoable,         \* the actions whose reversibility is undoable
  WithUndoHandler,  \* the actions that define undo
  UndoWindow,       \* undoWindowMs of each action, undefined or a number
  Effects,          \* [status, undoable] of side effects handlers record
  LockTimeout,      \* actionRunLockTimeoutMs is defined
  MaxTime,          \* bound: the clock stops here
  MaxDeferred,      \* bound: conflicts one undo records
  MaxLost           \* bound: connections lost

ASSUME DefinitionsAssumption ==
  /\ Undoable \subseteq Actions
  /\ WithUndoHandler \subseteq Actions
  /\ UndoWindow \in [Actions -> Optional(Nat)]
  /\ Effects \subseteq [status : {"planned", "completed", "failed", "compensated"},
                        undoable : BOOLEAN]
  /\ LockTimeout \in BOOLEAN

VARIABLES
  runs,         \* rollbackkit_action_runs: committed rows by id
  snapshots,    \* rollbackkit_snapshots: the runs that have some
  sideEffects,  \* rollbackkit_side_effects of each run
  conflicts,    \* rollbackkit_conflicts
  product,      \* the product tables: the change of each run
  rowLock,      \* the connection that holds the row of a run, if any
  pending,      \* the uncommitted writes of each connection
  now,          \* Clock.now()
  stage,        \* what each call does next, or how it ended
  request,      \* {input} of each execute until its run is claimed
  runId,        \* {id} of the run each call works on
  deferred,     \* DeferredConflictRecorder: conflicts not yet written
  lost          \* how many connections were lost

tables == <<runs, snapshots, sideEffects, product>>
session == <<now, request, runId, deferred, lost>>
vars == <<tables, conflicts, rowLock, pending, stage, session>>

Change == {"untouched", "applied", "reverted"}

(* The writes of an open transaction, all of them about one run. *)
Writes == [status : ActionRunStatus \cup {"unchanged"}, snapshot : BOOLEAN,
           sideEffects : SUBSET Effects, product : Change \cup {"unchanged"}]

NoWrites == [status |-> "unchanged", snapshot |-> FALSE, sideEffects |-> {},
             product |-> "unchanged"]

ExecuteStage == {"execute", "executing", "executed", "commit_execute"}
UndoStage == {"undo", "checking", "undoing", "reverted", "commit_undo"}
EndStage == {"completed", "existing", "failed", "undone", "undo_failed",
             "reported", "rejected", "lost"}
Stage == {"idle", "claim", "select_existing", "lock", "commit_lock",
          "mark_failed", "mark_undo_failed", "flush", "report"}
           \cup ExecuteStage \cup UndoStage \cup EndStage

Conflict == [actionRunId : Calls, recordedBy : Calls, number : Nat]

TypeOK ==
  /\ DOMAIN runs \subseteq Calls
  /\ runs \in [DOMAIN runs -> ActionRun]
  /\ snapshots \subseteq Calls
  /\ sideEffects \in [Calls -> SUBSET Effects]
  /\ conflicts \subseteq Conflict
  /\ product \in [Calls -> Change]
  /\ rowLock \in [Calls -> Optional(Calls)]
  /\ pending \in [Calls -> Writes]
  /\ now \in Nat
  /\ stage \in [Calls -> Stage]
  /\ request \in [Calls -> Optional(CreateInput)]
  /\ runId \in [Calls -> Optional(Calls)]
  /\ deferred \in [Calls -> Nat]
  /\ lost \in Nat

Init ==
  /\ runs = [id \in {} |-> id]
  /\ snapshots = {}
  /\ sideEffects = [id \in Calls |-> {}]
  /\ conflicts = {}
  /\ product = [id \in Calls |-> "untouched"]
  /\ rowLock = [id \in Calls |-> {}]
  /\ pending = [c \in Calls |-> NoWrites]
  /\ now = 0
  /\ stage = [c \in Calls |-> "idle"]
  /\ request = [c \in Calls |-> {}]
  /\ runId = [c \in Calls |-> {}]
  /\ deferred = [c \in Calls |-> 0]
  /\ lost = 0

Goto(c, to) == stage' = [stage EXCEPT ![c] = to]

-----------------------------------------------------------------------------
(* PostgreSQL: row locks and transactions. *)

(* The locks a connection holds end with its transaction. *)
Unlocked(c) == [id \in Calls |-> rowLock[id] \ {c}]

(* Fault: the row is read without FOR UPDATE, and updates do not wait. *)
FaultyCanLock(c, id) == TRUE

(* UPDATE and SELECT ... FOR UPDATE take the row: they wait for the        *)
(* transaction that holds it.                                              *)
CanLock(c, id) == rowLock[id] \subseteq {c}

Overlay(old, new) == IF new = "unchanged" THEN old ELSE new

(* COMMIT: the writes of the connection become visible, its locks end. *)
Commit(c, to) ==
  \E id \in runId[c] :
    /\ runs' = [runs EXCEPT ![id].status = Overlay(@, pending[c].status)]
    /\ snapshots' = IF pending[c].snapshot THEN snapshots \cup {id} ELSE snapshots
    /\ sideEffects' = [sideEffects EXCEPT ![id] = @ \cup pending[c].sideEffects]
    /\ product' = [product EXCEPT ![id] = Overlay(@, pending[c].product)]
    /\ pending' = [pending EXCEPT ![c] = NoWrites]
    /\ rowLock' = Unlocked(c)
    /\ Goto(c, to)
    /\ UNCHANGED conflicts

(* Fault: the transaction is left open. *)
FaultyRollback(c, to) ==
  /\ Goto(c, to)
  /\ UNCHANGED <<tables, conflicts, rowLock, pending>>

(* ROLLBACK, by the catch of withTransaction or by the server. *)
Rollback(c, to) ==
  /\ pending' = [pending EXCEPT ![c] = NoWrites]
  /\ rowLock' = Unlocked(c)
  /\ Goto(c, to)
  /\ UNCHANGED <<tables, conflicts>>

(* An UPDATE of the status outside a transaction. *)
UpdateStatus(c, status, to) ==
  /\ \E id \in runId[c] :
       /\ CanLock(c, id)
       /\ runs' = [runs EXCEPT ![id].status = status]
  /\ Goto(c, to)
  /\ UNCHANGED <<snapshots, sideEffects, product, conflicts, rowLock, pending>>

(* An UPDATE of the status inside a transaction. *)
UpdateStatusInTransaction(c, status, to) ==
  /\ \E id \in runId[c] :
       /\ CanLock(c, id)
       /\ rowLock' = [rowLock EXCEPT ![id] = {c}]
  /\ pending' = [pending EXCEPT ![c].status = status]
  /\ Goto(c, to)
  /\ UNCHANGED <<tables, conflicts>>

(* An INSERT into the conflicts table refers to the run: it waits for a    *)
(* transaction that selected the row FOR UPDATE, not for one that updated  *)
(* its status.                                                             *)
InsertConflict(c, id) ==
  /\ \A holder \in rowLock[id] : stage[holder] # "commit_lock"
  /\ conflicts' = conflicts \cup
       {[actionRunId |-> id, recordedBy |-> c, number |-> deferred[c]]}

-----------------------------------------------------------------------------
(* execute *)

(* Everything before the first statement; the undo deadline is fixed here. *)
RequestExecute(c) ==
  /\ stage[c] = "idle"
  /\ \E name \in Actions, actor \in Actors, tenantId \in Optional(Tenants),
        key \in Optional(Keys), input \in Inputs, target \in Optional(Targets) :
       /\ name \in Undoable => name \in WithUndoHandler
       /\ request' = [request EXCEPT ![c] =
            {[name |-> name, actor |-> actor, tenantId |-> tenantId,
              idempotencyKey |-> key, input |-> input, target |-> target,
              undoable |-> name \in Undoable,
              undoExpiresAt |->
                UndoExpiration(name \in Undoable, UndoWindow[name], now)]}]
  /\ Goto(c, "claim")
  /\ UNCHANGED <<tables, conflicts, rowLock, pending, now, runId, deferred, lost>>

(* Fault: without the second index, rows of no tenant never collide. *)
FaultyClaimed(input) ==
  {id \in DOMAIN runs : /\ SameClaim(runs[id].request, input)
                        /\ input.tenantId # {}}

Claimed(input) == {id \in DOMAIN runs : SameClaim(runs[id].request, input)}

(* INSERT ... ON CONFLICT DO NOTHING RETURNING, in its own transaction:    *)
(* the unique index decides, and no row comes back if the claim is taken.  *)
InsertActionRun(c) ==
  \E input \in request[c] :
    /\ stage[c] = "claim"
    /\ IF Claimed(input) = {}
       THEN /\ runs' = [id \in DOMAIN runs \cup {c} |->
                          IF id = c THEN [request |-> input, status |-> "created"]
                                    ELSE runs[id]]
            /\ runId' = [runId EXCEPT ![c] = {c}]
            /\ request' = [request EXCEPT ![c] = {}]
            /\ Goto(c, "execute")
       ELSE /\ Goto(c, "select_existing")
            /\ UNCHANGED <<runs, runId, request>>
    /\ UNCHANGED <<snapshots, sideEffects, product, conflicts, rowLock, pending,
                   now, deferred, lost>>

(* The SELECT by key that follows, and the runtime's comparison. *)
SelectExistingRun(c) ==
  \E input \in request[c] :
    /\ stage[c] = "select_existing"
    /\ \E id \in Claimed(input) :
         /\ Goto(c, IF IdempotentRequestMatches(runs[id].request, input)
                    THEN "existing" ELSE "rejected")
         /\ runId' = [runId EXCEPT ![c] = {id}]
    /\ request' = [request EXCEPT ![c] = {}]
    /\ UNCHANGED <<tables, conflicts, rowLock, pending, now, deferred, lost>>

(* BEGIN, and the update to running, which nobody else ever sees. *)
BeginExecute(c) ==
  /\ stage[c] = "execute"
  /\ UpdateStatusInTransaction(c, "running", "executing")
  /\ UNCHANGED session

(* Fault: the recorders do not share the connection of the transaction. *)
FaultyHandlerRecords(c) ==
  /\ stage[c] = "executing"
  /\ \E id \in runId[c] : snapshots' = snapshots \cup {id}
  /\ UNCHANGED <<runs, sideEffects, product, conflicts, rowLock, pending, stage,
                 session>>

HandlerRecords(c) ==
  /\ stage[c] = "executing"
  /\ \/ pending' = [pending EXCEPT ![c].snapshot = TRUE]
     \/ \E effect \in Effects :
          pending' = [pending EXCEPT ![c].sideEffects = @ \cup {effect}]
  /\ UNCHANGED <<tables, conflicts, rowLock, stage, session>>

(* The handler changes the product on its connection. *)
HandlerApplies(c) ==
  /\ stage[c] = "executing"
  /\ pending' = [pending EXCEPT ![c].product = "applied"]
  /\ Goto(c, "executed")
  /\ UNCHANGED <<tables, conflicts, rowLock, session>>

ExecuteReturns(c) ==
  /\ stage[c] = "executed"
  /\ UpdateStatusInTransaction(c, "completed", "commit_execute")
  /\ UNCHANGED session

CommitExecute(c) ==
  /\ stage[c] = "commit_execute"
  /\ Commit(c, "completed")
  /\ UNCHANGED session

(* Faults: the catch commits what the handler did; the catch rethrows      *)
(* without marking the run.                                                *)
FaultyExecuteThrows(c) ==
  /\ stage[c] \in ExecuteStage
  /\ Commit(c, "mark_failed")
  /\ UNCHANGED session

UnmarkedExecuteThrows(c) ==
  /\ stage[c] \in ExecuteStage
  /\ Rollback(c, "failed")
  /\ UNCHANGED session

(* The handler or a statement throws, or COMMIT is refused. *)
ExecuteThrows(c) ==
  /\ stage[c] \in ExecuteStage
  /\ Rollback(c, "mark_failed")
  /\ UNCHANGED session

MarkFailed(c) ==
  /\ stage[c] = "mark_failed"
  /\ UpdateStatus(c, "failed", "failed")
  /\ UNCHANGED session

-----------------------------------------------------------------------------
(* undo *)

(* getActionRun, the tenant check and authorize. *)
RequestUndo(c) ==
  /\ stage[c] = "idle"
  /\ \E id \in DOMAIN runs, tenantId \in Optional(Tenants) :
       /\ UndoTenantMatches(runs[id], tenantId)
       /\ runs[id].request.name \in WithUndoHandler
       /\ runId' = [runId EXCEPT ![c] = {id}]
  /\ Goto(c, "lock")
  /\ UNCHANGED <<tables, conflicts, rowLock, pending, now, request, deferred, lost>>

(* withActionRunLock: BEGIN, SELECT ... FOR UPDATE, the check of the       *)
(* locked row, and either its update to undo_running or a ROLLBACK.        *)
LockActionRun(c) ==
  /\ stage[c] = "lock"
  /\ \E id \in runId[c] :
       /\ CanLock(c, id)
       /\ IF CanBeUndone(runs[id], now)
          THEN UpdateStatusInTransaction(c, "undo_running", "commit_lock")
          ELSE Rollback(c, "rejected")
  /\ UNCHANGED session

(* lock_timeout passes while another connection holds the row, or COMMIT   *)
(* is refused.                                                             *)
LockThrows(c) ==
  /\ \/ /\ stage[c] = "lock"
        /\ LockTimeout
        /\ \E id \in runId[c] : rowLock[id] # {}
     \/ stage[c] = "commit_lock"
  /\ Rollback(c, "rejected")
  /\ UNCHANGED session

CommitLock(c) ==
  /\ stage[c] = "commit_lock"
  /\ Commit(c, "undo")
  /\ UNCHANGED session

(* BEGIN of the undo transaction, and the checks of the two tables. *)
BeginUndo(c) ==
  /\ stage[c] = "undo"
  /\ \E id \in runId[c] :
       IF /\ \A conflict \in conflicts : conflict.actionRunId # id
          /\ \A effect \in sideEffects[id] :
               effect.status = "completed" => effect.undoable
       THEN /\ Goto(c, "checking")
            /\ UNCHANGED <<tables, conflicts, rowLock, pending>>
       ELSE Rollback(c, "mark_undo_failed")
  /\ UNCHANGED session

(* checkConflicts or the undo handler records a conflict: kept in memory.  *)
DeferConflict(c) ==
  /\ stage[c] \in {"checking", "undoing"}
  /\ deferred[c] < MaxDeferred
  /\ deferred' = [deferred EXCEPT ![c] = @ + 1]
  /\ UNCHANGED <<tables, conflicts, rowLock, pending, stage, now, request, runId,
                 lost>>

(* checkConflicts returns and nothing was recorded: the undo handler runs. *)
EnterUndoHandler(c) ==
  /\ stage[c] = "checking"
  /\ deferred[c] = 0
  /\ Goto(c, "undoing")
  /\ UNCHANGED <<tables, conflicts, rowLock, pending, session>>

(* The handler restores the product on its connection. *)
HandlerReverts(c) ==
  /\ stage[c] = "undoing"
  /\ pending' = [pending EXCEPT ![c].product = "reverted"]
  /\ Goto(c, "reverted")
  /\ UNCHANGED <<tables, conflicts, rowLock, session>>

UndoReturns(c) ==
  /\ stage[c] = "reverted"
  /\ UpdateStatusInTransaction(c, "undone", "commit_undo")
  /\ UNCHANGED session

CommitUndo(c) ==
  /\ stage[c] = "commit_undo"
  /\ Commit(c, "undone")
  /\ UNCHANGED session

(* checkConflicts recorded a conflict or threw, the handler or a statement *)
(* threw, or COMMIT was refused.                                           *)
UndoThrows(c) ==
  /\ stage[c] \in UndoStage
  /\ Rollback(c, "mark_undo_failed")
  /\ UNCHANGED session

(* Fault: the flush is unconditional. *)
AlwaysFlush(c) ==
  /\ stage[c] = "mark_undo_failed"
  /\ UpdateStatus(c, "undo_failed", "flush")
  /\ UNCHANGED session

(* Fault: the deferred conflicts are dropped. *)
NeverFlush(c) ==
  /\ stage[c] = "mark_undo_failed"
  /\ UpdateStatus(c, "undo_failed", "undo_failed")
  /\ UNCHANGED session

MarkUndoFailed(c) ==
  /\ stage[c] = "mark_undo_failed"
  /\ UpdateStatus(c, "undo_failed", IF deferred[c] = 0 THEN "undo_failed" ELSE "flush")
  /\ UNCHANGED session

FlushConflict(c) ==
  /\ stage[c] = "flush"
  /\ \E id \in runId[c] : InsertConflict(c, id)
  /\ deferred' = [deferred EXCEPT ![c] = @ - 1]
  /\ Goto(c, IF deferred[c] = 1 THEN "undo_failed" ELSE "flush")
  /\ UNCHANGED <<tables, rowLock, pending, now, request, runId, lost>>

-----------------------------------------------------------------------------
(* A request refused before it writes: unknown action or run, bad input,   *)
(* wrong tenant, permission denied, no undo handler.                       *)
RejectRequest(c) ==
  /\ stage[c] = "idle"
  /\ Goto(c, "rejected")
  /\ UNCHANGED <<tables, conflicts, rowLock, pending, session>>

(* The application records a conflict through a store of its own. *)
RequestReport(c) ==
  /\ stage[c] = "idle"
  /\ \E id \in DOMAIN runs : runId' = [runId EXCEPT ![c] = {id}]
  /\ Goto(c, "report")
  /\ UNCHANGED <<tables, conflicts, rowLock, pending, now, request, deferred, lost>>

ReportConflict(c) ==
  /\ stage[c] = "report"
  /\ \E id \in runId[c] : InsertConflict(c, id)
  /\ Goto(c, "reported")
  /\ UNCHANGED <<tables, rowLock, pending, session>>

(* The connection or its process dies, or the statement that would mark    *)
(* the run fails: the server rolls back, and the call does not go on.      *)
LoseConnection(c) ==
  /\ stage[c] \notin EndStage \cup {"idle"}
  /\ lost < MaxLost
  /\ lost' = lost + 1
  /\ Rollback(c, "lost")
  /\ UNCHANGED <<now, request, runId, deferred>>

(* The same, after the server has committed and before it has answered. *)
LoseCommitAnswer(c) ==
  /\ stage[c] \in {"commit_execute", "commit_lock", "commit_undo"}
  /\ lost < MaxLost
  /\ lost' = lost + 1
  /\ Commit(c, "lost")
  /\ UNCHANGED <<now, request, runId, deferred>>

Tick ==
  /\ now < MaxTime
  /\ now' = now + 1
  /\ UNCHANGED <<tables, conflicts, rowLock, pending, stage, request, runId,
                 deferred, lost>>

(* A call that has begun, until it ends. *)
Advance(c) ==
  \/ InsertActionRun(c) \/ SelectExistingRun(c)
  \/ BeginExecute(c) \/ HandlerRecords(c) \/ HandlerApplies(c)
  \/ ExecuteReturns(c) \/ CommitExecute(c) \/ ExecuteThrows(c) \/ MarkFailed(c)
  \/ LockActionRun(c) \/ LockThrows(c) \/ CommitLock(c) \/ BeginUndo(c)
  \/ DeferConflict(c) \/ EnterUndoHandler(c) \/ HandlerReverts(c)
  \/ UndoReturns(c) \/ CommitUndo(c) \/ UndoThrows(c)
  \/ MarkUndoFailed(c) \/ FlushConflict(c)
  \/ ReportConflict(c)

Request(c) ==
  RequestExecute(c) \/ RequestUndo(c) \/ RequestReport(c) \/ RejectRequest(c)

Lose(c) == LoseConnection(c) \/ LoseCommitAnswer(c)

Next == Tick \/ \E c \in Calls : Request(c) \/ Advance(c) \/ Lose(c)

Spec == Init /\ [][Next]_vars

(* Statements and handlers settle, and a lock is granted once it is free.  *)
FairSpec == Spec /\ \A c \in Calls : WF_vars(Advance(c))

-----------------------------------------------------------------------------
CallsAt(id, stages) == {c \in Calls : runId[c] = {id} /\ stage[c] \in stages}

Executors(id) == CallsAt(id, ExecuteStage \cup {"mark_failed"})
Undoers(id) == CallsAt(id, UndoStage \cup {"mark_undo_failed"})

(* The committed audit row of a run tells what its handlers did to the     *)
(* product, through every lost connection and refused commit: the change   *)
(* is there exactly when the row says the execution succeeded and no undo  *)
(* did.  "running" is never committed.                                     *)
AuditMatchesProduct ==
  \A id \in DOMAIN runs :
    CASE runs[id].status \in {"created", "failed"} -> product[id] = "untouched"
      [] runs[id].status \in {"completed", "undo_running", "undo_failed"} ->
           product[id] = "applied"
      [] runs[id].status = "undone" -> product[id] = "reverted"
      [] OTHER -> FALSE

(* Statuses are updated by id alone, so no two calls may be about to       *)
(* settle one run, nor may a call settle a run another one has settled.    *)
OneOwnerPerRun ==
  \A id \in DOMAIN runs :
    /\ Executors(id) \subseteq {id}
    /\ Executors(id) # {} => runs[id].status = "created"
    /\ \A c, d \in Undoers(id) : c = d
    /\ Undoers(id) # {} => runs[id].status = "undo_running"

(* What a call was told stays true of the committed row.                   *)
AcknowledgedIsKept ==
  \A c \in Calls : \A id \in runId[c] :
    /\ stage[c] = "completed" =>
         runs[id].status \in {"completed", "undo_running", "undone", "undo_failed"}
    /\ stage[c] = "undone" => runs[id].status = "undone"
    /\ stage[c] = "failed" => runs[id].status = "failed"
    /\ stage[c] \in {"undo_failed", "flush"} => runs[id].status = "undo_failed"

(* The snapshots and side effects of a run are committed with "completed": *)
(* a failed or unfinished execution leaves none.                           *)
RecordsFollowCompletion ==
  \A id \in DOMAIN runs :
    runs[id].status \in {"created", "failed"} =>
      id \notin snapshots /\ sideEffects[id] = {}

(* Every call ends: no row lock is kept, and nobody waits for ever.        *)
EveryCallReturns ==
  \A c \in Calls : stage[c] # "idle" ~> stage[c] \in EndStage

(* CORE_LIFECYCLE.md: execute should "mark the action as completed or      *)
(* failed".  Both marks, and those of an undo, are written by the call     *)
(* itself: no run stays created, running or undo_running but one whose     *)
(* call lost its connection, and that one nobody marks later.              *)
EveryRunIsMarked ==
  \A id \in Calls :
    id \in DOMAIN runs ~>
      \/ /\ id \in DOMAIN runs
         /\ runs[id].status \notin {"created", "running", "undo_running"}
      \/ \E c \in Calls : runId[c] = {id} /\ stage[c] = "lost"

(* The conflicts of a refused undo are all written after its rollback,     *)
(* unless its connection is lost.                                          *)
ConflictsReachTheAudit ==
  \A c \in Calls, n \in 1 .. MaxDeferred :
    stage[c] = "mark_undo_failed" /\ deferred[c] = n
      ~> \/ /\ stage[c] = "undo_failed"
            /\ Cardinality({x \in conflicts : x.recordedBy = c}) = n
         \/ stage[c] = "lost"

-----------------------------------------------------------------------------
(* Why these invariants hold: what each stage of a call implies about its  *)
(* run and its transaction.  IInv is inductive.                            *)

MarkingExecute == ExecuteStage \cup {"mark_failed"}
MarkingUndo == UndoStage \cup {"mark_undo_failed"}

(* A call works on an existing run, and has none before it claims one; the *)
(* tables hold nothing of a run that does not exist.                       *)
RunsExist ==
  /\ \A c \in Calls :
       /\ runId[c] \subseteq DOMAIN runs
       /\ stage[c] \in {"idle", "claim", "select_existing"} => c \notin DOMAIN runs
  /\ \A id \in Calls \ DOMAIN runs :
       product[id] = "untouched" /\ id \notin snapshots /\ sideEffects[id] = {}

(* Until an execution is settled its run is "created" and belongs to the   *)
(* call that created it.                                                   *)
ExecutorsOwn ==
  \A c \in Calls :
    stage[c] \in MarkingExecute =>
      runId[c] = {c} /\ \A id \in runId[c] : runs[id].status = "created"

(* Until an undo is settled its run is "undo_running" and belongs to the   *)
(* one call whose transaction committed that status.                       *)
UndoersOwn ==
  \A c \in Calls : \A id \in runId[c] :
    stage[c] \in MarkingUndo =>
      /\ runs[id].status = "undo_running"
      /\ \A d \in Calls : stage[d] \in MarkingUndo /\ id \in runId[d] => c = d

(* Between its check and its COMMIT, withActionRunLock holds the row.      *)
LockersHold ==
  \A c \in Calls : \A id \in runId[c] :
    stage[c] = "commit_lock" => rowLock[id] = {c} /\ runs[id].status = "completed"

(* What the open transaction of each stage will commit.                    *)
PendingMatchesStage ==
  \A c \in Calls :
    /\ stage[c] = "commit_execute" =>
         pending[c].status = "completed" /\ pending[c].product = "applied"
    /\ stage[c] = "executed" => pending[c].product = "applied"
    /\ stage[c] = "commit_lock" =>
         pending[c].status = "undo_running" /\ pending[c].product = "unchanged"
    /\ stage[c] = "reverted" => pending[c].product = "reverted"
    /\ stage[c] = "commit_undo" =>
         pending[c].status = "undone" /\ pending[c].product = "reverted"
    /\ stage[c] \notin {"executing", "executed", "commit_execute", "commit_lock",
                        "reverted", "commit_undo"} => pending[c] = NoWrites

IInv ==
  /\ TypeOK
  /\ RunsExist
  /\ ExecutorsOwn
  /\ UndoersOwn
  /\ LockersHold
  /\ PendingMatchesStage
  /\ AuditMatchesProduct
  /\ AcknowledgedIsKept
  /\ RecordsFollowCompletion

-----------------------------------------------------------------------------
(* The audit trail of ActionLifecycle, read off the committed rows. *)

PhaseOf(status) ==
  CASE status \in {"created", "running"} -> "pending"
    [] status = "undo_running" -> "undoing"
    [] OTHER -> status

AuditRuns ==
  [id \in DOMAIN runs |->
     LET created == runs[id].request
     IN  [claim |-> {<<created.name, created.actor, created.tenantId, key>> :
                       key \in created.idempotencyKey},
          undoable |-> created.undoable,
          irreversible |-> \E effect \in sideEffects[id] :
                             effect.status = "completed" /\ ~effect.undoable,
          phase |-> PhaseOf(runs[id].status)]]
=============================================================================
