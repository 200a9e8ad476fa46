------------------------ MODULE PostgresRuntimeProofs ------------------------
(***************************************************************************)
(* The PostgreSQL runtime keeps its audit rows and the product in step for *)
(* any number of concurrent calls, lost connections and actions, and its   *)
(* committed rows live as ActionLifecycle says.                            *)
(***************************************************************************)
EXTENDS PostgresRuntime, LifecycleRulesProofs

LEMMA TypeInit == Init => TypeOK
BY DEF Init, TypeOK, Optional, NoWrites, Writes, Change, Stage

(* A new status makes a run of a run, for whichever row it is written to.  *)
LEMMA StatusType ==
  ASSUME TypeOK, NEW id, NEW status \in ActionRunStatus
  PROVE  [runs EXCEPT ![id].status = status] \in [DOMAIN runs -> ActionRun]
BY DEF TypeOK, ActionRun

LEMMA CommitType ==
  ASSUME TypeOK, NEW c \in Calls, NEW to \in Stage, Commit(c, to),
         UNCHANGED <<now, request, runId, deferred>>, lost' \in Nat
  PROVE  TypeOK'
<1> PICK id \in runId[c] :
      /\ runs' = [runs EXCEPT ![id].status = Overlay(@, pending[c].status)]
      /\ snapshots' = IF pending[c].snapshot THEN snapshots \cup {id} ELSE snapshots
      /\ sideEffects' = [sideEffects EXCEPT ![id] = @ \cup pending[c].sideEffects]
      /\ product' = [product EXCEPT ![id] = Overlay(@, pending[c].product)]
  BY DEF Commit
<1>1. id \in Calls
  BY DEF TypeOK, Optional
<1>2. pending[c] \in Writes
  BY DEF TypeOK
<1>3. DOMAIN runs' = DOMAIN runs /\ runs' \in [DOMAIN runs -> ActionRun]
  <2>1. CASE id \in DOMAIN runs
    <3>1. Overlay(runs[id].status, pending[c].status) \in ActionRunStatus
      BY <1>2, <2>1 DEF TypeOK, ActionRun, Writes, Overlay
    <3> QED
      BY <3>1, StatusType DEF TypeOK
  <2>2. CASE id \notin DOMAIN runs
    BY <2>2 DEF TypeOK
  <2> QED
    BY <2>1, <2>2
<1>4. snapshots' \subseteq Calls
  BY <1>1 DEF TypeOK
<1>5. sideEffects' \in [Calls -> SUBSET Effects]
  BY <1>1, <1>2 DEF TypeOK, Writes
<1>6. product' \in [Calls -> Change]
  BY <1>1, <1>2 DEF TypeOK, Writes, Overlay
<1>7. pending' \in [Calls -> Writes]
  BY DEF Commit, TypeOK, NoWrites, Writes, Change
<1>8. rowLock' \in [Calls -> Optional(Calls)]
  BY DEF Commit, Unlocked, TypeOK, Optional
<1>9. stage' \in [Calls -> Stage]
  BY DEF Commit, Goto, TypeOK
<1> QED
  BY <1>3, <1>4, <1>5, <1>6, <1>7, <1>8, <1>9 DEF Commit, TypeOK

LEMMA RollbackType ==
  ASSUME TypeOK, NEW c \in Calls, NEW to \in Stage, Rollback(c, to),
         UNCHANGED <<now, request, runId, deferred>>, lost' \in Nat
  PROVE  TypeOK'
<1>1. pending' \in [Calls -> Writes]
  BY DEF Rollback, TypeOK, NoWrites, Writes, Change
<1>2. rowLock' \in [Calls -> Optional(Calls)]
  BY DEF Rollback, Unlocked, TypeOK, Optional
<1>3. stage' \in [Calls -> Stage]
  BY DEF Rollback, Goto, TypeOK
<1> QED
  BY <1>1, <1>2, <1>3 DEF Rollback, TypeOK, tables

LEMMA UpdateStatusType ==
  ASSUME TypeOK, NEW c \in Calls, NEW to \in Stage, NEW status \in ActionRunStatus,
         UpdateStatus(c, status, to), UNCHANGED session
  PROVE  TypeOK'
<1>1. DOMAIN runs' = DOMAIN runs /\ runs' \in [DOMAIN runs -> ActionRun]
  <2> PICK id \in runId[c] : runs' = [runs EXCEPT ![id].status = status]
    BY DEF UpdateStatus
  <2> QED
    BY StatusType DEF TypeOK
<1>2. stage' \in [Calls -> Stage]
  BY DEF UpdateStatus, Goto, TypeOK
<1>3. UNCHANGED <<snapshots, sideEffects, conflicts, product, rowLock, pending, session>>
  BY DEF UpdateStatus
<1> QED
  BY <1>1, <1>2, <1>3 DEF TypeOK, session

LEMMA UpdateStatusInTransactionType ==
  ASSUME TypeOK, NEW c \in Calls, NEW to \in Stage, NEW status \in ActionRunStatus,
         UpdateStatusInTransaction(c, status, to), UNCHANGED session
  PROVE  TypeOK'
<1>1. rowLock' \in [Calls -> Optional(Calls)]
  BY DEF UpdateStatusInTransaction, TypeOK, Optional
<1>2. pending' \in [Calls -> Writes]
  <2>1. pending[c] \in Writes /\ status \in ActionRunStatus \cup {"unchanged"}
    BY DEF TypeOK
  <2>2. [pending[c] EXCEPT !.status = status] \in Writes
    BY <2>1 DEF Writes
  <2> QED
    BY <2>2 DEF UpdateStatusInTransaction, TypeOK
<1>3. stage' \in [Calls -> Stage]
  BY DEF UpdateStatusInTransaction, Goto, TypeOK
<1> QED
  BY <1>1, <1>2, <1>3 DEF UpdateStatusInTransaction, TypeOK, session, tables

(* The statuses and stages the actions write belong to their types. *)
LEMMA Literals ==
  /\ {"running", "completed", "failed", "undo_running", "undone", "undo_failed"}
       \subseteq ActionRunStatus
  /\ EndStage \cup ExecuteStage \cup UndoStage \subseteq Stage
  /\ {"claim", "select_existing", "lock", "commit_lock", "mark_failed",
      "mark_undo_failed", "flush", "report"} \subseteq Stage
BY DEF ActionRunStatus, Stage, EndStage, ExecuteStage, UndoStage

LEMMA RequestType ==
  ASSUME TypeOK, NEW c \in Calls, Request(c)
  PROVE  TypeOK'
<1>1. CASE RequestExecute(c)
  <2> PICK name \in Actions, actor \in Actors, tenantId \in Optional(Tenants),
           key \in Optional(Keys), input \in Inputs, target \in Optional(Targets) :
        request' = [request EXCEPT ![c] =
          {[name |-> name, actor |-> actor, tenantId |-> tenantId,
            idempotencyKey |-> key, input |-> input, target |-> target,
            undoable |-> name \in Undoable,
            undoExpiresAt |->
              UndoExpiration(name \in Undoable, UndoWindow[name], now)]}]
    BY <1>1 DEF RequestExecute
  <2>1. UndoExpiration(name \in Undoable, UndoWindow[name], now) \in Optional(Nat)
    <3>1. UndoWindow[name] \in Optional(Nat) /\ now \in Nat
      BY DefinitionsAssumption DEF TypeOK
    <3> QED
      BY <3>1 DEF UndoExpiration, Optional
  <2>2. request' \in [Calls -> Optional(CreateInput)]
    BY <2>1 DEF TypeOK, CreateInput, Optional
  <2>3. stage' \in [Calls -> Stage]
    BY <1>1, Literals DEF RequestExecute, Goto, TypeOK
  <2> QED
    BY <1>1, <2>2, <2>3 DEF RequestExecute, TypeOK, tables
<1>2. CASE RequestUndo(c) \/ RequestReport(c)
  <2>1. PICK id \in DOMAIN runs : runId' = [runId EXCEPT ![c] = {id}]
    BY <1>2 DEF RequestUndo, RequestReport
  <2>2. runId' \in [Calls -> Optional(Calls)]
    BY <2>1 DEF TypeOK, Optional
  <2>3. stage' \in [Calls -> Stage]
    BY <1>2, Literals DEF RequestUndo, RequestReport, Goto, TypeOK
  <2> QED
    BY <1>2, <2>2, <2>3 DEF RequestUndo, RequestReport, TypeOK, tables
<1>3. CASE RejectRequest(c)
  BY <1>3, Literals DEF RejectRequest, EndStage, Goto, TypeOK, tables, session
<1> QED
  BY <1>1, <1>2, <1>3 DEF Request

LEMMA ClaimType ==
  ASSUME TypeOK, NEW c \in Calls, InsertActionRun(c) \/ SelectExistingRun(c)
  PROVE  TypeOK'
<1>1. CASE InsertActionRun(c)
  <2> PICK input \in request[c] :
        IF Claimed(input) = {}
        THEN /\ runs' = [id \in DOMAIN runs \cup {c} |->
                           IF id = c THEN [request |-> input, status |-> "created"]
                                     ELSE runs[id]]
             /\ runId' = [runId EXCEPT ![c] = {c}]
             /\ request' = [request EXCEPT ![c] = {}]
             /\ Goto(c, "execute")
        ELSE /\ Goto(c, "select_existing")
             /\ UNCHANGED <<runs, runId, request>>
    BY <1>1 DEF InsertActionRun
  <2>1. input \in CreateInput
    BY DEF TypeOK, Optional
  <2>2. stage' \in [Calls -> Stage]
    BY Literals DEF Goto, TypeOK, ExecuteStage
  <2>3. CASE Claimed(input) = {}
    <3>1. [request |-> input, status |-> "created"] \in ActionRun
      BY <2>1 DEF ActionRun, ActionRunStatus
    <3>2. DOMAIN runs' \subseteq Calls /\ runs' \in [DOMAIN runs' -> ActionRun]
      BY <2>3, <3>1 DEF TypeOK
    <3>3. runId' \in [Calls -> Optional(Calls)]
      BY <2>3 DEF TypeOK, Optional
    <3>4. request' \in [Calls -> Optional(CreateInput)]
      BY <2>3 DEF TypeOK, Optional
    <3> QED
      BY <1>1, <2>2, <3>2, <3>3, <3>4 DEF InsertActionRun, TypeOK
  <2>4. CASE Claimed(input) # {}
    BY <1>1, <2>2, <2>4 DEF InsertActionRun, TypeOK
  <2> QED
    BY <2>3, <2>4
<1>2. CASE SelectExistingRun(c)
  <2> PICK input \in request[c] :
        \E id \in Claimed(input) :
          /\ Goto(c, IF IdempotentRequestMatches(runs[id].request, input)
                     THEN "existing" ELSE "rejected")
          /\ runId' = [runId EXCEPT ![c] = {id}]
    BY <1>2 DEF SelectExistingRun
  <2>1. stage' \in [Calls -> Stage]
    BY Literals DEF Goto, TypeOK, EndStage
  <2>2. runId' \in [Calls -> Optional(Calls)]
    BY DEF Claimed, TypeOK, Optional
  <2>3. request' \in [Calls -> Optional(CreateInput)]
    BY <1>2 DEF SelectExistingRun, TypeOK, Optional
  <2> QED
    BY <1>2, <2>1, <2>2, <2>3 DEF SelectExistingRun, TypeOK, tables
<1> QED
  BY <1>1, <1>2

LEMMA TransactionType ==
  ASSUME TypeOK, NEW c \in Calls,
         \/ BeginExecute(c) \/ ExecuteReturns(c) \/ CommitExecute(c)
         \/ ExecuteThrows(c) \/ MarkFailed(c) \/ LockActionRun(c)
         \/ LockThrows(c) \/ CommitLock(c) \/ BeginUndo(c) \/ UndoReturns(c)
         \/ CommitUndo(c) \/ UndoThrows(c) \/ MarkUndoFailed(c) \/ Lose(c)
  PROVE  TypeOK'
<1> USE Literals DEF EndStage, ExecuteStage, UndoStage
<1>1. CASE \/ BeginExecute(c) \/ ExecuteReturns(c) \/ UndoReturns(c)
  BY <1>1, UpdateStatusInTransactionType
     DEF BeginExecute, ExecuteReturns, UndoReturns
<1>2. CASE CommitExecute(c) \/ CommitLock(c) \/ CommitUndo(c)
  BY <1>2, CommitType DEF CommitExecute, CommitLock, CommitUndo, session, TypeOK
<1>3. CASE ExecuteThrows(c) \/ LockThrows(c) \/ UndoThrows(c)
  BY <1>3, RollbackType DEF ExecuteThrows, LockThrows, UndoThrows, session, TypeOK
<1>4. CASE MarkFailed(c) \/ MarkUndoFailed(c)
  BY <1>4, UpdateStatusType DEF MarkFailed, MarkUndoFailed
<1>5. CASE LockActionRun(c)
  <2>1. CASE UpdateStatusInTransaction(c, "undo_running", "commit_lock")
    BY <1>5, <2>1, UpdateStatusInTransactionType DEF LockActionRun
  <2>2. CASE Rollback(c, "rejected")
    BY <1>5, <2>2, RollbackType DEF LockActionRun, session, TypeOK
  <2> QED
    BY <1>5, <2>1, <2>2 DEF LockActionRun
<1>6. CASE BeginUndo(c)
  <2>1. CASE Rollback(c, "mark_undo_failed")
    BY <1>6, <2>1, RollbackType DEF BeginUndo, session, TypeOK
  <2>2. CASE Goto(c, "checking") /\ UNCHANGED <<tables, conflicts, rowLock, pending>>
    BY <1>6, <2>2 DEF BeginUndo, Goto, TypeOK, tables, session
  <2> QED
    BY <1>6, <2>1, <2>2 DEF BeginUndo
<1>7. CASE LoseConnection(c)
  BY <1>7, RollbackType DEF LoseConnection, TypeOK
<1>8. CASE LoseCommitAnswer(c)
  BY <1>8, CommitType DEF LoseCommitAnswer, TypeOK
<1> QED
  BY <1>1, <1>2, <1>3, <1>4, <1>5, <1>6, <1>7, <1>8 DEF Lose

(* A flush that has begun has conflicts left to write. *)
FlushIsPending == \A c \in Calls : stage[c] = "flush" => deferred[c] # 0

LEMMA FlushStaysPending ==
  ASSUME TypeOK, FlushIsPending, NEW c \in Calls,
         Request(c) \/ Advance(c) \/ Lose(c)
  PROVE  FlushIsPending'
<1> USE DEF TypeOK, FlushIsPending, Goto
<1>1. CASE Request(c) \/ InsertActionRun(c) \/ SelectExistingRun(c)
  BY <1>1 DEF Request, RequestExecute, RequestUndo, RequestReport, RejectRequest,
              InsertActionRun, SelectExistingRun, session
<1>2. CASE FlushConflict(c)
  BY <1>2 DEF FlushConflict
<1>3. CASE HandlerRecords(c) \/ DeferConflict(c)
  BY <1>3 DEF HandlerRecords, DeferConflict, session
<1>4. CASE MarkUndoFailed(c)
  BY <1>4 DEF MarkUndoFailed, UpdateStatus, session
<1> DEFINE Moves == \E to \in Stage \ {"flush"} :
                      stage' = [stage EXCEPT ![c] = to] /\ deferred' = deferred
<1>5. CASE Moves
  BY <1>5
<1>6. CASE \/ BeginExecute(c) \/ HandlerApplies(c) \/ ExecuteReturns(c)
           \/ CommitExecute(c) \/ ExecuteThrows(c) \/ MarkFailed(c)
  BY <1>5, <1>6, Literals
     DEF BeginExecute, HandlerApplies, ExecuteReturns, CommitExecute, ExecuteThrows,
         MarkFailed, UpdateStatusInTransaction, UpdateStatus, Commit, Rollback,
         session, EndStage, ExecuteStage
<1>7. CASE \/ LockActionRun(c) \/ LockThrows(c) \/ CommitLock(c) \/ BeginUndo(c)
           \/ EnterUndoHandler(c) \/ HandlerReverts(c) \/ UndoReturns(c)
           \/ CommitUndo(c) \/ UndoThrows(c)
  BY <1>5, <1>7, Literals
     DEF LockActionRun, LockThrows, CommitLock, BeginUndo, EnterUndoHandler,
         HandlerReverts, UndoReturns, CommitUndo, UndoThrows,
         UpdateStatusInTransaction, Commit, Rollback, session, EndStage, UndoStage
<1>8. CASE ReportConflict(c) \/ Lose(c)
  BY <1>5, <1>8, Literals
     DEF ReportConflict, Lose, LoseConnection, LoseCommitAnswer, Commit, Rollback,
         session, EndStage
<1> QED
  BY <1>1, <1>2, <1>3, <1>4, <1>6, <1>7, <1>8 DEF Advance

LEMMA HandlerType ==
  ASSUME TypeOK, FlushIsPending, NEW c \in Calls,
         \/ HandlerRecords(c) \/ HandlerApplies(c) \/ DeferConflict(c)
         \/ EnterUndoHandler(c) \/ HandlerReverts(c)
         \/ FlushConflict(c) \/ ReportConflict(c)
  PROVE  TypeOK'
<1> USE Literals DEF EndStage, ExecuteStage, UndoStage
<1>1. pending[c] \in Writes
  BY DEF TypeOK
<1>2. CASE HandlerRecords(c)
  <2>1. [pending[c] EXCEPT !.snapshot = TRUE] \in Writes
    BY <1>1 DEF Writes
  <2>2. ASSUME NEW effect \in Effects
        PROVE  [pending[c] EXCEPT !.sideEffects = @ \cup {effect}] \in Writes
    BY <1>1 DEF Writes
  <2>3. pending' \in [Calls -> Writes]
    BY <1>2, <2>1, <2>2 DEF HandlerRecords, TypeOK
  <2> QED
    BY <1>2, <2>3 DEF HandlerRecords, TypeOK, tables, session
<1>3. CASE HandlerApplies(c) \/ HandlerReverts(c)
  <2>1. ASSUME NEW change \in {"applied", "reverted"}
        PROVE  [pending[c] EXCEPT !.product = change] \in Writes
    BY <1>1 DEF Writes, Change
  <2>2. pending' \in [Calls -> Writes]
    BY <1>3, <2>1 DEF HandlerApplies, HandlerReverts, TypeOK
  <2>3. stage' \in [Calls -> Stage]
    BY <1>3 DEF HandlerApplies, HandlerReverts, Goto, TypeOK
  <2> QED
    BY <1>3, <2>2, <2>3 DEF HandlerApplies, HandlerReverts, TypeOK, tables, session
<1>4. CASE DeferConflict(c)
  BY <1>4 DEF DeferConflict, TypeOK, tables
<1>5. CASE EnterUndoHandler(c)
  BY <1>5 DEF EnterUndoHandler, Goto, TypeOK, tables, session
<1>6. CASE FlushConflict(c) \/ ReportConflict(c)
  <2>1. stage' \in [Calls -> Stage]
    BY <1>6 DEF FlushConflict, ReportConflict, Goto, TypeOK
  <2>2. conflicts' \subseteq Conflict
    <3> PICK id \in runId[c] : InsertConflict(c, id)
      BY <1>6 DEF FlushConflict, ReportConflict
    <3>1. [actionRunId |-> id, recordedBy |-> c, number |-> deferred[c]] \in Conflict
      BY DEF Conflict, TypeOK, Optional
    <3> QED
      BY <3>1 DEF InsertConflict, TypeOK
  <2>3. deferred' \in [Calls -> Nat]
    BY <1>6 DEF FlushConflict, ReportConflict, FlushIsPending, TypeOK, session
  <2> QED
    BY <1>6, <2>1, <2>2, <2>3 DEF FlushConflict, ReportConflict, TypeOK, tables, session
<1> QED
  BY <1>2, <1>3, <1>4, <1>5, <1>6

(* The rows, the locks and the open transactions have the types of the     *)
(* schema and of ActionRun, in every interleaving.                         *)
THEOREM TypeCorrect == Spec => []TypeOK
<1> DEFINE Inv == TypeOK /\ FlushIsPending
<1>1. Init => Inv
  BY TypeInit DEF Init, FlushIsPending
<1>2. Inv /\ [Next]_vars => Inv'
  <2> SUFFICES ASSUME Inv, [Next]_vars PROVE Inv'
    OBVIOUS
  <2>1. CASE UNCHANGED vars
    BY <2>1 DEF vars, tables, session, TypeOK, FlushIsPending
  <2>2. CASE Tick
    BY <2>2 DEF Tick, TypeOK, FlushIsPending, tables
  <2>3. ASSUME NEW c \in Calls, Request(c) \/ Advance(c) \/ Lose(c)
        PROVE  Inv'
    BY <2>3, RequestType, ClaimType, TransactionType, HandlerType, FlushStaysPending
       DEF Advance
  <2> QED
    BY <2>1, <2>2, <2>3 DEF Next
<1> QED
  BY <1>1, <1>2, PTL DEF Spec

-----------------------------------------------------------------------------
(* Audit rows and product.                                                 *)
(*                                                                         *)
(* IInv is what makes it work: an execution owns the "created" row it      *)
(* inserted, an undo owns the "undo_running" row it committed, a call      *)
(* about to commit that status holds the row's lock, and the open          *)
(* transaction of a call holds what its stage says.  The parts of IInv     *)
(* about rows (RowInv) and about open transactions (TransactionInv) are    *)
(* kept by each kind of step: one that touches no committed row, a COMMIT, *)
(* a single UPDATE, and the insertion of a run.                            *)

RowInv ==
  /\ RunsExist
  /\ ExecutorsOwn
  /\ UndoersOwn
  /\ AuditMatchesProduct
  /\ AcknowledgedIsKept
  /\ RecordsFollowCompletion

TransactionInv == LockersHold /\ PendingMatchesStage

Unclaimed == {"idle", "claim", "select_existing"}

(* A move of one call between stages that claim nothing new about its row. *)
Harmless(from, to) ==
  /\ to \in MarkingExecute => from \in MarkingExecute
  /\ to \in MarkingUndo => from \in MarkingUndo
  /\ to \in Unclaimed => from \in Unclaimed
  /\ to \in {"undo_failed", "flush"} => from = "flush"
  /\ to \notin {"completed", "undone", "failed"}

LEMMA QuietStep ==
  ASSUME TypeOK, RowInv, NEW c \in Calls, NEW to \in Stage,
         UNCHANGED tables, UNCHANGED runId, Goto(c, to), Harmless(stage[c], to)
  PROVE  RowInv'
<1> USE DEF TypeOK, RowInv, tables, Goto, Harmless
<1>1. RunsExist'
  BY DEF RunsExist, Unclaimed
<1>2. ExecutorsOwn'
  BY DEF ExecutorsOwn
<1>3. UndoersOwn'
  BY DEF UndoersOwn
<1>4. AuditMatchesProduct'
  BY DEF AuditMatchesProduct
<1>5. AcknowledgedIsKept'
  BY DEF AcknowledgedIsKept
<1>6. RecordsFollowCompletion'
  BY DEF RecordsFollowCompletion
<1> QED
  BY <1>1, <1>2, <1>3, <1>4, <1>5, <1>6

(* ROLLBACK ends in a stage without a transaction. *)
LEMMA RollbackTransaction ==
  ASSUME TypeOK, TransactionInv, NEW c \in Calls,
         NEW to \in Stage \ {"executing", "executed", "commit_execute",
                             "commit_lock", "reverted", "commit_undo"},
         Rollback(c, to), UNCHANGED runId
  PROVE  TransactionInv'
<1> USE DEF TypeOK, TransactionInv, Rollback, Goto, tables
<1>1. LockersHold'
  <2> SUFFICES ASSUME NEW d \in Calls, NEW id \in runId[d], stage'[d] = "commit_lock"
               PROVE  rowLock'[id] = {d} /\ runs'[id].status = "completed"
    BY DEF LockersHold
  <2>1. d # c /\ stage[d] = "commit_lock"
    OBVIOUS
  <2>2. rowLock[id] = {d} /\ runs[id].status = "completed" /\ id \in Calls
    BY <2>1 DEF LockersHold, Optional
  <2>3. rowLock'[id] = rowLock[id] \ {c}
    BY <2>2 DEF Unlocked
  <2> QED
    BY <2>1, <2>2, <2>3
<1>2. PendingMatchesStage'
  BY DEF PendingMatchesStage
<1> QED
  BY <1>1, <1>2

(* A statement inside a transaction waits for the row, so it takes no lock *)
(* from a call between its check and its COMMIT.                           *)
LEMMA UpdateInTransaction ==
  ASSUME TypeOK, TransactionInv, NEW c \in Calls, NEW to \in Stage, NEW status,
         UpdateStatusInTransaction(c, status, to), UNCHANGED runId,
         to = "commit_lock" => \A id \in runId[c] : runs[id].status = "completed"
  PROVE  LockersHold'
<1> USE DEF TypeOK, TransactionInv, Goto, tables
<1> SUFFICES ASSUME NEW d \in Calls, NEW id \in runId[d], stage'[d] = "commit_lock"
             PROVE  rowLock'[id] = {d} /\ runs'[id].status = "completed"
  BY DEF LockersHold, UpdateStatusInTransaction
<1> PICK held \in runId[c] :
      /\ CanLock(c, held)
      /\ rowLock' = [rowLock EXCEPT ![held] = {c}]
  BY DEF UpdateStatusInTransaction
<1>1. held \in Calls /\ id \in Calls
  BY DEF Optional
<1>2. CASE d = c
  <2>1. held = id
    BY <1>2 DEF Optional
  <2> QED
    BY <1>1, <1>2, <2>1 DEF UpdateStatusInTransaction
<1>3. CASE d # c
  <2>1. stage[d] = "commit_lock"
    BY <1>3 DEF UpdateStatusInTransaction
  <2>2. rowLock[id] = {d} /\ runs[id].status = "completed"
    BY <2>1 DEF LockersHold
  <2>3. held # id
    BY <1>3, <2>2 DEF CanLock
  <2> QED
    BY <1>1, <2>2, <2>3 DEF UpdateStatusInTransaction
<1> QED
  BY <1>2, <1>3

(* The steps of one call that write no committed row. *)
Quiet(c) ==
  \/ BeginExecute(c) \/ HandlerRecords(c) \/ HandlerApplies(c) \/ ExecuteReturns(c)
  \/ ExecuteThrows(c) \/ LockActionRun(c) \/ LockThrows(c) \/ BeginUndo(c)
  \/ DeferConflict(c) \/ EnterUndoHandler(c) \/ HandlerReverts(c) \/ UndoReturns(c)
  \/ UndoThrows(c) \/ FlushConflict(c) \/ ReportConflict(c) \/ LoseConnection(c)
  \/ RejectRequest(c)

LEMMA QuietRows ==
  ASSUME TypeOK, RowInv, NEW c \in Calls, Quiet(c)
  PROVE  RowInv'
<1> USE Literals
<1> DEFINE Step(to) == /\ UNCHANGED tables /\ UNCHANGED runId /\ Goto(c, to)
                       /\ Harmless(stage[c], to)
<1>1. ASSUME NEW to \in Stage, Step(to)
      PROVE  RowInv'
  BY <1>1, QuietStep
<1> USE DEF Harmless, MarkingExecute, MarkingUndo, ExecuteStage, UndoStage, Unclaimed,
            EndStage, session
<1>2. CASE HandlerRecords(c) \/ DeferConflict(c)
  <2>1. Goto(c, stage[c]) /\ stage[c] \in Stage
    BY <1>2 DEF HandlerRecords, DeferConflict, Goto, TypeOK
  <2> QED
    BY <1>1, <1>2, <2>1 DEF HandlerRecords, DeferConflict
<1>3. CASE BeginExecute(c) \/ ExecuteReturns(c) \/ UndoReturns(c)
  BY <1>1, <1>3
     DEF BeginExecute, ExecuteReturns, UndoReturns, UpdateStatusInTransaction
<1>4. CASE HandlerApplies(c) \/ HandlerReverts(c) \/ EnterUndoHandler(c)
  BY <1>1, <1>4 DEF HandlerApplies, HandlerReverts, EnterUndoHandler
<1>5. CASE ExecuteThrows(c) \/ LockThrows(c) \/ UndoThrows(c)
  BY <1>1, <1>5 DEF ExecuteThrows, LockThrows, UndoThrows, Rollback
<1>6. CASE LockActionRun(c)
  BY <1>1, <1>6 DEF LockActionRun, UpdateStatusInTransaction, Rollback
<1>7. CASE BeginUndo(c)
  BY <1>1, <1>7 DEF BeginUndo, Rollback
<1>8. CASE FlushConflict(c) \/ ReportConflict(c) \/ RejectRequest(c)
  BY <1>1, <1>8 DEF FlushConflict, ReportConflict, RejectRequest
<1>9. CASE LoseConnection(c)
  BY <1>1, <1>9 DEF LoseConnection, Rollback
<1> QED
  BY <1>2, <1>3, <1>4, <1>5, <1>6, <1>7, <1>8, <1>9 DEF Quiet

LEMMA QuietTransactions ==
  ASSUME TypeOK, TransactionInv, NEW c \in Calls, Quiet(c)
  PROVE  TransactionInv'
<1> USE Literals
<1> USE DEF EndStage, ExecuteStage, UndoStage, session
<1> DEFINE Open == {"executing", "executed", "commit_execute", "commit_lock",
                    "reverted", "commit_undo"}
<1>1. CASE \/ ExecuteThrows(c) \/ LockThrows(c) \/ UndoThrows(c) \/ LoseConnection(c)
           \/ /\ LockActionRun(c) /\ Rollback(c, "rejected")
           \/ /\ BeginUndo(c) /\ Rollback(c, "mark_undo_failed")
  BY <1>1, RollbackTransaction
     DEF ExecuteThrows, LockThrows, UndoThrows, LoseConnection, LockActionRun, BeginUndo
<1>2. CASE \/ BeginExecute(c) \/ ExecuteReturns(c) \/ UndoReturns(c)
           \/ /\ LockActionRun(c)
              /\ UpdateStatusInTransaction(c, "undo_running", "commit_lock")
  <2>1. CASE BeginExecute(c) \/ ExecuteReturns(c) \/ UndoReturns(c)
    <3>1. LockersHold'
      BY <2>1, UpdateInTransaction DEF BeginExecute, ExecuteReturns, UndoReturns
    <3>2. PendingMatchesStage'
      BY <2>1 DEF BeginExecute, ExecuteReturns, UndoReturns, UpdateStatusInTransaction,
                  Goto, TypeOK, Writes, TransactionInv, PendingMatchesStage
    <3> QED
      BY <3>1, <3>2 DEF TransactionInv
  <2>2. CASE /\ LockActionRun(c)
             /\ UpdateStatusInTransaction(c, "undo_running", "commit_lock")
    <3>1. \A id \in runId[c] : runs[id].status = "completed"
      BY <2>2 DEF LockActionRun, CanBeUndone, Rollback, UpdateStatusInTransaction, Goto, TypeOK, Optional
    <3>2. LockersHold'
      BY <2>2, <3>1, UpdateInTransaction DEF LockActionRun
    <3>3. PendingMatchesStage'
      BY <2>2 DEF LockActionRun, UpdateStatusInTransaction, Goto, TypeOK, Writes,
                  NoWrites, TransactionInv, PendingMatchesStage
    <3> QED
      BY <3>2, <3>3 DEF TransactionInv
  <2> QED
    BY <1>2, <2>1, <2>2
<1>3. CASE HandlerRecords(c)
  <2>1. LockersHold'
    BY <1>3 DEF HandlerRecords, tables, TransactionInv, LockersHold
  <2>2. PendingMatchesStage'
    BY <1>3 DEF HandlerRecords, TypeOK, Writes, TransactionInv, PendingMatchesStage
  <2> QED
    BY <2>1, <2>2 DEF TransactionInv
<1>4. CASE HandlerApplies(c) \/ HandlerReverts(c)
  <2>1. LockersHold'
    BY <1>4 DEF HandlerApplies, HandlerReverts, Goto, TypeOK, tables, TransactionInv,
                LockersHold
  <2>2. PendingMatchesStage'
    BY <1>4 DEF HandlerApplies, HandlerReverts, Goto, TypeOK, Writes, TransactionInv,
                PendingMatchesStage
  <2> QED
    BY <2>1, <2>2 DEF TransactionInv
<1>5. CASE \/ BeginUndo(c) /\ ~ Rollback(c, "mark_undo_failed")
           \/ DeferConflict(c) \/ EnterUndoHandler(c) \/ FlushConflict(c)
           \/ ReportConflict(c) \/ RejectRequest(c)
  <2>1. /\ UNCHANGED <<tables, rowLock, pending, runId>>
        /\ \E to \in Stage \ Open : stage' = [stage EXCEPT ![c] = to]
        /\ stage[c] \notin Open
    BY <1>5 DEF BeginUndo, DeferConflict, EnterUndoHandler, FlushConflict,
                ReportConflict, RejectRequest, Goto, TypeOK
  <2>2. LockersHold'
    BY <2>1 DEF tables, TransactionInv, LockersHold, TypeOK
  <2>3. PendingMatchesStage'
    BY <2>1 DEF TransactionInv, PendingMatchesStage, TypeOK
  <2> QED
    BY <2>2, <2>3 DEF TransactionInv
<1> QED
  BY <1>1, <1>2, <1>3, <1>4, <1>5 DEF Quiet, LockActionRun

(* COMMIT ends a transaction, and settles one row. *)
LEMMA CommitTransaction ==
  ASSUME TypeOK, RunsExist, TransactionInv, NEW c \in Calls,
         NEW to \in {"completed", "undo", "undone", "lost"}, Commit(c, to),
         UNCHANGED runId,
         \A d \in Calls \ {c} : \A id \in runId[c] :
           id \in runId[d] => stage[d] # "commit_lock"
  PROVE  TransactionInv'
<1> USE DEF TypeOK, TransactionInv, Commit, Goto
<1>1. LockersHold'
  <2> SUFFICES ASSUME NEW d \in Calls, NEW id \in runId[d], stage'[d] = "commit_lock"
               PROVE  rowLock'[id] = {d} /\ runs'[id].status = "completed"
    BY DEF LockersHold
  <2>1. d # c /\ stage[d] = "commit_lock"
    OBVIOUS
  <2>2. rowLock[id] = {d} /\ runs[id].status = "completed" /\ id \in Calls
    BY <2>1 DEF LockersHold, Optional
  <2>3. rowLock'[id] = {d}
    BY <2>1, <2>2 DEF Unlocked
  <2>4. id \notin runId[c]
    BY <2>1
  <2>5. runs'[id] = runs[id]
    BY <2>4 DEF RunsExist
  <2> QED
    BY <2>2, <2>3, <2>5
<1>2. PendingMatchesStage'
  BY DEF PendingMatchesStage
<1> QED
  BY <1>1, <1>2

LEMMA CommitExecution ==
  ASSUME TypeOK, RowInv, TransactionInv, NEW c \in Calls,
         stage[c] = "commit_execute", NEW to \in {"completed", "lost"}, Commit(c, to),
         UNCHANGED runId
  PROVE  RowInv' /\ TransactionInv'
<1> USE DEF RowInv, MarkingExecute, MarkingUndo, ExecuteStage, UndoStage
<1>1. /\ runId[c] = {c} /\ c \in DOMAIN runs
      /\ runs[c].status = "created" /\ product[c] = "untouched"
  BY DEF ExecutorsOwn, RunsExist, AuditMatchesProduct
<1>2. pending[c].status = "completed" /\ pending[c].product = "applied"
  BY DEF TransactionInv, PendingMatchesStage
<1>3. /\ runs' = [runs EXCEPT ![c].status = "completed"]
      /\ product' = [product EXCEPT ![c] = "applied"]
      /\ stage' = [stage EXCEPT ![c] = to]
  BY <1>1, <1>2 DEF Commit, Overlay, Goto
<1>4. /\ \A id \in Calls \ {c} : id \in snapshots' <=> id \in snapshots
      /\ \A id \in Calls \ {c} : sideEffects'[id] = sideEffects[id]
  BY <1>1 DEF Commit, TypeOK
<1>5. /\ DOMAIN runs' = DOMAIN runs /\ runs'[c].status = "completed"
      /\ \A id \in DOMAIN runs : runs'[id].request = runs[id].request
      /\ \A id \in DOMAIN runs \ {c} : runs'[id] = runs[id]
  BY <1>1, <1>3 DEF TypeOK, ActionRun
<1> USE DEF TypeOK
<1>6. RunsExist'
  BY <1>1, <1>3, <1>4, <1>5 DEF RunsExist
<1>7. ExecutorsOwn'
  BY <1>1, <1>3, <1>5 DEF ExecutorsOwn, RunsExist
<1>8. UndoersOwn'
  BY <1>1, <1>3, <1>5 DEF UndoersOwn, RunsExist
<1>9. AuditMatchesProduct'
  BY <1>1, <1>3, <1>5 DEF AuditMatchesProduct
<1>10. AcknowledgedIsKept'
  BY <1>1, <1>3, <1>5 DEF AcknowledgedIsKept, RunsExist
<1>11. RecordsFollowCompletion'
  BY <1>1, <1>4, <1>5 DEF RecordsFollowCompletion
<1>12. TransactionInv'
  BY <1>1, CommitTransaction DEF TransactionInv, LockersHold
<1> QED
  BY <1>6, <1>7, <1>8, <1>9, <1>10, <1>11, <1>12

LEMMA CommitUndoLock ==
  ASSUME TypeOK, RowInv, TransactionInv, NEW c \in Calls,
         stage[c] = "commit_lock", NEW to \in {"undo", "lost"}, Commit(c, to),
         UNCHANGED runId
  PROVE  RowInv' /\ TransactionInv'
<1> USE DEF RowInv, MarkingExecute, MarkingUndo, ExecuteStage, UndoStage
<1> PICK id \in runId[c] :
      /\ runs' = [runs EXCEPT ![id].status = Overlay(@, pending[c].status)]
      /\ snapshots' = IF pending[c].snapshot THEN snapshots \cup {id} ELSE snapshots
      /\ sideEffects' = [sideEffects EXCEPT ![id] = @ \cup pending[c].sideEffects]
      /\ product' = [product EXCEPT ![id] = Overlay(@, pending[c].product)]
  BY DEF Commit
<1>1. /\ runId[c] = {id} /\ id \in DOMAIN runs /\ id \in Calls
      /\ runs[id].status = "completed" /\ rowLock[id] = {c}
  BY DEF TypeOK, Optional, RunsExist, TransactionInv, LockersHold
<1>2. pending[c].status = "undo_running" /\ pending[c].product = "unchanged"
  BY DEF TransactionInv, PendingMatchesStage
<1>3. /\ runs' = [runs EXCEPT ![id].status = "undo_running"]
      /\ product' = product
      /\ stage' = [stage EXCEPT ![c] = to]
  BY <1>1, <1>2 DEF Commit, Overlay, Goto, TypeOK
<1>4. /\ \A other \in Calls \ {id} : other \in snapshots' <=> other \in snapshots
      /\ \A other \in Calls \ {id} : sideEffects'[other] = sideEffects[other]
  BY <1>1 DEF TypeOK
<1>5. /\ DOMAIN runs' = DOMAIN runs /\ runs'[id].status = "undo_running"
      /\ \A other \in DOMAIN runs : runs'[other].request = runs[other].request
      /\ \A other \in DOMAIN runs \ {id} : runs'[other] = runs[other]
  BY <1>1, <1>3 DEF TypeOK, ActionRun
<1> USE DEF TypeOK
<1>6. RunsExist'
  BY <1>1, <1>3, <1>4, <1>5 DEF RunsExist, Unclaimed
<1>7. ExecutorsOwn'
  BY <1>1, <1>3, <1>5 DEF ExecutorsOwn, RunsExist
<1>8. UndoersOwn'
  <2> SUFFICES ASSUME NEW d \in Calls, NEW other \in runId[d],
                      stage'[d] \in MarkingUndo
               PROVE  /\ runs'[other].status = "undo_running"
                      /\ \A e \in Calls :
                           stage'[e] \in MarkingUndo /\ other \in runId[e] => d = e
    BY DEF UndoersOwn
  <2>1. \A e \in Calls : id \in runId[e] => stage[e] \notin MarkingUndo
    BY <1>1 DEF UndoersOwn
  <2>2. CASE other = id
    BY <1>3, <1>5, <2>1, <2>2
  <2>3. CASE other # id
    <3>1. d # c /\ other \in DOMAIN runs
      BY <1>1, <2>3 DEF RunsExist
    <3>2. stage[d] \in MarkingUndo /\ runs'[other] = runs[other]
      BY <1>3, <1>5, <2>3, <3>1
    <3>3. \A e \in Calls : other \in runId[e] => e # c
      BY <1>1, <2>3
    <3> QED
      BY <1>3, <3>2, <3>3 DEF UndoersOwn
  <2> QED
    BY <2>2, <2>3
<1>9. AuditMatchesProduct'
  BY <1>1, <1>3, <1>5 DEF AuditMatchesProduct
<1>10. AcknowledgedIsKept'
  <2> SUFFICES ASSUME NEW d \in Calls, NEW other \in runId[d]
               PROVE  /\ stage'[d] = "completed" => runs'[other].status \in
                           {"completed", "undo_running", "undone", "undo_failed"}
                      /\ stage'[d] = "undone" => runs'[other].status = "undone"
                      /\ stage'[d] = "failed" => runs'[other].status = "failed"
                      /\ stage'[d] \in {"undo_failed", "flush"} =>
                           runs'[other].status = "undo_failed"
    BY DEF AcknowledgedIsKept
  <2>1. other \in DOMAIN runs
    BY DEF RunsExist
  <2>2. CASE other # id
    BY <1>1, <1>3, <1>5, <2>1, <2>2 DEF AcknowledgedIsKept
  <2>3. CASE other = id
    BY <1>1, <1>3, <1>5, <2>3 DEF AcknowledgedIsKept
  <2> QED
    BY <2>2, <2>3
<1>11. RecordsFollowCompletion'
  BY <1>1, <1>4, <1>5 DEF RecordsFollowCompletion
<1>12. TransactionInv'
  <2>1. ASSUME NEW d \in Calls \ {c}, id \in runId[d], stage[d] = "commit_lock"
        PROVE  FALSE
    <3>1. rowLock[id] = {d}
      BY <2>1 DEF TransactionInv, LockersHold
    <3> QED
      BY <1>1, <2>1, <3>1
  <2> QED
    BY <1>1, <2>1, CommitTransaction
<1> QED
  BY <1>6, <1>7, <1>8, <1>9, <1>10, <1>11, <1>12

LEMMA CommitReversal ==
  ASSUME TypeOK, RowInv, TransactionInv, NEW c \in Calls,
         stage[c] = "commit_undo", NEW to \in {"undone", "lost"}, Commit(c, to),
         UNCHANGED runId
  PROVE  RowInv' /\ TransactionInv'
<1> USE DEF RowInv, MarkingExecute, MarkingUndo, ExecuteStage, UndoStage
<1> PICK id \in runId[c] :
      /\ runs' = [runs EXCEPT ![id].status = Overlay(@, pending[c].status)]
      /\ snapshots' = IF pending[c].snapshot THEN snapshots \cup {id} ELSE snapshots
      /\ sideEffects' = [sideEffects EXCEPT ![id] = @ \cup pending[c].sideEffects]
      /\ product' = [product EXCEPT ![id] = Overlay(@, pending[c].product)]
  BY DEF Commit
<1>1. /\ runId[c] = {id} /\ id \in DOMAIN runs /\ id \in Calls
      /\ runs[id].status = "undo_running"
      /\ \A d \in Calls : stage[d] \in MarkingUndo /\ id \in runId[d] => c = d
  BY DEF TypeOK, Optional, RunsExist, UndoersOwn
<1>2. pending[c].status = "undone" /\ pending[c].product = "reverted"
  BY DEF TransactionInv, PendingMatchesStage
<1>3. /\ runs' = [runs EXCEPT ![id].status = "undone"]
      /\ product' = [product EXCEPT ![id] = "reverted"]
      /\ stage' = [stage EXCEPT ![c] = to]
  BY <1>1, <1>2 DEF Commit, Overlay, Goto
<1>4. /\ \A other \in Calls \ {id} : other \in snapshots' <=> other \in snapshots
      /\ \A other \in Calls \ {id} : sideEffects'[other] = sideEffects[other]
  BY <1>1 DEF TypeOK
<1>5. /\ DOMAIN runs' = DOMAIN runs /\ runs'[id].status = "undone"
      /\ \A other \in DOMAIN runs : runs'[other].request = runs[other].request
      /\ \A other \in DOMAIN runs \ {id} : runs'[other] = runs[other]
  BY <1>1, <1>3 DEF TypeOK, ActionRun
<1> USE DEF TypeOK
<1>6. RunsExist'
  BY <1>1, <1>3, <1>4, <1>5 DEF RunsExist, Unclaimed
<1>7. ExecutorsOwn'
  BY <1>1, <1>3, <1>5 DEF ExecutorsOwn, RunsExist
<1>8. UndoersOwn'
  BY <1>1, <1>3, <1>5 DEF UndoersOwn, RunsExist
<1>9. AuditMatchesProduct'
  BY <1>1, <1>3, <1>5 DEF AuditMatchesProduct
<1>10. AcknowledgedIsKept'
  <2> SUFFICES ASSUME NEW d \in Calls, NEW other \in runId[d]
               PROVE  /\ stage'[d] = "completed" => runs'[other].status \in
                           {"completed", "undo_running", "undone", "undo_failed"}
                      /\ stage'[d] = "undone" => runs'[other].status = "undone"
                      /\ stage'[d] = "failed" => runs'[other].status = "failed"
                      /\ stage'[d] \in {"undo_failed", "flush"} =>
                           runs'[other].status = "undo_failed"
    BY DEF AcknowledgedIsKept
  <2>1. other \in DOMAIN runs
    BY DEF RunsExist
  <2>2. CASE other # id
    BY <1>1, <1>3, <1>5, <2>1, <2>2 DEF AcknowledgedIsKept
  <2>3. CASE other = id
    BY <1>1, <1>3, <1>5, <2>3 DEF AcknowledgedIsKept
  <2> QED
    BY <2>2, <2>3
<1>11. RecordsFollowCompletion'
  BY <1>1, <1>4, <1>5 DEF RecordsFollowCompletion
<1>12. TransactionInv'
  BY <1>1, CommitTransaction DEF TransactionInv, LockersHold
<1> QED
  BY <1>6, <1>7, <1>8, <1>9, <1>10, <1>11, <1>12

(* The one UPDATE that marks a failed execution or a failed undo. *)
LEMMA MarkRow ==
  ASSUME TypeOK, RowInv, TransactionInv, NEW c \in Calls, NEW to \in Stage,
         NEW status,
         \/ stage[c] = "mark_failed" /\ status = "failed" /\ to = "failed"
         \/ /\ stage[c] = "mark_undo_failed" /\ status = "undo_failed"
            /\ to \in {"undo_failed", "flush"},
         UpdateStatus(c, status, to), UNCHANGED runId
  PROVE  RowInv' /\ TransactionInv'
<1> USE DEF RowInv, MarkingExecute, MarkingUndo, ExecuteStage, UndoStage
<1> PICK id \in runId[c] : runs' = [runs EXCEPT ![id].status = status]
  BY DEF UpdateStatus
<1>1. /\ runId[c] = {id} /\ id \in DOMAIN runs /\ id \in Calls
      /\ stage[c] = "mark_failed" => id = c /\ runs[id].status = "created"
      /\ stage[c] = "mark_undo_failed" =>
           /\ runs[id].status = "undo_running"
           /\ \A d \in Calls : stage[d] \in MarkingUndo /\ id \in runId[d] => c = d
  BY DEF TypeOK, Optional, RunsExist, ExecutorsOwn, UndoersOwn
<1>2. /\ DOMAIN runs' = DOMAIN runs /\ runs'[id].status = status
      /\ \A other \in DOMAIN runs : runs'[other].request = runs[other].request
      /\ \A other \in DOMAIN runs \ {id} : runs'[other] = runs[other]
  BY <1>1 DEF TypeOK, ActionRun
<1>3. /\ stage' = [stage EXCEPT ![c] = to]
      /\ UNCHANGED <<snapshots, sideEffects, product, rowLock, pending>>
  BY DEF UpdateStatus, Goto
<1> USE DEF TypeOK
<1>6. RunsExist'
  BY <1>1, <1>2, <1>3 DEF RunsExist
<1>7. ExecutorsOwn'
  BY <1>1, <1>2, <1>3 DEF ExecutorsOwn, RunsExist
<1>8. UndoersOwn'
  BY <1>1, <1>2, <1>3 DEF UndoersOwn, RunsExist
<1>9. AuditMatchesProduct'
  BY <1>1, <1>2, <1>3 DEF AuditMatchesProduct
<1>10. AcknowledgedIsKept'
  BY <1>1, <1>2, <1>3 DEF AcknowledgedIsKept, RunsExist
<1>11. RecordsFollowCompletion'
  BY <1>1, <1>2, <1>3 DEF RecordsFollowCompletion
<1>12. TransactionInv'
  BY <1>1, <1>2, <1>3
     DEF TransactionInv, LockersHold, PendingMatchesStage, RunsExist
<1> QED
  BY <1>6, <1>7, <1>8, <1>9, <1>10, <1>11, <1>12

(* A run is created by the insertion of its claim; the other requests only *)
(* choose a run that exists.                                               *)
LEMMA InsertRow ==
  ASSUME TypeOK, RowInv, TransactionInv, NEW c \in Calls, InsertActionRun(c)
  PROVE  RowInv' /\ TransactionInv'
<1> USE DEF RowInv, TypeOK
<1> PICK input \in request[c] :
      /\ stage[c] = "claim"
      /\ IF Claimed(input) = {}
         THEN /\ runs' = [id \in DOMAIN runs \cup {c} |->
                            IF id = c THEN [request |-> input, status |-> "created"]
                                      ELSE runs[id]]
              /\ runId' = [runId EXCEPT ![c] = {c}]
              /\ request' = [request EXCEPT ![c] = {}]
              /\ Goto(c, "execute")
         ELSE /\ Goto(c, "select_existing")
              /\ UNCHANGED <<runs, runId, request>>
  BY DEF InsertActionRun
<1>0. UNCHANGED <<snapshots, sideEffects, product, rowLock, pending>>
  BY DEF InsertActionRun
<1>1. CASE Claimed(input) # {}
  <2>1. RowInv'
    BY <1>0, <1>1, QuietStep, Literals
       DEF tables, Harmless, MarkingExecute, MarkingUndo, ExecuteStage, UndoStage,
           Unclaimed
  <2>2. TransactionInv'
    BY <1>0, <1>1 DEF TransactionInv, LockersHold, PendingMatchesStage, Goto
  <2> QED
    BY <2>1, <2>2
<1>2. CASE Claimed(input) = {}
  <2>1. /\ c \notin DOMAIN runs
        /\ product[c] = "untouched" /\ c \notin snapshots /\ sideEffects[c] = {}
    BY DEF RunsExist
  <2>2. /\ DOMAIN runs' = DOMAIN runs \cup {c}
        /\ runs'[c] = [request |-> input, status |-> "created"]
        /\ \A id \in DOMAIN runs : runs'[id] = runs[id]
        /\ runId' = [runId EXCEPT ![c] = {c}]
        /\ stage' = [stage EXCEPT ![c] = "execute"]
    BY <1>2, <2>1 DEF Goto
  <2>3. \A d \in Calls : c \notin runId[d]
    BY <2>1 DEF RunsExist
  <2> USE DEF MarkingExecute, MarkingUndo, ExecuteStage, UndoStage
  <2>4. RunsExist'
    BY <1>0, <2>1, <2>2 DEF RunsExist
  <2>5. ExecutorsOwn'
    BY <2>2, <2>3 DEF ExecutorsOwn, RunsExist
  <2>6. UndoersOwn'
    BY <2>2, <2>3 DEF UndoersOwn, RunsExist
  <2>7. AuditMatchesProduct'
    BY <1>0, <2>1, <2>2 DEF AuditMatchesProduct
  <2>8. AcknowledgedIsKept'
    BY <2>2, <2>3 DEF AcknowledgedIsKept, RunsExist
  <2>9. RecordsFollowCompletion'
    BY <1>0, <2>1, <2>2 DEF RecordsFollowCompletion
  <2>10. TransactionInv'
    BY <1>0, <2>1, <2>2, <2>3 DEF TransactionInv, LockersHold, PendingMatchesStage, RunsExist
  <2> QED
    BY <2>4, <2>5, <2>6, <2>7, <2>8, <2>9, <2>10
<1> QED
  BY <1>1, <1>2

LEMMA ChooseRow ==
  ASSUME TypeOK, RowInv, TransactionInv, NEW c \in Calls,
         \/ RequestExecute(c) \/ RequestUndo(c) \/ RequestReport(c)
         \/ SelectExistingRun(c)
  PROVE  RowInv' /\ TransactionInv'
<1> USE DEF RowInv, TypeOK
<1>1. PICK to \in {"claim", "lock", "report", "existing", "rejected"} :
        /\ stage' = [stage EXCEPT ![c] = to]
        /\ to = "claim" => runId' = runId
  BY DEF RequestExecute, RequestUndo, RequestReport, SelectExistingRun, Goto
<1>2. /\ UNCHANGED <<runs, snapshots, sideEffects, product, rowLock, pending>>
      /\ stage[c] \in {"idle", "select_existing"}
  BY DEF RequestExecute, RequestUndo, RequestReport, SelectExistingRun, tables
<1>3. \A d \in Calls \ {c} : runId'[d] = runId[d] /\ stage'[d] = stage[d]
  BY <1>1 DEF RequestExecute, RequestUndo, RequestReport, SelectExistingRun
<1>4. runId'[c] \subseteq DOMAIN runs
  BY DEF RequestExecute, RequestUndo, RequestReport, SelectExistingRun, Claimed, RunsExist
<1> USE DEF MarkingExecute, MarkingUndo, ExecuteStage, UndoStage
<1>5. RunsExist'
  BY <1>1, <1>2, <1>3, <1>4 DEF RunsExist
<1>6. ExecutorsOwn'
  BY <1>1, <1>2, <1>3 DEF ExecutorsOwn
<1>7. UndoersOwn'
  BY <1>1, <1>2, <1>3 DEF UndoersOwn
<1>8. AuditMatchesProduct'
  BY <1>2 DEF AuditMatchesProduct
<1>9. AcknowledgedIsKept'
  BY <1>1, <1>2, <1>3 DEF AcknowledgedIsKept
<1>10. RecordsFollowCompletion'
  BY <1>2 DEF RecordsFollowCompletion
<1>11. TransactionInv'
  BY <1>1, <1>2, <1>3 DEF TransactionInv, LockersHold, PendingMatchesStage
<1> QED
  BY <1>5, <1>6, <1>7, <1>8, <1>9, <1>10, <1>11

LEMMA InvInit == Init => RowInv /\ TransactionInv
BY DEF Init, RowInv, TransactionInv, RunsExist, ExecutorsOwn, UndoersOwn, LockersHold,
       PendingMatchesStage, AuditMatchesProduct, AcknowledgedIsKept,
       RecordsFollowCompletion, MarkingExecute, MarkingUndo,
       ExecuteStage, UndoStage

LEMMA InvStep ==
  ASSUME TypeOK, RowInv, TransactionInv, [Next]_vars
  PROVE  RowInv' /\ TransactionInv'
<1>1. CASE UNCHANGED vars \/ Tick
  BY <1>1 DEF vars, tables, session, Tick, RowInv, TransactionInv, RunsExist,
              ExecutorsOwn, UndoersOwn, LockersHold, PendingMatchesStage,
              AuditMatchesProduct, AcknowledgedIsKept, RecordsFollowCompletion
<1>2. ASSUME NEW c \in Calls, Request(c) \/ Advance(c) \/ Lose(c)
      PROVE  RowInv' /\ TransactionInv'
  <2>1. CASE Quiet(c)
    BY <2>1, QuietRows, QuietTransactions
  <2>2. CASE InsertActionRun(c)
    BY <2>2, InsertRow
  <2>3. CASE RequestExecute(c) \/ RequestUndo(c) \/ RequestReport(c) \/ SelectExistingRun(c)
    BY <2>3, ChooseRow
  <2>4. CASE CommitExecute(c)
    BY <2>4, CommitExecution DEF CommitExecute, session
  <2>5. CASE CommitLock(c)
    BY <2>5, CommitUndoLock DEF CommitLock, session
  <2>6. CASE CommitUndo(c)
    BY <2>6, CommitReversal DEF CommitUndo, session
  <2>7. CASE MarkFailed(c) \/ MarkUndoFailed(c)
    BY <2>7, MarkRow, Literals DEF MarkFailed, MarkUndoFailed, session, EndStage
  <2>8. CASE LoseCommitAnswer(c)
    BY <2>8, CommitExecution, CommitUndoLock, CommitReversal DEF LoseCommitAnswer
  <2>9. CASE Request(c)
    BY <2>1, <2>3, <2>9 DEF Request, Quiet
  <2>10. CASE Lose(c)
    BY <2>1, <2>8, <2>10 DEF Lose, Quiet
  <2>11. CASE Advance(c)
    <3>1. \/ Quiet(c) \/ InsertActionRun(c) \/ SelectExistingRun(c)
          \/ CommitExecute(c) \/ CommitLock(c) \/ CommitUndo(c)
          \/ MarkFailed(c) \/ MarkUndoFailed(c)
      BY <2>11 DEF Advance, Quiet
    <3> QED
      BY <3>1, <2>1, <2>2, <2>3, <2>4, <2>5, <2>6, <2>7
  <2> QED
    BY <1>2, <2>9, <2>10, <2>11
<1> QED
  BY <1>1, <1>2 DEF Next

LEMMA InvCorrect == Spec => [](TypeOK /\ RowInv /\ TransactionInv)
<1>1. TypeOK /\ RowInv /\ TransactionInv /\ [Next]_vars => RowInv' /\ TransactionInv'
  BY InvStep
<1> QED
  BY <1>1, InvInit, TypeCorrect, PTL DEF Spec

(* IInv is an invariant.                                                   *)
THEOREM StagesTellTheRows == Spec => []IInv
<1>1. TypeOK /\ RowInv /\ TransactionInv => IInv
  BY DEF IInv, RowInv, TransactionInv
<1> QED
  BY <1>1, InvCorrect, PTL

(* The audit row of a run tells what its handlers did to the product,      *)
(* through every interleaving, refused COMMIT and lost connection: the     *)
(* handler, the records and the status share one transaction.              *)
THEOREM ProductIsAudited == Spec => []AuditMatchesProduct
<1>1. IInv => AuditMatchesProduct
  BY DEF IInv
<1> QED
  BY <1>1, StagesTellTheRows, PTL

(* No call is told an outcome that the committed row ever contradicts.     *)
THEOREM OutcomesAreKept == Spec => []AcknowledgedIsKept
<1>1. IInv => AcknowledgedIsKept
  BY DEF IInv
<1> QED
  BY <1>1, StagesTellTheRows, PTL

(* A failed or unfinished execution leaves no snapshot and no side effect. *)
THEOREM FailureLeavesNothing == Spec => []RecordsFollowCompletion
<1>1. IInv => RecordsFollowCompletion
  BY DEF IInv
<1> QED
  BY <1>1, StagesTellTheRows, PTL

(* No two calls are ever about to settle one run, although statuses are    *)
(* updated by id alone: FOR UPDATE and the status it guards suffice.       *)
THEOREM OwnersAreUnique == Spec => []OneOwnerPerRun
<1>1. IInv => OneOwnerPerRun
  <2> SUFFICES ASSUME IInv, NEW id \in DOMAIN runs
               PROVE  /\ Executors(id) \subseteq {id}
                      /\ Executors(id) # {} => runs[id].status = "created"
                      /\ \A c, d \in Undoers(id) : c = d
                      /\ Undoers(id) # {} => runs[id].status = "undo_running"
    BY DEF OneOwnerPerRun
  <2>1. \A c \in Executors(id) : c = id /\ runs[id].status = "created"
    BY DEF Executors, CallsAt, IInv, ExecutorsOwn, MarkingExecute
  <2>2. \A c, d \in Undoers(id) : c = d /\ runs[id].status = "undo_running"
    BY DEF Undoers, CallsAt, IInv, UndoersOwn, MarkingUndo
  <2> QED
    BY <2>1, <2>2
<1> QED
  BY <1>1, StagesTellTheRows, PTL

-----------------------------------------------------------------------------
(* The refinement: a COMMIT and the two marks outside a transaction are    *)
(* the steps of the abstract audit trail, and every other statement is     *)
(* invisible to it.                                                        *)

IrreversibleIn(effects, id) ==
  \E effect \in effects[id] : effect.status = "completed" /\ ~effect.undoable

(* What the checks of an undo found stays true until its COMMIT, since no  *)
(* other transaction writes effects of a run that is being undone.         *)
EffectsOf(c) ==
  /\ stage[c] \in {"commit_lock", "reverted", "commit_undo"} =>
       pending[c].sideEffects = {}
  /\ \A id \in runId[c] :
       /\ stage[c] = "commit_lock" => runs[id].request.undoable
       /\ stage[c] \in {"checking", "undoing", "reverted", "commit_undo"} =>
            ~IrreversibleIn(sideEffects, id)

EffectsInv == \A c \in Calls : EffectsOf(c)

(* One row of the table goes to another status, and only its records grow. *)
StatusChange(id, status) ==
  /\ id \in DOMAIN runs /\ DOMAIN runs' = DOMAIN runs
  /\ runs'[id].status = status /\ runs'[id].request = runs[id].request
  /\ \A other \in DOMAIN runs \ {id} : runs'[other] = runs[other]
  /\ \A other \in Calls \ {id} : sideEffects'[other] = sideEffects[other]

-----------------------------------------------------------------------------
(* What the statements that change a committed row do to it. *)

LEMMA CallsHaveOneRun ==
  ASSUME IInv, NEW c \in Calls, NEW id \in runId[c]
  PROVE  id \in DOMAIN runs /\ id \in Calls /\ runId[c] = {id}
BY DEF IInv, TypeOK, RunsExist, Optional

LEMMA CommitSteps ==
  ASSUME IInv, NEW c \in Calls, NEW to, Commit(c, to),
         stage[c] \in {"commit_execute", "commit_lock", "commit_undo"}
  PROVE  \E id \in runId[c] :
           /\ StatusChange(id, pending[c].status)
           /\ sideEffects'[id] = sideEffects[id] \cup pending[c].sideEffects
<1> PICK id \in runId[c] :
      /\ runs' = [runs EXCEPT ![id].status = Overlay(@, pending[c].status)]
      /\ sideEffects' = [sideEffects EXCEPT ![id] = @ \cup pending[c].sideEffects]
  BY DEF Commit
<1>1. id \in DOMAIN runs /\ id \in Calls
  BY CallsHaveOneRun
<1>2. pending[c].status # "unchanged"
  BY DEF IInv, PendingMatchesStage
<1>3. runs' = [runs EXCEPT ![id].status = pending[c].status]
  BY <1>2 DEF Overlay
<1>4. /\ DOMAIN runs' = DOMAIN runs
      /\ runs'[id].status = pending[c].status /\ runs'[id].request = runs[id].request
      /\ \A other \in DOMAIN runs \ {id} : runs'[other] = runs[other]
  BY <1>1, <1>3 DEF IInv, TypeOK, ActionRun
<1>5. /\ sideEffects'[id] = sideEffects[id] \cup pending[c].sideEffects
      /\ \A other \in Calls \ {id} : sideEffects'[other] = sideEffects[other]
  BY <1>1 DEF IInv, TypeOK
<1> QED
  BY <1>1, <1>4, <1>5 DEF StatusChange

LEMMA MarkSteps ==
  ASSUME IInv, NEW c \in Calls, NEW status, NEW to, UpdateStatus(c, status, to)
  PROVE  \E id \in runId[c] : StatusChange(id, status) /\ sideEffects' = sideEffects
<1> PICK id \in runId[c] : runs' = [runs EXCEPT ![id].status = status]
  BY DEF UpdateStatus
<1>1. id \in DOMAIN runs
  BY CallsHaveOneRun
<1>2. /\ DOMAIN runs' = DOMAIN runs
      /\ runs'[id].status = status /\ runs'[id].request = runs[id].request
      /\ \A other \in DOMAIN runs \ {id} : runs'[other] = runs[other]
  BY <1>1 DEF IInv, TypeOK, ActionRun
<1> QED
  BY <1>1, <1>2 DEF StatusChange, UpdateStatus

-----------------------------------------------------------------------------
(* EffectsInv is inductive together with IInv. *)

(* A step of call c leaves the rows that other calls read as they were.    *)
LEMMA OthersEffects ==
  ASSUME IInv, EffectsInv, NEW c \in Calls,
         \A id \in DOMAIN runs :
           id \in DOMAIN runs' /\ runs'[id].request = runs[id].request,
         \A d \in Calls \ {c} :
           /\ stage'[d] = stage[d] /\ pending'[d] = pending[d] /\ runId'[d] = runId[d]
           /\ \A id \in runId[d] :
                stage[d] \in UndoStage => sideEffects'[id] = sideEffects[id],
         EffectsOf(c)'
  PROVE  EffectsInv'
<1> SUFFICES ASSUME NEW d \in Calls \ {c} PROVE EffectsOf(d)'
  BY DEF EffectsInv
<1>1. EffectsOf(d)
  BY DEF EffectsInv
<1>2. \A id \in runId[d] : id \in DOMAIN runs
  BY CallsHaveOneRun
<1>3. /\ stage'[d] = stage[d] /\ pending'[d] = pending[d] /\ runId'[d] = runId[d]
      /\ \A id \in runId[d] :
           stage[d] \in UndoStage => sideEffects'[id] = sideEffects[id]
  OBVIOUS
<1>4. /\ stage'[d] \in {"commit_lock", "reverted", "commit_undo"} =>
           pending'[d].sideEffects = {}
      /\ \A id \in runId'[d] : stage'[d] = "commit_lock" => runs'[id].request.undoable
  BY <1>1, <1>2, <1>3 DEF EffectsOf
<1>5. \A id \in runId'[d] :
        stage'[d] \in {"checking", "undoing", "reverted", "commit_undo"} =>
          ~IrreversibleIn(sideEffects', id)
  BY <1>1, <1>3 DEF EffectsOf, IrreversibleIn, UndoStage
<1> QED
  BY <1>4, <1>5 DEF EffectsOf

(* The statements that write no committed row.                             *)
LEMMA QuietEffects ==
  ASSUME IInv, EffectsInv, NEW c \in Calls,
         \/ Quiet(c) \/ RequestExecute(c) \/ RequestUndo(c) \/ RequestReport(c)
         \/ SelectExistingRun(c)
  PROVE  EffectsInv'
<1>1. /\ UNCHANGED <<runs, sideEffects>>
      /\ \A d \in Calls \ {c} :
           stage'[d] = stage[d] /\ pending'[d] = pending[d] /\ runId'[d] = runId[d]
  <2>1. /\ stage \in [Calls -> Stage] /\ pending \in [Calls -> Writes]
        /\ runId \in [Calls -> Optional(Calls)]
    BY DEF IInv, TypeOK
  <2> DEFINE Own == /\ UNCHANGED <<runs, sideEffects>>
                    /\ \A d \in Calls \ {c} :
                         /\ stage'[d] = stage[d] /\ pending'[d] = pending[d]
                         /\ runId'[d] = runId[d]
  <2>2. ASSUME NEW to, Rollback(c, to), runId' = runId PROVE Own
    BY <2>1, <2>2 DEF Rollback, Goto, tables
  <2>3. ASSUME NEW to, NEW status, UpdateStatusInTransaction(c, status, to), runId' = runId
        PROVE  Own
    BY <2>1, <2>3 DEF UpdateStatusInTransaction, Goto, tables
  <2>4. CASE \/ BeginExecute(c) \/ ExecuteReturns(c) \/ UndoReturns(c)
             \/ LockActionRun(c) \/ LockThrows(c) \/ ExecuteThrows(c) \/ UndoThrows(c)
             \/ LoseConnection(c)
    BY <2>2, <2>3, <2>4
       DEF BeginExecute, ExecuteReturns, UndoReturns, LockActionRun, LockThrows,
           ExecuteThrows, UndoThrows, LoseConnection, session
  <2>5. CASE \/ HandlerRecords(c) \/ HandlerApplies(c) \/ HandlerReverts(c)
             \/ DeferConflict(c) \/ EnterUndoHandler(c) \/ FlushConflict(c)
             \/ ReportConflict(c) \/ RejectRequest(c)
    BY <2>1, <2>5
       DEF HandlerRecords, HandlerApplies, HandlerReverts, DeferConflict,
           EnterUndoHandler, FlushConflict, ReportConflict, RejectRequest, Goto, tables,
           session
  <2>6. CASE BeginUndo(c)
    BY <2>1, <2>2, <2>6 DEF BeginUndo, Goto, tables, session
  <2>7. CASE \/ RequestExecute(c) \/ RequestUndo(c) \/ RequestReport(c)
             \/ SelectExistingRun(c)
    BY <2>1, <2>7
       DEF RequestExecute, RequestUndo, RequestReport, SelectExistingRun, Goto, tables
  <2> QED
    BY <2>4, <2>5, <2>6, <2>7 DEF Quiet
<1>2. SUFFICES EffectsOf(c)'
  BY <1>1, OthersEffects
<1>3. /\ c \in DOMAIN stage /\ c \in DOMAIN pending /\ pending[c] \in Writes
      /\ stage[c] = "checking" => pending[c] = NoWrites
      /\ stage[c] = "undoing" => pending[c] = NoWrites
      /\ stage[c] = "lock" => pending[c] = NoWrites
  BY DEF IInv, TypeOK, PendingMatchesStage
<1>4. EffectsOf(c)
  BY DEF EffectsInv
<1>5. CASE \/ stage'[c] \notin {"commit_lock", "checking", "undoing", "reverted", "commit_undo"}
  BY <1>5 DEF EffectsOf
<1>6. CASE LockActionRun(c) /\ stage'[c] = "commit_lock"
  <2>1. UpdateStatusInTransaction(c, "undo_running", "commit_lock") /\ runId' = runId
    BY <1>3, <1>6 DEF LockActionRun, Rollback, Goto, session
  <2>2. \A id \in runId[c] : runs[id].request.undoable
    BY <1>3, <1>6, CallsHaveOneRun DEF LockActionRun, CanBeUndone, Rollback, Goto
  <2>3. pending'[c].sideEffects = {}
    BY <1>3, <1>6, <2>1 DEF LockActionRun, UpdateStatusInTransaction, NoWrites, Writes
  <2> QED
    BY <1>1, <1>6, <2>1, <2>2, <2>3 DEF EffectsOf
<1>7. CASE BeginUndo(c) /\ stage'[c] = "checking"
  <2>1. \A id \in runId[c] : ~IrreversibleIn(sideEffects, id)
    BY <1>3, <1>7, CallsHaveOneRun DEF BeginUndo, Rollback, Goto, IrreversibleIn
  <2> QED
    BY <1>1, <1>7, <2>1 DEF EffectsOf, BeginUndo, session
<1>8. CASE DeferConflict(c)
  BY <1>1, <1>4, <1>8 DEF DeferConflict, EffectsOf
<1>9. CASE EnterUndoHandler(c)
  BY <1>1, <1>3, <1>4, <1>9 DEF EnterUndoHandler, EffectsOf, Goto, session
<1>10. CASE HandlerReverts(c)
  BY <1>1, <1>3, <1>4, <1>10
     DEF HandlerReverts, EffectsOf, Goto, session, NoWrites, Writes
<1>11. CASE UndoReturns(c)
  BY <1>1, <1>3, <1>4, <1>11
     DEF UndoReturns, UpdateStatusInTransaction, EffectsOf, Goto, session, Writes
<1>12. CASE \/ BeginExecute(c) \/ HandlerApplies(c) \/ ExecuteReturns(c)
            \/ ExecuteThrows(c) \/ LockThrows(c) \/ UndoThrows(c) \/ LoseConnection(c)
            \/ FlushConflict(c) \/ ReportConflict(c) \/ RejectRequest(c)
            \/ RequestExecute(c) \/ RequestUndo(c) \/ RequestReport(c)
            \/ SelectExistingRun(c)
  BY <1>3, <1>5, <1>12
     DEF BeginExecute, HandlerApplies, ExecuteReturns, ExecuteThrows, LockThrows,
         UndoThrows, LoseConnection, FlushConflict, ReportConflict, RejectRequest,
         RequestExecute, RequestUndo, RequestReport, SelectExistingRun,
         UpdateStatusInTransaction, Rollback, Goto
<1>13. CASE HandlerRecords(c)
  BY <1>3, <1>5, <1>13 DEF HandlerRecords
<1>14. CASE LockActionRun(c) \/ BeginUndo(c)
  BY <1>3, <1>5, <1>6, <1>7, <1>14
     DEF LockActionRun, BeginUndo, UpdateStatusInTransaction, Rollback, Goto
<1> QED
  BY <1>8, <1>9, <1>10, <1>11, <1>12, <1>13, <1>14 DEF Quiet

(* The statements that change a committed row, and the insertion of one.   *)
LEMMA RowEffects ==
  ASSUME IInv, EffectsInv, NEW c \in Calls,
         \/ InsertActionRun(c) \/ CommitExecute(c) \/ CommitLock(c) \/ CommitUndo(c)
         \/ LoseCommitAnswer(c) \/ MarkFailed(c) \/ MarkUndoFailed(c)
  PROVE  EffectsInv'
<1>1. /\ stage \in [Calls -> Stage] /\ pending \in [Calls -> Writes]
      /\ runId \in [Calls -> Optional(Calls)] /\ DOMAIN runs \subseteq Calls
  BY DEF IInv, TypeOK
<1>2. CASE InsertActionRun(c)
  <2>1. /\ pending' = pending /\ sideEffects' = sideEffects
        /\ \A d \in Calls \ {c} : stage'[d] = stage[d] /\ runId'[d] = runId[d]
        /\ stage'[c] \in {"execute", "select_existing"}
        /\ \A id \in DOMAIN runs : id \in DOMAIN runs'
    BY <1>1, <1>2 DEF InsertActionRun, Goto
  <2>2. stage[c] = "claim" /\ c \notin DOMAIN runs
    BY <1>2 DEF InsertActionRun, IInv, RunsExist
  <2>3. \A id \in DOMAIN runs : runs'[id] = runs[id]
    BY <1>2, <2>2 DEF InsertActionRun
  <2>4. EffectsOf(c)'
    BY <2>1 DEF EffectsOf
  <2> QED
    BY <2>1, <2>3, <2>4, OthersEffects
<1>3. ASSUME NEW to \in {"completed", "undo", "undone", "lost"}, Commit(c, to),
             runId' = runId,
             stage[c] \in {"commit_execute", "commit_lock", "commit_undo"}
      PROVE  EffectsInv'
  <2>1. PICK id \in runId[c] :
          /\ StatusChange(id, pending[c].status)
          /\ sideEffects'[id] = sideEffects[id] \cup pending[c].sideEffects
    BY <1>3, CommitSteps
  <2>2. /\ \A d \in Calls \ {c} : stage'[d] = stage[d] /\ pending'[d] = pending[d]
        /\ stage'[c] = to
    BY <1>1, <1>3 DEF Commit, Goto
  <2>3. EffectsOf(c)'
    BY <2>2 DEF EffectsOf
  <2>4. \A d \in Calls \ {c} : \A other \in runId[d] :
          stage[d] \in UndoStage => sideEffects'[other] = sideEffects[other]
    <3> SUFFICES ASSUME NEW d \in Calls \ {c}, id \in runId[d], stage[d] \in UndoStage
                 PROVE  sideEffects'[id] = sideEffects[id]
      BY <2>1, CallsHaveOneRun DEF StatusChange
    <3>1. runs[id].status = "undo_running"
      BY DEF IInv, UndoersOwn, MarkingUndo
    <3>2. stage[c] # "commit_execute"
      BY <2>1, <3>1 DEF IInv, ExecutorsOwn, MarkingExecute, ExecuteStage
    <3>3. pending[c].sideEffects = {}
      BY <1>3, <3>2 DEF EffectsInv, EffectsOf
    <3> QED
      BY <2>1, <3>3
  <2>5. \A other \in DOMAIN runs :
          other \in DOMAIN runs' /\ runs'[other].request = runs[other].request
    BY <2>1 DEF StatusChange
  <2> QED
    BY <1>3, <2>2, <2>3, <2>4, <2>5, OthersEffects
<1>4. ASSUME NEW to \in {"failed", "undo_failed", "flush"}, NEW status,
             UpdateStatus(c, status, to), runId' = runId
      PROVE  EffectsInv'
  <2>1. PICK id \in runId[c] : StatusChange(id, status) /\ sideEffects' = sideEffects
    BY <1>4, MarkSteps
  <2>2. /\ \A d \in Calls \ {c} : stage'[d] = stage[d] /\ pending'[d] = pending[d]
        /\ stage'[c] = to
    BY <1>1, <1>4 DEF UpdateStatus, Goto
  <2>3. EffectsOf(c)'
    BY <2>2 DEF EffectsOf
  <2>4. \A other \in DOMAIN runs :
          other \in DOMAIN runs' /\ runs'[other].request = runs[other].request
    BY <2>1 DEF StatusChange
  <2> QED
    BY <1>4, <2>1, <2>2, <2>3, <2>4, OthersEffects
<1> QED
  BY <1>2, <1>3, <1>4
     DEF CommitExecute, CommitLock, CommitUndo, LoseCommitAnswer, MarkFailed,
         MarkUndoFailed, session

LEMMA EffectsStay == Spec => [](IInv /\ EffectsInv)
<1>1. Init => EffectsInv
  BY DEF Init, EffectsInv, EffectsOf
<1>2. IInv /\ EffectsInv /\ [Next]_vars => EffectsInv'
  <2> SUFFICES ASSUME IInv, EffectsInv, [Next]_vars PROVE EffectsInv'
    OBVIOUS
  <2>1. CASE UNCHANGED vars \/ Tick
    BY <2>1 DEF vars, tables, session, Tick, EffectsInv, EffectsOf
  <2>2. CASE \E c \in Calls : Request(c) \/ Advance(c) \/ Lose(c)
    BY <2>2, QuietEffects, RowEffects DEF Request, Advance, Lose, Quiet
  <2> QED
    BY <2>1, <2>2 DEF Next
<1> QED
  BY <1>1, <1>2, StagesTellTheRows, PTL DEF Spec

-----------------------------------------------------------------------------
(* The refinement: the committed rows live as ActionLifecycle says. *)

Life == INSTANCE ActionLifecycleProofs WITH
  Identifiers <- Calls, Claims <- AllClaims, runs <- AuditRuns

(* AuditRuns, of any tables of runs and of side effects. *)
AuditOf(rows, effects) ==
  [id \in DOMAIN rows |->
     [claim |-> ClaimOf(rows[id].request),
      undoable |-> rows[id].request.undoable,
      irreversible |-> IrreversibleIn(effects, id),
      phase |-> PhaseOf(rows[id].status)]]

LEMMA AuditReads ==
  AuditRuns = AuditOf(runs, sideEffects) /\ AuditRuns' = AuditOf(runs', sideEffects')
BY DEF AuditRuns, AuditOf, ClaimOf, IrreversibleIn

LEMMA AuditIsFunction ==
  ASSUME NEW rows, NEW effects
  PROVE  /\ DOMAIN AuditOf(rows, effects) = DOMAIN rows
         /\ AuditOf(rows, effects) = [r \in DOMAIN rows |-> AuditOf(rows, effects)[r]]
BY DEF AuditOf

LEMMA Phases ==
  /\ PhaseOf("created") = "pending" /\ PhaseOf("completed") = "completed"
  /\ PhaseOf("failed") = "failed" /\ PhaseOf("undo_running") = "undoing"
  /\ PhaseOf("undone") = "undone" /\ PhaseOf("undo_failed") = "undo_failed"
BY DEF PhaseOf

(* A change of status, seen through the audit.                             *)
LEMMA StatusMoves ==
  ASSUME IInv, NEW id, NEW status, StatusChange(id, status),
         NEW phase, phase = PhaseOf(status),
         NEW before, before = IrreversibleIn(sideEffects, id),
         NEW after, after = IrreversibleIn(sideEffects', id)
  PROVE  \E claim, undoable :
           /\ NewPhase(AuditRuns, AuditRuns', id, claim, undoable, before, after,
                       PhaseOf(runs[id].status), phase)
           /\ undoable = runs[id].request.undoable /\ id \in Calls
<1>1. PICK rows, effects, newRows, newEffects :
        /\ rows = runs /\ effects = sideEffects
        /\ newRows = runs' /\ newEffects = sideEffects'
  OBVIOUS
<1>2. PICK audit, next : audit = AuditOf(rows, effects) /\ next = AuditOf(newRows, newEffects)
  OBVIOUS
<1>3. audit = AuditRuns /\ next = AuditRuns'
  BY <1>1, <1>2, AuditReads
<1>4. /\ id \in DOMAIN rows /\ DOMAIN newRows = DOMAIN rows
      /\ newRows[id].status = status /\ newRows[id].request = rows[id].request
      /\ \A other \in DOMAIN rows \ {id} :
           newRows[other] = rows[other] /\ newEffects[other] = effects[other]
      /\ id \in Calls
  BY <1>1 DEF StatusChange, IInv, TypeOK
<1>5. PICK claim, undoable, old :
        /\ claim = ClaimOf(rows[id].request) /\ undoable = rows[id].request.undoable
        /\ old = PhaseOf(rows[id].status)
  OBVIOUS
<1>6. /\ DOMAIN audit = DOMAIN rows
      /\ audit = [r \in DOMAIN rows |-> audit[r]]
      /\ next = [r \in DOMAIN rows |-> next[r]]
  BY <1>2, <1>4, AuditIsFunction
<1>7. audit[id] = [claim |-> claim, undoable |-> undoable,
                   irreversible |-> before, phase |-> old]
  BY <1>1, <1>2, <1>4, <1>5 DEF AuditOf
<1>8. next[id] = [claim |-> claim, undoable |-> undoable,
                  irreversible |-> after, phase |-> phase]
  BY <1>1, <1>2, <1>4, <1>5 DEF AuditOf
<1>9. \A other \in DOMAIN rows \ {id} : next[other] = audit[other]
  BY <1>2, <1>4 DEF AuditOf, IrreversibleIn
<1>10. NewPhase(audit, next, id, claim, undoable, before, after, old, phase)
  BY <1>4, <1>6, <1>7, <1>8, <1>9 DEF NewPhase
<1> QED
  BY <1>1, <1>3, <1>4, <1>5, <1>10

LEMMA StatusRefines ==
  ASSUME IInv, NEW id, NEW status, StatusChange(id, status),
         NEW phase, phase = PhaseOf(status),
         NEW before, before = IrreversibleIn(sideEffects, id),
         NEW after, after = IrreversibleIn(sideEffects', id)
  PROVE  /\ id \in DOMAIN AuditRuns /\ id \in Calls
         /\ AuditRuns[id].phase = PhaseOf(runs[id].status)
         /\ AuditRuns[id].undoable = runs[id].request.undoable
         /\ AuditRuns[id].irreversible = before
         /\ AuditRuns' = [AuditRuns EXCEPT ![id].phase = phase,
                                           ![id].irreversible = after]
<1>1. PICK claim, undoable :
        /\ NewPhase(AuditRuns, AuditRuns', id, claim, undoable, before, after,
                    PhaseOf(runs[id].status), phase)
        /\ undoable = runs[id].request.undoable /\ id \in Calls
  BY StatusMoves
<1>2. /\ id \in DOMAIN AuditRuns
      /\ AuditRuns[id].phase = PhaseOf(runs[id].status)
      /\ AuditRuns[id].undoable = undoable
      /\ AuditRuns[id].irreversible = before
  BY <1>1 DEF NewPhase
<1>3. PICK audit, next, from :
        audit = AuditRuns /\ next = AuditRuns' /\ from = PhaseOf(runs[id].status)
  OBVIOUS
<1>4. NewPhase(audit, next, id, claim, undoable, before, after, from, phase)
  BY <1>1, <1>3
<1>5. next = [audit EXCEPT ![id].phase = phase, ![id].irreversible = after]
  BY <1>4, NextPhase
<1> QED
  BY <1>1, <1>2, <1>3, <1>5

LEMMA PhaseRefines ==
  ASSUME IInv, NEW id, NEW status, StatusChange(id, status),
         NEW phase, phase = PhaseOf(status), NEW from, from = PhaseOf(runs[id].status),
         IrreversibleIn(sideEffects', id) = IrreversibleIn(sideEffects, id)
  PROVE  /\ id \in DOMAIN AuditRuns /\ id \in Calls
         /\ AuditRuns[id].phase = from
         /\ AuditRuns[id].undoable = runs[id].request.undoable
         /\ AuditRuns[id].irreversible = IrreversibleIn(sideEffects, id)
         /\ AuditRuns' = [AuditRuns EXCEPT ![id].phase = phase]
<1>1. PICK before, after :
        before = IrreversibleIn(sideEffects, id) /\ after = IrreversibleIn(sideEffects', id)
  OBVIOUS
<1>2. PICK claim, undoable :
        /\ NewPhase(AuditRuns, AuditRuns', id, claim, undoable, before, after,
                    PhaseOf(runs[id].status), phase)
        /\ undoable = runs[id].request.undoable /\ id \in Calls
  BY <1>1, StatusMoves
<1>3. /\ id \in DOMAIN AuditRuns
      /\ AuditRuns[id].phase = PhaseOf(runs[id].status)
      /\ AuditRuns[id].undoable = undoable
      /\ AuditRuns[id].irreversible = before
  BY <1>2 DEF NewPhase
<1>4. PICK audit, next : audit = AuditRuns /\ next = AuditRuns'
  OBVIOUS
<1>5. NewPhase(audit, next, id, claim, undoable, before, after, from, phase)
  BY <1>2, <1>4
<1>6. /\ next = [audit EXCEPT ![id].phase = phase, ![id].irreversible = after]
      /\ after = before => next = [audit EXCEPT ![id].phase = phase]
  BY <1>5, NextPhase
<1> QED
  BY <1>1, <1>2, <1>3, <1>4, <1>6

(* The insertion of a run claims its key for good.                         *)
LEMMA InsertRefines ==
  ASSUME IInv, NEW c \in Calls, InsertActionRun(c)
  PROVE  Life!Next \/ AuditRuns' = AuditRuns
<1>1. PICK input \in request[c] :
        /\ IF Claimed(input) = {}
           THEN runs' = [id \in DOMAIN runs \cup {c} |->
                           IF id = c THEN [request |-> input, status |-> "created"]
                                     ELSE runs[id]]
           ELSE runs' = runs
        /\ sideEffects' = sideEffects
        /\ stage[c] = "claim"
  BY DEF InsertActionRun
<1>2. CASE Claimed(input) # {}
  BY <1>1, <1>2, AuditReads
<1>3. CASE Claimed(input) = {}
  <2>1. /\ input \in CreateInput /\ c \notin DOMAIN runs /\ sideEffects[c] = {}
        /\ \A id \in DOMAIN runs : runs[id].request \in CreateInput
    BY <1>1 DEF IInv, TypeOK, Optional, RunsExist, ActionRun
  <2>2. PICK rows, effects, newRows :
          rows = runs /\ effects = sideEffects /\ newRows = runs'
    OBVIOUS
  <2>3. PICK audit, next : audit = AuditOf(rows, effects) /\ next = AuditOf(newRows, effects)
    OBVIOUS
  <2>4. audit = AuditRuns /\ next = AuditRuns'
    BY <1>1, <2>2, <2>3, AuditReads
  <2>5. PICK claim, undoable : claim = ClaimOf(input) /\ undoable = input.undoable
    OBVIOUS
  <2>6. undoable \in BOOLEAN /\ claim \in {{}} \cup {{k} : k \in AllClaims}
    BY <2>1, <2>5, ClaimsAreTyped DEF CreateInput
  <2>7. /\ DOMAIN newRows = DOMAIN rows \cup {c}
        /\ newRows[c].request = input /\ newRows[c].status = "created"
        /\ \A id \in DOMAIN rows : newRows[id] = rows[id]
    BY <1>1, <1>3, <2>1, <2>2
  <2>8. /\ DOMAIN audit = DOMAIN rows /\ DOMAIN next = DOMAIN rows \cup {c}
        /\ next = [r \in DOMAIN next |-> next[r]]
    BY <2>3, <2>7, AuditIsFunction
  <2>9. next[c] = [claim |-> claim, undoable |-> undoable,
                   irreversible |-> FALSE, phase |-> "pending"]
    <3>1. IrreversibleIn(effects, c) = FALSE
      BY <2>1, <2>2 DEF IrreversibleIn
    <3> QED
      BY <2>3, <2>5, <2>7, <3>1, Phases DEF AuditOf
  <2>10. \A r \in DOMAIN rows : next[r] = audit[r]
    BY <2>3, <2>7 DEF AuditOf
  <2>11. next = [r \in DOMAIN audit \cup {c} |->
                  IF r = c THEN [claim |-> claim, undoable |-> undoable,
                                 irreversible |-> FALSE, phase |-> "pending"]
                           ELSE audit[r]]
    BY <2>1, <2>2, <2>8, <2>9, <2>10
  <2>12. claim # {} => \A other \in DOMAIN audit : audit[other].claim # claim
    <3> SUFFICES ASSUME claim # {}, NEW other \in DOMAIN rows, audit[other].claim = claim
                 PROVE  FALSE
      BY <2>8
    <3>1. audit[other].claim = ClaimOf(rows[other].request)
      BY <2>3 DEF AuditOf
    <3>2. SameClaim(rows[other].request, input)
      BY <2>1, <2>2, <2>5, <3>1, EqualClaims
    <3> QED
      BY <1>3, <2>2, <3>2 DEF Claimed
  <2>13. Life!Claim(c, claim, undoable)
    BY <2>1, <2>2, <2>4, <2>8, <2>11, <2>12 DEF Life!Claim
  <2> QED
    BY <2>6, <2>13 DEF Life!Next
<1> QED
  BY <1>2, <1>3

(* A COMMIT completes an execution, takes a run to undo, or ends an undo.  *)
LEMMA CommitRefines ==
  ASSUME IInv, EffectsInv, NEW c \in Calls, NEW to, Commit(c, to),
         stage[c] \in {"commit_execute", "commit_lock", "commit_undo"}
  PROVE  Life!Next
<1>1. PICK id \in runId[c] :
        /\ StatusChange(id, pending[c].status)
        /\ sideEffects'[id] = sideEffects[id] \cup pending[c].sideEffects
  BY CommitSteps
<1>2. EffectsOf(c)
  BY DEF EffectsInv
<1>3. PICK before, after :
        before = IrreversibleIn(sideEffects, id) /\ after = IrreversibleIn(sideEffects', id)
  OBVIOUS
<1>4. CASE stage[c] = "commit_execute"
  <2>1. runs[id].status = "created" /\ pending[c].status = "completed"
    BY <1>4 DEF IInv, ExecutorsOwn, MarkingExecute, ExecuteStage, PendingMatchesStage
  <2>2. /\ id \in DOMAIN AuditRuns /\ id \in Calls
        /\ AuditRuns[id].phase = "pending"
        /\ AuditRuns' = [AuditRuns EXCEPT ![id].phase = "completed",
                                          ![id].irreversible = after]
    BY <1>1, <1>3, <2>1, StatusRefines, Phases
  <2>3. after \in BOOLEAN
    BY <1>3 DEF IrreversibleIn
  <2>4. Life!Complete(id, after)
    BY <2>2 DEF Life!Complete
  <2> QED
    BY <2>2, <2>3, <2>4 DEF Life!Next
<1>5. CASE stage[c] \in {"commit_lock", "commit_undo"}
  <2>1. IrreversibleIn(sideEffects', id) = IrreversibleIn(sideEffects, id)
    <3>1. sideEffects'[id] = sideEffects[id]
      BY <1>1, <1>2, <1>5 DEF EffectsOf
    <3> QED
      BY <3>1 DEF IrreversibleIn
  <2>2. CASE stage[c] = "commit_lock"
    <3>1. /\ runs[id].status = "completed" /\ pending[c].status = "undo_running"
          /\ runs[id].request.undoable
      BY <1>2, <2>2 DEF IInv, LockersHold, PendingMatchesStage, EffectsOf
    <3>2. /\ id \in DOMAIN AuditRuns /\ id \in Calls
          /\ AuditRuns[id].phase = "completed" /\ AuditRuns[id].undoable
          /\ AuditRuns' = [AuditRuns EXCEPT ![id].phase = "undoing"]
      <4>1. StatusChange(id, "undo_running")
        BY <1>1, <3>1
      <4>2. PhaseOf("undo_running") = "undoing" /\ PhaseOf(runs[id].status) = "completed"
        BY <3>1, Phases
      <4> QED
        BY <2>1, <3>1, <4>1, <4>2, PhaseRefines
    <3>3. Life!StartUndo(id)
      BY <3>2 DEF Life!StartUndo
    <3> QED
      BY <3>2, <3>3 DEF Life!Next
  <2>3. CASE stage[c] = "commit_undo"
    <3>1. /\ runs[id].status = "undo_running" /\ pending[c].status = "undone"
          /\ ~IrreversibleIn(sideEffects, id)
      BY <1>2, <2>3
         DEF IInv, UndoersOwn, MarkingUndo, UndoStage, PendingMatchesStage, EffectsOf
    <3>2. /\ id \in DOMAIN AuditRuns /\ id \in Calls
          /\ AuditRuns[id].phase = "undoing"
          /\ AuditRuns[id].irreversible = IrreversibleIn(sideEffects, id)
          /\ AuditRuns' = [AuditRuns EXCEPT ![id].phase = "undone"]
      <4>1. StatusChange(id, "undone")
        BY <1>1, <3>1
      <4>2. PhaseOf("undone") = "undone" /\ PhaseOf(runs[id].status) = "undoing"
        BY <3>1, Phases
      <4> QED
        BY <2>1, <3>1, <4>1, <4>2, PhaseRefines
    <3>3. Life!Undo(id)
      BY <3>1, <3>2 DEF Life!Undo
    <3> QED
      BY <3>2, <3>3 DEF Life!Next
  <2> QED
    BY <1>5, <2>2, <2>3
<1> QED
  BY <1>4, <1>5

(* The UPDATE outside a transaction marks a failed execution or undo.      *)
LEMMA MarkRefines ==
  ASSUME IInv, NEW c \in Calls, MarkFailed(c) \/ MarkUndoFailed(c)
  PROVE  Life!Next
<1>1. CASE MarkFailed(c)
  <2>1. PICK id \in runId[c] : StatusChange(id, "failed") /\ sideEffects' = sideEffects
    BY <1>1, MarkSteps DEF MarkFailed
  <2>2. runs[id].status = "created"
    BY <1>1 DEF MarkFailed, IInv, ExecutorsOwn, MarkingExecute
  <2>3. /\ id \in DOMAIN AuditRuns /\ id \in Calls
        /\ AuditRuns[id].phase = "pending"
        /\ AuditRuns' = [AuditRuns EXCEPT ![id].phase = "failed"]
    <3>1. PhaseOf("failed") = "failed" /\ PhaseOf(runs[id].status) = "pending"
      BY <2>2, Phases
    <3>2. IrreversibleIn(sideEffects', id) = IrreversibleIn(sideEffects, id)
      BY <2>1
    <3> QED
      BY <2>1, <3>1, <3>2, PhaseRefines
  <2>4. Life!Fail(id)
    BY <2>3 DEF Life!Fail
  <2> QED
    BY <2>3, <2>4 DEF Life!Next
<1>2. CASE MarkUndoFailed(c)
  <2>1. PICK id \in runId[c] : StatusChange(id, "undo_failed") /\ sideEffects' = sideEffects
    BY <1>2, MarkSteps DEF MarkUndoFailed
  <2>2. runs[id].status = "undo_running"
    BY <1>2 DEF MarkUndoFailed, IInv, UndoersOwn, MarkingUndo
  <2>3. /\ id \in DOMAIN AuditRuns /\ id \in Calls
        /\ AuditRuns[id].phase = "undoing"
        /\ AuditRuns' = [AuditRuns EXCEPT ![id].phase = "undo_failed"]
    <3>1. PhaseOf("undo_failed") = "undo_failed" /\ PhaseOf(runs[id].status) = "undoing"
      BY <2>2, Phases
    <3>2. IrreversibleIn(sideEffects', id) = IrreversibleIn(sideEffects, id)
      BY <2>1
    <3> QED
      BY <2>1, <3>1, <3>2, PhaseRefines
  <2>4. Life!RefuseUndo(id)
    BY <2>3 DEF Life!RefuseUndo
  <2> QED
    BY <2>3, <2>4 DEF Life!Next
<1> QED
  BY <1>1, <1>2

(* Everything else happens inside a transaction or in other tables.        *)
LEMMA HiddenStatements ==
  ASSUME NEW c \in Calls,
         \/ Quiet(c) \/ RequestExecute(c) \/ RequestUndo(c) \/ RequestReport(c)
         \/ SelectExistingRun(c)
  PROVE  AuditRuns' = AuditRuns
<1>1. UNCHANGED tables
  BY DEF Quiet, BeginExecute, HandlerRecords, HandlerApplies, ExecuteReturns,
         ExecuteThrows, LockActionRun, LockThrows, BeginUndo, DeferConflict,
         EnterUndoHandler, HandlerReverts, UndoReturns, UndoThrows, FlushConflict,
         ReportConflict, LoseConnection, RejectRequest, RequestExecute, RequestUndo,
         RequestReport, SelectExistingRun, UpdateStatusInTransaction, Rollback
<1> QED
  BY <1>1, AuditReads DEF tables

LEMMA StepRefines ==
  IInv /\ EffectsInv /\ [Next]_vars => Life!Next \/ AuditRuns' = AuditRuns
<1> SUFFICES ASSUME IInv, EffectsInv, [Next]_vars
             PROVE  Life!Next \/ AuditRuns' = AuditRuns
  OBVIOUS
<1>1. CASE UNCHANGED vars \/ Tick
  BY <1>1, AuditReads DEF vars, tables, Tick
<1>2. ASSUME NEW c \in Calls,
             CommitExecute(c) \/ CommitLock(c) \/ CommitUndo(c) \/ LoseCommitAnswer(c)
      PROVE  Life!Next
  BY <1>2, CommitRefines DEF CommitExecute, CommitLock, CommitUndo, LoseCommitAnswer
<1>3. CASE \E c \in Calls : Request(c) \/ Advance(c) \/ Lose(c)
  BY <1>2, <1>3, InsertRefines, MarkRefines, HiddenStatements
     DEF Request, Advance, Lose, Quiet
<1> QED
  BY <1>1, <1>3 DEF Next

-----------------------------------------------------------------------------
(* The PostgreSQL runtime implements the abstract life of an action run,   *)
(* through refused COMMITs, lost connections and lost answers: a COMMIT is *)
(* one step of ActionLifecycle whether or not its answer arrives.          *)
THEOREM PostgresImplementsLifecycle == Spec => Life!Spec
<1>1. Init => Life!Init
  BY DEF Init, AuditRuns, Life!Init
<1>2. IInv /\ EffectsInv /\ [Next]_vars => [Life!Next]_AuditRuns
  BY StepRefines
<1> QED
  BY <1>1, <1>2, EffectsStay, PTL DEF Spec, Life!Spec

(* A committed row is undone only if its run was undoable and completed no *)
(* irreversible effect, and one that failed, was undone or failed to be    *)
(* undone never changes again: what ActionLifecycle promises of its runs.  *)
THEOREM CommittedRowsKeepThePromises ==
  Spec => []Life!UndoneWasUndoable /\ Life!HistoryIsKept
<1>1. Life!Spec => []Life!UndoneWasUndoable
  BY Life!UndoneIsUndoable
<1>2. Life!Spec => Life!HistoryIsKept
  BY Life!HistoryKept
<1> QED
  BY <1>1, <1>2, PostgresImplementsLifecycle, PTL
=============================================================================
