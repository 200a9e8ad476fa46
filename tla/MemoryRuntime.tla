---------------------------- MODULE MemoryRuntime ----------------------------
(***************************************************************************)
(* RollbackKit.execute and RollbackKit.undo over MemoryStorageAdapter, for *)
(* calls that interleave at their awaits in one JavaScript process.        *)
(*                                                                         *)
(* The adapter serialises writes with a chain of promises: a call that     *)
(* wants to write appends itself to "queue" and goes on when it is at the  *)
(* head.  A single write leaves the queue at once; withTransaction keeps   *)
(* the head while a handler of the application runs, with the state it     *)
(* will restore if the handler throws in "saved".  Reads wait for nobody.  *)
(***************************************************************************)
EXTENDS MemoryStorage, Sequences, FiniteSets

CONSTANTS
  Calls,            \* requests in flight: execute, undo, or a bare write
  Undoable,         \* the actions whose reversibility is undoable
  WithUndoHandler,  \* the actions that define undo
  UndoWindow,       \* undoWindowMs of each action, undefined or a number
  Effects,          \* <<status, undoable>> of side effects handlers record
  MaxTime,          \* bound: the clock stops here
  MaxRecords,       \* bound: snapshots, and side effects, of one run
  MaxDeferred       \* bound: conflicts one undo records

ASSUME DefinitionsAssumption ==
  /\ Undoable \subseteq Actions
  /\ WithUndoHandler \subseteq Actions
  /\ UndoWindow \in [Actions -> Optional(Nat)]
  /\ Effects \subseteq SideEffectStatus \X BOOLEAN

VARIABLES
  store,     \* the maps and the id counter of the adapter
  saved,     \* {s}: withTransaction will restore s if its handler throws
  queue,     \* #transactionLock, its holder first
  now,       \* Clock.now()
  stage,     \* what each call does next, or how it ended
  request,   \* {input} of each execute until its run is claimed
  runId,     \* the run each call works on, 0 before it has one
  deferred   \* DeferredConflictRecorder: conflicts not yet written

vars == <<store, saved, queue, now, stage, request, runId, deferred>>

(* Stages that begin with a write, and so with a place in the queue. *)
WritingStage == {"claim", "execute", "mark_failed",
                 "lock", "undo", "mark_undo_failed", "flush", "report"}

(* Stages of application code under withTransaction. *)
HandlerStage == {"executing", "checking", "undoing"}

(* How a call ends: execute returns its completed run, or an existing one, *)
(* or throws after marking its run failed; undo returns, or throws after   *)
(* marking its run undo_failed; a bare write returns; or the call throws   *)
(* without having changed anything.                                        *)
EndStage == {"completed", "existing", "failed", "undone", "undo_failed",
             "reported", "rejected"}

Stage == {"idle"} \cup WritingStage \cup HandlerStage \cup EndStage

TypeOK ==
  /\ IsStore(store)
  /\ \A s \in saved : IsStore(s)
  /\ \A s, t \in saved : s = t
  /\ queue \in Seq(Calls)
  /\ now \in Nat
  /\ stage \in [Calls -> Stage]
  /\ request \in [Calls -> Optional(CreateInput)]
  /\ runId \in [Calls -> Nat]
  /\ deferred \in [Calls -> Nat]

Init ==
  /\ store = EmptyStore
  /\ saved = {}
  /\ queue = <<>>
  /\ now = 0
  /\ stage = [c \in Calls |-> "idle"]
  /\ request = [c \in Calls |-> {}]
  /\ runId = [c \in Calls |-> 0]
  /\ deferred = [c \in Calls |-> 0]

-----------------------------------------------------------------------------
(* The queue of the adapter. *)

Queued(c) == \E i \in DOMAIN queue : queue[i] = c

HoldsLock(c) == queue # <<>> /\ Head(queue) = c

Release == queue' = Tail(queue)

(* withTransaction and #withWriteAccess, up to their first await. *)
Enqueue(c) ==
  /\ stage[c] \in WritingStage
  /\ ~Queued(c)
  /\ queue' = Append(queue, c)
  /\ UNCHANGED <<store, saved, now, stage, request, runId, deferred>>

(* Fault: a write outside a transaction does not wait for the open one.    *)
FaultyWrite(c, from, to, newStore) ==
  /\ stage[c] = from
  /\ queue' = SelectSeq(queue, LAMBDA d : d # c)
  /\ store' = newStore
  /\ stage' = [stage EXCEPT ![c] = to]
  /\ UNCHANGED <<saved, now, request>>

(* The body of one write, run at the head of the queue, and its release.   *)
Write(c, from, to, newStore) ==
  /\ stage[c] = from
  /\ HoldsLock(c)
  /\ Release
  /\ store' = newStore
  /\ stage' = [stage EXCEPT ![c] = to]
  /\ UNCHANGED <<saved, now, request>>

(* Fault: the state is not restored. *)
FaultyRollback(c, to) ==
  /\ saved' = {}
  /\ Release
  /\ stage' = [stage EXCEPT ![c] = to]
  /\ UNCHANGED <<store, now, request, runId, deferred>>

(* #restoreState and the release, when a handler throws. *)
Rollback(c, to) ==
  /\ store' \in saved
  /\ saved' = {}
  /\ Release
  /\ stage' = [stage EXCEPT ![c] = to]
  /\ UNCHANGED <<now, request, runId, deferred>>

(* Fault: the promise of the queue is not resolved. *)
FaultyCommit(c, to, newStore) ==
  /\ store' = newStore
  /\ saved' = {}
  /\ stage' = [stage EXCEPT ![c] = to]
  /\ UNCHANGED <<queue, now, request, runId, deferred>>

(* The handler returned: its last write, and the release. *)
Commit(c, to, newStore) ==
  /\ store' = newStore
  /\ saved' = {}
  /\ Release
  /\ stage' = [stage EXCEPT ![c] = to]
  /\ UNCHANGED <<now, request, runId, deferred>>

-----------------------------------------------------------------------------
(* execute *)

(* Everything before the first write: the action exists, its input parses, *)
(* it has an undo handler if it is undoable, its target resolves, the      *)
(* actor is authorised.  The undo deadline is computed here, before the    *)
(* claim waits in the queue.                                               *)
RequestExecute(c) ==
  /\ stage[c] = "idle"
  /\ \E name \in Actions, actor \in Actors, tenantId \in Optional(Tenants),
        key \in Optional(Keys), input \in Inputs, target \in Optional(Targets) :
       /\ name \in Undoable => name \in WithUndoHandler
       /\ request' = [request EXCEPT ![c] =
            {[name |-> name, actor |-> actor, tenantId |-> tenantId,
              idempotencyKey |-> key, input |-> input, target |-> target,
              undoable |-> name \in Undoable,
              undoExpiresAt |->
                UndoExpiration(name \in Undoable, UndoWindow[name], now)]}]
  /\ stage' = [stage EXCEPT ![c] = "claim"]
  /\ UNCHANGED <<store, saved, queue, now, runId, deferred>>

(* createActionRun without a key; claimActionRun, which creates the run    *)
(* only if no run has its claim, and the runtime's comparison otherwise.   *)
ClaimActionRun(c) ==
  \E input \in request[c] :
    LET existing == ClaimedRuns(store, input)
    IN  /\ stage[c] = "claim"
        /\ HoldsLock(c)
        /\ Release
        /\ \/ /\ existing = {}
              /\ store' = CreateActionRun(store, input)
              /\ runId' = [runId EXCEPT ![c] = store.nextId]
              /\ stage' = [stage EXCEPT ![c] = "execute"]
           \/ \E id \in existing :
                /\ runId' = [runId EXCEPT ![c] = id]
                /\ stage' = [stage EXCEPT ![c] =
                     IF IdempotentRequestMatches(store.runs[id].request, input)
                     THEN "existing" ELSE "rejected"]
                /\ UNCHANGED store
        /\ request' = [request EXCEPT ![c] = {}]
        /\ UNCHANGED <<saved, now, deferred>>

(* withTransaction captures the state, marks the run running and enters    *)
(* the execute handler.                                                    *)
BeginExecute(c) ==
  /\ stage[c] = "execute"
  /\ HoldsLock(c)
  /\ saved' = {store}
  /\ store' = UpdateStatus(store, runId[c], "running")
  /\ stage' = [stage EXCEPT ![c] = "executing"]
  /\ UNCHANGED <<queue, now, request, runId, deferred>>

(* The handler saves a snapshot or records a side effect. *)
HandlerRecords(c) ==
  /\ stage[c] = "executing"
  /\ \/ /\ Cardinality(GetSnapshots(store, runId[c])) < MaxRecords
        /\ store' = SaveSnapshot(store, runId[c])
     \/ /\ Cardinality(GetSideEffects(store, runId[c])) < MaxRecords
        /\ \E effect \in Effects :
             store' = RecordSideEffect(store, runId[c], effect[1], effect[2])
  /\ UNCHANGED <<saved, queue, now, stage, request, runId, deferred>>

ExecuteReturns(c) ==
  /\ stage[c] = "executing"
  /\ Commit(c, "completed", UpdateStatus(store, runId[c], "completed"))

(* The handler throws, or returns a result that is not JSON. *)
ExecuteThrows(c) ==
  /\ stage[c] = "executing"
  /\ Rollback(c, "mark_failed")

MarkFailed(c) ==
  /\ Write(c, "mark_failed", "failed", UpdateStatus(store, runId[c], "failed"))
  /\ UNCHANGED <<runId, deferred>>

-----------------------------------------------------------------------------
(* undo *)

(* getActionRun, the tenant check and authorize; the read does not queue.  *)
(* The action of the run has an undo handler.                              *)
RequestUndo(c) ==
  /\ stage[c] = "idle"
  /\ \E id \in RunIds(store), tenantId \in Optional(Tenants) :
       /\ UndoTenantMatches(store.runs[id], tenantId)
       /\ store.runs[id].request.name \in WithUndoHandler
       /\ runId' = [runId EXCEPT ![c] = id]
  /\ stage' = [stage EXCEPT ![c] = "lock"]
  /\ UNCHANGED <<store, saved, queue, now, request, deferred>>

(* withActionRunLock: the locked run is read again, and marked             *)
(* undo_running only if it can be undone now.                              *)
LockAndClaimUndo(c) ==
  /\ stage[c] = "lock"
  /\ IF CanBeUndone(store.runs[runId[c]], now)
     THEN Write(c, "lock", "undo", UpdateStatus(store, runId[c], "undo_running"))
     ELSE Write(c, "lock", "rejected", store)
  /\ UNCHANGED <<runId, deferred>>

(* withTransaction: persisted conflicts and irreversible side effects      *)
(* refuse the undo before any code of the action runs.                     *)
BeginUndo(c) ==
  /\ stage[c] = "undo"
  /\ HoldsLock(c)
  /\ IF /\ GetConflicts(store, runId[c]) = {}
        /\ IrreversibleSideEffects(store, runId[c]) = {}
     THEN /\ saved' = {store}
          /\ stage' = [stage EXCEPT ![c] = "checking"]
          /\ UNCHANGED queue
     ELSE /\ stage' = [stage EXCEPT ![c] = "mark_undo_failed"]
          /\ Release
          /\ UNCHANGED saved
  /\ UNCHANGED <<store, now, request, runId, deferred>>

(* checkConflicts or the undo handler records a conflict: kept in memory.  *)
DeferConflict(c) ==
  /\ stage[c] \in {"checking", "undoing"}
  /\ deferred[c] < MaxDeferred
  /\ deferred' = [deferred EXCEPT ![c] = @ + 1]
  /\ UNCHANGED <<store, saved, queue, now, stage, request, runId>>

(* checkConflicts returns and nothing was recorded: the undo handler runs. *)
EnterUndoHandler(c) ==
  /\ stage[c] = "checking"
  /\ deferred[c] = 0
  /\ stage' = [stage EXCEPT ![c] = "undoing"]
  /\ UNCHANGED <<store, saved, queue, now, request, runId, deferred>>

UndoReturns(c) ==
  /\ stage[c] = "undoing"
  /\ Commit(c, "undone", UpdateStatus(store, runId[c], "undone"))

(* checkConflicts recorded a conflict or threw, the undo handler threw, or *)
(* its result is not JSON.                                                 *)
UndoThrows(c) ==
  /\ stage[c] \in {"checking", "undoing"}
  /\ Rollback(c, "mark_undo_failed")

(* Faults: a failed undo gives its run back; the flush is unconditional.   *)
FaultyMarkUndoFailed(c) ==
  /\ Write(c, "mark_undo_failed",
           IF deferred[c] = 0 THEN "undo_failed" ELSE "flush",
           UpdateStatus(store, runId[c], "completed"))
  /\ UNCHANGED <<runId, deferred>>

AlwaysFlush(c) ==
  /\ Write(c, "mark_undo_failed", "flush",
           UpdateStatus(store, runId[c], "undo_failed"))
  /\ UNCHANGED <<runId, deferred>>

(* The failed undo is recorded, then the conflicts are written one by one. *)
MarkUndoFailed(c) ==
  /\ Write(c, "mark_undo_failed",
           IF deferred[c] = 0 THEN "undo_failed" ELSE "flush",
           UpdateStatus(store, runId[c], "undo_failed"))
  /\ UNCHANGED <<runId, deferred>>

(* Fault: the flush stops after its first record. *)
FaultyFlushConflict(c) ==
  /\ Write(c, "flush", "undo_failed", RecordConflict(store, runId[c]))
  /\ deferred' = [deferred EXCEPT ![c] = 0]
  /\ UNCHANGED <<runId>>

FlushConflict(c) ==
  /\ Write(c, "flush", IF deferred[c] = 1 THEN "undo_failed" ELSE "flush",
           RecordConflict(store, runId[c]))
  /\ deferred' = [deferred EXCEPT ![c] = @ - 1]
  /\ UNCHANGED <<runId>>

-----------------------------------------------------------------------------
(* A request refused before it writes: unknown action or run, bad input,   *)
(* wrong tenant, permission denied, no undo handler.                       *)
RejectRequest(c) ==
  /\ stage[c] = "idle"
  /\ stage' = [stage EXCEPT ![c] = "rejected"]
  /\ UNCHANGED <<store, saved, queue, now, request, runId, deferred>>

(* The application records a conflict through the adapter it owns.         *)
RequestReport(c) ==
  /\ stage[c] = "idle"
  /\ \E id \in RunIds(store) : runId' = [runId EXCEPT ![c] = id]
  /\ stage' = [stage EXCEPT ![c] = "report"]
  /\ UNCHANGED <<store, saved, queue, now, request, deferred>>

ReportConflict(c) ==
  /\ Write(c, "report", "reported", RecordConflict(store, runId[c]))
  /\ UNCHANGED <<runId, deferred>>

Tick ==
  /\ now < MaxTime
  /\ now' = now + 1
  /\ UNCHANGED <<store, saved, queue, stage, request, runId, deferred>>

(* A call that has begun, until it ends. *)
Advance(c) ==
  \/ Enqueue(c)
  \/ ClaimActionRun(c) \/ BeginExecute(c)
  \/ HandlerRecords(c) \/ ExecuteReturns(c) \/ ExecuteThrows(c) \/ MarkFailed(c)
  \/ LockAndClaimUndo(c) \/ BeginUndo(c)
  \/ DeferConflict(c) \/ EnterUndoHandler(c) \/ UndoReturns(c) \/ UndoThrows(c)
  \/ MarkUndoFailed(c) \/ FlushConflict(c)
  \/ ReportConflict(c)

Request(c) ==
  RequestExecute(c) \/ RequestUndo(c) \/ RequestReport(c) \/ RejectRequest(c)

Next == Tick \/ \E c \in Calls : Request(c) \/ Advance(c)

Spec == Init /\ [][Next]_vars

(* The event loop runs every promise that is ready, and every handler of   *)
(* the application settles.                                                *)
FairSpec == Spec /\ \A c \in Calls : WF_vars(Advance(c))

-----------------------------------------------------------------------------
(* What the calls of one run are doing. *)

ExecutingStage == {"execute", "executing", "mark_failed"}
UndoingStage == {"undo", "checking", "undoing", "mark_undo_failed"}

CallsAt(id, stages) == {c \in Calls : runId[c] = id /\ stage[c] \in stages}

Status(id) == store.runs[id].status

(* Every run that is not settled has exactly one call that will settle it, *)
(* and no call works on a run that another one has settled: statuses are   *)
(* written unconditionally by updateActionRun, so two owners would race.   *)
OpenRunsHaveOneOwner ==
  \A id \in RunIds(store) :
    /\ IF Status(id) \in {"created", "running"}
       THEN \E c \in Calls : CallsAt(id, ExecutingStage) = {c}
       ELSE CallsAt(id, ExecutingStage) = {}
    /\ IF Status(id) = "undo_running"
       THEN \E c \in Calls : CallsAt(id, UndoingStage) = {c}
       ELSE CallsAt(id, UndoingStage) = {}

(* What a call was told stays true: restoreState of another transaction    *)
(* never takes back the outcome of a call that has returned or thrown.     *)
AcknowledgedIsKept ==
  \A c \in Calls :
    /\ stage[c] = "completed" =>
         Status(runId[c]) \in {"completed", "undo_running", "undone", "undo_failed"}
    /\ stage[c] = "undone" => Status(runId[c]) = "undone"
    /\ stage[c] = "failed" => Status(runId[c]) = "failed"
    /\ stage[c] = "undo_failed" => Status(runId[c]) = "undo_failed"

(* The snapshots and side effects of an execution that threw are gone:     *)
(* withTransaction rolls back everything its handler wrote.                *)
FailedRunLeavesNothing ==
  \A id \in RunIds(store) :
    Status(id) = "failed" =>
      GetSnapshots(store, id) = {} /\ GetSideEffects(store, id) = {}

(* From its conflict check to its commit an undo is alone: no conflict can *)
(* be persisted between the check of undo and the end of its handler.      *)
UndoSeesNoConflict ==
  \A c \in Calls :
    stage[c] \in {"checking", "undoing"} =>
      /\ GetConflicts(store, runId[c]) = {}
      /\ IrreversibleSideEffects(store, runId[c]) = {}

(* Runs and conflicts are never removed, and the snapshots and effects of  *)
(* a run only while it is running: a rollback that restored a state        *)
(* captured too early would remove the writes of other calls.              *)
AuditIsAppendOnly ==
  [][/\ RunIds(store) \subseteq RunIds(store')
     /\ store.conflicts \subseteq store'.conflicts
     /\ \A id \in RunIds(store) :
          Status(id) # "running" =>
            /\ GetSnapshots(store, id) \subseteq GetSnapshots(store', id)
            /\ GetSideEffects(store, id) \subseteq GetSideEffects(store', id)]_vars

(* Every call ends: the queue never loses its holder, and a transaction    *)
(* releases it on each way out.                                            *)
EveryCallReturns ==
  \A c \in Calls : stage[c] # "idle" ~> stage[c] \in EndStage

(* The conflicts recorded by an undo that is then refused are all written, *)
(* although the transaction they were recorded in is rolled back.          *)
ConflictsReachTheAudit ==
  \A c \in Calls, n \in 1 .. MaxDeferred :
    stage[c] = "mark_undo_failed" /\ deferred[c] = n
      ~> /\ stage[c] = "undo_failed"
         /\ Cardinality(GetConflicts(store, runId[c])) >= n

(* SECURITY.md: "RollbackKit refuses undo after conflict records are       *)
(* created, even if the conflict check does not throw."  The code reads    *)
(* the deferred records once, before the undo handler, so a conflict the   *)
(* handler itself records does not refuse the undo, and is dropped.        *)
NoUndoAfterConflict ==
  \A c \in Calls : stage[c] = "undone" => deferred[c] = 0

-----------------------------------------------------------------------------
(* The audit trail of ActionLifecycle, read off the maps. *)

PhaseOf(status) ==
  CASE status \in {"created", "running"} -> "pending"
    [] status = "undo_running" -> "undoing"
    [] OTHER -> status

AuditRuns ==
  [id \in RunIds(store) |->
     LET created == store.runs[id].request
         phase == PhaseOf(Status(id))
     IN  [claim |-> {<<created.name, created.actor, created.tenantId, key>> :
                       key \in created.idempotencyKey},
          undoable |-> created.undoable,
          irreversible |-> /\ phase # "pending"
                           /\ IrreversibleSideEffects(store, id) # {},
          phase |-> phase]]
=============================================================================
