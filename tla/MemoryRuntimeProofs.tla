------------------------- MODULE MemoryRuntimeProofs -------------------------
(***************************************************************************)
(* Proofs about MemoryRuntime, for every number of calls and every set of  *)
(* actions, keys, inputs and side effects.                                 *)
(***************************************************************************)
EXTENDS MemoryRuntime, LifecycleRulesProofs

-----------------------------------------------------------------------------
(* What each operation of the adapter does to the fields of a store. *)

Fields(s, nextId, runs, snapshots, sideEffects, conflicts) ==
  s = [nextId |-> nextId, runs |-> runs, snapshots |-> snapshots,
       sideEffects |-> sideEffects, conflicts |-> conflicts]

LEMMA Renumbered ==
  ASSUME NEW s, IsStore(s)
  PROVE  s.nextId + 1 \in Ids /\ s.nextId \in Ids
BY DEF IsStore, Ids

LEMMA Created ==
  ASSUME NEW s, IsStore(s), NEW input \in CreateInput,
         NEW t, t = CreateActionRun(s, input)
  PROVE  /\ IsStore(t)
         /\ t.nextId = s.nextId + 1
         /\ RunIds(t) = RunIds(s) \cup {s.nextId}
         /\ t.runs[s.nextId] = [request |-> input, status |-> "created"]
         /\ \A id \in RunIds(s) \ {s.nextId} : t.runs[id] = s.runs[id]
         /\ t.snapshots = s.snapshots
         /\ t.sideEffects = s.sideEffects
         /\ t.conflicts = s.conflicts
<1> DEFINE runs == [id \in RunIds(s) \cup {s.nextId} |->
                      IF id = s.nextId
                      THEN [request |-> input, status |-> "created"]
                      ELSE s.runs[id]]
<1>1. Fields(t, s.nextId + 1, runs, s.snapshots, s.sideEffects, s.conflicts)
  BY DEF Fields, IsStore, CreateActionRun
<1>2. [request |-> input, status |-> "created"] \in ActionRun
  BY DEF ActionRun, ActionRunStatus
<1>3. /\ runs \in [RunIds(s) \cup {s.nextId} -> ActionRun]
      /\ DOMAIN runs = RunIds(s) \cup {s.nextId}
      /\ runs[s.nextId] = [request |-> input, status |-> "created"]
      /\ \A id \in RunIds(s) \ {s.nextId} : runs[id] = s.runs[id]
  BY <1>2 DEF IsStore, RunIds
<1> HIDE DEF runs
<1>4. IsStore(t)
  BY <1>1, <1>3, Renumbered DEF Fields, IsStore, RunIds
<1> QED
  BY <1>1, <1>3, <1>4 DEF Fields, RunIds

LEMMA Updated ==
  ASSUME NEW s, IsStore(s), NEW id \in RunIds(s), NEW status \in ActionRunStatus,
         NEW t, t = UpdateStatus(s, id, status)
  PROVE  /\ IsStore(t)
         /\ t.nextId = s.nextId
         /\ RunIds(t) = RunIds(s)
         /\ t.runs[id].status = status
         /\ t.runs[id].request = s.runs[id].request
         /\ \A other \in RunIds(s) \ {id} : t.runs[other] = s.runs[other]
         /\ t.snapshots = s.snapshots
         /\ t.sideEffects = s.sideEffects
         /\ t.conflicts = s.conflicts
<1> DEFINE runs == [s.runs EXCEPT ![id].status = status]
<1>1. Fields(t, s.nextId, runs, s.snapshots, s.sideEffects, s.conflicts)
  BY DEF Fields, IsStore, UpdateStatus
<1>2. [s.runs[id] EXCEPT !.status = status] \in ActionRun
  BY DEF IsStore, RunIds, ActionRun
<1>3. /\ runs \in [RunIds(s) -> ActionRun]
      /\ DOMAIN runs = RunIds(s)
      /\ runs[id].status = status
      /\ runs[id].request = s.runs[id].request
      /\ \A other \in RunIds(s) \ {id} : runs[other] = s.runs[other]
  BY <1>2 DEF IsStore, RunIds, ActionRun
<1> HIDE DEF runs
<1>4. IsStore(t)
  BY <1>1, <1>3 DEF Fields, IsStore, RunIds
<1> QED
  BY <1>1, <1>3, <1>4 DEF Fields, RunIds

LEMMA Saved ==
  ASSUME NEW s, IsStore(s), NEW id \in RunIds(s), NEW t, t = SaveSnapshot(s, id)
  PROVE  /\ IsStore(t)
         /\ t.nextId = s.nextId + 1
         /\ t.runs = s.runs
         /\ s.snapshots \subseteq t.snapshots
         /\ \A x \in t.snapshots \ s.snapshots : x.actionRunId = id
         /\ t.sideEffects = s.sideEffects
         /\ t.conflicts = s.conflicts
<1> DEFINE new == [id |-> s.nextId, actionRunId |-> id]
<1>1. Fields(t, s.nextId + 1, s.runs, s.snapshots \cup {new}, s.sideEffects,
             s.conflicts)
  BY DEF Fields, IsStore, SaveSnapshot
<1>2. new \in Snapshot
  BY DEF IsStore, RunIds, Snapshot
<1>3. IsStore(t)
  BY <1>1, <1>2, Renumbered DEF Fields, IsStore
<1> QED
  BY <1>1, <1>3 DEF Fields

LEMMA Recorded ==
  ASSUME NEW s, IsStore(s), NEW id \in RunIds(s),
         NEW status \in SideEffectStatus, NEW undoable \in BOOLEAN,
         NEW t, t = RecordSideEffect(s, id, status, undoable)
  PROVE  /\ IsStore(t)
         /\ t.nextId = s.nextId + 1
         /\ t.runs = s.runs
         /\ t.snapshots = s.snapshots
         /\ s.sideEffects \subseteq t.sideEffects
         /\ \A x \in t.sideEffects \ s.sideEffects : x.actionRunId = id
         /\ t.conflicts = s.conflicts
<1> DEFINE new == [id |-> s.nextId, actionRunId |-> id, status |-> status,
                   undoable |-> undoable]
<1>1. Fields(t, s.nextId + 1, s.runs, s.snapshots, s.sideEffects \cup {new},
             s.conflicts)
  BY DEF Fields, IsStore, RecordSideEffect
<1>2. new \in ActionSideEffect
  BY DEF IsStore, RunIds, ActionSideEffect
<1>3. new.actionRunId = id
  OBVIOUS
<1> HIDE DEF new
<1>4. IsStore(t)
  BY <1>1, <1>2, Renumbered DEF Fields, IsStore
<1> QED
  BY <1>1, <1>3, <1>4 DEF Fields

LEMMA ConflictRecorded ==
  ASSUME NEW s, IsStore(s), NEW id \in RunIds(s), NEW t, t = RecordConflict(s, id)
  PROVE  /\ IsStore(t)
         /\ t.nextId = s.nextId + 1
         /\ t.runs = s.runs
         /\ t.snapshots = s.snapshots
         /\ t.sideEffects = s.sideEffects
         /\ s.conflicts \subseteq t.conflicts
<1> DEFINE new == [id |-> s.nextId, actionRunId |-> id]
<1>1. Fields(t, s.nextId + 1, s.runs, s.snapshots, s.sideEffects,
             s.conflicts \cup {new})
  BY DEF Fields, IsStore, RecordConflict
<1>2. new \in ActionConflict
  BY DEF IsStore, RunIds, ActionConflict
<1>3. IsStore(t)
  BY <1>1, <1>2, Renumbered DEF Fields, IsStore
<1> QED
  BY <1>1, <1>3 DEF Fields

-----------------------------------------------------------------------------
(* The inductive invariant. *)

OwningStage == ExecutingStage \cup UndoingStage

(* Stages of a call that has a run. *)
BoundStage == Stage \ {"idle", "claim", "rejected"}

(* Of any store, the captured one too: ids are used once, records belong   *)
(* to runs, and a run that has not run, or was rolled back, has none.      *)
StoreInv(s) ==
  /\ \A id \in RunIds(s) : id < s.nextId
  /\ \A x \in s.snapshots \cup s.sideEffects : x.actionRunId \in RunIds(s)
  /\ \A id \in RunIds(s) :
       s.runs[id].status \in {"created", "failed"} =>
         GetSnapshots(s, id) = {} /\ GetSideEffects(s, id) = {}

StoresInv == StoreInv(store) /\ \A s \in saved : StoreInv(s)

(* A state is captured exactly while a handler runs, at the head of the    *)
(* queue: a single write finds no transaction open.                        *)
LockInv ==
  /\ \A c \in Calls : stage[c] \in HandlerStage => HoldsLock(c) /\ saved # {}
  /\ saved # {} => \E c \in Calls : stage[c] \in HandlerStage

BoundRunsExist ==
  \A c \in Calls : stage[c] \in BoundStage => runId[c] \in RunIds(store)

StatusOfOwned ==
  \A c \in Calls :
    /\ stage[c] \in {"execute", "mark_failed"} => Status(runId[c]) = "created"
    /\ stage[c] = "executing" => Status(runId[c]) = "running"
    /\ stage[c] \in UndoingStage => Status(runId[c]) = "undo_running"
    /\ stage[c] = "flush" => Status(runId[c]) = "undo_failed"

OneOwner ==
  \A c, d \in Calls :
    stage[c] \in OwningStage /\ stage[d] \in OwningStage /\ runId[c] = runId[d]
      => c = d

OpenRunsAreOwned ==
  \A id \in RunIds(store) :
    Status(id) \in {"created", "running", "undo_running"} =>
      \E c \in Calls : stage[c] \in OwningStage /\ runId[c] = id

(* What a rollback takes back: the status and the records of its own run.  *)
SavedInv ==
  \A c \in Calls, s \in saved :
    /\ stage[c] \in {"checking", "undoing"} => s = store
    /\ stage[c] = "executing" =>
         /\ RunIds(s) = RunIds(store)
         /\ s.runs[runId[c]].status = "created"
         /\ s.runs[runId[c]].request = store.runs[runId[c]].request
         /\ \A id \in RunIds(s) \ {runId[c]} : s.runs[id] = store.runs[id]
         /\ s.snapshots \subseteq store.snapshots
         /\ \A x \in store.snapshots \ s.snapshots : x.actionRunId = runId[c]
         /\ s.sideEffects \subseteq store.sideEffects
         /\ \A x \in store.sideEffects \ s.sideEffects : x.actionRunId = runId[c]
         /\ s.conflicts = store.conflicts

FlushHasMore == \A c \in Calls : stage[c] = "flush" => deferred[c] # 0

OwnerInv == BoundRunsExist /\ StatusOfOwned /\ OneOwner /\ OpenRunsAreOwned

IInv ==
  /\ TypeOK
  /\ LockInv
  /\ StoresInv
  /\ OwnerInv
  /\ SavedInv
  /\ FlushHasMore
  /\ AcknowledgedIsKept
  /\ UndoSeesNoConflict

-----------------------------------------------------------------------------
(* The queue. *)

LEMMA Places ==
  ASSUME queue \in Seq(Calls)
  PROVE  /\ queue # <<>> => Tail(queue) \in Seq(Calls)
         /\ \A c \in Calls : Append(queue, c) \in Seq(Calls)
         /\ \A c, d \in Calls : HoldsLock(c) =>
              Append(queue, d) # <<>> /\ Head(Append(queue, d)) = c
BY DEF HoldsLock

LEMMA HandlerIsAlone ==
  ASSUME LockInv, NEW c \in Calls, stage[c] \in HandlerStage
  PROVE  /\ \A d \in Calls : stage[d] \in HandlerStage => d = c
         /\ \A d \in Calls : HoldsLock(d) => d = c
         /\ queue # <<>>
         /\ saved # {}
BY DEF LockInv, HoldsLock

LEMMA WriterIsAlone ==
  ASSUME LockInv, NEW c \in Calls, stage[c] \in WritingStage, HoldsLock(c)
  PROVE  /\ saved = {}
         /\ \A d \in Calls : stage[d] \notin HandlerStage
<1>1. \A d \in Calls : stage[d] \in HandlerStage => d = c
  BY DEF LockInv, HoldsLock
<1>2. stage[c] \notin HandlerStage
  BY DEF HandlerStage, WritingStage
<1> QED
  BY <1>1, <1>2 DEF LockInv

(* A step that keeps the queue's head, the captured state and who is in a  *)
(* handler keeps the lock.                                                 *)
LEMMA LockUntouched ==
  ASSUME TypeOK, LockInv,
         \A c \in Calls : stage'[c] \in HandlerStage <=> stage[c] \in HandlerStage,
         saved' = saved,
         queue' = queue \/ \E d \in Calls : queue' = Append(queue, d)
  PROVE  LockInv'
<1>1. \A c \in Calls : HoldsLock(c) => HoldsLock(c)'
  BY Places DEF HoldsLock, TypeOK
<1> QED
  BY <1>1 DEF LockInv

(* A step after which no handler runs and nothing is captured. *)
LEMMA LockReleased ==
  ASSUME saved' = {}, \A c \in Calls : stage'[c] \notin HandlerStage
  PROVE  LockInv'
BY DEF LockInv

LEMMA LockOfWrite ==
  ASSUME TypeOK, LockInv, NEW c \in Calls, stage[c] \in WritingStage, HoldsLock(c),
         NEW to \in Stage \ HandlerStage,
         stage' = [stage EXCEPT ![c] = to], saved' = saved
  PROVE  LockInv'
<1>1. \A d \in Calls : stage'[d] \notin HandlerStage
  BY WriterIsAlone DEF TypeOK
<1> QED
  BY <1>1, WriterIsAlone, LockReleased

LEMMA LockOfBegin ==
  ASSUME TypeOK, LockInv, NEW c \in Calls, stage[c] \in WritingStage, HoldsLock(c),
         NEW to \in HandlerStage,
         stage' = [stage EXCEPT ![c] = to], saved' = {store}, queue' = queue
  PROVE  LockInv'
<1>1. \A d \in Calls : stage'[d] \in HandlerStage => d = c
  BY WriterIsAlone DEF TypeOK
<1>2. HoldsLock(c)' /\ saved' # {} /\ stage'[c] \in HandlerStage
  BY DEF TypeOK, HoldsLock
<1> QED
  BY <1>1, <1>2 DEF LockInv

LEMMA LockOfEnd ==
  ASSUME TypeOK, LockInv, NEW c \in Calls, stage[c] \in HandlerStage,
         NEW to \in Stage \ HandlerStage,
         stage' = [stage EXCEPT ![c] = to], saved' = {}
  PROVE  LockInv'
<1>1. \A d \in Calls : stage'[d] \notin HandlerStage
  BY HandlerIsAlone DEF TypeOK
<1> QED
  BY <1>1, LockReleased

LEMMA StagesAreDisjoint ==
  /\ WritingStage \cap HandlerStage = {}
  /\ EndStage \cap HandlerStage = {}
  /\ "idle" \notin HandlerStage
  /\ WritingStage \subseteq Stage /\ EndStage \subseteq Stage /\ HandlerStage \subseteq Stage
BY DEF WritingStage, HandlerStage, EndStage, Stage

LEMMA LockStep == TypeOK /\ LockInv /\ [Next]_vars => LockInv'
<1> SUFFICES ASSUME TypeOK, LockInv, [Next]_vars PROVE LockInv'
  OBVIOUS
<1> USE StagesAreDisjoint
<1>1. CASE UNCHANGED vars \/ Tick
  BY <1>1 DEF vars, Tick, LockInv, HoldsLock
<1>2. ASSUME NEW c \in Calls, Enqueue(c) \/ DeferConflict(c) \/ HandlerRecords(c)
      PROVE  LockInv'
  BY <1>2, LockUntouched DEF Enqueue, DeferConflict, HandlerRecords
<1>3. ASSUME NEW c \in Calls, EnterUndoHandler(c) \/ Request(c)
      PROVE  LockInv'
  <2>1. PICK from, to \in Stage :
          /\ stage[c] = from /\ stage' = [stage EXCEPT ![c] = to]
          /\ from \in HandlerStage <=> to \in HandlerStage
    BY <1>3 DEF EnterUndoHandler, Request, RequestExecute, RequestUndo,
         RequestReport, RejectRequest, HandlerStage, Stage, WritingStage, EndStage
  <2>2. saved' = saved /\ queue' = queue
    BY <1>3 DEF EnterUndoHandler, Request, RequestExecute, RequestUndo,
         RequestReport, RejectRequest
  <2> QED
    BY <2>1, <2>2, LockUntouched DEF TypeOK
<1>4. ASSUME NEW c \in Calls, ClaimActionRun(c) PROVE LockInv'
  <2>1. PICK to \in {"execute", "existing", "rejected"} :
          stage' = [stage EXCEPT ![c] = to]
    BY <1>4 DEF ClaimActionRun
  <2>2. stage[c] \in WritingStage /\ HoldsLock(c) /\ saved' = saved
    BY <1>4 DEF ClaimActionRun, WritingStage
  <2>3. to \in Stage \ HandlerStage
    BY DEF Stage, HandlerStage, WritingStage, EndStage
  <2> QED
    BY <2>1, <2>2, <2>3, LockOfWrite
<1>5. ASSUME NEW c \in Calls, NEW from \in WritingStage,
             NEW to \in WritingStage \cup EndStage, NEW newStore,
             Write(c, from, to, newStore)
      PROVE  LockInv'
  BY <1>5, LockOfWrite DEF Write
<1>6. ASSUME NEW c \in Calls,
             MarkFailed(c) \/ MarkUndoFailed(c) \/ FlushConflict(c) \/ ReportConflict(c)
      PROVE  LockInv'
  BY <1>5, <1>6 DEF MarkFailed, MarkUndoFailed, FlushConflict, ReportConflict,
       WritingStage, EndStage
<1>7. ASSUME NEW c \in Calls, LockAndClaimUndo(c) PROVE LockInv'
  BY <1>5, <1>7 DEF LockAndClaimUndo, WritingStage, EndStage
<1>8. ASSUME NEW c \in Calls, BeginExecute(c) PROVE LockInv'
  BY <1>8, LockOfBegin DEF BeginExecute, WritingStage, HandlerStage
<1>9. ASSUME NEW c \in Calls, BeginUndo(c) PROVE LockInv'
  <2>1. stage[c] \in WritingStage /\ HoldsLock(c)
    BY <1>9 DEF BeginUndo, WritingStage
  <2>2. CASE saved' = {store} /\ stage' = [stage EXCEPT ![c] = "checking"]
              /\ queue' = queue
    BY <2>1, <2>2, LockOfBegin DEF HandlerStage
  <2>3. CASE saved' = saved /\ stage' = [stage EXCEPT ![c] = "mark_undo_failed"]
    BY <2>1, <2>3, LockOfWrite DEF WritingStage
  <2> QED
    BY <1>9, <2>2, <2>3 DEF BeginUndo
<1>10. ASSUME NEW c \in Calls,
              \/ ExecuteReturns(c) \/ ExecuteThrows(c)
              \/ UndoReturns(c) \/ UndoThrows(c)
       PROVE  LockInv'
  <2>1. /\ stage[c] \in HandlerStage
        /\ saved' = {}
        /\ \E to \in WritingStage \cup EndStage : stage' = [stage EXCEPT ![c] = to]
    BY <1>10 DEF ExecuteReturns, ExecuteThrows, UndoReturns, UndoThrows, Commit,
         Rollback, HandlerStage, WritingStage, EndStage
  <2> QED
    BY <2>1, LockOfEnd
<1> QED
  BY <1>1, <1>2, <1>3, <1>4, <1>6, <1>7, <1>8, <1>9, <1>10 DEF Next, Advance

-----------------------------------------------------------------------------
(* Types. *)

LEMMA Typed ==
  ASSUME TypeOK,
         NEW c \in Calls,
         IsStore(store'),
         saved' = saved \/ saved' = {} \/ saved' = {store},
         \/ queue' = queue
         \/ queue' = Append(queue, c)
         \/ queue # <<>> /\ queue' = Tail(queue),
         now' = now \/ now' = now + 1,
         \E to \in Stage : stage' = [stage EXCEPT ![c] = to],
         \E r \in Optional(CreateInput) : request' = [request EXCEPT ![c] = r],
         \E id \in Nat : runId' = [runId EXCEPT ![c] = id],
         \E n \in Nat : deferred' = [deferred EXCEPT ![c] = n]
  PROVE  TypeOK'
<1>1. queue' \in Seq(Calls)
  BY Places DEF TypeOK
<1>2. \A s, t \in saved' : IsStore(s) /\ s = t
  BY DEF TypeOK
<1>3. stage' \in [Calls -> Stage] /\ request' \in [Calls -> Optional(CreateInput)]
  BY DEF TypeOK
<1>4. runId' \in [Calls -> Nat] /\ deferred' \in [Calls -> Nat] /\ now' \in Nat
  BY DEF TypeOK
<1> QED
  BY <1>1, <1>2, <1>3, <1>4 DEF TypeOK

(* A variable that does not change is one that one call did not change. *)
LEMMA Unchanged ==
  ASSUME TypeOK, NEW c \in Calls
  PROVE  /\ stage[c] \in Stage /\ stage = [stage EXCEPT ![c] = stage[c]]
         /\ request[c] \in Optional(CreateInput)
         /\ request = [request EXCEPT ![c] = request[c]]
         /\ runId[c] \in Nat /\ runId = [runId EXCEPT ![c] = runId[c]]
         /\ deferred[c] \in Nat /\ deferred = [deferred EXCEPT ![c] = deferred[c]]
BY DEF TypeOK

LEMMA RequestTyped ==
  ASSUME TypeOK, NEW name \in Actions, NEW actor \in Actors,
         NEW tenantId \in Optional(Tenants), NEW key \in Optional(Keys),
         NEW input \in Inputs, NEW target \in Optional(Targets)
  PROVE  {[name |-> name, actor |-> actor, tenantId |-> tenantId,
           idempotencyKey |-> key, input |-> input, target |-> target,
           undoable |-> name \in Undoable,
           undoExpiresAt |->
             UndoExpiration(name \in Undoable, UndoWindow[name], now)]}
           \in Optional(CreateInput)
<1>1. (name \in Undoable) \in BOOLEAN
  OBVIOUS
<1>2. UndoWindow[name] \in Optional(Nat)
  BY DefinitionsAssumption
<1>3. UndoExpiration(name \in Undoable, UndoWindow[name], now) \in Optional(Nat)
  <2>1. \A w \in UndoWindow[name] : w \in Nat
    BY <1>2 DEF Optional
  <2>2. \A v, w \in UndoWindow[name] : v = w
    BY <1>2 DEF Optional
  <2> QED
    BY <2>1, <2>2 DEF UndoExpiration, Optional, TypeOK
<1> DEFINE undoable == name \in Undoable
           expires == UndoExpiration(name \in Undoable, UndoWindow[name], now)
<1>4. undoable \in BOOLEAN /\ expires \in Optional(Nat)
  BY <1>1, <1>3
<1> HIDE DEF undoable, expires
<1>5. [name |-> name, actor |-> actor, tenantId |-> tenantId,
       idempotencyKey |-> key, input |-> input, target |-> target,
       undoable |-> undoable, undoExpiresAt |-> expires] \in CreateInput
  BY <1>4 DEF CreateInput
<1>6. \A r \in CreateInput : {r} \in Optional(CreateInput)
  BY DEF Optional
<1> QED
  BY <1>5, <1>6 DEF undoable, expires

LEMMA StatusesAreTyped ==
  {"created", "running", "completed", "failed", "undo_running", "undone",
   "undo_failed"} \subseteq ActionRunStatus
BY DEF ActionRunStatus

LEMMA StagesAreTyped ==
  /\ {"idle", "claim", "execute", "mark_failed", "lock", "undo",
      "mark_undo_failed", "flush", "report", "executing", "checking", "undoing",
      "completed", "existing", "failed", "undone", "undo_failed", "reported",
      "rejected"} = Stage
  /\ {"execute", "mark_failed", "lock", "undo",
      "mark_undo_failed", "flush", "report", "executing", "checking", "undoing",
      "completed", "existing", "failed", "undone", "undo_failed", "reported"}
       = BoundStage
BY DEF Stage, WritingStage, HandlerStage, EndStage, BoundStage

(* Creating a run, and what the other operations write to a run that       *)
(* exists, gives a store again.                                            *)
LEMMA StoreSteps ==
  ASSUME TypeOK, NEW id \in RunIds(store)
  PROVE  /\ \A status \in ActionRunStatus : IsStore(UpdateStatus(store, id, status))
         /\ IsStore(SaveSnapshot(store, id))
         /\ \A effect \in Effects :
              IsStore(RecordSideEffect(store, id, effect[1], effect[2]))
         /\ IsStore(RecordConflict(store, id))
<1>1. IsStore(store)
  BY DEF TypeOK
<1>2. \A effect \in Effects : effect[1] \in SideEffectStatus /\ effect[2] \in BOOLEAN
  BY DefinitionsAssumption
<1>3. \A status \in ActionRunStatus : IsStore(UpdateStatus(store, id, status))
  BY <1>1, Updated
<1>4. IsStore(SaveSnapshot(store, id)) /\ IsStore(RecordConflict(store, id))
  BY <1>1, Saved, ConflictRecorded
<1>5. \A effect \in Effects :
        IsStore(RecordSideEffect(store, id, effect[1], effect[2]))
  BY <1>1, <1>2, Recorded
<1> QED
  BY <1>3, <1>4, <1>5

TypeParts == TypeOK /\ LockInv /\ BoundRunsExist /\ FlushHasMore

LEMMA HandlerStores ==
  ASSUME TypeOK, NEW s \in saved
  PROVE  IsStore(s)
BY DEF TypeOK

LEMMA TypeOfRequests ==
  ASSUME TypeOK, NEW c \in Calls, Request(c) \/ Enqueue(c) \/ DeferConflict(c)
                                    \/ EnterUndoHandler(c)
  PROVE  TypeOK'
<1> USE StagesAreTyped
<1>1. IsStore(store)
  BY DEF TypeOK
<1>2. CASE Enqueue(c)
  BY <1>1, <1>2, Typed, Unchanged DEF Enqueue
<1>3. CASE DeferConflict(c)
  <2>1. deferred[c] + 1 \in Nat
    BY Unchanged
  <2> QED
    BY <1>1, <1>3, <2>1, Typed, Unchanged DEF DeferConflict
<1>4. CASE EnterUndoHandler(c) \/ RejectRequest(c)
  <2>1. \E to \in Stage : stage' = [stage EXCEPT ![c] = to]
    BY <1>4 DEF EnterUndoHandler, RejectRequest
  <2>2. UNCHANGED <<store, saved, queue, now, request, runId, deferred>>
    BY <1>4 DEF EnterUndoHandler, RejectRequest
  <2> QED
    BY <1>1, <2>1, <2>2, Typed, Unchanged
<1>5. CASE RequestUndo(c) \/ RequestReport(c)
  <2>1. RunIds(store) \subseteq Nat
    BY <1>1 DEF IsStore, RunIds, Ids
  <2>2. \E id \in Nat : runId' = [runId EXCEPT ![c] = id]
    BY <1>5, <2>1 DEF RequestUndo, RequestReport
  <2>3. \E to \in Stage : stage' = [stage EXCEPT ![c] = to]
    BY <1>5 DEF RequestUndo, RequestReport
  <2>4. UNCHANGED <<store, saved, queue, now, request, deferred>>
    BY <1>5 DEF RequestUndo, RequestReport
  <2> QED
    BY <1>1, <2>2, <2>3, <2>4, Typed, Unchanged
<1>6. CASE RequestExecute(c)
  <2>1. \E r \in Optional(CreateInput) : request' = [request EXCEPT ![c] = r]
    <3>1. PICK name \in Actions, actor \in Actors, tenantId \in Optional(Tenants),
               key \in Optional(Keys), input \in Inputs, target \in Optional(Targets) :
            request' = [request EXCEPT ![c] =
              {[name |-> name, actor |-> actor, tenantId |-> tenantId,
                idempotencyKey |-> key, input |-> input, target |-> target,
                undoable |-> name \in Undoable,
                undoExpiresAt |->
                  UndoExpiration(name \in Undoable, UndoWindow[name], now)]}]
      BY <1>6, ZenonT(30) DEF RequestExecute
    <3> QED
      BY <3>1, RequestTyped, Zenon
  <2> QED
    BY <1>1, <1>6, <2>1, Typed, Unchanged DEF RequestExecute
<1> QED
  BY <1>2, <1>3, <1>4, <1>5, <1>6 DEF Request

LEMMA TypeOfExecute ==
  ASSUME TypeParts, NEW c \in Calls,
         \/ ClaimActionRun(c) \/ BeginExecute(c) \/ HandlerRecords(c)
         \/ ExecuteReturns(c) \/ ExecuteThrows(c)
  PROVE  TypeOK'
<1> USE StagesAreTyped DEF TypeParts
<1>1. IsStore(store)
  BY DEF TypeOK
<1>2. CASE ClaimActionRun(c)
  <2>1. PICK input \in request[c] :
          \/ /\ store' = CreateActionRun(store, input)
             /\ runId' = [runId EXCEPT ![c] = store.nextId]
             /\ stage' = [stage EXCEPT ![c] = "execute"]
          \/ \E id \in ClaimedRuns(store, input), to \in {"existing", "rejected"} :
               /\ runId' = [runId EXCEPT ![c] = id]
               /\ stage' = [stage EXCEPT ![c] = to]
               /\ store' = store
    BY <1>2 DEF ClaimActionRun
  <2>2. input \in CreateInput /\ {} \in Optional(CreateInput)
    BY Unchanged DEF Optional
  <2>3. IsStore(CreateActionRun(store, input)) /\ store.nextId \in Nat
    BY <1>1, <2>2, Created, Renumbered DEF Ids
  <2>4. ClaimedRuns(store, input) \subseteq Nat
    BY <1>1 DEF ClaimedRuns, IsStore, RunIds, Ids
  <2>5. /\ IsStore(store')
        /\ \E id \in Nat : runId' = [runId EXCEPT ![c] = id]
        /\ \E to \in Stage : stage' = [stage EXCEPT ![c] = to]
    BY <1>1, <2>1, <2>3, <2>4
  <2>6. /\ queue # <<>> /\ queue' = Tail(queue)
        /\ \E r \in Optional(CreateInput) : request' = [request EXCEPT ![c] = r]
        /\ saved' = saved /\ now' = now /\ deferred' = deferred
    BY <1>2, <2>2 DEF ClaimActionRun, HoldsLock, Release
  <2> QED
    BY <2>5, <2>6, Typed, Unchanged
<1>3. CASE BeginExecute(c)
  <2>1. runId[c] \in RunIds(store)
    BY <1>3 DEF BeginExecute, BoundRunsExist
  <2>2. IsStore(UpdateStatus(store, runId[c], "running"))
    BY <2>1, StoreSteps, StatusesAreTyped
  <2> QED
    BY <1>3, <2>2, Typed, Unchanged DEF BeginExecute
<1>4. CASE HandlerRecords(c)
  <2>1. runId[c] \in RunIds(store)
    BY <1>4 DEF HandlerRecords, BoundRunsExist
  <2>2. IsStore(store')
    BY <1>4, <2>1, StoreSteps DEF HandlerRecords
  <2> QED
    BY <1>4, <2>2, Typed, Unchanged DEF HandlerRecords
<1>5. CASE ExecuteReturns(c)
  <2>1. runId[c] \in RunIds(store)
    BY <1>5 DEF ExecuteReturns, BoundRunsExist
  <2>2. IsStore(UpdateStatus(store, runId[c], "completed"))
    BY <2>1, StoreSteps, StatusesAreTyped
  <2>3. queue # <<>>
    BY <1>5, HandlerIsAlone DEF ExecuteReturns, HandlerStage
  <2> QED
    BY <1>5, <2>2, <2>3, Typed, Unchanged DEF ExecuteReturns, Commit, Release
<1>6. CASE ExecuteThrows(c)
  <2>1. queue # <<>>
    BY <1>6, HandlerIsAlone DEF ExecuteThrows, HandlerStage
  <2>2. IsStore(store')
    BY <1>6, HandlerStores DEF ExecuteThrows, Rollback
  <2> QED
    BY <1>6, <2>1, <2>2, Typed, Unchanged DEF ExecuteThrows, Rollback, Release
<1> QED
  BY <1>2, <1>3, <1>4, <1>5, <1>6

LEMMA TypeOfUndo ==
  ASSUME TypeParts, NEW c \in Calls,
         BeginUndo(c) \/ UndoReturns(c) \/ UndoThrows(c)
  PROVE  TypeOK'
<1> USE StagesAreTyped DEF TypeParts
<1>1. IsStore(store)
  BY DEF TypeOK
<1>2. CASE BeginUndo(c)
  <2>1. \/ saved' = {store} /\ queue' = queue
        \/ saved' = saved /\ queue # <<>> /\ queue' = Tail(queue)
    BY <1>2 DEF BeginUndo, HoldsLock, Release
  <2>2. \E to \in Stage : stage' = [stage EXCEPT ![c] = to]
    BY <1>2 DEF BeginUndo
  <2>3. UNCHANGED <<store, now, request, runId, deferred>>
    BY <1>2 DEF BeginUndo
  <2> QED
    BY <1>1, <2>1, <2>2, <2>3, Typed, Unchanged
<1>3. CASE UndoReturns(c)
  <2>1. runId[c] \in RunIds(store)
    BY <1>3 DEF UndoReturns, BoundRunsExist
  <2>2. IsStore(UpdateStatus(store, runId[c], "undone"))
    BY <2>1, StoreSteps, StatusesAreTyped
  <2>3. queue # <<>>
    BY <1>3, HandlerIsAlone DEF UndoReturns, HandlerStage
  <2> QED
    BY <1>3, <2>2, <2>3, Typed, Unchanged DEF UndoReturns, Commit, Release
<1>4. CASE UndoThrows(c)
  <2>1. queue # <<>>
    BY <1>4, HandlerIsAlone DEF UndoThrows, HandlerStage
  <2>2. IsStore(store')
    BY <1>4, HandlerStores DEF UndoThrows, Rollback
  <2> QED
    BY <1>4, <2>1, <2>2, Typed, Unchanged DEF UndoThrows, Rollback, Release
<1> QED
  BY <1>2, <1>3, <1>4

LEMMA TypeOfWrites ==
  ASSUME TypeParts, NEW c \in Calls,
         \/ MarkFailed(c) \/ LockAndClaimUndo(c) \/ MarkUndoFailed(c)
         \/ FlushConflict(c) \/ ReportConflict(c)
  PROVE  TypeOK'
<1> USE StagesAreTyped DEF TypeParts
<1>1. IsStore(store)
  BY DEF TypeOK
<1>2. runId[c] \in RunIds(store)
  BY DEF MarkFailed, LockAndClaimUndo, MarkUndoFailed, FlushConflict,
     ReportConflict, Write, BoundRunsExist
<1>3. ASSUME NEW from, NEW to \in Stage, NEW newStore, IsStore(newStore),
             Write(c, from, to, newStore), runId' = runId,
             \E n \in Nat : deferred' = [deferred EXCEPT ![c] = n]
      PROVE  TypeOK'
  BY <1>3, Typed, Unchanged DEF Write, HoldsLock, Release
<1>4. CASE MarkFailed(c)
  <2>1. IsStore(UpdateStatus(store, runId[c], "failed"))
    BY <1>2, StoreSteps, StatusesAreTyped
  <2> QED
    BY <1>3, <1>4, <2>1, Unchanged DEF MarkFailed
<1>5. CASE LockAndClaimUndo(c)
  <2>1. IsStore(UpdateStatus(store, runId[c], "undo_running"))
    BY <1>2, StoreSteps, StatusesAreTyped
  <2> QED
    BY <1>1, <1>3, <1>5, <2>1, Unchanged DEF LockAndClaimUndo
<1>6. CASE MarkUndoFailed(c)
  <2>1. IsStore(UpdateStatus(store, runId[c], "undo_failed"))
    BY <1>2, StoreSteps, StatusesAreTyped
  <2> QED
    BY <1>3, <1>6, <2>1, Unchanged DEF MarkUndoFailed
<1>7. CASE FlushConflict(c)
  <2>1. deferred[c] - 1 \in Nat
    BY <1>7, Unchanged DEF FlushConflict, Write, FlushHasMore
  <2>2. IsStore(RecordConflict(store, runId[c]))
    BY <1>2, StoreSteps
  <2> QED
    BY <1>3, <1>7, <2>1, <2>2 DEF FlushConflict
<1>8. CASE ReportConflict(c)
  BY <1>2, <1>3, <1>8, StoreSteps, Unchanged DEF ReportConflict
<1> QED
  BY <1>4, <1>5, <1>6, <1>7, <1>8

LEMMA TypeStep == TypeParts /\ [Next]_vars => TypeOK'
<1> SUFFICES ASSUME TypeParts, [Next]_vars PROVE TypeOK'
  OBVIOUS
<1>1. CASE UNCHANGED vars
  BY <1>1 DEF TypeParts, TypeOK, vars
<1>2. CASE Tick
  BY <1>2 DEF TypeParts, TypeOK, Tick
<1>3. CASE \E c \in Calls : Request(c) \/ Advance(c)
  BY <1>3, TypeOfRequests, TypeOfExecute, TypeOfUndo, TypeOfWrites
     DEF TypeParts, Advance
<1> QED
  BY <1>1, <1>2, <1>3 DEF Next

-----------------------------------------------------------------------------
(* Who owns a run, and what a call was told of it. *)

OpenStatus == {"created", "running", "undo_running"}

(* The statuses a run may have while a call is at a stage. *)
Fits(at, status) ==
  /\ at \in {"execute", "mark_failed"} => status = "created"
  /\ at = "executing" => status = "running"
  /\ at \in UndoingStage => status = "undo_running"
  /\ at \in {"flush", "undo_failed"} => status = "undo_failed"
  /\ at = "completed" => status \in {"completed", "undo_running", "undone", "undo_failed"}
  /\ at = "undone" => status = "undone"
  /\ at = "failed" => status = "failed"

(* What a step may make of a status. *)
Moves(old, new) ==
  \/ new = old
  \/ old \in {"created", "running"} /\ new \in {"created", "running", "completed", "failed"}
  \/ old = "completed" /\ new = "undo_running"
  \/ old = "undo_running" /\ new \in {"undone", "undo_failed"}

AllFit == \A c \in Calls : stage[c] \in BoundStage => Fits(stage[c], Status(runId[c]))

LEMMA Fitting == StatusOfOwned /\ AcknowledgedIsKept <=> AllFit
BY StagesAreTyped DEF StatusOfOwned, AcknowledgedIsKept, AllFit, Fits, UndoingStage

LEMMA OwnersFit ==
  \A at \in Stage : \A status :
    /\ at \in OwningStage => at \in BoundStage
    /\ at \in OwningStage /\ Fits(at, status) => status \in OpenStatus
BY StagesAreTyped DEF OwningStage, ExecutingStage, UndoingStage, Fits, OpenStatus

LEMMA MovesFit ==
  \A at \in Stage \ OwningStage : \A old, new :
    Moves(old, new) /\ Fits(at, old) => Fits(at, new)
BY StagesAreTyped DEF OwningStage, ExecutingStage, UndoingStage, Fits, Moves

(* One call goes to another stage, on run id, and changes no other run. *)
LEMMA StatusStep ==
  ASSUME TypeOK, OwnerInv, AcknowledgedIsKept,
         NEW c \in Calls, NEW to \in Stage, NEW id,
         stage' = [stage EXCEPT ![c] = to],
         runId' = [runId EXCEPT ![c] = id],
         RunIds(store) \subseteq RunIds(store'),
         RunIds(store') \subseteq RunIds(store) \cup {id},
         \A other \in RunIds(store) \ {id} : Status(other)' = Status(other),
         id \in RunIds(store) => Moves(Status(id), Status(id)'),
         to \in BoundStage => id \in RunIds(store') /\ Fits(to, Status(id)'),
         stage[c] \in OwningStage => runId[c] = id,
         to \in OwningStage =>
           \/ stage[c] \in OwningStage
           \/ id \notin RunIds(store)
           \/ Status(id) \notin OpenStatus,
         id \in RunIds(store) /\ Status(id)' # Status(id) =>
           stage[c] \in OwningStage \/ Status(id) \notin OpenStatus,
         id \in RunIds(store') /\ Status(id)' \in OpenStatus =>
           \/ to \in OwningStage
           \/ stage[c] \notin OwningStage /\ id \in RunIds(store) /\ Status(id)' = Status(id)
  PROVE  OwnerInv' /\ AcknowledgedIsKept'
<1>1. AllFit
  BY Fitting DEF OwnerInv
<1>2. /\ stage'[c] = to /\ runId'[c] = id
      /\ \A d \in Calls \ {c} : stage'[d] = stage[d] /\ runId'[d] = runId[d]
      /\ \A d \in Calls : stage[d] \in Stage
  BY DEF TypeOK
<1>3. BoundRunsExist'
  BY <1>2 DEF OwnerInv, BoundRunsExist
<1>4. ASSUME NEW d \in Calls \ {c}, stage[d] \in OwningStage, runId[d] = id
      PROVE  id \in RunIds(store) /\ Status(id)' = Status(id) /\ stage[c] \notin OwningStage
             /\ to \notin OwningStage
  <2>1. stage[d] \in BoundStage /\ id \in RunIds(store)
    BY <1>2, <1>4, OwnersFit DEF OwnerInv, BoundRunsExist
  <2>2. Status(id) \in OpenStatus
    BY <1>1, <1>2, <1>4, <2>1, OwnersFit DEF AllFit
  <2>3. stage[c] \notin OwningStage
    BY <1>4 DEF OwnerInv, OneOwner
  <2> QED
    BY <2>1, <2>2, <2>3
<1>5. ASSUME NEW d \in Calls \ {c}, stage[d] \in BoundStage
      PROVE  Fits(stage[d], Status(runId[d])')
  <2>1. runId[d] \in RunIds(store) /\ Fits(stage[d], Status(runId[d]))
    BY <1>1, <1>5 DEF AllFit, OwnerInv, BoundRunsExist
  <2>2. CASE runId[d] # id
    BY <2>1, <2>2
  <2>3. CASE runId[d] = id /\ stage[d] \in OwningStage
    BY <1>4, <2>1, <2>3
  <2>4. CASE runId[d] = id /\ stage[d] \notin OwningStage
    BY <1>2, <2>1, <2>4, MovesFit
  <2> QED
    BY <2>2, <2>3, <2>4
<1>6. AllFit'
  BY <1>2, <1>5 DEF AllFit
<1>7. OneOwner'
  BY <1>2, <1>4 DEF OwnerInv, OneOwner
<1>8. OpenRunsAreOwned'
  <2> SUFFICES ASSUME NEW other \in RunIds(store'), Status(other)' \in OpenStatus
               PROVE  \E d \in Calls : stage'[d] \in OwningStage /\ runId'[d] = other
    BY DEF OpenRunsAreOwned, OpenStatus
  <2>1. CASE other # id
    <3>1. other \in RunIds(store) /\ Status(other) \in OpenStatus
      BY <2>1
    <3>2. PICK d \in Calls : stage[d] \in OwningStage /\ runId[d] = other
      BY <3>1 DEF OwnerInv, OpenRunsAreOwned, OpenStatus
    <3> QED
      BY <1>2, <2>1, <3>2
  <2>2. CASE other = id /\ to \in OwningStage
    BY <1>2, <2>2
  <2>3. CASE other = id /\ to \notin OwningStage
    <3>1. stage[c] \notin OwningStage /\ id \in RunIds(store) /\ Status(id) \in OpenStatus
      BY <2>3
    <3>2. PICK d \in Calls : stage[d] \in OwningStage /\ runId[d] = id
      BY <3>1 DEF OwnerInv, OpenRunsAreOwned, OpenStatus
    <3> QED
      BY <1>2, <2>3, <3>1, <3>2
  <2> QED
    BY <2>1, <2>2, <2>3
<1>9. StatusOfOwned' /\ AcknowledgedIsKept'
  BY <1>6, StagesAreTyped DEF StatusOfOwned, AcknowledgedIsKept, AllFit, Fits,
     UndoingStage
<1> QED
  BY <1>3, <1>7, <1>8, <1>9 DEF OwnerInv

LEMMA SameStatuses ==
  ASSUME TypeOK, OwnerInv, AcknowledgedIsKept,
         NEW c \in Calls, NEW to \in Stage, NEW id,
         stage' = [stage EXCEPT ![c] = to],
         runId' = [runId EXCEPT ![c] = id],
         store'.runs = store.runs,
         to \in BoundStage => id \in RunIds(store) /\ Fits(to, Status(id)),
         stage[c] \in OwningStage => runId[c] = id,
         to \in OwningStage <=> stage[c] \in OwningStage
  PROVE  OwnerInv' /\ AcknowledgedIsKept'
<1>1. /\ RunIds(store') = RunIds(store)
      /\ \A other : Status(other)' = Status(other)
  BY DEF RunIds, Status
<1>2. \A status : Moves(status, status)
  BY DEF Moves
<1>3. id \in RunIds(store) /\ Status(id) \in OpenStatus /\ to \notin OwningStage
        => stage[c] \notin OwningStage
  OBVIOUS
<1> HIDE DEF RunIds, Status
<1> QED
  BY <1>1, <1>2, <1>3, StatusStep

LEMMA NoStatusTouched ==
  ASSUME OwnerInv, AcknowledgedIsKept,
         store'.runs = store.runs, stage' = stage, runId' = runId
  PROVE  OwnerInv' /\ AcknowledgedIsKept'
<1>1. /\ RunIds(store') = RunIds(store)
      /\ \A other : Status(other)' = Status(other)
  BY DEF RunIds, Status
<1>2. BoundRunsExist' /\ StatusOfOwned' /\ AcknowledgedIsKept'
  BY <1>1 DEF OwnerInv, BoundRunsExist, StatusOfOwned, AcknowledgedIsKept
<1>3. OneOwner' /\ OpenRunsAreOwned'
  BY <1>1 DEF OwnerInv, OneOwner, OpenRunsAreOwned
<1> QED
  BY <1>2, <1>3 DEF OwnerInv

(* The call that owns a run moves it on. *)
LEMMA OwnerMoves ==
  ASSUME TypeOK, OwnerInv, AcknowledgedIsKept,
         NEW c \in Calls, stage[c] \in OwningStage, NEW to \in BoundStage,
         stage' = [stage EXCEPT ![c] = to],
         runId' = runId,
         RunIds(store') = RunIds(store),
         \A other \in RunIds(store) \ {runId[c]} : Status(other)' = Status(other),
         Moves(Status(runId[c]), Status(runId[c])'),
         Fits(to, Status(runId[c])'),
         Status(runId[c])' \in OpenStatus => to \in OwningStage
  PROVE  OwnerInv' /\ AcknowledgedIsKept'
<1>1. runId[c] \in RunIds(store)
  BY OwnersFit DEF OwnerInv, BoundRunsExist, TypeOK
<1>2. to \in Stage /\ runId' = [runId EXCEPT ![c] = runId[c]]
  BY DEF TypeOK, BoundStage
<1> QED
  BY <1>1, <1>2, StatusStep

OwnerParts == TypeOK /\ OwnerInv /\ AcknowledgedIsKept

LEMMA OwnersOfRequests ==
  ASSUME OwnerParts, NEW c \in Calls, Request(c) \/ EnterUndoHandler(c)
  PROVE  OwnerInv' /\ AcknowledgedIsKept'
<1> USE StagesAreTyped DEF OwnerParts
<1>1. CASE RequestExecute(c) \/ RejectRequest(c)
  <2>1. PICK to \in {"claim", "rejected"} : stage' = [stage EXCEPT ![c] = to]
    BY <1>1 DEF RequestExecute, RejectRequest
  <2>2. stage[c] = "idle" /\ store' = store /\ runId' = [runId EXCEPT ![c] = runId[c]]
    BY <1>1 DEF RequestExecute, RejectRequest, TypeOK
  <2>3. to \notin BoundStage /\ to \notin OwningStage /\ "idle" \notin OwningStage
        /\ to \in Stage
    BY DEF BoundStage, OwningStage, ExecutingStage, UndoingStage
  <2>4. /\ store'.runs = store.runs
        /\ to \in BoundStage => runId[c] \in RunIds(store) /\ Fits(to, Status(runId[c]))
        /\ stage[c] \in OwningStage => runId[c] = runId[c]
        /\ to \in OwningStage <=> stage[c] \in OwningStage
    BY <2>2, <2>3
  <2> QED
    BY <2>1, <2>2, <2>3, <2>4, SameStatuses
<1>2. CASE RequestUndo(c) \/ RequestReport(c)
  <2>1. PICK to \in {"lock", "report"} : stage' = [stage EXCEPT ![c] = to]
    BY <1>2 DEF RequestUndo, RequestReport
  <2>2. PICK id \in RunIds(store) : runId' = [runId EXCEPT ![c] = id]
    BY <1>2 DEF RequestUndo, RequestReport
  <2>3. stage[c] = "idle" /\ store' = store
    BY <1>2 DEF RequestUndo, RequestReport
  <2>4. /\ to \notin OwningStage /\ "idle" \notin OwningStage /\ to \in Stage
        /\ Fits(to, Status(id))
    BY DEF OwningStage, ExecutingStage, UndoingStage, Fits
  <2>5. /\ store'.runs = store.runs
        /\ to \in BoundStage => id \in RunIds(store) /\ Fits(to, Status(id))
        /\ stage[c] \in OwningStage => runId[c] = id
        /\ to \in OwningStage <=> stage[c] \in OwningStage
    BY <2>3, <2>4
  <2> QED
    BY <2>1, <2>2, <2>4, <2>5, SameStatuses
<1>3. CASE EnterUndoHandler(c)
  <2>1. /\ stage[c] = "checking" /\ stage' = [stage EXCEPT ![c] = "undoing"]
        /\ store' = store /\ runId' = [runId EXCEPT ![c] = runId[c]]
    BY <1>3 DEF EnterUndoHandler, TypeOK
  <2>2. runId[c] \in RunIds(store) /\ Fits("undoing", Status(runId[c]))
    BY <2>1 DEF OwnerInv, BoundRunsExist, StatusOfOwned, UndoingStage, Fits
  <2>3. "undoing" \in OwningStage /\ "checking" \in OwningStage
    BY DEF OwningStage, UndoingStage
  <2>4. /\ store'.runs = store.runs /\ "undoing" \in Stage
        /\ "undoing" \in BoundStage =>
             runId[c] \in RunIds(store) /\ Fits("undoing", Status(runId[c]))
        /\ stage[c] \in OwningStage => runId[c] = runId[c]
        /\ "undoing" \in OwningStage <=> stage[c] \in OwningStage
    BY <2>1, <2>2, <2>3
  <2> QED
    BY <2>1, <2>4, SameStatuses
<1> QED
  BY <1>1, <1>2, <1>3 DEF Request

LEMMA OwnersOfClaims ==
  ASSUME OwnerParts, StoreInv(store), NEW c \in Calls, ClaimActionRun(c)
  PROVE  OwnerInv' /\ AcknowledgedIsKept'
<1> USE StagesAreTyped DEF OwnerParts
<1>1. stage[c] = "claim" /\ "claim" \notin OwningStage /\ "execute" \in OwningStage
  BY DEF ClaimActionRun, OwningStage, ExecutingStage, UndoingStage
<1>2. PICK input \in request[c] :
        \/ /\ store' = CreateActionRun(store, input)
           /\ runId' = [runId EXCEPT ![c] = store.nextId]
           /\ stage' = [stage EXCEPT ![c] = "execute"]
        \/ \E id \in ClaimedRuns(store, input), to \in {"existing", "rejected"} :
             /\ runId' = [runId EXCEPT ![c] = id]
             /\ stage' = [stage EXCEPT ![c] = to]
             /\ store' = store
  BY DEF ClaimActionRun
<1>3. IsStore(store) /\ input \in CreateInput
  BY Unchanged DEF Optional, TypeOK
<1>4. CASE /\ store' = CreateActionRun(store, input)
           /\ runId' = [runId EXCEPT ![c] = store.nextId]
           /\ stage' = [stage EXCEPT ![c] = "execute"]
  <2>1. PICK id : id = store.nextId
    OBVIOUS
  <2>2. /\ RunIds(store') = RunIds(store) \cup {id}
        /\ store'.runs[id] = [request |-> input, status |-> "created"]
        /\ \A other \in RunIds(store) \ {id} : store'.runs[other] = store.runs[other]
    BY <1>3, <1>4, <2>1, Created
  <2>3. id \notin RunIds(store)
    <3>1. id \in Nat
      BY <1>3, <2>1 DEF IsStore, Ids
    <3> QED
      BY <2>1, <3>1 DEF StoreInv
  <2>4. Fits("execute", "created")
    BY DEF Fits, UndoingStage
  <2>5. /\ RunIds(store') = RunIds(store) \cup {id} /\ id \notin RunIds(store)
        /\ \A other \in RunIds(store) \ {id} : Status(other)' = Status(other)
        /\ Fits("execute", Status(id)')
        /\ runId' = [runId EXCEPT ![c] = id]
    BY <1>4, <2>1, <2>2, <2>3, <2>4 DEF Status
  <2>6. /\ RunIds(store) \subseteq RunIds(store')
        /\ RunIds(store') \subseteq RunIds(store) \cup {id}
        /\ id \in RunIds(store) => Moves(Status(id), Status(id)')
        /\ "execute" \in BoundStage => id \in RunIds(store') /\ Fits("execute", Status(id)')
        /\ stage[c] \in OwningStage => runId[c] = id
        /\ "execute" \in OwningStage =>
             \/ stage[c] \in OwningStage
             \/ id \notin RunIds(store)
             \/ Status(id) \notin OpenStatus
        /\ id \in RunIds(store) /\ Status(id)' # Status(id) =>
             stage[c] \in OwningStage \/ Status(id) \notin OpenStatus
        /\ id \in RunIds(store') /\ Status(id)' \in OpenStatus =>
             \/ "execute" \in OwningStage
             \/ /\ stage[c] \notin OwningStage
                /\ id \in RunIds(store)
                /\ Status(id)' = Status(id)
    BY <1>1, <2>5
  <2> QED
    BY <1>4, <2>5, <2>6, StatusStep
<1>5. ASSUME NEW id \in ClaimedRuns(store, input), NEW to \in {"existing", "rejected"},
             runId' = [runId EXCEPT ![c] = id], stage' = [stage EXCEPT ![c] = to],
             store' = store
      PROVE  OwnerInv' /\ AcknowledgedIsKept'
  <2>1. id \in RunIds(store)
    BY DEF ClaimedRuns
  <2>2. to \notin OwningStage /\ to \in Stage /\ Fits(to, Status(id))
    BY DEF OwningStage, ExecutingStage, UndoingStage, Fits
  <2>3. /\ store'.runs = store.runs
        /\ to \in BoundStage => id \in RunIds(store) /\ Fits(to, Status(id))
        /\ stage[c] \in OwningStage => runId[c] = id
        /\ to \in OwningStage <=> stage[c] \in OwningStage
    BY <1>1, <1>5, <2>1, <2>2
  <2> QED
    BY <1>5, <2>2, <2>3, SameStatuses
<1> QED
  BY <1>2, <1>4, <1>5

LEMMA OwnerUpdates ==
  ASSUME OwnerParts, NEW c \in Calls, stage[c] \in OwningStage, NEW to \in BoundStage,
         NEW status \in ActionRunStatus,
         store' = UpdateStatus(store, runId[c], status),
         stage' = [stage EXCEPT ![c] = to],
         runId' = runId,
         Moves(Status(runId[c]), status),
         Fits(to, status),
         status \in OpenStatus => to \in OwningStage
  PROVE  OwnerInv' /\ AcknowledgedIsKept'
<1> USE DEF OwnerParts
<1>1. runId[c] \in RunIds(store) /\ IsStore(store)
  BY OwnersFit DEF OwnerInv, BoundRunsExist, TypeOK
<1>2. /\ RunIds(store') = RunIds(store)
      /\ store'.runs[runId[c]].status = status
      /\ \A other \in RunIds(store) \ {runId[c]} : store'.runs[other] = store.runs[other]
  BY <1>1, Updated
<1>3. /\ Status(runId[c])' = status
      /\ \A other \in RunIds(store) \ {runId[c]} : Status(other)' = Status(other)
  BY <1>2 DEF Status
<1>4. /\ Moves(Status(runId[c]), Status(runId[c])')
      /\ Fits(to, Status(runId[c])')
      /\ Status(runId[c])' \in OpenStatus => to \in OwningStage
  BY <1>3
<1> QED
  BY <1>2, <1>3, <1>4, OwnerMoves

LEMMA OwningStages ==
  OwningStage = {"execute", "executing", "mark_failed",
                 "undo", "checking", "undoing", "mark_undo_failed"}
BY DEF OwningStage, ExecutingStage, UndoingStage

LEMMA OwnersOfExecute ==
  ASSUME OwnerParts, SavedInv, NEW c \in Calls,
         \/ BeginExecute(c) \/ HandlerRecords(c) \/ ExecuteReturns(c)
         \/ ExecuteThrows(c) \/ MarkFailed(c)
  PROVE  OwnerInv' /\ AcknowledgedIsKept'
<1> USE StagesAreTyped, StatusesAreTyped, OwningStages DEF OwnerParts
<1>1. CASE BeginExecute(c)
  <2>1. /\ stage[c] = "execute" /\ runId' = runId
        /\ stage' = [stage EXCEPT ![c] = "executing"]
        /\ store' = UpdateStatus(store, runId[c], "running")
    BY <1>1 DEF BeginExecute
  <2>2. Status(runId[c]) = "created"
    BY <2>1 DEF OwnerInv, StatusOfOwned
  <2>3. Moves(Status(runId[c]), "running") /\ Fits("executing", "running")
    BY <2>2 DEF Moves, Fits, UndoingStage
  <2> QED
    BY <2>1, <2>3, OwnerUpdates
<1>2. CASE HandlerRecords(c)
  <2>1. runId[c] \in RunIds(store) /\ IsStore(store)
    BY <1>2 DEF HandlerRecords, OwnerInv, BoundRunsExist, TypeOK
  <2>2. \A effect \in Effects : effect[1] \in SideEffectStatus /\ effect[2] \in BOOLEAN
    BY DefinitionsAssumption
  <2>3. store'.runs = store.runs
    BY <1>2, <2>1, <2>2, Saved, Recorded DEF HandlerRecords
  <2> QED
    BY <1>2, <2>3, NoStatusTouched DEF HandlerRecords
<1>3. CASE ExecuteReturns(c)
  <2>1. /\ stage[c] = "executing" /\ runId' = runId
        /\ stage' = [stage EXCEPT ![c] = "completed"]
        /\ store' = UpdateStatus(store, runId[c], "completed")
    BY <1>3 DEF ExecuteReturns, Commit
  <2>2. Status(runId[c]) = "running"
    BY <2>1 DEF OwnerInv, StatusOfOwned
  <2>3. /\ Moves(Status(runId[c]), "completed") /\ Fits("completed", "completed")
        /\ "completed" \notin OpenStatus
    BY <2>2 DEF Moves, Fits, UndoingStage, OpenStatus
  <2> QED
    BY <2>1, <2>3, OwnerUpdates
<1>4. CASE ExecuteThrows(c)
  <2>1. /\ stage[c] = "executing" /\ runId' = runId
        /\ stage' = [stage EXCEPT ![c] = "mark_failed"]
        /\ store' \in saved
    BY <1>4 DEF ExecuteThrows, Rollback
  <2>2. Status(runId[c]) = "running"
    BY <2>1 DEF OwnerInv, StatusOfOwned
  <2>3. /\ RunIds(store') = RunIds(store)
        /\ store'.runs[runId[c]].status = "created"
        /\ \A id \in RunIds(store) \ {runId[c]} : store'.runs[id] = store.runs[id]
    BY <2>1 DEF SavedInv
  <2>4. /\ Status(runId[c])' = "created"
        /\ \A id \in RunIds(store) \ {runId[c]} : Status(id)' = Status(id)
    BY <2>1, <2>3 DEF Status
  <2>5. /\ Moves(Status(runId[c]), Status(runId[c])')
        /\ Fits("mark_failed", Status(runId[c])')
    BY <2>2, <2>4 DEF Moves, Fits, UndoingStage
  <2> QED
    BY <2>1, <2>3, <2>4, <2>5, OwnerMoves
<1>5. CASE MarkFailed(c)
  <2>1. /\ stage[c] = "mark_failed" /\ runId' = runId
        /\ stage' = [stage EXCEPT ![c] = "failed"]
        /\ store' = UpdateStatus(store, runId[c], "failed")
    BY <1>5 DEF MarkFailed, Write
  <2>2. Status(runId[c]) = "created"
    BY <2>1 DEF OwnerInv, StatusOfOwned
  <2>3. /\ Moves(Status(runId[c]), "failed") /\ Fits("failed", "failed")
        /\ "failed" \notin OpenStatus
    BY <2>2 DEF Moves, Fits, UndoingStage, OpenStatus
  <2> QED
    BY <2>1, <2>3, OwnerUpdates
<1> QED
  BY <1>1, <1>2, <1>3, <1>4, <1>5

LEMMA OwnersOfUndo ==
  ASSUME OwnerParts, SavedInv, NEW c \in Calls,
         BeginUndo(c) \/ UndoReturns(c) \/ UndoThrows(c) \/ MarkUndoFailed(c)
  PROVE  OwnerInv' /\ AcknowledgedIsKept'
<1> USE StagesAreTyped, StatusesAreTyped, OwningStages DEF OwnerParts
<1>1. CASE BeginUndo(c) \/ UndoThrows(c)
  <2>1. PICK to \in {"checking", "mark_undo_failed"} :
          stage' = [stage EXCEPT ![c] = to]
    BY <1>1 DEF BeginUndo, UndoThrows, Rollback
  <2>2. stage[c] \in {"undo", "checking", "undoing"}
    BY <1>1 DEF BeginUndo, UndoThrows
  <2>3. store' = store
    BY <1>1 DEF BeginUndo, UndoThrows, Rollback, SavedInv
  <2>4. runId' = [runId EXCEPT ![c] = runId[c]]
    BY <1>1 DEF BeginUndo, UndoThrows, Rollback, TypeOK
  <2>5. runId[c] \in RunIds(store) /\ Status(runId[c]) = "undo_running"
    BY <2>2 DEF OwnerInv, BoundRunsExist, StatusOfOwned, UndoingStage
  <2>6. /\ store'.runs = store.runs /\ to \in Stage
        /\ to \in BoundStage => runId[c] \in RunIds(store) /\ Fits(to, Status(runId[c]))
        /\ stage[c] \in OwningStage => runId[c] = runId[c]
        /\ to \in OwningStage <=> stage[c] \in OwningStage
    BY <2>2, <2>3, <2>5 DEF Fits
  <2> QED
    BY <2>1, <2>4, <2>6, SameStatuses
<1>2. CASE UndoReturns(c)
  <2>1. /\ stage[c] = "undoing" /\ runId' = runId
        /\ stage' = [stage EXCEPT ![c] = "undone"]
        /\ store' = UpdateStatus(store, runId[c], "undone")
    BY <1>2 DEF UndoReturns, Commit
  <2>2. Status(runId[c]) = "undo_running"
    BY <2>1 DEF OwnerInv, StatusOfOwned, UndoingStage
  <2>3. /\ Moves(Status(runId[c]), "undone") /\ Fits("undone", "undone")
        /\ "undone" \notin OpenStatus
    BY <2>2 DEF Moves, Fits, UndoingStage, OpenStatus
  <2> QED
    BY <2>1, <2>3, OwnerUpdates
<1>3. CASE MarkUndoFailed(c)
  <2>1. /\ stage[c] = "mark_undo_failed" /\ runId' = runId
        /\ store' = UpdateStatus(store, runId[c], "undo_failed")
    BY <1>3 DEF MarkUndoFailed, Write
  <2>2. PICK to \in {"flush", "undo_failed"} : stage' = [stage EXCEPT ![c] = to]
    BY <1>3 DEF MarkUndoFailed, Write
  <2>3. Status(runId[c]) = "undo_running"
    BY <2>1 DEF OwnerInv, StatusOfOwned, UndoingStage
  <2>4. /\ Moves(Status(runId[c]), "undo_failed") /\ Fits(to, "undo_failed")
        /\ "undo_failed" \notin OpenStatus
    BY <2>3 DEF Moves, Fits, UndoingStage, OpenStatus
  <2> QED
    BY <2>1, <2>2, <2>4, OwnerUpdates
<1> QED
  BY <1>1, <1>2, <1>3

LEMMA OwnersOfUndoClaims ==
  ASSUME OwnerParts, NEW c \in Calls, LockAndClaimUndo(c)
  PROVE  OwnerInv' /\ AcknowledgedIsKept'
<1> USE StagesAreTyped, StatusesAreTyped, OwningStages DEF OwnerParts
<1>1. PICK id : id = runId[c]
  OBVIOUS
<1>2. /\ stage[c] = "lock" /\ id \in RunIds(store) /\ IsStore(store)
      /\ runId' = [runId EXCEPT ![c] = id]
  BY <1>1 DEF LockAndClaimUndo, Write, OwnerInv, BoundRunsExist, TypeOK
<1>3. CASE ~CanBeUndone(store.runs[runId[c]], now)
  <2>1. stage' = [stage EXCEPT ![c] = "rejected"] /\ store'.runs = store.runs
    BY <1>3 DEF LockAndClaimUndo, Write
  <2>2. /\ "rejected" \in BoundStage => id \in RunIds(store) /\ Fits("rejected", Status(id))
        /\ stage[c] \in OwningStage => runId[c] = id
        /\ "rejected" \in OwningStage <=> stage[c] \in OwningStage
    BY <1>1, <1>2 DEF Fits, UndoingStage
  <2> QED
    BY <1>2, <2>1, <2>2, SameStatuses
<1>4. CASE CanBeUndone(store.runs[runId[c]], now)
  <2>1. /\ stage' = [stage EXCEPT ![c] = "undo"]
        /\ store' = UpdateStatus(store, id, "undo_running")
    BY <1>1, <1>4 DEF LockAndClaimUndo, Write
  <2>2. Status(id) = "completed"
    BY <1>1, <1>4 DEF CanBeUndone, Status
  <2>3. /\ RunIds(store') = RunIds(store)
        /\ store'.runs[id].status = "undo_running"
        /\ \A other \in RunIds(store) \ {id} : store'.runs[other] = store.runs[other]
    <3> HIDE StagesAreTyped, StatusesAreTyped, OwningStages
    <3>1. "undo_running" \in ActionRunStatus
      BY StatusesAreTyped
    <3>2. IsStore(store) /\ id \in RunIds(store)
      BY <1>2
    <3> QED
      BY <2>1, <3>1, <3>2, Updated
  <2>4. /\ Status(id)' = "undo_running"
        /\ \A other \in RunIds(store) \ {id} : Status(other)' = Status(other)
    BY <2>3 DEF Status
  <2>5. /\ RunIds(store) \subseteq RunIds(store')
        /\ RunIds(store') \subseteq RunIds(store) \cup {id}
        /\ id \in RunIds(store) => Moves(Status(id), Status(id)')
        /\ "undo" \in BoundStage => id \in RunIds(store') /\ Fits("undo", Status(id)')
        /\ stage[c] \in OwningStage => runId[c] = id
        /\ "undo" \in OwningStage =>
             \/ stage[c] \in OwningStage
             \/ id \notin RunIds(store)
             \/ Status(id) \notin OpenStatus
        /\ id \in RunIds(store) /\ Status(id)' # Status(id) =>
             stage[c] \in OwningStage \/ Status(id) \notin OpenStatus
        /\ id \in RunIds(store') /\ Status(id)' \in OpenStatus =>
             \/ "undo" \in OwningStage
             \/ /\ stage[c] \notin OwningStage
                /\ id \in RunIds(store)
                /\ Status(id)' = Status(id)
    BY <1>1, <1>2, <2>2, <2>3, <2>4 DEF Moves, Fits, UndoingStage, OpenStatus
  <2> QED
    BY <1>2, <2>1, <2>4, <2>5, StatusStep
<1> QED
  BY <1>3, <1>4

LEMMA OwnersOfConflicts ==
  ASSUME OwnerParts, NEW c \in Calls, FlushConflict(c) \/ ReportConflict(c)
  PROVE  OwnerInv' /\ AcknowledgedIsKept'
<1> USE StagesAreTyped, StatusesAreTyped, OwningStages DEF OwnerParts
<1>1. runId[c] \in RunIds(store) /\ IsStore(store)
  BY DEF FlushConflict, ReportConflict, Write, OwnerInv, BoundRunsExist, TypeOK
<1>2. store' = RecordConflict(store, runId[c])
  BY DEF FlushConflict, ReportConflict, Write
<1>3. store'.runs = store.runs
  BY <1>1, <1>2, ConflictRecorded
<1>4. runId' = [runId EXCEPT ![c] = runId[c]]
  BY DEF FlushConflict, ReportConflict, Write, TypeOK
<1>5. CASE FlushConflict(c)
  <2>1. stage[c] = "flush" /\ Status(runId[c]) = "undo_failed"
    BY <1>5 DEF FlushConflict, Write, OwnerInv, StatusOfOwned
  <2>2. PICK to \in {"flush", "undo_failed"} : stage' = [stage EXCEPT ![c] = to]
    BY <1>5 DEF FlushConflict, Write
  <2>3. /\ to \in BoundStage => runId[c] \in RunIds(store) /\ Fits(to, Status(runId[c]))
        /\ stage[c] \in OwningStage => runId[c] = runId[c]
        /\ to \in OwningStage <=> stage[c] \in OwningStage
        /\ to \in Stage
    BY <1>1, <2>1 DEF Fits, UndoingStage
  <2> QED
    BY <1>3, <1>4, <2>2, <2>3, SameStatuses
<1>6. CASE ReportConflict(c)
  <2>1. stage[c] = "report" /\ stage' = [stage EXCEPT ![c] = "reported"]
    BY <1>6 DEF ReportConflict, Write
  <2>2. /\ "reported" \in BoundStage =>
             runId[c] \in RunIds(store) /\ Fits("reported", Status(runId[c]))
        /\ stage[c] \in OwningStage => runId[c] = runId[c]
        /\ "reported" \in OwningStage <=> stage[c] \in OwningStage
        /\ "reported" \in Stage
    BY <1>1, <2>1 DEF Fits, UndoingStage
  <2> QED
    BY <1>3, <1>4, <2>1, <2>2, SameStatuses
<1> QED
  BY <1>5, <1>6

LEMMA OwnerStep ==
  OwnerParts /\ StoreInv(store) /\ SavedInv /\ [Next]_vars
    => OwnerInv' /\ AcknowledgedIsKept'
<1> SUFFICES ASSUME OwnerParts, StoreInv(store), SavedInv, [Next]_vars
             PROVE  OwnerInv' /\ AcknowledgedIsKept'
  OBVIOUS
<1>1. CASE UNCHANGED vars \/ Tick
  BY <1>1, NoStatusTouched DEF OwnerParts, vars, Tick
<1>2. ASSUME NEW c \in Calls, Enqueue(c) \/ DeferConflict(c)
      PROVE  OwnerInv' /\ AcknowledgedIsKept'
  BY <1>2, NoStatusTouched DEF OwnerParts, Enqueue, DeferConflict
<1>3. CASE \E c \in Calls : Request(c) \/ Advance(c)
  BY <1>2, <1>3, OwnersOfRequests, OwnersOfClaims, OwnersOfExecute, OwnersOfUndo,
     OwnersOfUndoClaims, OwnersOfConflicts DEF Advance
<1> QED
  BY <1>1, <1>3 DEF Next

-----------------------------------------------------------------------------
(* What holds of each store, the captured one included. *)

LEMMA NextIdIsNew ==
  ASSUME NEW s, IsStore(s), StoreInv(s)
  PROVE  /\ s.nextId \in Nat /\ RunIds(s) \subseteq Nat
         /\ s.nextId \notin RunIds(s)
         /\ \A id \in RunIds(s) : id < s.nextId + 1
<1>1. s.nextId \in Nat /\ RunIds(s) \subseteq Nat
  BY DEF IsStore, RunIds, Ids
<1> QED
  BY <1>1 DEF StoreInv

LEMMA InvOfUpdated ==
  ASSUME NEW s, IsStore(s), StoreInv(s), NEW id \in RunIds(s),
         NEW status \in ActionRunStatus,
         status \in {"created", "failed"} => s.runs[id].status = "created",
         NEW t, t = UpdateStatus(s, id, status)
  PROVE  StoreInv(t)
<1>1. /\ t.nextId = s.nextId /\ RunIds(t) = RunIds(s)
      /\ t.runs[id].status = status
      /\ \A other \in RunIds(s) \ {id} : t.runs[other] = s.runs[other]
      /\ t.snapshots = s.snapshots /\ t.sideEffects = s.sideEffects
  BY Updated
<1> QED
  BY <1>1 DEF StoreInv, GetSnapshots, GetSideEffects

LEMMA InvOfCreated ==
  ASSUME NEW s, IsStore(s), StoreInv(s), NEW input \in CreateInput,
         NEW t, t = CreateActionRun(s, input)
  PROVE  StoreInv(t)
<1>1. /\ t.nextId = s.nextId + 1 /\ RunIds(t) = RunIds(s) \cup {s.nextId}
      /\ \A other \in RunIds(s) \ {s.nextId} : t.runs[other] = s.runs[other]
      /\ t.snapshots = s.snapshots /\ t.sideEffects = s.sideEffects
  <2>1. t = CreateActionRun(s, input) /\ IsStore(s) /\ input \in CreateInput
    OBVIOUS
  <2> QED
    BY ONLY <2>1, Created
<1>2. \A id \in RunIds(t) : id < t.nextId
  BY <1>1, NextIdIsNew
<1>3. GetSnapshots(t, s.nextId) = {} /\ GetSideEffects(t, s.nextId) = {}
  BY <1>1, NextIdIsNew DEF StoreInv, GetSnapshots, GetSideEffects
<1>4. \A id \in RunIds(s) : /\ t.runs[id] = s.runs[id]
                            /\ GetSnapshots(t, id) = GetSnapshots(s, id)
                            /\ GetSideEffects(t, id) = GetSideEffects(s, id)
  BY <1>1, NextIdIsNew DEF GetSnapshots, GetSideEffects
<1> QED
  BY <1>1, <1>2, <1>3, <1>4 DEF StoreInv

LEMMA InvOfRecords ==
  ASSUME NEW s, IsStore(s), StoreInv(s), NEW id \in RunIds(s), NEW t,
         t.nextId = s.nextId + 1, t.runs = s.runs,
         \A x \in t.snapshots \ s.snapshots : x.actionRunId = id,
         \A x \in t.sideEffects \ s.sideEffects : x.actionRunId = id,
         \/ s.runs[id].status \notin {"created", "failed"}
         \/ t.snapshots = s.snapshots /\ t.sideEffects = s.sideEffects
  PROVE  StoreInv(t)
<1>1. RunIds(t) = RunIds(s)
  BY DEF RunIds
<1>2. \A other \in RunIds(t) : other < t.nextId
  BY <1>1, NextIdIsNew
<1>3. \A x \in t.snapshots \cup t.sideEffects : x.actionRunId \in RunIds(t)
  BY <1>1 DEF StoreInv
<1>4. \A other \in RunIds(t) : t.runs[other].status \in {"created", "failed"} =>
        GetSnapshots(t, other) = {} /\ GetSideEffects(t, other) = {}
  BY <1>1 DEF StoreInv, GetSnapshots, GetSideEffects
<1> QED
  BY <1>2, <1>3, <1>4 DEF StoreInv

StoreParts == TypeOK /\ LockInv /\ StoresInv /\ OwnerInv

LEMMA StoresStep == StoreParts /\ [Next]_vars => StoresInv'
<1> SUFFICES ASSUME StoreParts, [Next]_vars PROVE StoresInv'
  OBVIOUS
<1> USE DEF StoreParts
<1>1. IsStore(store) /\ StoreInv(store) /\ \A s \in saved : StoreInv(s)
  BY DEF TypeOK, StoresInv
<1>2. ASSUME StoreInv(store'), saved' = saved \/ saved' = {} \/ saved' = {store}
      PROVE  StoresInv'
  <2>1. \A s \in saved' : StoreInv(s)
    BY <1>1, <1>2
  <2> QED
    BY <1>2, <2>1 DEF StoresInv, StoreInv, RunIds, GetSnapshots, GetSideEffects
<1>3. CASE UNCHANGED vars \/ Tick
  BY <1>1, <1>2, <1>3 DEF vars, Tick
<1>4. ASSUME NEW c \in Calls,
             \/ Request(c) \/ Enqueue(c) \/ DeferConflict(c) \/ EnterUndoHandler(c)
             \/ BeginUndo(c)
      PROVE  StoresInv'
  BY <1>1, <1>2, <1>4 DEF Request, RequestExecute, RequestUndo, RequestReport,
     RejectRequest, Enqueue, DeferConflict, EnterUndoHandler, BeginUndo
<1>5. ASSUME NEW c \in Calls, stage[c] \in BoundStage,
             NEW status \in ActionRunStatus,
             status \in {"created", "failed"} => store.runs[runId[c]].status = "created",
             store' = UpdateStatus(store, runId[c], status),
             saved' = saved \/ saved' = {} \/ saved' = {store}
      PROVE  StoresInv'
  <2>1. runId[c] \in RunIds(store)
    BY <1>5 DEF OwnerInv, BoundRunsExist
  <2>2. StoreInv(store')
    BY <1>1, <1>5, <2>1, InvOfUpdated
  <2> QED
    BY <1>2, <1>5, <2>2
<1>6. ASSUME NEW c \in Calls,
             \/ BeginExecute(c) \/ ExecuteReturns(c) \/ UndoReturns(c)
             \/ MarkFailed(c) \/ MarkUndoFailed(c)
      PROVE  StoresInv'
  <2>1. stage[c] \in BoundStage
    BY <1>6, StagesAreTyped DEF BeginExecute, ExecuteReturns, UndoReturns, MarkFailed,
       MarkUndoFailed, Write
  <2>2. CASE MarkFailed(c)
    <3>1. store.runs[runId[c]].status = "created" /\ saved' = saved
          /\ store' = UpdateStatus(store, runId[c], "failed")
      BY <2>2 DEF MarkFailed, Write, OwnerInv, StatusOfOwned, Status
    <3> QED
      BY <1>5, <2>1, <3>1, StatusesAreTyped
  <2>3. CASE BeginExecute(c)
    BY <1>5, <2>1, <2>3, StatusesAreTyped DEF BeginExecute
  <2>4. CASE ExecuteReturns(c) \/ UndoReturns(c)
    BY <1>5, <2>1, <2>4, StatusesAreTyped DEF ExecuteReturns, UndoReturns, Commit
  <2>5. CASE MarkUndoFailed(c)
    BY <1>5, <2>1, <2>5, StatusesAreTyped DEF MarkUndoFailed, Write
  <2> QED
    BY <1>6, <2>2, <2>3, <2>4, <2>5
<1>7. ASSUME NEW c \in Calls, ExecuteThrows(c) \/ UndoThrows(c)
      PROVE  StoresInv'
  <2>1. StoreInv(store') /\ saved' = {}
    BY <1>1, <1>7 DEF ExecuteThrows, UndoThrows, Rollback
  <2> QED
    BY <1>2, <2>1
<1>8. ASSUME NEW c \in Calls, LockAndClaimUndo(c) PROVE StoresInv'
  <2>1. stage[c] \in BoundStage
    BY <1>8, StagesAreTyped DEF LockAndClaimUndo, Write
  <2>2. CASE store' = UpdateStatus(store, runId[c], "undo_running") /\ saved' = saved
    BY <1>5, <2>1, <2>2, StatusesAreTyped
  <2>3. CASE store' = store /\ saved' = saved
    BY <1>1, <1>2, <2>3
  <2> QED
    BY <1>8, <2>2, <2>3 DEF LockAndClaimUndo, Write
<1>9. ASSUME NEW c \in Calls, ClaimActionRun(c) PROVE StoresInv'
  <2>1. PICK input \in request[c] :
          store' = CreateActionRun(store, input) \/ store' = store
    BY <1>9 DEF ClaimActionRun
  <2>2. input \in CreateInput
    BY Unchanged DEF Optional
  <2>3. StoreInv(store')
    BY <1>1, <2>1, <2>2, InvOfCreated
  <2>4. saved' = saved
    BY <1>9 DEF ClaimActionRun
  <2> QED
    BY <1>2, <2>3, <2>4
<1>10. ASSUME NEW c \in Calls, HandlerRecords(c) PROVE StoresInv'
  <2>1. PICK id : id = runId[c]
    OBVIOUS
  <2>2. id \in RunIds(store) /\ store.runs[id].status = "running"
    BY <1>10, <2>1, StagesAreTyped
       DEF HandlerRecords, OwnerInv, BoundRunsExist, StatusOfOwned, Status
  <2>3. \A effect \in Effects : effect[1] \in SideEffectStatus /\ effect[2] \in BOOLEAN
    BY DefinitionsAssumption
  <2>4. \/ store' = SaveSnapshot(store, id)
        \/ \E effect \in Effects :
             store' = RecordSideEffect(store, id, effect[1], effect[2])
    BY <1>10, <2>1 DEF HandlerRecords
  <2>5. /\ store'.nextId = store.nextId + 1 /\ store'.runs = store.runs
        /\ \A x \in store'.snapshots \ store.snapshots : x.actionRunId = id
        /\ \A x \in store'.sideEffects \ store.sideEffects : x.actionRunId = id
    BY <1>1, <2>2, <2>3, <2>4, Saved, Recorded
  <2>6. StoreInv(store')
    BY <1>1, <2>2, <2>5, InvOfRecords
  <2> QED
    BY <1>2, <1>10, <2>6 DEF HandlerRecords
<1>11. ASSUME NEW c \in Calls, FlushConflict(c) \/ ReportConflict(c) PROVE StoresInv'
  <2>1. PICK id : id = runId[c]
    OBVIOUS
  <2>2. id \in RunIds(store)
    BY <1>11, <2>1, StagesAreTyped
       DEF FlushConflict, ReportConflict, Write, OwnerInv, BoundRunsExist
  <2>3. store' = RecordConflict(store, id) /\ saved' = saved
    BY <1>11, <2>1 DEF FlushConflict, ReportConflict, Write
  <2>4. /\ store'.nextId = store.nextId + 1 /\ store'.runs = store.runs
        /\ store'.snapshots = store.snapshots /\ store'.sideEffects = store.sideEffects
    BY <1>1, <2>2, <2>3, ConflictRecorded
  <2>5. StoreInv(store')
    BY <1>1, <2>2, <2>4, InvOfRecords
  <2> QED
    BY <1>2, <2>3, <2>5
<1> QED
  BY <1>3, <1>4, <1>6, <1>7, <1>8, <1>9, <1>10, <1>11 DEF Next, Advance

-----------------------------------------------------------------------------
(* The open transaction: what its rollback restores, and that no conflict  *)
(* enters the store while an undo runs.                                    *)

LEMMA NoneOpen ==
  ASSUME saved' = {}, \A c \in Calls : stage'[c] \notin HandlerStage
  PROVE  SavedInv' /\ UndoSeesNoConflict'
BY DEF SavedInv, UndoSeesNoConflict, HandlerStage

LEMMA SameOpen ==
  ASSUME SavedInv, UndoSeesNoConflict, store' = store, saved' = saved,
         \A c \in Calls :
           /\ stage'[c] \in {"checking", "undoing"} => stage[c] \in {"checking", "undoing"}
           /\ stage'[c] = "executing" => stage[c] = "executing"
           /\ stage'[c] \in HandlerStage => runId'[c] = runId[c]
  PROVE  SavedInv' /\ UndoSeesNoConflict'
<1>1. SavedInv'
  BY DEF SavedInv, HandlerStage
<1>2. UndoSeesNoConflict'
  BY DEF UndoSeesNoConflict, HandlerStage
<1> QED
  BY <1>1, <1>2

OpenParts == TypeOK /\ LockInv /\ OwnerInv /\ SavedInv /\ UndoSeesNoConflict

LEMMA OpenAfterWrite ==
  ASSUME OpenParts, NEW c \in Calls, stage[c] \in WritingStage, HoldsLock(c),
         NEW to \in Stage \ HandlerStage,
         stage' = [stage EXCEPT ![c] = to], saved' = saved
  PROVE  SavedInv' /\ UndoSeesNoConflict'
<1>1. \A d \in Calls : stage'[d] \notin HandlerStage
  BY WriterIsAlone DEF TypeOK, OpenParts
<1>2. saved' = {}
  BY WriterIsAlone DEF OpenParts
<1> QED
  BY <1>1, <1>2, NoneOpen

LEMMA OpenAfterEnd ==
  ASSUME OpenParts, NEW c \in Calls, stage[c] \in HandlerStage,
         NEW to \in Stage \ HandlerStage,
         stage' = [stage EXCEPT ![c] = to], saved' = {}
  PROVE  SavedInv' /\ UndoSeesNoConflict'
<1>1. \A d \in Calls : stage'[d] \notin HandlerStage
  BY HandlerIsAlone DEF TypeOK, OpenParts
<1> QED
  BY <1>1, NoneOpen

LEMMA OpenBegun ==
  ASSUME OpenParts, NEW c \in Calls, BeginExecute(c)
  PROVE  SavedInv' /\ UndoSeesNoConflict'
<1> USE DEF OpenParts
<1>1. /\ stage[c] \in WritingStage /\ HoldsLock(c) /\ saved' = {store} /\ runId' = runId
      /\ stage' = [stage EXCEPT ![c] = "executing"]
      /\ store' = UpdateStatus(store, runId[c], "running")
  BY DEF BeginExecute, WritingStage
<1>2. \A d \in Calls : stage'[d] \in HandlerStage => d = c
  BY <1>1, WriterIsAlone DEF TypeOK
<1>3. stage'[c] = "executing"
  BY <1>1 DEF TypeOK
<1>4. PICK id : id = runId[c]
  OBVIOUS
<1>5. id \in RunIds(store) /\ store.runs[id].status = "created" /\ IsStore(store)
  BY <1>4, StagesAreTyped
     DEF BeginExecute, TypeOK, OwnerInv, BoundRunsExist, StatusOfOwned, Status
<1>6. /\ RunIds(store') = RunIds(store)
      /\ store'.runs[id].request = store.runs[id].request
      /\ \A other \in RunIds(store) \ {id} : store'.runs[other] = store.runs[other]
      /\ store'.snapshots = store.snapshots
      /\ store'.sideEffects = store.sideEffects
      /\ store'.conflicts = store.conflicts
  <2>1. "running" \in ActionRunStatus /\ store' = UpdateStatus(store, id, "running")
    BY <1>1, <1>4, StatusesAreTyped
  <2> QED
    BY ONLY <1>5, <2>1, Updated
<1>7. UndoSeesNoConflict'
  BY <1>2, <1>3 DEF UndoSeesNoConflict, HandlerStage
<1>8. SavedInv'
  <2> SUFFICES ASSUME NEW d \in Calls, NEW s \in saved',
                      stage'[d] \in {"checking", "undoing", "executing"}
               PROVE  /\ stage'[d] \in {"checking", "undoing"} => s = store'
                      /\ stage'[d] = "executing" =>
                           /\ RunIds(s) = RunIds(store')
                           /\ s.runs[runId'[d]].status = "created"
                           /\ s.runs[runId'[d]].request = store'.runs[runId'[d]].request
                           /\ \A other \in RunIds(s) \ {runId'[d]} :
                                s.runs[other] = store'.runs[other]
                           /\ s.snapshots \subseteq store'.snapshots
                           /\ \A x \in store'.snapshots \ s.snapshots :
                                x.actionRunId = runId'[d]
                           /\ s.sideEffects \subseteq store'.sideEffects
                           /\ \A x \in store'.sideEffects \ s.sideEffects :
                                x.actionRunId = runId'[d]
                           /\ s.conflicts = store'.conflicts
    BY DEF SavedInv, RunIds
  <2>1. d = c /\ s = store /\ runId'[d] = id
    BY <1>1, <1>2, <1>4 DEF HandlerStage
  <2> QED
    BY <1>3, <1>5, <1>6, <2>1
<1> QED
  BY <1>7, <1>8

LEMMA OpenRecords ==
  ASSUME OpenParts, NEW c \in Calls, HandlerRecords(c)
  PROVE  SavedInv' /\ UndoSeesNoConflict'
<1> USE DEF OpenParts
<1>1. /\ stage[c] = "executing" /\ saved' = saved /\ runId' = runId /\ stage' = stage
      /\ stage[c] \in HandlerStage
  BY DEF HandlerRecords, HandlerStage
<1>2. \A d \in Calls : stage[d] \in HandlerStage => d = c
  BY <1>1, HandlerIsAlone
<1>3. PICK id : id = runId[c]
  OBVIOUS
<1>4. id \in RunIds(store) /\ IsStore(store)
  BY <1>1, <1>3, StagesAreTyped DEF TypeOK, OwnerInv, BoundRunsExist
<1>5. \A effect \in Effects : effect[1] \in SideEffectStatus /\ effect[2] \in BOOLEAN
  BY DefinitionsAssumption
<1>6. \/ store' = SaveSnapshot(store, id)
      \/ \E effect \in Effects :
           store' = RecordSideEffect(store, id, effect[1], effect[2])
  BY <1>3 DEF HandlerRecords
<1>7. /\ store'.runs = store.runs
      /\ store.snapshots \subseteq store'.snapshots
      /\ \A x \in store'.snapshots \ store.snapshots : x.actionRunId = id
      /\ store.sideEffects \subseteq store'.sideEffects
      /\ \A x \in store'.sideEffects \ store.sideEffects : x.actionRunId = id
      /\ store'.conflicts = store.conflicts
  BY <1>4, <1>5, <1>6, Saved, Recorded
<1>8. UndoSeesNoConflict'
  BY <1>1, <1>2 DEF UndoSeesNoConflict, HandlerStage
<1>9. SavedInv'
  <2> SUFFICES ASSUME NEW d \in Calls, NEW s \in saved',
                      stage'[d] \in {"checking", "undoing", "executing"}
               PROVE  /\ stage'[d] \in {"checking", "undoing"} => s = store'
                      /\ stage'[d] = "executing" =>
                           /\ RunIds(s) = RunIds(store')
                           /\ s.runs[runId'[d]].status = "created"
                           /\ s.runs[runId'[d]].request = store'.runs[runId'[d]].request
                           /\ \A other \in RunIds(s) \ {runId'[d]} :
                                s.runs[other] = store'.runs[other]
                           /\ s.snapshots \subseteq store'.snapshots
                           /\ \A x \in store'.snapshots \ s.snapshots :
                                x.actionRunId = runId'[d]
                           /\ s.sideEffects \subseteq store'.sideEffects
                           /\ \A x \in store'.sideEffects \ s.sideEffects :
                                x.actionRunId = runId'[d]
                           /\ s.conflicts = store'.conflicts
    BY DEF SavedInv, RunIds
  <2>1. d = c /\ runId'[d] = id /\ stage'[d] = "executing" /\ s \in saved
    BY <1>1, <1>2, <1>3 DEF HandlerStage
  <2>2. /\ RunIds(s) = RunIds(store)
        /\ s.runs[id].status = "created"
        /\ s.runs[id].request = store.runs[id].request
        /\ \A other \in RunIds(s) \ {id} : s.runs[other] = store.runs[other]
        /\ s.snapshots \subseteq store.snapshots
        /\ \A x \in store.snapshots \ s.snapshots : x.actionRunId = id
        /\ s.sideEffects \subseteq store.sideEffects
        /\ \A x \in store.sideEffects \ s.sideEffects : x.actionRunId = id
        /\ s.conflicts = store.conflicts
    BY <1>1, <1>3, <2>1 DEF SavedInv
  <2>3. RunIds(store') = RunIds(store)
    BY <1>7 DEF RunIds
  <2> QED
    BY <1>7, <2>1, <2>2, <2>3
<1> QED
  BY <1>8, <1>9

LEMMA OpenUndo ==
  ASSUME OpenParts, NEW c \in Calls, BeginUndo(c)
  PROVE  SavedInv' /\ UndoSeesNoConflict'
<1> USE DEF OpenParts
<1>1. /\ stage[c] \in WritingStage /\ HoldsLock(c) /\ store' = store /\ runId' = runId
  BY DEF BeginUndo, WritingStage
<1>2. CASE /\ GetConflicts(store, runId[c]) = {}
           /\ IrreversibleSideEffects(store, runId[c]) = {}
  <2>1. saved' = {store} /\ stage' = [stage EXCEPT ![c] = "checking"]
    BY <1>2 DEF BeginUndo
  <2>2. \A d \in Calls : stage'[d] \in HandlerStage => d = c
    BY <1>1, <2>1, WriterIsAlone DEF TypeOK
  <2>3. stage'[c] = "checking"
    BY <2>1 DEF TypeOK
  <2>4. SavedInv'
    BY <1>1, <2>1, <2>2, <2>3 DEF SavedInv, HandlerStage
  <2>5. UndoSeesNoConflict'
    BY <1>1, <1>2, <2>2, <2>3 DEF UndoSeesNoConflict, HandlerStage
  <2> QED
    BY <2>4, <2>5
<1>3. CASE ~(/\ GetConflicts(store, runId[c]) = {}
             /\ IrreversibleSideEffects(store, runId[c]) = {})
  <2>1. saved' = saved /\ stage' = [stage EXCEPT ![c] = "mark_undo_failed"]
    BY <1>3 DEF BeginUndo
  <2>2. "mark_undo_failed" \in Stage \ HandlerStage
    BY DEF Stage, WritingStage, HandlerStage
  <2> QED
    BY <1>1, <2>1, <2>2, OpenAfterWrite
<1> QED
  BY <1>2, <1>3

LEMMA OpenStep == OpenParts /\ [Next]_vars => SavedInv' /\ UndoSeesNoConflict'
<1> SUFFICES ASSUME OpenParts, [Next]_vars PROVE SavedInv' /\ UndoSeesNoConflict'
  OBVIOUS
<1> USE DEF OpenParts
<1>1. CASE UNCHANGED vars \/ Tick
  BY <1>1, SameOpen DEF vars, Tick
<1>2. ASSUME NEW c \in Calls, Enqueue(c) \/ DeferConflict(c)
      PROVE  SavedInv' /\ UndoSeesNoConflict'
  BY <1>2, SameOpen DEF Enqueue, DeferConflict
<1>3. ASSUME NEW c \in Calls, EnterUndoHandler(c)
      PROVE  SavedInv' /\ UndoSeesNoConflict'
  BY <1>3, SameOpen DEF EnterUndoHandler, TypeOK
<1>4. ASSUME NEW c \in Calls, Request(c)
      PROVE  SavedInv' /\ UndoSeesNoConflict'
  <2>1. PICK to \in Stage \ HandlerStage : stage' = [stage EXCEPT ![c] = to]
    BY <1>4 DEF Request, RequestExecute, RequestUndo, RequestReport, RejectRequest,
       Stage, HandlerStage, WritingStage, EndStage
  <2>2. store' = store /\ saved' = saved
    BY <1>4 DEF Request, RequestExecute, RequestUndo, RequestReport, RejectRequest
  <2>3. \A d \in Calls \ {c} : runId'[d] = runId[d]
    BY <1>4 DEF Request, RequestExecute, RequestUndo, RequestReport, RejectRequest,
       TypeOK
  <2>4. \A d \in Calls :
          /\ stage'[d] \in HandlerStage => d # c
          /\ d # c => stage'[d] = stage[d]
    BY <2>1 DEF TypeOK
  <2>5. \A d \in Calls :
          /\ stage'[d] \in {"checking", "undoing"} => stage[d] \in {"checking", "undoing"}
          /\ stage'[d] = "executing" => stage[d] = "executing"
          /\ stage'[d] \in HandlerStage => runId'[d] = runId[d]
    BY <2>3, <2>4 DEF HandlerStage
  <2> QED
    BY <2>2, <2>5, SameOpen
<1>5. ASSUME NEW c \in Calls, NEW from \in WritingStage,
             NEW to \in WritingStage \cup EndStage, NEW newStore,
             Write(c, from, to, newStore)
      PROVE  SavedInv' /\ UndoSeesNoConflict'
  <2>1. to \in Stage \ HandlerStage
    BY StagesAreDisjoint
  <2> QED
    BY <1>5, <2>1, OpenAfterWrite DEF Write
<1>6. ASSUME NEW c \in Calls,
             \/ MarkFailed(c) \/ MarkUndoFailed(c) \/ FlushConflict(c)
             \/ ReportConflict(c) \/ LockAndClaimUndo(c)
      PROVE  SavedInv' /\ UndoSeesNoConflict'
  <2>1. \E from \in WritingStage, to \in WritingStage \cup EndStage : \E newStore :
          Write(c, from, to, newStore)
    BY <1>6 DEF MarkFailed, MarkUndoFailed, FlushConflict, ReportConflict,
       LockAndClaimUndo, WritingStage, EndStage
  <2> QED
    BY <1>5, <2>1
<1>7. ASSUME NEW c \in Calls, ClaimActionRun(c)
      PROVE  SavedInv' /\ UndoSeesNoConflict'
  <2>1. PICK to \in {"execute", "existing", "rejected"} :
          stage' = [stage EXCEPT ![c] = to]
    BY <1>7 DEF ClaimActionRun
  <2>2. stage[c] \in WritingStage /\ HoldsLock(c) /\ saved' = saved
    BY <1>7 DEF ClaimActionRun, WritingStage
  <2>3. to \in Stage \ HandlerStage
    BY DEF Stage, HandlerStage, WritingStage, EndStage
  <2> QED
    BY <2>1, <2>2, <2>3, OpenAfterWrite
<1>8. ASSUME NEW c \in Calls,
              \/ ExecuteReturns(c) \/ ExecuteThrows(c)
              \/ UndoReturns(c) \/ UndoThrows(c)
       PROVE  SavedInv' /\ UndoSeesNoConflict'
  <2>1. /\ stage[c] \in HandlerStage
        /\ saved' = {}
        /\ \E to \in WritingStage \cup EndStage : stage' = [stage EXCEPT ![c] = to]
    BY <1>8 DEF ExecuteReturns, ExecuteThrows, UndoReturns, UndoThrows, Commit,
         Rollback, HandlerStage, WritingStage, EndStage
  <2> QED
    BY <2>1, StagesAreDisjoint, OpenAfterEnd
<1> QED
  BY <1>1, <1>2, <1>3, <1>4, <1>6, <1>7, <1>8, OpenBegun, OpenRecords, OpenUndo
     DEF Next, Advance

-----------------------------------------------------------------------------
(* Invariance. *)

LEMMA FlushStep == TypeOK /\ FlushHasMore /\ [Next]_vars => FlushHasMore'
<1> SUFFICES ASSUME TypeOK, FlushHasMore, [Next]_vars PROVE FlushHasMore'
  OBVIOUS
<1>1. CASE UNCHANGED vars \/ Tick
  BY <1>1 DEF vars, Tick, FlushHasMore
<1>2. ASSUME NEW c \in Calls, Enqueue(c) \/ HandlerRecords(c) PROVE FlushHasMore'
  BY <1>2 DEF Enqueue, HandlerRecords, FlushHasMore
<1>3. ASSUME NEW c \in Calls, DeferConflict(c) PROVE FlushHasMore'
  <2>1. stage[c] # "flush" /\ stage' = stage
        /\ \A d \in Calls \ {c} : deferred'[d] = deferred[d]
    BY <1>3 DEF DeferConflict, TypeOK
  <2> QED
    BY <2>1 DEF FlushHasMore
<1>4. ASSUME NEW c \in Calls, NEW to \in Stage \ {"flush"},
             stage' = [stage EXCEPT ![c] = to],
             \A d \in Calls \ {c} : deferred'[d] = deferred[d]
      PROVE  FlushHasMore'
  BY <1>4 DEF FlushHasMore, TypeOK
<1>5. ASSUME NEW c \in Calls, MarkUndoFailed(c) PROVE FlushHasMore'
  <2>1. /\ deferred' = deferred
        /\ stage' = [stage EXCEPT ![c] = IF deferred[c] = 0 THEN "undo_failed"
                                         ELSE "flush"]
    BY <1>5 DEF MarkUndoFailed, Write
  <2> QED
    BY <2>1 DEF FlushHasMore, TypeOK
<1>6. ASSUME NEW c \in Calls, FlushConflict(c) PROVE FlushHasMore'
  <2>1. /\ deferred' = [deferred EXCEPT ![c] = deferred[c] - 1]
        /\ stage' = [stage EXCEPT ![c] = IF deferred[c] = 1 THEN "undo_failed"
                                         ELSE "flush"]
    BY <1>6 DEF FlushConflict, Write
  <2>2. deferred[c] \in Nat
    BY DEF TypeOK
  <2>3. stage'[c] = "flush" => deferred'[c] # 0
    BY <2>1, <2>2 DEF TypeOK
  <2>4. \A d \in Calls \ {c} : stage'[d] = stage[d] /\ deferred'[d] = deferred[d]
    BY <2>1 DEF TypeOK
  <2> QED
    BY <2>3, <2>4 DEF FlushHasMore
<1>7. ASSUME NEW c \in Calls,
             \/ Request(c) \/ ClaimActionRun(c) \/ LockAndClaimUndo(c) \/ BeginUndo(c)
      PROVE  FlushHasMore'
  <2>1. deferred' = deferred
    BY <1>7 DEF Request, RequestExecute, RequestUndo, RequestReport, RejectRequest,
       ClaimActionRun, LockAndClaimUndo, BeginUndo
  <2>2. PICK to \in {"claim", "lock", "report", "rejected", "execute", "existing",
                     "undo", "checking", "mark_undo_failed"} :
          stage' = [stage EXCEPT ![c] = to]
    BY <1>7 DEF Request, RequestExecute, RequestUndo, RequestReport, RejectRequest,
       ClaimActionRun, LockAndClaimUndo, BeginUndo, Write
  <2> QED
    BY <1>4, <2>1, <2>2, StagesAreTyped
<1>8. ASSUME NEW c \in Calls,
             \/ BeginExecute(c) \/ ExecuteReturns(c) \/ ExecuteThrows(c) \/ MarkFailed(c)
             \/ EnterUndoHandler(c) \/ UndoReturns(c) \/ UndoThrows(c)
             \/ ReportConflict(c)
      PROVE  FlushHasMore'
  <2>1. deferred' = deferred
    BY <1>8 DEF BeginExecute, ExecuteReturns, ExecuteThrows, MarkFailed,
       EnterUndoHandler, UndoReturns, UndoThrows, ReportConflict, Write, Commit, Rollback
  <2>2. PICK to \in {"executing", "completed", "mark_failed", "failed", "undoing",
                     "undone", "mark_undo_failed", "reported"} :
          stage' = [stage EXCEPT ![c] = to]
    BY <1>8 DEF BeginExecute, ExecuteReturns, ExecuteThrows, MarkFailed,
       EnterUndoHandler, UndoReturns, UndoThrows, ReportConflict, Write, Commit, Rollback
  <2> QED
    BY <1>4, <2>1, <2>2, StagesAreTyped
<1> QED
  BY <1>1, <1>2, <1>3, <1>5, <1>6, <1>7, <1>8 DEF Next, Advance

LEMMA InitialStore == IsStore(EmptyStore) /\ StoreInv(EmptyStore)
BY DEF EmptyStore, IsStore, StoreInv, Ids, RunIds, GetSnapshots, GetSideEffects

LEMMA Initially == Init => IInv
<1> SUFFICES ASSUME Init PROVE IInv
  OBVIOUS
<1> USE DEF Init
<1>1. {} \in Optional(CreateInput)
  BY DEF Optional
<1>2. TypeOK
  <2>1. IsStore(store) /\ saved = {} /\ queue \in Seq(Calls) /\ now \in Nat
    BY InitialStore
  <2>2. stage \in [Calls -> Stage] /\ request \in [Calls -> Optional(CreateInput)]
    BY <1>1, StagesAreTyped
  <2>3. runId \in [Calls -> Nat] /\ deferred \in [Calls -> Nat]
    OBVIOUS
  <2> QED
    BY <2>1, <2>2, <2>3 DEF TypeOK
<1>3. \A c \in Calls : stage[c] = "idle"
  OBVIOUS
<1>4. LockInv /\ SavedInv /\ UndoSeesNoConflict
  BY <1>3 DEF LockInv, SavedInv, UndoSeesNoConflict, HandlerStage
<1>5. StoresInv
  BY InitialStore DEF StoresInv
<1>6. OwnerInv
  <2>1. RunIds(store) = {}
    BY DEF RunIds, EmptyStore
  <2> QED
    BY <1>3, <2>1, OwningStages DEF OwnerInv, BoundRunsExist, BoundStage, StatusOfOwned,
       UndoingStage, OneOwner, OpenRunsAreOwned
<1>7. FlushHasMore /\ AcknowledgedIsKept
  BY <1>3 DEF FlushHasMore, AcknowledgedIsKept
<1> QED
  BY <1>2, <1>4, <1>5, <1>6, <1>7 DEF IInv

LEMMA Inductive == IInv /\ [Next]_vars => IInv'
<1> SUFFICES ASSUME IInv, [Next]_vars PROVE IInv'
  OBVIOUS
<1>1. StoreInv(store) /\ BoundRunsExist
  BY DEF IInv, StoresInv, OwnerInv
<1>2. TypeOK'
  BY <1>1, TypeStep DEF IInv, TypeParts
<1>3. LockInv'
  BY LockStep DEF IInv
<1>4. StoresInv'
  BY StoresStep DEF IInv, StoreParts
<1>5. OwnerInv' /\ AcknowledgedIsKept'
  BY <1>1, OwnerStep DEF IInv, OwnerParts
<1>6. SavedInv' /\ UndoSeesNoConflict'
  BY OpenStep DEF IInv, OpenParts
<1>7. FlushHasMore'
  BY FlushStep DEF IInv
<1> QED
  BY <1>2, <1>3, <1>4, <1>5, <1>6, <1>7 DEF IInv

LEMMA Invariance == Spec => []IInv
BY Initially, Inductive, PTL DEF Spec

-----------------------------------------------------------------------------
(* The theorems. *)

(* The maps, the queue and the calls keep their types whatever calls       *)
(* interleave: no undefined run is updated, no counter goes below zero.    *)
THEOREM TypeCorrect == Spec => []TypeOK
<1>1. IInv => TypeOK
  BY DEF IInv
<1> QED
  BY <1>1, Invariance, PTL

(* A run that execute or undo has left open has exactly one call that will *)
(* settle it, and no call works on a settled run (rollbackkit.ts).         *)
THEOREM OneOwnerPerRun == Spec => []OpenRunsHaveOneOwner
<1>1. IInv => OpenRunsHaveOneOwner
  <2> SUFFICES ASSUME IInv, NEW id \in RunIds(store)
               PROVE  /\ IF Status(id) \in {"created", "running"}
                         THEN \E c \in Calls : CallsAt(id, ExecutingStage) = {c}
                         ELSE CallsAt(id, ExecutingStage) = {}
                      /\ IF Status(id) = "undo_running"
                         THEN \E c \in Calls : CallsAt(id, UndoingStage) = {c}
                         ELSE CallsAt(id, UndoingStage) = {}
    BY DEF OpenRunsHaveOneOwner
  <2>1. StatusOfOwned /\ OneOwner /\ OpenRunsAreOwned
    BY DEF IInv, OwnerInv
  <2>2. \A c \in CallsAt(id, ExecutingStage) : Status(id) \in {"created", "running"}
    BY <2>1 DEF CallsAt, ExecutingStage, StatusOfOwned
  <2>3. \A c \in CallsAt(id, UndoingStage) : Status(id) = "undo_running"
    BY <2>1 DEF CallsAt, StatusOfOwned
  <2>4. \A c, d \in CallsAt(id, ExecutingStage) \cup CallsAt(id, UndoingStage) : c = d
    BY <2>1 DEF CallsAt, OneOwner, OwningStage
  <2>5. Status(id) \in {"created", "running", "undo_running"} =>
          \E c \in Calls : c \in CallsAt(id, ExecutingStage) \cup CallsAt(id, UndoingStage)
    BY <2>1 DEF CallsAt, OpenRunsAreOwned, OwningStage
  <2>6. ASSUME Status(id) \in {"created", "running"}
        PROVE  \E c \in Calls : CallsAt(id, ExecutingStage) = {c}
    <3>1. PICK c \in Calls :
            c \in CallsAt(id, ExecutingStage) \cup CallsAt(id, UndoingStage)
      BY <2>5, <2>6
    <3>2. c \in CallsAt(id, ExecutingStage)
      BY <2>3, <2>6, <3>1
    <3> QED
      BY <2>4, <3>2
  <2>7. ASSUME Status(id) = "undo_running"
        PROVE  \E c \in Calls : CallsAt(id, UndoingStage) = {c}
    <3>1. PICK c \in Calls :
            c \in CallsAt(id, ExecutingStage) \cup CallsAt(id, UndoingStage)
      BY <2>5, <2>7
    <3>2. c \in CallsAt(id, UndoingStage)
      BY <2>2, <2>7, <3>1
    <3> QED
      BY <2>4, <3>2
  <2> QED
    BY <2>2, <2>3, <2>6, <2>7
<1> QED
  BY <1>1, Invariance, PTL

(* restoreState of one transaction never takes back what another call was  *)
(* told (memory-storage.ts, withTransaction).                              *)
THEOREM AcknowledgedStays == Spec => []AcknowledgedIsKept
<1>1. IInv => AcknowledgedIsKept
  BY DEF IInv
<1> QED
  BY <1>1, Invariance, PTL

(* An execution that threw leaves no snapshot and no side effect.          *)
THEOREM FailedLeavesNothing == Spec => []FailedRunLeavesNothing
<1>1. IInv => FailedRunLeavesNothing
  BY DEF IInv, StoresInv, StoreInv, FailedRunLeavesNothing, Status
<1> QED
  BY <1>1, Invariance, PTL

(* No conflict is persisted between the check of an undo and its end.      *)
THEOREM UndoIsAlone == Spec => []UndoSeesNoConflict
<1>1. IInv => UndoSeesNoConflict
  BY DEF IInv
<1> QED
  BY <1>1, Invariance, PTL

-----------------------------------------------------------------------------
(* What a step does to the store, once each. *)

(* updateActionRun on the run of c, for each of its callers. *)
StatusChange(c, status) ==
  /\ runId[c] \in RunIds(store)
  /\ RunIds(store') = RunIds(store)
  /\ store'.runs[runId[c]].status = status
  /\ store'.runs[runId[c]].request = store.runs[runId[c]].request
  /\ \A other \in RunIds(store) \ {runId[c]} : store'.runs[other] = store.runs[other]
  /\ store'.snapshots = store.snapshots
  /\ store'.sideEffects = store.sideEffects
  /\ store'.conflicts = store.conflicts

LEMMA StatusChanges ==
  ASSUME IInv, NEW c \in Calls, stage[c] \in BoundStage, NEW status \in ActionRunStatus,
         store' = UpdateStatus(store, runId[c], status)
  PROVE  StatusChange(c, status)
<1>1. runId[c] \in RunIds(store) /\ IsStore(store)
  BY DEF IInv, OwnerInv, BoundRunsExist, TypeOK
<1> QED
  BY <1>1, Updated DEF StatusChange

(* The status of the run of c, before the step of c that changes it. *)
LEMMA StatusSteps ==
  ASSUME IInv, NEW c \in Calls
  PROVE  /\ BeginExecute(c) =>
              Status(runId[c]) = "created" /\ StatusChange(c, "running")
         /\ ExecuteReturns(c) =>
              Status(runId[c]) = "running" /\ StatusChange(c, "completed")
         /\ MarkFailed(c) =>
              Status(runId[c]) = "created" /\ StatusChange(c, "failed")
         /\ LockAndClaimUndo(c) =>
              \/ store' = store
              \/ CanBeUndone(store.runs[runId[c]], now) /\ StatusChange(c, "undo_running")
         /\ UndoReturns(c) =>
              Status(runId[c]) = "undo_running" /\ StatusChange(c, "undone")
         /\ MarkUndoFailed(c) =>
              Status(runId[c]) = "undo_running" /\ StatusChange(c, "undo_failed")
<1> USE StagesAreTyped, StatusesAreTyped
<1>1. StatusOfOwned
  BY DEF IInv, OwnerInv
<1>2. ASSUME BeginExecute(c)
      PROVE  Status(runId[c]) = "created" /\ StatusChange(c, "running")
  BY <1>1, <1>2, StatusChanges DEF BeginExecute, StatusOfOwned
<1>3. ASSUME ExecuteReturns(c)
      PROVE  Status(runId[c]) = "running" /\ StatusChange(c, "completed")
  BY <1>1, <1>3, StatusChanges DEF ExecuteReturns, Commit, StatusOfOwned
<1>4. ASSUME MarkFailed(c)
      PROVE  Status(runId[c]) = "created" /\ StatusChange(c, "failed")
  BY <1>1, <1>4, StatusChanges DEF MarkFailed, Write, StatusOfOwned
<1>5. ASSUME LockAndClaimUndo(c)
      PROVE  \/ store' = store
             \/ CanBeUndone(store.runs[runId[c]], now) /\ StatusChange(c, "undo_running")
  BY <1>5, StatusChanges DEF LockAndClaimUndo, Write
<1>6. ASSUME UndoReturns(c)
      PROVE  Status(runId[c]) = "undo_running" /\ StatusChange(c, "undone")
  BY <1>1, <1>6, StatusChanges DEF UndoReturns, Commit, StatusOfOwned, UndoingStage
<1>7. ASSUME MarkUndoFailed(c)
      PROVE  Status(runId[c]) = "undo_running" /\ StatusChange(c, "undo_failed")
  BY <1>1, <1>7, StatusChanges DEF MarkUndoFailed, Write, StatusOfOwned, UndoingStage
<1> QED
  BY <1>2, <1>3, <1>4, <1>5, <1>6, <1>7

(* A handler records for its own run, which is running. *)
LEMMA RecordSteps ==
  ASSUME IInv, NEW c \in Calls, HandlerRecords(c)
  PROVE  /\ runId[c] \in RunIds(store) /\ Status(runId[c]) = "running"
         /\ store'.runs = store.runs
         /\ store.snapshots \subseteq store'.snapshots
         /\ store.sideEffects \subseteq store'.sideEffects
         /\ \A x \in store'.sideEffects \ store.sideEffects : x.actionRunId = runId[c]
         /\ store'.conflicts = store.conflicts
<1>1. runId[c] \in RunIds(store) /\ Status(runId[c]) = "running" /\ IsStore(store)
  BY StagesAreTyped
     DEF HandlerRecords, IInv, TypeOK, OwnerInv, BoundRunsExist, StatusOfOwned
<1>2. \A effect \in Effects : effect[1] \in SideEffectStatus /\ effect[2] \in BOOLEAN
  BY DefinitionsAssumption
<1>3. \/ store' = SaveSnapshot(store, runId[c])
      \/ \E effect \in Effects :
           store' = RecordSideEffect(store, runId[c], effect[1], effect[2])
  BY DEF HandlerRecords
<1> QED
  BY <1>1, <1>2, <1>3, Saved, Recorded

LEMMA ConflictSteps ==
  ASSUME IInv, NEW c \in Calls, FlushConflict(c) \/ ReportConflict(c)
  PROVE  /\ store'.runs = store.runs
         /\ store'.snapshots = store.snapshots
         /\ store'.sideEffects = store.sideEffects
         /\ store.conflicts \subseteq store'.conflicts
<1>1. runId[c] \in RunIds(store) /\ IsStore(store)
  BY StagesAreTyped
     DEF FlushConflict, ReportConflict, Write, IInv, TypeOK, OwnerInv, BoundRunsExist
<1>2. store' = RecordConflict(store, runId[c])
  BY DEF FlushConflict, ReportConflict, Write
<1> QED
  BY <1>1, <1>2, ConflictRecorded

(* What restoreState takes back: nothing but what the handler of c did.    *)
LEMMA RollbackSteps ==
  ASSUME IInv, NEW c \in Calls
  PROVE  /\ UndoThrows(c) => store' = store
         /\ ExecuteThrows(c) =>
              /\ runId[c] \in RunIds(store) /\ Status(runId[c]) = "running"
              /\ RunIds(store') = RunIds(store)
              /\ store'.runs[runId[c]].status = "created"
              /\ store'.runs[runId[c]].request = store.runs[runId[c]].request
              /\ \A id \in RunIds(store) \ {runId[c]} : store'.runs[id] = store.runs[id]
              /\ \A x \in store.snapshots \ store'.snapshots : x.actionRunId = runId[c]
              /\ store'.sideEffects \subseteq store.sideEffects
              /\ \A x \in store.sideEffects \ store'.sideEffects :
                   x.actionRunId = runId[c]
              /\ store'.conflicts = store.conflicts
<1>1. SavedInv /\ StatusOfOwned /\ BoundRunsExist
  BY DEF IInv, OwnerInv
<1>2. UndoThrows(c) => store' = store
  BY <1>1 DEF UndoThrows, Rollback, SavedInv
<1>3. ASSUME ExecuteThrows(c)
      PROVE  stage[c] = "executing" /\ store' \in saved
             /\ runId[c] \in RunIds(store) /\ Status(runId[c]) = "running"
  BY <1>1, <1>3, StagesAreTyped
     DEF ExecuteThrows, Rollback, StatusOfOwned, BoundRunsExist
<1> QED
  BY <1>1, <1>2, <1>3 DEF SavedInv

LEMMA ClaimSteps ==
  ASSUME IInv, NEW c \in Calls, ClaimActionRun(c)
  PROVE  \/ store' = store
         \/ \E input \in CreateInput, id \in Ids :
              /\ ClaimedRuns(store, input) = {}
              /\ id \notin RunIds(store)
              /\ RunIds(store') = RunIds(store) \cup {id}
              /\ store'.runs[id] = [request |-> input, status |-> "created"]
              /\ \A other \in RunIds(store) : store'.runs[other] = store.runs[other]
              /\ store'.snapshots = store.snapshots
              /\ store'.sideEffects = store.sideEffects
              /\ store'.conflicts = store.conflicts
<1>1. PICK input \in request[c] :
        \/ ClaimedRuns(store, input) = {} /\ store' = CreateActionRun(store, input)
        \/ store' = store
  BY DEF ClaimActionRun
<1>2. IsStore(store) /\ StoreInv(store) /\ input \in CreateInput
  BY Unchanged DEF IInv, TypeOK, StoresInv, Optional
<1>3. PICK id : id = store.nextId
  OBVIOUS
<1>4. id \notin RunIds(store) /\ id \in Ids
  BY <1>2, <1>3, NextIdIsNew DEF IsStore
<1>5. CASE ClaimedRuns(store, input) = {} /\ store' = CreateActionRun(store, input)
  <2>1. /\ RunIds(store') = RunIds(store) \cup {id}
        /\ store'.runs[id] = [request |-> input, status |-> "created"]
        /\ \A other \in RunIds(store) \ {id} : store'.runs[other] = store.runs[other]
        /\ store'.snapshots = store.snapshots
        /\ store'.sideEffects = store.sideEffects
        /\ store'.conflicts = store.conflicts
    BY ONLY <1>2, <1>3, <1>5, Created
  <2> QED
    BY <1>2, <1>4, <1>5, <2>1
<1> QED
  BY <1>1, <1>5

LEMMA QuietSteps ==
  ASSUME NEW c \in Calls,
         \/ Request(c) \/ Enqueue(c) \/ DeferConflict(c) \/ EnterUndoHandler(c)
         \/ BeginUndo(c)
  PROVE  store' = store
BY DEF Request, RequestExecute, RequestUndo, RequestReport, RejectRequest, Enqueue,
   DeferConflict, EnterUndoHandler, BeginUndo

-----------------------------------------------------------------------------
(* The records of the audit. *)

(* The condition of AuditIsAppendOnly on one step. *)
KeepsRecords ==
  /\ RunIds(store) \subseteq RunIds(store')
  /\ store.conflicts \subseteq store'.conflicts
  /\ \A id \in RunIds(store) :
       Status(id) # "running" =>
         /\ GetSnapshots(store, id) \subseteq GetSnapshots(store', id)
         /\ GetSideEffects(store, id) \subseteq GetSideEffects(store', id)

LEMMA GrowingKeeps ==
  ASSUME RunIds(store) \subseteq RunIds(store'),
         store.snapshots \subseteq store'.snapshots,
         store.sideEffects \subseteq store'.sideEffects,
         store.conflicts \subseteq store'.conflicts
  PROVE  KeepsRecords
BY DEF KeepsRecords, GetSnapshots, GetSideEffects

LEMMA SameStoreKeeps ==
  ASSUME store' = store
  PROVE  KeepsRecords
BY DEF KeepsRecords

LEMMA StepKeepsRecords == IInv /\ [Next]_vars => KeepsRecords
<1> SUFFICES ASSUME IInv, [Next]_vars PROVE KeepsRecords
  OBVIOUS
<1>1. CASE UNCHANGED vars \/ Tick
  BY <1>1, SameStoreKeeps DEF vars, Tick
<1>2. ASSUME NEW c \in Calls, NEW status, StatusChange(c, status) PROVE KeepsRecords
  BY <1>2, GrowingKeeps DEF StatusChange
<1>3. ASSUME NEW c \in Calls,
             \/ BeginExecute(c) \/ ExecuteReturns(c) \/ MarkFailed(c)
             \/ LockAndClaimUndo(c) \/ UndoReturns(c) \/ MarkUndoFailed(c)
      PROVE  KeepsRecords
  BY <1>2, <1>3, StatusSteps, SameStoreKeeps
<1>4. ASSUME NEW c \in Calls, HandlerRecords(c) PROVE KeepsRecords
  <2>1. RunIds(store') = RunIds(store)
    BY <1>4, RecordSteps DEF RunIds
  <2> QED
    BY <1>4, <2>1, RecordSteps, GrowingKeeps
<1>5. ASSUME NEW c \in Calls, FlushConflict(c) \/ ReportConflict(c)
      PROVE  KeepsRecords
  <2>1. RunIds(store') = RunIds(store)
    BY <1>5, ConflictSteps DEF RunIds
  <2> QED
    BY <1>5, <2>1, ConflictSteps, GrowingKeeps
<1>6. ASSUME NEW c \in Calls, ExecuteThrows(c) PROVE KeepsRecords
  <2>1. \A id \in RunIds(store) : Status(id) # "running" => id # runId[c]
    BY <1>6, RollbackSteps
  <2>2. \A id \in RunIds(store) \ {runId[c]} :
          /\ GetSnapshots(store, id) \subseteq GetSnapshots(store', id)
          /\ GetSideEffects(store, id) \subseteq GetSideEffects(store', id)
    BY <1>6, RollbackSteps DEF GetSnapshots, GetSideEffects
  <2> QED
    BY <1>6, <2>1, <2>2, RollbackSteps DEF KeepsRecords
<1>7. ASSUME NEW c \in Calls, UndoThrows(c) PROVE KeepsRecords
  BY <1>7, RollbackSteps, SameStoreKeeps
<1>8. ASSUME NEW c \in Calls, ClaimActionRun(c) PROVE KeepsRecords
  BY <1>8, ClaimSteps, GrowingKeeps, SameStoreKeeps
<1>9. CASE \E c \in Calls : Request(c) \/ Advance(c)
  BY <1>3, <1>4, <1>5, <1>6, <1>7, <1>8, <1>9, QuietSteps, SameStoreKeeps DEF Advance
<1> QED
  BY <1>1, <1>9 DEF Next

(* Runs and conflicts are never removed, and the records of a run only     *)
(* while it runs: a rollback restores no state captured too early.         *)
THEOREM AuditOnlyGrows == Spec => AuditIsAppendOnly
<1>1. Spec => [][KeepsRecords]_vars
  <2>1. IInv /\ [Next]_vars => [KeepsRecords]_vars
    BY StepKeepsRecords
  <2> QED
    BY <2>1, Invariance, PTL DEF Spec
<1> QED
  BY <1>1 DEF AuditIsAppendOnly, KeepsRecords

-----------------------------------------------------------------------------
(* The refinement: the runs of the store live as ActionLifecycle says.     *)

Life == INSTANCE ActionLifecycleProofs WITH
  Identifiers <- Ids, Claims <- AllClaims, runs <- AuditRuns

IrreversibleIn(s, id) ==
  /\ PhaseOf(s.runs[id].status) # "pending"
  /\ IrreversibleSideEffects(s, id) # {}

(* AuditRuns, of any store. *)
AuditOf(s) ==
  [id \in RunIds(s) |->
     [claim |-> ClaimOf(s.runs[id].request),
      undoable |-> s.runs[id].request.undoable,
      irreversible |-> IrreversibleIn(s, id),
      phase |-> PhaseOf(s.runs[id].status)]]

LEMMA AuditReads == AuditRuns = AuditOf(store) /\ AuditRuns' = AuditOf(store')
BY DEF AuditRuns, AuditOf, ClaimOf, IrreversibleIn, Status

LEMMA Phases ==
  /\ PhaseOf("created") = "pending" /\ PhaseOf("running") = "pending"
  /\ PhaseOf("completed") = "completed" /\ PhaseOf("failed") = "failed"
  /\ PhaseOf("undo_running") = "undoing" /\ PhaseOf("undone") = "undone"
  /\ PhaseOf("undo_failed") = "undo_failed"
BY DEF PhaseOf

(* The same phase, request and irreversible effects of every run.          *)
LEMMA SameAudit ==
  ASSUME NEW s, NEW t, RunIds(t) = RunIds(s),
         \A id \in RunIds(s) :
           /\ t.runs[id].request = s.runs[id].request
           /\ PhaseOf(t.runs[id].status) = PhaseOf(s.runs[id].status)
           /\ IrreversibleIn(t, id) = IrreversibleIn(s, id)
  PROVE  AuditOf(t) = AuditOf(s)
BY DEF AuditOf

LEMMA SameEffects ==
  ASSUME NEW s, NEW t, NEW id, t.runs[id] = s.runs[id],
         \A x \in (t.sideEffects \ s.sideEffects) \cup (s.sideEffects \ t.sideEffects) :
           x.actionRunId # id
  PROVE  IrreversibleIn(t, id) = IrreversibleIn(s, id)
<1>1. IrreversibleSideEffects(t, id) = IrreversibleSideEffects(s, id)
  BY DEF IrreversibleSideEffects, GetSideEffects
<1> QED
  BY <1>1 DEF IrreversibleIn

(* One run goes to another phase. *)
LEMMA NextPhaseOf ==
  ASSUME NEW s, NEW t, NEW id \in RunIds(s), RunIds(t) = RunIds(s),
         t.runs[id].request = s.runs[id].request,
         \A other \in RunIds(s) \ {id} : t.runs[other] = s.runs[other],
         t.sideEffects = s.sideEffects,
         NEW new, new = PhaseOf(t.runs[id].status),
         NEW before, before = IrreversibleIn(s, id),
         NEW after, after = IrreversibleIn(t, id)
  PROVE  /\ AuditOf(t) = [AuditOf(s) EXCEPT ![id].phase = new, ![id].irreversible = after]
         /\ after = before => AuditOf(t) = [AuditOf(s) EXCEPT ![id].phase = new]
         /\ AuditOf(s)[id] = [claim |-> ClaimOf(s.runs[id].request),
                              undoable |-> s.runs[id].request.undoable,
                              irreversible |-> before,
                              phase |-> PhaseOf(s.runs[id].status)]
         /\ id \in DOMAIN AuditOf(s)
<1>1. \A other \in RunIds(s) \ {id} : IrreversibleIn(t, other) = IrreversibleIn(s, other)
  BY SameEffects
<1>2. PICK claim : claim = ClaimOf(s.runs[id].request)
  OBVIOUS
<1>3. PICK undoable : undoable = s.runs[id].request.undoable
  OBVIOUS
<1>4. PICK old : old = PhaseOf(s.runs[id].status)
  OBVIOUS
<1>5. /\ DOMAIN AuditOf(s) = RunIds(s) /\ DOMAIN AuditOf(t) = RunIds(s)
      /\ AuditOf(s) = [r \in RunIds(s) |-> AuditOf(s)[r]]
      /\ AuditOf(t) = [r \in RunIds(s) |-> AuditOf(t)[r]]
  <2>1. \A u : /\ DOMAIN AuditOf(u) = RunIds(u)
               /\ AuditOf(u) = [r \in DOMAIN AuditOf(u) |-> AuditOf(u)[r]]
    BY DEF AuditOf
  <2> QED
    BY <2>1
<1>6. AuditOf(s)[id] = [claim |-> claim, undoable |-> undoable,
                        irreversible |-> before, phase |-> old]
  BY <1>2, <1>3, <1>4 DEF AuditOf
<1>7. AuditOf(t)[id] = [claim |-> claim, undoable |-> undoable,
                        irreversible |-> after, phase |-> new]
  BY <1>2, <1>3, <1>4 DEF AuditOf
<1>8. \A other \in RunIds(s) \ {id} : AuditOf(t)[other] = AuditOf(s)[other]
  BY <1>1 DEF AuditOf
<1>9. /\ AuditOf(t) = [AuditOf(s) EXCEPT ![id].phase = new, ![id].irreversible = after]
      /\ after = before => AuditOf(t) = [AuditOf(s) EXCEPT ![id].phase = new]
  <2>1. NewPhase(AuditOf(s), AuditOf(t), id, claim, undoable, before, after, old, new)
    BY <1>5, <1>6, <1>7, <1>8 DEF NewPhase
  <2> QED
    BY <2>1, NextPhase
<1> QED
  BY <1>2, <1>3, <1>4, <1>5, <1>6, <1>9

LEMMA RunsAreTyped ==
  ASSUME IInv, NEW id \in RunIds(store)
  PROVE  /\ store.runs[id].request \in CreateInput
         /\ store.runs[id].request.undoable \in BOOLEAN
BY DEF IInv, TypeOK, IsStore, RunIds, ActionRun, CreateInput

LEMMA ClaimRefines ==
  ASSUME IInv, NEW c \in Calls, ClaimActionRun(c)
  PROVE  Life!Next \/ AuditRuns' = AuditRuns
<1>1. CASE store' = store
  BY <1>1, AuditReads
<1>2. ASSUME NEW input \in CreateInput, NEW id,
             ClaimedRuns(store, input) = {},
             id \notin RunIds(store), id \in Ids,
             RunIds(store') = RunIds(store) \cup {id},
             store'.runs[id] = [request |-> input, status |-> "created"],
             \A other \in RunIds(store) : store'.runs[other] = store.runs[other],
             store'.sideEffects = store.sideEffects
      PROVE  Life!Next
  <2>1. PICK s, t : s = store /\ t = store'
    OBVIOUS
  <2>2. AuditRuns = AuditOf(s) /\ AuditRuns' = AuditOf(t)
    BY <2>1, AuditReads
  <2>3. PICK claim : claim = ClaimOf(input)
    OBVIOUS
  <2>4. PICK undoable : undoable = input.undoable
    OBVIOUS
  <2>5. undoable \in BOOLEAN
    BY <2>4 DEF CreateInput
  <2>6. claim \in {{}} \cup {{k} : k \in AllClaims}
    BY <2>3, ClaimsAreTyped
  <2>7. DOMAIN AuditOf(s) = RunIds(s) /\ DOMAIN AuditOf(t) = RunIds(s) \cup {id}
    BY <1>2, <2>1 DEF AuditOf
  <2>8. AuditOf(t)[id] = [claim |-> claim, undoable |-> undoable,
                          irreversible |-> FALSE, phase |-> "pending"]
    <3>1. IrreversibleIn(t, id) = FALSE /\ PhaseOf(t.runs[id].status) = "pending"
      BY <1>2, <2>1, Phases DEF IrreversibleIn
    <3>2. t.runs[id].request = input
      BY <1>2, <2>1
    <3>3. AuditOf(t)[id] = [claim |-> ClaimOf(t.runs[id].request),
                            undoable |-> t.runs[id].request.undoable,
                            irreversible |-> IrreversibleIn(t, id),
                            phase |-> PhaseOf(t.runs[id].status)]
      BY <1>2, <2>1 DEF AuditOf
    <3> QED
      BY <2>3, <2>4, <3>1, <3>2, <3>3
  <2>9. \A other \in RunIds(s) : AuditOf(t)[other] = AuditOf(s)[other]
    <3> SUFFICES ASSUME NEW other \in RunIds(s)
                 PROVE  AuditOf(t)[other] = AuditOf(s)[other]
      OBVIOUS
    <3>1. t.runs[other] = s.runs[other] /\ t.sideEffects = s.sideEffects
      BY <1>2, <2>1
    <3>2. IrreversibleIn(t, other) = IrreversibleIn(s, other)
      BY <3>1, SameEffects
    <3> QED
      BY <1>2, <2>1, <3>1, <3>2 DEF AuditOf
  <2>10. AuditOf(t) = [r \in DOMAIN AuditOf(t) |-> AuditOf(t)[r]]
    BY DEF AuditOf
  <2>11. AuditOf(t) = [r \in DOMAIN AuditOf(s) \cup {id} |->
                        IF r = id THEN [claim |-> claim, undoable |-> undoable,
                                        irreversible |-> FALSE, phase |-> "pending"]
                                  ELSE AuditOf(s)[r]]
    BY <1>2, <2>1, <2>7, <2>8, <2>9, <2>10
  <2>12. claim # {} => \A other \in DOMAIN AuditOf(s) : AuditOf(s)[other].claim # claim
    <3> SUFFICES ASSUME claim # {}, NEW other \in RunIds(s),
                        AuditOf(s)[other].claim = claim
                 PROVE  FALSE
      BY <2>7
    <3>1. AuditOf(s)[other].claim = ClaimOf(s.runs[other].request)
      BY DEF AuditOf
    <3>2. SameClaim(s.runs[other].request, input)
      BY <2>1, <2>3, <3>1, RunsAreTyped, EqualClaims
    <3> QED
      BY <1>2, <2>1, <3>2 DEF ClaimedRuns
  <2>13. Life!Claim(id, claim, undoable)
    BY <1>2, <2>1, <2>2, <2>7, <2>11, <2>12 DEF Life!Claim
  <2> QED
    BY <1>2, <2>5, <2>6, <2>13 DEF Life!Next
<1> QED
  BY <1>1, <1>2, ClaimSteps

(* A change of status, seen through the audit. *)
LEMMA StatusRefines ==
  ASSUME IInv, NEW c \in Calls, NEW status, StatusChange(c, status),
         NEW id, id = runId[c],
         NEW phase, PhaseOf(status) = phase
  PROVE  /\ id \in DOMAIN AuditRuns /\ id \in Ids
         /\ AuditRuns[id].phase = PhaseOf(Status(id))
         /\ AuditRuns[id].undoable = store.runs[id].request.undoable
         /\ AuditRuns[id].irreversible = IrreversibleIn(store, id)
         /\ AuditRuns' = [AuditRuns EXCEPT ![id].phase = phase,
                            ![id].irreversible = IrreversibleIn(store', id)]
<1>1. PICK s, t : s = store /\ t = store'
  OBVIOUS
<1>2. /\ id \in RunIds(s) /\ RunIds(t) = RunIds(s)
      /\ t.runs[id].status = status
      /\ t.runs[id].request = s.runs[id].request
      /\ \A other \in RunIds(s) \ {id} : t.runs[other] = s.runs[other]
      /\ t.sideEffects = s.sideEffects
  BY <1>1 DEF StatusChange
<1>3. AuditRuns = AuditOf(s) /\ AuditRuns' = AuditOf(t)
  BY <1>1, AuditReads
<1>4. id \in Ids
  BY <1>1, <1>2 DEF IInv, TypeOK, IsStore, RunIds
<1>5. PICK new : new = PhaseOf(t.runs[id].status)
  OBVIOUS
<1>6. new = phase
  BY <1>2, <1>5
<1>7. PICK before, after : before = IrreversibleIn(s, id) /\ after = IrreversibleIn(t, id)
  OBVIOUS
<1>8. /\ AuditOf(t) = [AuditOf(s) EXCEPT ![id].phase = new, ![id].irreversible = after]
      /\ AuditOf(s)[id] = [claim |-> ClaimOf(s.runs[id].request),
                           undoable |-> s.runs[id].request.undoable,
                           irreversible |-> before,
                           phase |-> PhaseOf(s.runs[id].status)]
      /\ id \in DOMAIN AuditOf(s)
  BY <1>2, <1>5, <1>7, NextPhaseOf
<1>9. /\ AuditOf(s)[id].phase = PhaseOf(s.runs[id].status)
      /\ AuditOf(s)[id].undoable = s.runs[id].request.undoable
      /\ AuditOf(s)[id].irreversible = before
  BY <1>8
<1> QED
  BY <1>1, <1>3, <1>4, <1>6, <1>7, <1>8, <1>9 DEF Status

LEMMA PhaseRefines ==
  ASSUME IInv, NEW c \in Calls, NEW status, StatusChange(c, status),
         NEW id, id = runId[c],
         NEW phase, PhaseOf(status) = phase,
         NEW value, value = IrreversibleIn(store, id), value = IrreversibleIn(store', id)
  PROVE  AuditRuns' = [AuditRuns EXCEPT ![id].phase = phase]
<1>1. PICK s, t : s = store /\ t = store'
  OBVIOUS
<1>2. /\ id \in RunIds(s) /\ RunIds(t) = RunIds(s)
      /\ t.runs[id].status = status
      /\ t.runs[id].request = s.runs[id].request
      /\ \A other \in RunIds(s) \ {id} : t.runs[other] = s.runs[other]
      /\ t.sideEffects = s.sideEffects
  BY <1>1 DEF StatusChange
<1>3. AuditRuns = AuditOf(s) /\ AuditRuns' = AuditOf(t)
  BY <1>1, AuditReads
<1>4. PICK new : new = PhaseOf(t.runs[id].status)
  OBVIOUS
<1>5. new = phase
  BY <1>2, <1>4
<1>6. PICK before, after : before = IrreversibleIn(s, id) /\ after = IrreversibleIn(t, id)
  OBVIOUS
<1>7. /\ AuditOf(t) = [AuditOf(s) EXCEPT ![id].phase = new, ![id].irreversible = after]
      /\ after = before => AuditOf(t) = [AuditOf(s) EXCEPT ![id].phase = new]
      /\ AuditOf(s)[id] = [claim |-> ClaimOf(s.runs[id].request),
                           undoable |-> s.runs[id].request.undoable,
                           irreversible |-> before,
                           phase |-> PhaseOf(s.runs[id].status)]
      /\ id \in DOMAIN AuditOf(s)
  BY <1>2, <1>4, <1>6, NextPhaseOf
<1> QED
  BY <1>1, <1>3, <1>5, <1>6, <1>7

LEMMA ExecuteRefines ==
  ASSUME IInv, NEW c \in Calls, ExecuteReturns(c) \/ MarkFailed(c)
  PROVE  Life!Next
<1>1. PICK id : id = runId[c]
  OBVIOUS
<1>2. CASE ExecuteReturns(c)
  <2>1. Status(id) = "running" /\ StatusChange(c, "completed")
    BY <1>1, <1>2, StatusSteps
  <2>2. PICK irreversible : irreversible = IrreversibleIn(store', id)
    OBVIOUS
  <2>3. irreversible \in BOOLEAN
    BY <2>2 DEF IrreversibleIn
  <2>4. /\ id \in DOMAIN AuditRuns /\ id \in Ids
        /\ AuditRuns[id].phase = "pending"
        /\ AuditRuns' = [AuditRuns EXCEPT ![id].phase = "completed",
                                          ![id].irreversible = irreversible]
    BY <1>1, <2>1, <2>2, StatusRefines, Phases
  <2>5. Life!Complete(id, irreversible)
    BY <2>4 DEF Life!Complete
  <2> QED
    BY <2>3, <2>4, <2>5 DEF Life!Next
<1>3. CASE MarkFailed(c)
  <2>1. Status(id) = "created" /\ StatusChange(c, "failed")
    BY <1>1, <1>3, StatusSteps
  <2>2. id \in RunIds(store) /\ store'.sideEffects = store.sideEffects
    BY <1>1, <2>1 DEF StatusChange
  <2>3. GetSideEffects(store, id) = {}
    BY <2>1, <2>2 DEF IInv, StoresInv, StoreInv, Status
  <2>4. IrreversibleIn(store', id) = IrreversibleIn(store, id)
    BY <2>2, <2>3 DEF IrreversibleIn, IrreversibleSideEffects, GetSideEffects
  <2>5. /\ id \in DOMAIN AuditRuns /\ id \in Ids
        /\ AuditRuns[id].phase = "pending"
        /\ AuditRuns' = [AuditRuns EXCEPT ![id].phase = "failed"]
    <3>1. PhaseOf("failed") = "failed" /\ PhaseOf("created") = "pending"
      BY Phases
    <3>2. AuditRuns' = [AuditRuns EXCEPT ![id].phase = "failed"]
      BY <1>1, <2>1, <2>4, <3>1, PhaseRefines
    <3> QED
      BY <1>1, <2>1, <3>1, <3>2, StatusRefines
  <2>6. Life!Fail(id)
    BY <2>5 DEF Life!Fail
  <2> QED
    BY <2>5, <2>6 DEF Life!Next
<1> QED
  BY <1>2, <1>3

(* A run whose phase was and stays another one than pending keeps whether  *)
(* its effects can be reverted.                                            *)
LEMMA SettledEffects ==
  ASSUME NEW c \in Calls, NEW status, StatusChange(c, status),
         PhaseOf(status) # "pending", PhaseOf(Status(runId[c])) # "pending"
  PROVE  IrreversibleIn(store', runId[c]) = IrreversibleIn(store, runId[c])
BY DEF StatusChange, IrreversibleIn, IrreversibleSideEffects, GetSideEffects, Status

LEMMA UndoRefines ==
  ASSUME IInv, NEW c \in Calls,
         LockAndClaimUndo(c) \/ UndoReturns(c) \/ MarkUndoFailed(c)
  PROVE  Life!Next \/ AuditRuns' = AuditRuns
<1>1. PICK id : id = runId[c]
  OBVIOUS
<1>2. CASE LockAndClaimUndo(c)
  <2>1. CASE store' = store
    BY <2>1, AuditReads
  <2>2. CASE CanBeUndone(store.runs[id], now) /\ StatusChange(c, "undo_running")
    <3>1. Status(id) = "completed" /\ store.runs[id].request.undoable
      BY <2>2 DEF CanBeUndone, Status
    <3>2. IrreversibleIn(store', id) = IrreversibleIn(store, id)
      BY <1>1, <2>2, <3>1, SettledEffects, Phases
    <3>3. /\ id \in DOMAIN AuditRuns /\ id \in Ids
          /\ AuditRuns[id].phase = "completed" /\ AuditRuns[id].undoable
          /\ AuditRuns' = [AuditRuns EXCEPT ![id].phase = "undoing"]
      <4>1. PhaseOf("undo_running") = "undoing" /\ PhaseOf("completed") = "completed"
        BY Phases
      <4>2. AuditRuns' = [AuditRuns EXCEPT ![id].phase = "undoing"]
        BY <1>1, <2>2, <3>2, <4>1, PhaseRefines
      <4> QED
        BY <1>1, <2>2, <3>1, <4>1, <4>2, StatusRefines
    <3>4. Life!StartUndo(id)
      BY <3>3 DEF Life!StartUndo
    <3> QED
      BY <3>3, <3>4 DEF Life!Next
  <2> QED
    BY <1>1, <1>2, <2>1, <2>2, StatusSteps
<1>3. CASE UndoReturns(c)
  <2>1. Status(id) = "undo_running" /\ StatusChange(c, "undone")
    BY <1>1, <1>3, StatusSteps
  <2>2. IrreversibleIn(store', id) = IrreversibleIn(store, id)
    BY <1>1, <2>1, SettledEffects, Phases
  <2>3. /\ id \in DOMAIN AuditRuns /\ id \in Ids
        /\ AuditRuns[id].phase = "undoing"
        /\ AuditRuns[id].irreversible = IrreversibleIn(store, id)
        /\ AuditRuns' = [AuditRuns EXCEPT ![id].phase = "undone"]
    <3>1. PhaseOf("undone") = "undone" /\ PhaseOf("undo_running") = "undoing"
      BY Phases
    <3>2. AuditRuns' = [AuditRuns EXCEPT ![id].phase = "undone"]
      BY <1>1, <2>1, <2>2, <3>1, PhaseRefines
    <3> QED
      BY <1>1, <2>1, <3>1, <3>2, StatusRefines
  <2>4. ~IrreversibleIn(store, id)
    BY <1>1, <1>3 DEF UndoReturns, IInv, UndoSeesNoConflict, IrreversibleIn
  <2>5. ~AuditRuns[id].irreversible
    BY <2>3, <2>4
  <2>6. Life!Undo(id)
    BY <2>3, <2>5 DEF Life!Undo
  <2> QED
    BY <2>3, <2>6 DEF Life!Next
<1>4. CASE MarkUndoFailed(c)
  <2>1. Status(id) = "undo_running" /\ StatusChange(c, "undo_failed")
    BY <1>1, <1>4, StatusSteps
  <2>2. IrreversibleIn(store', id) = IrreversibleIn(store, id)
    BY <1>1, <2>1, SettledEffects, Phases
  <2>3. /\ id \in DOMAIN AuditRuns /\ id \in Ids
        /\ AuditRuns[id].phase = "undoing"
        /\ AuditRuns' = [AuditRuns EXCEPT ![id].phase = "undo_failed"]
    <3>1. PhaseOf("undo_failed") = "undo_failed" /\ PhaseOf("undo_running") = "undoing"
      BY Phases
    <3>2. AuditRuns' = [AuditRuns EXCEPT ![id].phase = "undo_failed"]
      BY <1>1, <2>1, <2>2, <3>1, PhaseRefines
    <3> QED
      BY <1>1, <2>1, <3>1, <3>2, StatusRefines
  <2>4. Life!RefuseUndo(id)
    BY <2>3 DEF Life!RefuseUndo
  <2> QED
    BY <2>3, <2>4 DEF Life!Next
<1> QED
  BY <1>2, <1>3, <1>4

(* The steps of a call that the audit does not show: the mark running and  *)
(* its rollback, the records of a handler, the conflicts of an undo.       *)
LEMMA HiddenSteps ==
  ASSUME IInv, NEW c \in Calls,
         \/ BeginExecute(c) \/ HandlerRecords(c) \/ ExecuteThrows(c) \/ UndoThrows(c)
         \/ FlushConflict(c) \/ ReportConflict(c)
         \/ Request(c) \/ Enqueue(c) \/ DeferConflict(c) \/ EnterUndoHandler(c)
         \/ BeginUndo(c)
  PROVE  AuditRuns' = AuditRuns
<1>1. PICK s, t, id : s = store /\ t = store' /\ id = runId[c]
  OBVIOUS
<1>2. SUFFICES AuditOf(t) = AuditOf(s)
  BY <1>1, AuditReads
<1>3. ASSUME id \in RunIds(s), RunIds(t) = RunIds(s),
             \A other \in RunIds(s) \ {id} : t.runs[other] = s.runs[other],
             t.runs[id].request = s.runs[id].request,
             s.runs[id].status \in {"created", "running"},
             t.runs[id].status \in {"created", "running"},
             \A x \in (t.sideEffects \ s.sideEffects) \cup (s.sideEffects \ t.sideEffects) :
               x.actionRunId = id
      PROVE  AuditOf(t) = AuditOf(s)
  <2>1. \A other \in RunIds(s) \ {id} : IrreversibleIn(t, other) = IrreversibleIn(s, other)
    BY <1>3, SameEffects
  <2>2. PhaseOf(t.runs[id].status) = "pending" /\ PhaseOf(s.runs[id].status) = "pending"
    BY <1>3, Phases
  <2>3. IrreversibleIn(t, id) = IrreversibleIn(s, id)
    BY <2>2 DEF IrreversibleIn
  <2>4. \A other \in RunIds(s) :
          /\ t.runs[other].request = s.runs[other].request
          /\ PhaseOf(t.runs[other].status) = PhaseOf(s.runs[other].status)
          /\ IrreversibleIn(t, other) = IrreversibleIn(s, other)
    BY <1>3, <2>1, <2>2, <2>3
  <2> QED
    BY <1>3, <2>4, SameAudit
<1>4. CASE BeginExecute(c)
  <2>1. Status(id) = "created" /\ StatusChange(c, "running")
    BY <1>1, <1>4, StatusSteps
  <2> QED
    BY <1>1, <1>3, <2>1 DEF StatusChange, Status
<1>5. CASE HandlerRecords(c)
  <2>1. RunIds(t) = RunIds(s)
    BY <1>1, <1>5, RecordSteps DEF RunIds
  <2> QED
    BY <1>1, <1>3, <1>5, <2>1, RecordSteps DEF Status
<1>6. CASE ExecuteThrows(c)
  BY <1>1, <1>3, <1>6, RollbackSteps DEF Status
<1>7. CASE FlushConflict(c) \/ ReportConflict(c)
  <2>1. t.runs = s.runs /\ t.sideEffects = s.sideEffects
    BY <1>1, <1>7, ConflictSteps
  <2> QED
    BY <2>1 DEF AuditOf, RunIds, IrreversibleIn, IrreversibleSideEffects, GetSideEffects
<1>8. CASE UndoThrows(c)
  BY <1>1, <1>8, RollbackSteps
<1>9. CASE \/ Request(c) \/ Enqueue(c) \/ DeferConflict(c) \/ EnterUndoHandler(c)
           \/ BeginUndo(c)
  BY <1>1, <1>9, QuietSteps
<1> QED
  BY <1>4, <1>5, <1>6, <1>7, <1>8, <1>9

LEMMA StepRefines == IInv /\ [Next]_vars => Life!Next \/ AuditRuns' = AuditRuns
<1> SUFFICES ASSUME IInv, [Next]_vars PROVE Life!Next \/ AuditRuns' = AuditRuns
  OBVIOUS
<1>1. CASE UNCHANGED vars \/ Tick
  BY <1>1, AuditReads DEF vars, Tick
<1>2. CASE \E c \in Calls : Request(c) \/ Advance(c)
  BY <1>2, ClaimRefines, ExecuteRefines, UndoRefines, HiddenSteps DEF Advance
<1> QED
  BY <1>1, <1>2 DEF Next

(* The memory runtime implements the abstract life of an action run: each  *)
(* step of a call is one step of ActionLifecycle or leaves the audit as it *)
(* is, so what is proved of ActionLifecycle holds of the stored runs.      *)
THEOREM MemoryImplementsLifecycle == Spec => Life!Spec
<1>1. Init => Life!Init
  BY DEF Init, EmptyStore, AuditRuns, RunIds, Life!Init
<1>2. IInv /\ [Next]_vars => [Life!Next]_AuditRuns
  BY StepRefines
<1> QED
  BY <1>1, <1>2, Invariance, PTL DEF Spec, Life!Spec

(* An idempotency key stands for one run of the store for good, and a run  *)
(* of the store was undone only if it was undoable and had no irreversible *)
(* effect: what ActionLifecycle promises of its runs, of the stored ones.  *)
THEOREM StoredRunsKeepThePromises ==
  Spec => [](Life!OneRunPerClaim /\ Life!UndoneWasUndoable)
<1>1. Life!Spec => []Life!OneRunPerClaim
  BY Life!ClaimsAreUnique
<1>2. Life!Spec => []Life!UndoneWasUndoable
  BY Life!UndoneIsUndoable
<1> QED
  BY <1>1, <1>2, MemoryImplementsLifecycle, PTL
=============================================================================
