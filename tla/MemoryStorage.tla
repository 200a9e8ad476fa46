---------------------------- MODULE MemoryStorage ----------------------------
(***************************************************************************)
(* The maps of MemoryStorageAdapter and the synchronous body of each of    *)
(* its operations, as functions from a store to a store.  Who may run such *)
(* a body, and when, is MemoryRuntime's concern.                           *)
(*                                                                         *)
(* One counter numbers runs, snapshots, side effects and conflicts, and it *)
(* is part of the captured state: a rollback takes it back too.            *)
(***************************************************************************)
EXTENDS LifecycleRules

Ids == Nat \ {0}

SideEffectStatus == {"planned", "completed", "failed", "compensated"}

Snapshot == [id : Ids, actionRunId : Ids]
ActionConflict == [id : Ids, actionRunId : Ids]
ActionSideEffect ==
  [id : Ids, actionRunId : Ids, status : SideEffectStatus, undoable : BOOLEAN]

EmptyStore ==
  [nextId |-> 1, runs |-> [id \in {} |-> id], snapshots |-> {},
   sideEffects |-> {}, conflicts |-> {}]

(* MemoryStorageState: five fields, runs being a function on its ids. *)
IsStore(s) ==
  /\ s = [nextId |-> s.nextId, runs |-> s.runs, snapshots |-> s.snapshots,
          sideEffects |-> s.sideEffects, conflicts |-> s.conflicts]
  /\ s.nextId \in Ids
  /\ DOMAIN s.runs \subseteq Ids
  /\ s.runs \in [DOMAIN s.runs -> ActionRun]
  /\ s.snapshots \subseteq Snapshot
  /\ s.sideEffects \subseteq ActionSideEffect
  /\ s.conflicts \subseteq ActionConflict

RunIds(s) == DOMAIN s.runs

(* createActionRun: createId, then a fresh run in status created. *)
CreateActionRun(s, input) ==
  [s EXCEPT !.nextId = @ + 1,
            !.runs = [id \in RunIds(s) \cup {s.nextId} |->
                        IF id = s.nextId
                        THEN [request |-> input, status |-> "created"]
                        ELSE s.runs[id]]]

(* findClaimedActionRun: the runs of the same claim. *)
ClaimedRuns(s, input) == {id \in RunIds(s) : SameClaim(s.runs[id].request, input)}

(* updateActionRun, for the one field the properties tell apart. *)
UpdateStatus(s, runId, status) == [s EXCEPT !.runs[runId].status = status]

SaveSnapshot(s, runId) ==
  [s EXCEPT !.nextId = @ + 1,
            !.snapshots = @ \cup {[id |-> s.nextId, actionRunId |-> runId]}]

RecordSideEffect(s, runId, status, undoable) ==
  [s EXCEPT !.nextId = @ + 1,
            !.sideEffects = @ \cup {[id |-> s.nextId, actionRunId |-> runId,
                                     status |-> status, undoable |-> undoable]}]

RecordConflict(s, runId) ==
  [s EXCEPT !.nextId = @ + 1,
            !.conflicts = @ \cup {[id |-> s.nextId, actionRunId |-> runId]}]

GetSnapshots(s, runId) == {x \in s.snapshots : x.actionRunId = runId}
GetSideEffects(s, runId) == {x \in s.sideEffects : x.actionRunId = runId}
GetConflicts(s, runId) == {x \in s.conflicts : x.actionRunId = runId}

(* The side effects undo refuses to revert: done, and not undoable. *)
IrreversibleSideEffects(s, runId) ==
  {x \in GetSideEffects(s, runId) : x.status = "completed" /\ ~x.undoable}
=============================================================================
