--------------------------- MODULE LifecycleRules ---------------------------
(***************************************************************************)
(* Action runs, and the decisions of the RollbackKit runtime that read one *)
(* run and nothing else: whether it may be undone, whether a tenant may    *)
(* reach it, when its undo window ends, and whether a request that reuses  *)
(* an idempotency key is the request that claimed it.                      *)
(*                                                                         *)
(* A field the code may leave undefined is a set of at most one element:   *)
(* {} is undefined, {v} is v.  "===" on two such fields is equality of the *)
(* sets.                                                                   *)
(***************************************************************************)
EXTENDS Naturals

CONSTANTS Actions, Actors, Tenants, Keys, Inputs, Targets

Optional(S) == {T \in SUBSET S : \A a, b \in T : a = b}

(* CreateActionRunInput: the part of a run no later step changes.  An      *)
(* input stands for its canonical JSON.                                    *)
CreateInput ==
  [name : Actions, actor : Actors, tenantId : Optional(Tenants),
   idempotencyKey : Optional(Keys), input : Inputs, target : Optional(Targets),
   undoable : BOOLEAN, undoExpiresAt : Optional(Nat)]

(* ActionRunStatus. "expired" belongs to the type; no code ever stores it. *)
ActionRunStatus ==
  {"created", "running", "completed", "failed",
   "undo_running", "undone", "undo_failed", "expired"}

ActionRun == [request : CreateInput, status : ActionRunStatus]


(* createUndoExpiration: no deadline unless the action is undoable and has *)
(* a window.                                                               *)
UndoExpiration(undoable, undoWindow, now) ==
  {now + w : w \in {x \in undoWindow : undoable}}

Expired(run, now) ==
  \E deadline \in run.request.undoExpiresAt : deadline <= now

(* Fault: only a second undo is refused, not an undo that is under way.    *)
FaultyCanBeUndone(run, now) ==
  /\ run.status \in {"completed", "undo_running"}
  /\ run.request.undoable
  /\ ~Expired(run, now)

(* assertActionRunCanBeUndone returns without an error. *)
CanBeUndone(run, now) ==
  /\ run.status = "completed"
  /\ run.request.undoable
  /\ ~Expired(run, now)

(* assertUndoTenantMatches: both undefined, or both the same tenant. *)
UndoTenantMatches(run, tenantId) == run.request.tenantId = tenantId

(* The tuple of claimActionRun; a run without a key is never matched. *)
SameClaim(request, other) ==
  /\ request.idempotencyKey # {}
  /\ request.idempotencyKey = other.idempotencyKey
  /\ request.name = other.name
  /\ request.actor = other.actor
  /\ request.tenantId = other.tenantId

(* assertIdempotentRequestMatches returns without an error. *)
IdempotentRequestMatches(request, other) ==
  /\ request.input = other.input
  /\ request.target = other.target
=============================================================================
