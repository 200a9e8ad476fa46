--------------------------- MODULE ActionLifecycle ---------------------------
(***************************************************************************)
(* What the audit trail of RollbackKit promises, whatever stores it: a run *)
(* is claimed once, its execution ends once, and its undo is attempted at  *)
(* most once and only after the execution succeeded.                       *)
(*                                                                         *)
(* The status "running" is not visible here: an execution that fails takes *)
(* its run back to "created" before it is marked failed, so both are the   *)
(* phase "pending".                                                        *)
(***************************************************************************)
CONSTANTS Identifiers,    \* the identifiers a run may get
          Claims     \* tuples of name, actor, tenant and idempotency key

VARIABLE runs        \* the runs claimed so far, by identifier

Phase == {"pending", "completed", "failed", "undoing", "undone", "undo_failed"}

(* claim is {} for a run without an idempotency key. irreversible says the *)
(* execution completed a side effect that cannot be undone.                *)
Run == [claim : {{}} \cup {{k} : k \in Claims}, undoable : BOOLEAN,
        irreversible : BOOLEAN, phase : Phase]

TypeOK ==
  /\ DOMAIN runs \subseteq Identifiers
  /\ runs \in [DOMAIN runs -> Run]

Init == runs = [id \in {} |-> id]

-----------------------------------------------------------------------------
Claim(id, claim, undoable) ==
  /\ id \notin DOMAIN runs
  /\ claim # {} => \A other \in DOMAIN runs : runs[other].claim # claim
  /\ runs' = [r \in DOMAIN runs \cup {id} |->
                IF r = id THEN [claim |-> claim, undoable |-> undoable,
                                irreversible |-> FALSE, phase |-> "pending"]
                          ELSE runs[r]]

Complete(id, irreversible) ==
  /\ id \in DOMAIN runs
  /\ runs[id].phase = "pending"
  /\ runs' = [runs EXCEPT ![id].phase = "completed",
                          ![id].irreversible = irreversible]

(* Fault: the mark is not a phase of the audit. *)
FaultyFail(id) ==
  /\ id \in DOMAIN runs
  /\ runs[id].phase = "pending"
  /\ runs' = [runs EXCEPT ![id].phase = "error"]

Fail(id) ==
  /\ id \in DOMAIN runs
  /\ runs[id].phase = "pending"
  /\ runs' = [runs EXCEPT ![id].phase = "failed"]

(* Fault: a failed undo may be tried again. *)
FaultyStartUndo(id) ==
  /\ id \in DOMAIN runs
  /\ runs[id].phase \in {"completed", "undo_failed"}
  /\ runs[id].undoable
  /\ runs' = [runs EXCEPT ![id].phase = "undoing"]

StartUndo(id) ==
  /\ id \in DOMAIN runs
  /\ runs[id].phase = "completed"
  /\ runs[id].undoable
  /\ runs' = [runs EXCEPT ![id].phase = "undoing"]

Undo(id) ==
  /\ id \in DOMAIN runs
  /\ runs[id].phase = "undoing"
  /\ ~runs[id].irreversible
  /\ runs' = [runs EXCEPT ![id].phase = "undone"]

RefuseUndo(id) ==
  /\ id \in DOMAIN runs
  /\ runs[id].phase = "undoing"
  /\ runs' = [runs EXCEPT ![id].phase = "undo_failed"]

Next ==
  \E id \in Identifiers :
    \/ \E claim \in {{}} \cup {{k} : k \in Claims}, undoable \in BOOLEAN :
         Claim(id, claim, undoable)
    \/ \E irreversible \in BOOLEAN : Complete(id, irreversible)
    \/ Fail(id)
    \/ StartUndo(id)
    \/ Undo(id)
    \/ RefuseUndo(id)

Spec == Init /\ [][Next]_runs

-----------------------------------------------------------------------------
(* An idempotency key stands for one run for good: no interleaving of      *)
(* requests makes a second run for the same name, actor, tenant and key.   *)
OneRunPerClaim ==
  \A r, s \in DOMAIN runs :
    runs[r].claim # {} /\ runs[r].claim = runs[s].claim => r = s

(* An undone run was undoable and had no irreversible side effect.         *)
UndoneWasUndoable ==
  \A r \in DOMAIN runs :
    runs[r].phase = "undone" => runs[r].undoable /\ ~runs[r].irreversible

(* A failed run is never undone and an undo attempt is never repeated: the *)
(* phases failed, undone and undo_failed are final, and no run vanishes.   *)
FinalPhase == {"failed", "undone", "undo_failed"}

HistoryIsKept ==
  [][\A r \in DOMAIN runs :
       /\ r \in DOMAIN runs'
       /\ runs'[r].claim = runs[r].claim
       /\ runs[r].phase \in FinalPhase => runs'[r] = runs[r]]_runs
=============================================================================
