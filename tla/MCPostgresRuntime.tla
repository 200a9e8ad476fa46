-------------------------- MODULE MCPostgresRuntime --------------------------
(* Small instances of PostgresRuntime for TLC, and its refinement mapping. *)
EXTENDS PostgresRuntime, TLC

Interchangeable == Permutations(Calls)

OneTick == [name \in Actions |-> {1}]
NoWindow == [name \in Actions |-> {}]

(* A side effect undo refuses to revert. *)
Sent == {[status |-> "completed", undoable |-> FALSE]}
NoEffects == {}

Audit == INSTANCE ActionLifecycle WITH
  Identifiers <- Calls,
  Claims <- Actions \X Actors \X Optional(Tenants) \X Keys,
  runs <- AuditRuns

(* The committed rows live the abstract life of an action run, through     *)
(* lost connections and unanswered commits.                                *)
ImplementsLifecycle == Audit!Spec
=============================================================================
