--------------------------- MODULE MCMemoryRuntime ---------------------------
(* Small instances of MemoryRuntime for TLC, and its refinement mapping. *)
EXTENDS MemoryRuntime, TLC

Interchangeable == Permutations(Calls) \cup Permutations(Inputs)

(* An undo window of one tick, and none. *)
OneTick == [name \in Actions |-> {1}]
NoWindow == [name \in Actions |-> {}]

(* A side effect undo refuses to revert. *)
Sent == {<<"completed", FALSE>>}

(* Bound: the ids that the calls of an instance can use up. *)
MaxId == Cardinality(Calls) * (1 + 2 * MaxRecords)

Audit == INSTANCE ActionLifecycle WITH
  Identifiers <- 1 .. MaxId,
  Claims <- Actions \X Actors \X Optional(Tenants) \X Keys,
  runs <- AuditRuns

(* The memory runtime implements the abstract life of an action run: every *)
(* step of a call is one step of ActionLifecycle or none, the rollback of  *)
(* "running" to "created" included.                                        *)
ImplementsLifecycle == Audit!Spec
=============================================================================
