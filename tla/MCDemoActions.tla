---------------------------- MODULE MCDemoActions ----------------------------
(* A small workspace for DemoActions. *)
EXTENDS DemoActions, TLC

CONSTANTS m1, m2, e1, e2, p, d

Interchangeable == Permutations(Calls)

(* m1 owns the project and the document; m2 is there as an admin or not    *)
(* at all.                                                                 *)
Workspaces ==
  {(m1 :> {[role |-> "admin", email |-> e1, revision |-> 0]})
     @@ (m2 :> other)
     @@ (p :> {[status |-> "active", owner |-> {m1}, revision |-> 0]})
     @@ (d :> {[owner |-> {m1}, revision |-> 0]}) :
   other \in {{}, {[role |-> "admin", email |-> e2, revision |-> 0]}}}
=============================================================================
