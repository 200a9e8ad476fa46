-------------------------- MODULE MCMigrationRunner --------------------------
(* Small instances of MigrationRunner for TLC, and its refinement mapping. *)
EXTENDS MigrationRunner

CONSTANTS old, new, branch

First == [id |-> 1, checksum |-> "first", compatible |-> {}]
Second == [id |-> 2, checksum |-> "second", compatible |-> {}]
Third == [id |-> 3, checksum |-> "third", compatible |-> {}]

(* The second migration as a later release corrected it, and the third as  *)
(* a branch was released without the second.                               *)
Corrected == [Second EXCEPT !.checksum = "corrected", !.compatible = {"second"}]

AllChecksums == {"first", "second", "corrected", "third"}

(* An old package, a new one that extends it, and one that does not.       *)
Deployments ==
  [r \in Runners |->
     CASE r = old -> <<First, Second>>
       [] r = new -> <<First, Corrected, Third>>
       [] r = branch -> <<First, Third>>]

Fresh == <<>>
LegacyFirst == <<First>>
LegacySecond == <<First, Second>>
AnyOrigin == {Fresh, LegacyFirst, LegacySecond}

History == INSTANCE MigrationHistory WITH
  Releases <- {Bundle[r] : r \in Runners}

(* Every step of the runners deploys the rest of one release, or nothing.  *)
ImplementsHistory == History!Spec
=============================================================================
