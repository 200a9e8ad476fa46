--------------------------- MODULE MigrationHistory ---------------------------
(***************************************************************************)
(* What the migration runner promises of a database, whichever versions of *)
(* the package migrate it, in whichever order and with whatever failures:  *)
(* its schema is brought up to date by whole releases, each of which goes  *)
(* on exactly where the database stands.                                   *)
(***************************************************************************)
EXTENDS Naturals, Sequences

CONSTANTS
  Releases,  \* the lists of migrations that packages bundle
  Origins    \* what was applied before the package kept checksums

VARIABLE schema  \* the migrations whose SQL took effect, in that order

Init == schema \in Origins

(* The applied migrations are the first ones of the release. *)
GoesOn(release) ==
  /\ Len(schema) <= Len(release)
  /\ \A i \in DOMAIN schema : schema[i].id = release[i].id

Deploy(release) ==
  /\ GoesOn(release)
  /\ schema' = schema \o SubSeq(release, Len(schema) + 1, Len(release))

Next == \E release \in Releases : Deploy(release)

Spec == Init /\ [][Next]_schema
=============================================================================
