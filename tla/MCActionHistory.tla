-------------------------- MODULE MCActionHistory ---------------------------
(* Three runs, of which two may have one time, and a client that asks for  *)
(* the whole history, for the completed runs, or for those of one scope.   *)
EXTENDS ActionHistory

Query(scope, phase, limit) == [scope |-> scope, phase |-> phase, limit |-> limit]

MCQueries ==
  {Query({}, {"completed"}, {1}), Query({}, {"pending"}, {2}),
   Query({"a"}, {}, {})}

MCScopeOf == [id \in Identifiers |-> IF id = 2 THEN "b" ELSE "a"]
=============================================================================
