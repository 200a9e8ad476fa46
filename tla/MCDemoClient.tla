---------------------------- MODULE MCDemoClient ----------------------------
(* One member with two controls: one turns its role, one removes it. *)
EXTENDS DemoClient

MCRowOf == [c \in Controls |-> "member"]

MCAsks ==
  [c \in Controls |->
     IF c = "remove" THEN [v \in Values |-> Gone]
     ELSE [v \in Values |-> IF v = "admin" THEN "viewer" ELSE "admin"]]

MCInitially == [r \in Rows |-> "viewer"]
=============================================================================
