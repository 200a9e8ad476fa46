-------------------------- MODULE DemoActionsProofs --------------------------
(***************************************************************************)
(* Any number of calls and of other clients, on any product tables: an     *)
(* execute replaces what its snapshot says, and an undo takes back what    *)
(* its run did and nothing newer.                                          *)
(*                                                                         *)
(* A call holds the rows it wrote, so that what is committed under them    *)
(* stays as it was when it wrote: Effect relates the two.                  *)
(***************************************************************************)
EXTENDS DemoActions, SequenceTheorems, TLAPS

Executing == {"idle", "commit", "completed", "failed"} \cup ExecuteStage
Undoing == {"commit", "undone", "undo_failed"} \cup UndoStage
RemoveStage == {"read_projects", "read_documents", "clear_projects", "clear_documents",
                "delete", "check_email", "check_projects", "check_documents",
                "restore_projects", "restore_documents"}

(* What a snapshot of a request holds. *)
Fits(s, ask) ==
  /\ s \in [row : Row, owned : SUBSET Things]
  /\ ask.action = "project.archive" => s.row \in Project /\ s.row.status = "active"
  /\ ask.action # "project.archive" => s.row \in Member
  /\ ask.action # "member.remove" => s.owned = {}

(* The rows a call has written when it is at a statement. *)
Written(at, s, ask) ==
  {x \in {ask.target} : at \in {"restore_projects", "restore_documents", "commit"}}
    \cup {x \in s.owned \cap Projects :
           at \in {"clear_documents", "delete", "restore_documents", "commit"}}
    \cup {x \in s.owned \cap Documents : at \in {"delete", "commit"}}

(* What the execute c makes of a row it writes. *)
Executed(c, s, ask, x, old, new) ==
  /\ ask.action = "member.change_role" =>
       \E row \in old, role \in ask.role :
         /\ row.role = s.row.role
         /\ new = {[row EXCEPT !.role = role, !.revision = c]}
  /\ ask.action = "project.archive" =>
       /\ old = {s.row}
       /\ new = {[s.row EXCEPT !.status = "archived", !.revision = c]}
  /\ ask.action = "member.remove" /\ x = ask.target =>
       old = {s.row} /\ new = {}
  /\ ask.action = "member.remove" /\ x # ask.target =>
       \E row \in old :
         /\ row.owner = {ask.target}
         /\ new = {[row EXCEPT !.owner = {}, !.revision = c]}

(* What the undo c of the run r makes of a row it writes. *)
Undid(c, r, s, ask, x, old, new) ==
  /\ ask.action = "member.change_role" =>
       \E row \in old :
         /\ {row.role} = ask.role
         /\ new = {[row EXCEPT !.role = s.row.role, !.revision = c]}
  /\ ask.action = "project.archive" =>
       /\ old = {[s.row EXCEPT !.status = "archived", !.revision = r]}
       /\ new = {[s.row EXCEPT !.revision = c]}
  /\ ask.action = "member.remove" /\ x = ask.target =>
       old = {} /\ new = {[s.row EXCEPT !.revision = c]}
  /\ ask.action = "member.remove" /\ x # ask.target =>
       \E row \in old :
         /\ row.owner = {}
         /\ new = {[row EXCEPT !.owner = {ask.target}, !.revision = c]}

Effect(c, r, s, ask, x, old, new) ==
  IF r = c THEN Executed(c, s, ask, x, old, new) ELSE Undid(c, r, s, ask, x, old, new)

(* A project has the revision of the run that archived it, or of the row   *)
(* a call is about to archive, only while it is as it was then.            *)
RevisionTells(c, at, s, ask, tables) ==
  ask.action = "project.archive" =>
    \A row \in tables[ask.target] :
      /\ at = "write" /\ row.revision = s.row.revision => row = s.row
      /\ at = "completed" /\ row.revision = c =>
           row = [s.row EXCEPT !.status = "archived", !.revision = c]

(* Nothing refers to a member that is deleted but what the call cleared.   *)
LinksAreCleared(c, r, at, s, ask, tables) ==
  ask.action = "member.remove" /\ at = "commit" /\ r = c =>
    \A x \in Things : \A row \in tables[x] : row.owner = {ask.target} => x \in s.owned

(* The rows that a call at a statement has written, on these tables. *)
RowsFit(c, r, at, asks, snaps, pend, tables) ==
  /\ snaps = {} => DOMAIN pend = {}
  /\ \A ask \in asks :
       /\ at \in RemoveStage => ask.action = "member.remove"
       /\ at = "write" => ask.action # "member.remove"
       /\ \A s \in snaps :
            /\ Fits(s, ask)
            /\ DOMAIN pend = Written(at, s, ask)
            /\ \A x \in DOMAIN pend : Effect(c, r, s, ask, x, tables[x], pend[x])
            /\ RevisionTells(c, at, s, ask, tables)
            /\ LinksAreCleared(c, r, at, s, ask, tables)

(* A call executes its own run, or undoes a completed one. *)
Roled(c) ==
  /\ run[c] = c => stage[c] \in Executing
  /\ run[c] # c => /\ stage[c] \in Undoing /\ stage[run[c]] = "completed"
                   /\ run[run[c]] = run[c]
                   /\ asked[c] = {} /\ snapshot[c] = {}
  /\ stage[c] = "idle" => asked[c] = {}
  /\ stage[c] # "idle" => asked[run[c]] # {}
  /\ stage[c] \in {"idle", "execute", "failed"} <=> snapshot[run[c]] = {}
  /\ \A s, u \in snapshot[c] : s = u

CallInv(c) ==
  /\ Roled(c)
  /\ RowsFit(c, run[c], stage[c], asked[run[c]], snapshot[run[c]], pending[c], rows)

(* A row is held by one call, and a run is undone by one. *)
Exclusive ==
  \A c, d \in Calls : c # d =>
    /\ DOMAIN pending[c] \cap DOMAIN pending[d] = {}
    /\ run[c] = run[d] => run[c] = c \/ run[d] = d

(* The transactions and statements that have committed. *)
Past == 0 .. edits \cup {c \in Calls : stage[c] \in {"completed", "undone"}}

Revisions ==
  /\ \A x \in RowIds : \A row \in rows[x] : row.revision \in Past
  /\ \A c \in Calls : \A s \in snapshot[c] : s.row.revision \in Past
  /\ \A c \in Calls : \A x \in DOMAIN pending[c] : \A row \in pending[c][x] :
       row.revision = c

(* Two members never have one email, committed or not. *)
HasEmail(m, email) ==
  \/ \E row \in rows[m] : row.email = email
  \/ \E c \in Calls : m \in DOMAIN pending[c] /\ \E row \in pending[c][m] : row.email = email

EmailsDiffer ==
  \A m, n \in Members, email \in Emails : HasEmail(m, email) /\ HasEmail(n, email) => m = n

IInv ==
  /\ TypeOK
  /\ \A c \in Calls : CallInv(c)
  /\ Exclusive
  /\ Revisions
  /\ EmailsDiffer

-----------------------------------------------------------------------------
(* The tables as the standing changes left them, one after the other: the  *)
(* last are the committed ones, but for the revisions undos gave.          *)

Like(old, new) ==
  new = old \/ \E row \in old, c \in Calls : new = {[row EXCEPT !.revision = c]}

Done(r, s, ask, x, old, new) ==
  /\ x = ask.target /\ ask.action = "member.change_role" =>
       \E row \in old, role \in ask.role :
         /\ row.role = s.row.role
         /\ new = {[row EXCEPT !.role = role, !.revision = r]}
  /\ x = ask.target /\ ask.action = "project.archive" =>
       /\ Like(old, {s.row})
       /\ new = {[s.row EXCEPT !.status = "archived", !.revision = r]}
  /\ x = ask.target /\ ask.action = "member.remove" =>
       Like(old, {s.row}) /\ new = {}
  /\ x \in s.owned =>
       \E row \in old :
         /\ row.owner = {ask.target}
         /\ new = {[row EXCEPT !.owner = {}, !.revision = r]}
  /\ x \notin {ask.target} \cup s.owned => new = old

UniqueEmails(tables) ==
  \A m, n \in Members : \A a \in tables[m], b \in tables[n] : a.email = b.email => m = n

Tables == {t \in [RowIds -> Optional(Row)] : IsTables(t)}

Leads(hist) ==
  /\ \A x \in RowIds : Like(hist[Len(standing)][x], rows[x])
  /\ \A i \in 0 .. Len(standing) : UniqueEmails(hist[i])
  /\ \A i \in 1 .. Len(standing), r \in Calls :
       r = standing[i] /\ stage[r] = "completed" =>
         \A s \in snapshot[r], ask \in asked[r], x \in RowIds :
           Done(r, s, ask, x, hist[i - 1][x], hist[i][x])

Stands ==
  /\ \A i \in 1 .. Len(standing) : standing[i] \in Calls =>
       stage[standing[i]] \in {"completed", "undone"}
  /\ \E hist \in [0 .. Len(standing) -> Tables] : Leads(hist)

-----------------------------------------------------------------------------
(* Rows and requests. *)

(* What a table may hold at x. *)
Placed(x, set) ==
  /\ set \in Optional(Row)
  /\ x \in Members => set \subseteq Member
  /\ x \in Projects => set \subseteq Project
  /\ x \in Documents => set \subseteq Document

LEMMA IdsAreApart ==
  /\ \A x \in Members : x \notin Projects /\ x \notin Documents /\ x \notin Things
  /\ \A x \in Projects : x \notin Documents
  /\ \A x \in RowIds : x \in Members \/ x \in Projects \/ x \in Documents
  /\ \A x \in Things : x \in RowIds /\ (x \in Projects \/ x \in Documents)
  /\ \A x \in Members : x \in RowIds
  /\ \A x \in Projects : x \in Things
  /\ \A x \in Documents : x \in Things
BY SeedsAssumption DEF RowIds, Things

LEMMA TablesArePlaced ==
  ASSUME NEW t
  PROVE  IsTables(t) <=> /\ t \in [RowIds -> Optional(Row)]
                         /\ \A x \in RowIds : Placed(x, t[x])
BY IdsAreApart DEF IsTables, Placed

LEMMA RowsArePlaced ==
  ASSUME TypeOK
  PROVE  /\ rows \in [RowIds -> Optional(Row)]
         /\ \A x \in RowIds : Placed(x, rows[x])
         /\ \A c \in Calls, x \in RowIds : x \in DOMAIN pending[c] => Placed(x, pending[c][x])
<1>1. IsTables(rows) /\ \A c \in Calls : IsTables(View(c))
  BY DEF TypeOK
<1>2. ASSUME NEW c \in Calls, NEW x \in RowIds, x \in DOMAIN pending[c]
      PROVE  Placed(x, pending[c][x])
  <2>1. View(c)[x] = pending[c][x]
    BY <1>2 DEF View
  <2> QED
    BY <1>1, <2>1, TablesArePlaced
<1> QED
  BY <1>1, <1>2, TablesArePlaced

LEMMA RequestsAre ==
  ASSUME NEW ask \in Requests
  PROVE  /\ ask.action \in {"member.change_role", "project.archive", "member.remove"}
         /\ ask.target \in RowIds
         /\ ask.action = "project.archive" => ask.target \in Projects
         /\ ask.action # "project.archive" => ask.target \in Members
         /\ ask.action = "member.change_role" => \E role \in Roles : ask.role = {role}
<1>1. CASE ask \in [action : {"member.change_role"}, target : Members,
                    role : {{"admin"}, {"viewer"}}]
  <2>1. ask.action = "member.change_role" /\ ask.target \in Members
        /\ (ask.role = {"admin"} \/ ask.role = {"viewer"})
    BY <1>1
  <2> QED
    BY <2>1 DEF Roles, RowIds
<1>2. CASE ask \in [action : {"project.archive"}, target : Projects, role : {{}}]
  BY <1>2, IdsAreApart
<1>3. CASE ask \in [action : {"member.remove"}, target : Members, role : {{}}]
  BY <1>3, IdsAreApart
<1> QED
  BY <1>1, <1>2, <1>3 DEF Requests

LEMMA AskOf ==
  ASSUME TypeOK, NEW c \in Calls, NEW ask \in asked[run[c]]
  PROVE  /\ ask \in Requests /\ asked[run[c]] = {ask}
         /\ Target(c) = ask.target
         /\ \A action : Asks(c, action) <=> ask.action = action
         /\ ask.action = "member.change_role" =>
              AskedRole(c) \in Roles /\ ask.role = {AskedRole(c)}
<1>1. run[c] \in Calls /\ asked[run[c]] \in Optional(Requests)
  BY DEF TypeOK
<1>2. ask \in Requests /\ asked[run[c]] = {ask}
  BY <1>1 DEF Optional
<1>3. Target(c) = ask.target
  BY <1>2, RequestsAre DEF Target
<1>4. ASSUME ask.action = "member.change_role"
      PROVE  AskedRole(c) \in Roles /\ ask.role = {AskedRole(c)}
  <2>1. PICK role \in Roles : ask.role = {role}
    BY <1>2, <1>4, RequestsAre
  <2>2. AskedRole(c) = role
    BY <1>2, <2>1 DEF AskedRole
  <2> QED
    BY <2>1, <2>2
<1> QED
  BY <1>2, <1>3, <1>4 DEF Asks

LEMMA SnapshotOf ==
  ASSUME IInv, NEW c \in Calls, NEW s \in snapshot[run[c]]
  PROVE  Snapshot(c) = s /\ snapshot[run[c]] = {s}
<1>1. Roled(run[c])
  BY DEF IInv, TypeOK, CallInv
<1>2. \A u \in snapshot[run[c]] : u = s
  BY <1>1 DEF Roled
<1> QED
  BY <1>2 DEF Snapshot

(* What a call may make of a row: one of its table, with an email and an   *)
(* owner that the row has, or that the undo of a removal gives back.       *)
Made(c, r, s, ask, x, old, new) ==
  /\ Placed(x, new)
  /\ \A row \in new : row.revision = c
  /\ x \in Members =>
       \A row \in new :
         \/ \E was \in old : was.email = row.email
         \/ /\ r # c /\ ask.action = "member.remove" /\ x = ask.target
            /\ row.email = s.row.email
  /\ x \in Things =>
       \A row \in new :
         \/ \E was \in old : was.owner = row.owner
         \/ row.owner = {}
         \/ r # c /\ ask.action = "member.remove" /\ row.owner = {ask.target}

LEMMA EffectIsMade ==
  ASSUME NEW c \in Calls, NEW r, NEW ask \in Requests, NEW s, Fits(s, ask),
         NEW x \in {ask.target} \cup s.owned, NEW old, Placed(x, old), NEW new,
         Effect(c, r, s, ask, x, old, new)
  PROVE  Made(c, r, s, ask, x, old, new)
<1> USE IdsAreApart DEF Made
<1>1. c \in Revision
  BY DEF Revision
<1>2. /\ s.row \in Row /\ s.owned \subseteq Things
      /\ ask.action = "project.archive" => s.row \in Project
      /\ ask.action # "project.archive" => s.row \in Member
  BY DEF Fits
<1>3. /\ ask.action \in {"member.change_role", "project.archive", "member.remove"}
      /\ ask.action = "project.archive" => ask.target \in Projects
      /\ ask.action # "project.archive" => ask.target \in Members
      /\ ask.action = "member.change_role" => ask.role \in SUBSET Roles
  BY RequestsAre
<1>4. CASE ask.action = "member.change_role"
  <2>1. x = ask.target /\ x \in Members /\ old \subseteq Member /\ x \notin Things
    BY <1>3, <1>4 DEF Fits, Placed
  <2>2. PICK row \in old, role \in Roles :
          new = {[row EXCEPT !.role = role, !.revision = c]}
    BY <1>2, <1>3, <1>4 DEF Effect, Executed, Undid, Member
  <2>3. PICK now : now = [row EXCEPT !.role = role, !.revision = c]
    OBVIOUS
  <2>4. row \in Member
    BY <2>1
  <2>5. now \in Member /\ now.revision = c /\ now.email = row.email
    BY <1>1, <2>3, <2>4 DEF Member
  <2> QED
    BY <2>1, <2>2, <2>3, <2>5 DEF Placed, Optional, Row
<1>5. CASE ask.action = "project.archive"
  <2>1. x = ask.target /\ x \in Projects /\ old \subseteq Project /\ x \notin Members
        /\ x \notin Documents
    BY <1>3, <1>5 DEF Fits, Placed
  <2>2. PICK row \in Project :
          /\ row.revision = c
          /\ \E was \in old : was.owner = row.owner
          /\ new = {row}
    <3>1. CASE r = c
      <4>1. PICK now : now = [s.row EXCEPT !.status = "archived", !.revision = c]
        OBVIOUS
      <4>2. now \in Project /\ now.revision = c /\ now.owner = s.row.owner
        BY <1>1, <1>2, <1>5, <4>1 DEF Project
      <4>3. old = {s.row} /\ new = {now}
        BY <1>5, <3>1, <4>1 DEF Effect, Executed
      <4> QED
        BY <4>2, <4>3
    <3>2. CASE r # c
      <4>1. PICK now : now = [s.row EXCEPT !.revision = c]
        OBVIOUS
      <4>2. PICK was : was = [s.row EXCEPT !.status = "archived", !.revision = r]
        OBVIOUS
      <4>3. now \in Project /\ now.revision = c /\ now.owner = s.row.owner
        BY <1>1, <1>2, <1>5, <4>1 DEF Project
      <4>4. was.owner = s.row.owner
        BY <1>2, <1>5, <4>2 DEF Project
      <4>5. old = {was} /\ new = {now}
        BY <1>5, <3>2, <4>1, <4>2 DEF Effect, Undid
      <4> QED
        BY <4>3, <4>4, <4>5
    <3> QED
      BY <3>1, <3>2
  <2> QED
    BY <2>1, <2>2 DEF Placed, Optional, Row
<1>6. CASE ask.action = "member.remove" /\ x = ask.target
  <2>1. x \in Members /\ s.row \in Member /\ x \notin Things
    BY <1>2, <1>3, <1>6
  <2>2. CASE r = c
    BY <1>6, <2>1, <2>2 DEF Effect, Executed, Placed, Optional
  <2>3. CASE r # c
    <3>1. PICK now : now = [s.row EXCEPT !.revision = c]
      OBVIOUS
    <3>2. now \in Member /\ now.revision = c /\ now.email = s.row.email
      BY <1>1, <2>1, <3>1 DEF Member
    <3>3. new = {now}
      BY <1>6, <2>3, <3>1 DEF Effect, Undid
    <3> QED
      BY <1>6, <2>1, <2>3, <3>2, <3>3 DEF Placed, Optional, Row
  <2> QED
    BY <2>2, <2>3
<1>7. CASE ask.action = "member.remove" /\ x # ask.target
  <2>1. x \in Things /\ x \notin Members /\ ask.target \in Members
    BY <1>2, <1>3, <1>7
  <2>2. PICK row \in old, owner \in {{}, {ask.target}} :
          /\ new = {[row EXCEPT !.owner = owner, !.revision = c]}
          /\ owner = {} \/ r # c
    BY <1>7 DEF Effect, Executed, Undid
  <2>3. owner \in Optional(Members)
    BY <2>1, <2>2 DEF Optional
  <2>4. PICK now : now = [row EXCEPT !.owner = owner, !.revision = c]
    OBVIOUS
  <2>5. CASE x \in Projects
    <3>1. now \in Project /\ now.revision = c /\ now.owner = owner
      BY <1>1, <2>3, <2>4, <2>5 DEF Placed, Project
    <3> QED
      BY <1>7, <2>1, <2>2, <2>4, <2>5, <3>1 DEF Placed, Optional, Row
  <2>6. CASE x \in Documents
    <3>1. now \in Document /\ now.revision = c /\ now.owner = owner
      BY <1>1, <2>3, <2>4, <2>6 DEF Placed, Document
    <3> QED
      BY <1>7, <2>1, <2>2, <2>4, <2>6, <3>1 DEF Placed, Optional, Row
  <2> QED
    BY <2>1, <2>5, <2>6
<1> QED
  BY <1>3, <1>4, <1>5, <1>6, <1>7

LEMMA WrittenAre ==
  ASSUME NEW ask \in Requests, NEW s, Fits(s, ask), NEW at, NEW x \in Written(at, s, ask)
  PROVE  x \in RowIds /\ x \in {ask.target} \cup s.owned
BY RequestsAre, IdsAreApart DEF Written, Fits

LEMMA PendingIsMade ==
  ASSUME NEW c \in Calls, NEW r, NEW ask \in Requests, NEW s, Fits(s, ask), NEW at,
         NEW tables, \A x \in RowIds : Placed(x, tables[x]),
         NEW pend, DOMAIN pend = Written(at, s, ask),
         \A x \in DOMAIN pend : Effect(c, r, s, ask, x, tables[x], pend[x])
  PROVE  \A x \in DOMAIN pend : x \in RowIds /\ Made(c, r, s, ask, x, tables[x], pend[x])
<1> SUFFICES ASSUME NEW x \in DOMAIN pend
             PROVE  x \in RowIds /\ Made(c, r, s, ask, x, tables[x], pend[x])
  OBVIOUS
<1>1. x \in RowIds /\ x \in {ask.target} \cup s.owned
  BY WrittenAre
<1>2. Effect(c, r, s, ask, x, tables[x], pend[x]) /\ Placed(x, tables[x])
  BY <1>1
<1> QED
  BY <1>1, <1>2, EffectIsMade

-----------------------------------------------------------------------------
(* A call takes a step of its own transaction. *)

Stage == {"idle", "commit"} \cup ExecuteStage \cup UndoStage \cup EndStage

Moves(c) ==
  /\ UNCHANGED <<rows, edits, standing>>
  /\ stage[c] \notin EndStage /\ stage'[c] \notin {"completed", "undone"}
  /\ \A d \in Calls \ {c} :
       /\ pending'[d] = pending[d] /\ stage'[d] = stage[d] /\ run'[d] = run[d]
       /\ asked'[d] = asked[d] /\ snapshot'[d] = snapshot[d]

LEMMA StagesAre ==
  /\ EndStage \subseteq Stage /\ Executing \subseteq Stage /\ Undoing \subseteq Stage
  /\ "completed" \in EndStage /\ "undone" \in EndStage /\ "failed" \in EndStage
  /\ "undo_failed" \in EndStage /\ "idle" \notin EndStage /\ "commit" \notin EndStage
  /\ \A at \in ExecuteStage \cup UndoStage : at \notin EndStage /\ at # "idle" /\ at # "commit"
  /\ \A at \in RemoveStage : at \in ExecuteStage \cup UndoStage
BY DEF Stage, EndStage, Executing, Undoing, ExecuteStage, UndoStage, RemoveStage

LEMMA NotUndone ==
  ASSUME IInv, NEW c \in Calls, stage[c] \notin EndStage, NEW d \in Calls \ {c}
  PROVE  run[d] # c
<1>1. CallInv(d)
  BY DEF IInv
<1> QED
  BY <1>1 DEF CallInv, Roled, EndStage

LEMMA PastKeeps ==
  ASSUME NEW c \in Calls, Moves(c)
  PROVE  Past' = Past
BY DEF Past, Moves, EndStage

LEMMA OthersKeep ==
  ASSUME IInv, NEW c \in Calls, Moves(c), NEW d \in Calls \ {c}
  PROVE  CallInv(d)'
<1>1. CallInv(d) /\ run[d] # c /\ run[d] \in Calls
  BY NotUndone DEF IInv, TypeOK, Moves
<1>2. PICK r : r = run[d]
  OBVIOUS
<1>3. /\ rows' = rows /\ pending'[d] = pending[d] /\ run'[d] = r /\ stage'[d] = stage[d]
      /\ asked'[d] = asked[d] /\ snapshot'[d] = snapshot[d]
      /\ asked'[r] = asked[r] /\ snapshot'[r] = snapshot[r]
      /\ stage'[r] = stage[r] /\ run'[r] = run[r]
  BY <1>1, <1>2 DEF Moves
<1>4. Roled(d)'
  BY <1>1, <1>2, <1>3 DEF CallInv, Roled
<1> QED
  BY <1>1, <1>2, <1>3, <1>4 DEF CallInv

LEMMA ViewIsTables ==
  ASSUME NEW tables \in [RowIds -> Optional(Row)], \A x \in RowIds : Placed(x, tables[x]),
         NEW pend, \A x \in DOMAIN pend : Placed(x, pend[x])
  PROVE  IsTables([x \in RowIds |-> IF x \in DOMAIN pend THEN pend[x] ELSE tables[x]])
<1> DEFINE t == [x \in RowIds |-> IF x \in DOMAIN pend THEN pend[x] ELSE tables[x]]
<1>1. \A x \in RowIds : Placed(x, t[x])
  OBVIOUS
<1>2. t \in [RowIds -> Optional(Row)]
  BY DEF Placed
<1> QED
  BY <1>1, <1>2, TablesArePlaced

LEMMA MoveIsTyped ==
  ASSUME TypeOK, NEW c \in Calls, Moves(c),
         DOMAIN pending' = Calls, DOMAIN snapshot' = Calls,
         stage' \in [Calls -> Stage], asked' \in [Calls -> Optional(Requests)],
         run' \in [Calls -> Calls], conflicts' \subseteq Calls,
         DOMAIN pending'[c] \subseteq RowIds,
         \A x \in DOMAIN pending'[c] : Placed(x, pending'[c][x]),
         \A s \in snapshot'[c] : s.row \in Row /\ s.owned \subseteq Things
  PROVE  TypeOK'
<1>1. /\ rows' \in [RowIds -> Optional(Row)] /\ \A x \in RowIds : Placed(x, rows'[x])
      /\ IsTables(rows')
  BY RowsArePlaced DEF Moves, TypeOK
<1>2. ASSUME NEW d \in Calls
      PROVE  /\ DOMAIN pending'[d] \subseteq RowIds
             /\ \A x \in DOMAIN pending'[d] : Placed(x, pending'[d][x])
             /\ \A s \in snapshot'[d] : s.row \in Row /\ s.owned \subseteq Things
  <2>1. CASE d = c
    BY <2>1
  <2>2. CASE d # c
    <3>1. pending'[d] = pending[d] /\ snapshot'[d] = snapshot[d]
      BY <2>2 DEF Moves
    <3> QED
      BY <3>1, RowsArePlaced DEF TypeOK
  <2> QED
    BY <2>1, <2>2
<1>3. ASSUME NEW d \in Calls
      PROVE  IsTables(View(d)')
  BY <1>1, <1>2, ViewIsTables DEF View
<1> QED
  BY <1>1, <1>2, <1>3 DEF TypeOK, Moves, Stage

LEMMA MoveKeeps ==
  ASSUME IInv, NEW c \in Calls, Moves(c), TypeOK', CallInv(c)', Exclusive', EmailsDiffer',
         \A s \in snapshot'[c] : s.row.revision \in Past,
         \A x \in DOMAIN pending'[c] : \A row \in pending'[c][x] : row.revision = c
  PROVE  IInv'
<1>1. \A d \in Calls : CallInv(d)'
  BY OthersKeep
<1>2. Past' = Past /\ rows' = rows
  BY PastKeeps DEF Moves
<1>3. Revisions'
  BY <1>2 DEF IInv, Revisions, Moves
<1> QED
  BY <1>1, <1>3 DEF IInv

(* The handler throws: nothing remains of its transaction.                 *)
LEMMA RefuseKeeps ==
  ASSUME IInv, NEW c \in Calls, stage[c] \in ExecuteStage \cup UndoStage,
         NEW recorded, Refuse(c, recorded)
  PROVE  IInv' /\ Moves(c)
<1>1. PICK to \in {"failed", "undo_failed"} :
        /\ to = (IF run[c] = c THEN "failed" ELSE "undo_failed")
        /\ stage' = [stage EXCEPT ![c] = to]
  BY DEF Refuse, Goto
<1>2. /\ TypeOK /\ CallInv(c) /\ Roled(c) /\ run[c] \in Calls /\ Exclusive /\ EmailsDiffer
      /\ DOMAIN pending = Calls /\ DOMAIN snapshot = Calls /\ stage \in [Calls -> Stage]
  BY DEF IInv, TypeOK, CallInv, Stage
<1>3. /\ pending' = [pending EXCEPT ![c] = NoRows] /\ snapshot' = [snapshot EXCEPT ![c] = {}]
      /\ UNCHANGED <<rows, asked, run, edits, standing>>
      /\ conflicts' \subseteq conflicts \cup {run[c]}
  BY DEF Refuse, session
<1>4. /\ pending'[c] = NoRows /\ DOMAIN pending'[c] = {} /\ snapshot'[c] = {}
      /\ stage'[c] = to /\ DOMAIN pending' = Calls /\ DOMAIN snapshot' = Calls
      /\ \A d \in Calls \ {c} : pending'[d] = pending[d] /\ snapshot'[d] = snapshot[d]
                                /\ stage'[d] = stage[d]
  BY <1>1, <1>2, <1>3 DEF NoRows
<1>5. stage[c] \notin EndStage /\ stage[c] # "idle" /\ to \in EndStage
  BY StagesAre
<1>6. Moves(c)
  BY <1>3, <1>4, <1>5 DEF Moves
<1>7. TypeOK'
  <2>1. stage' \in [Calls -> Stage] /\ conflicts' \subseteq Calls
    BY <1>1, <1>2, <1>3, <1>5, StagesAre DEF TypeOK
  <2> QED
    BY <1>2, <1>3, <1>4, <1>6, <2>1, MoveIsTyped DEF TypeOK
<1>8. Exclusive'
  BY <1>2, <1>3, <1>4 DEF Exclusive
<1>9. EmailsDiffer'
  <2>1. \A m, email : HasEmail(m, email)' => HasEmail(m, email)
    BY <1>3, <1>4 DEF HasEmail
  <2> QED
    BY <1>2, <2>1 DEF EmailsDiffer
<1>10. Roled(c)'
  <2>1. CASE run[c] = c
    BY <1>1, <1>2, <1>3, <1>4, <1>5, <2>1 DEF Roled, Executing
  <2>2. CASE run[c] # c
    <3>1. /\ stage'[run[c]] = stage[run[c]] /\ snapshot'[run[c]] = snapshot[run[c]]
          /\ stage'[c] = "undo_failed"
      BY <1>1, <1>2, <1>4, <2>2
    <3>2. stage[c] \in UndoStage
      BY <1>2, <1>5, <2>2 DEF Roled, Undoing, UndoStage, ExecuteStage
    <3>3. snapshot[run[c]] # {}
      BY <1>2, <3>2 DEF Roled, UndoStage
    <3> QED
      BY <1>2, <1>3, <1>4, <1>5, <2>2, <3>1, <3>3 DEF Roled, Undoing
  <2> QED
    BY <2>1, <2>2
<1>11. CallInv(c)'
  <2>1. RowsFit(c, run[c], stage[c], asked[run[c]], snapshot[run[c]], pending[c], rows)
    BY <1>2 DEF CallInv
  <2>2. RowsFit(c, run[c], to, asked[run[c]], snapshot'[run[c]], NoRows, rows)
    <3>1. \A u \in snapshot'[run[c]] : u \in snapshot[run[c]]
      BY <1>2, <1>4
    <3>2. DOMAIN NoRows = {} /\ to \notin RemoveStage /\ to # "write" /\ to # "completed"
          /\ to # "commit"
      BY <1>5, StagesAre DEF NoRows, EndStage
    <3>3. \A s, ask : Written(to, s, ask) = {}
      BY DEF Written
    <3> QED
      BY <2>1, <3>1, <3>2, <3>3 DEF RowsFit, RevisionTells, LinksAreCleared
  <2> QED
    BY <1>3, <1>4, <1>10, <2>2 DEF CallInv
<1> QED
  BY <1>4, <1>6, <1>7, <1>8, <1>9, <1>11, MoveKeeps

(* What a statement that writes "new" and goes on to "to" must see to.     *)
WriteFits(c, new, to, s, ask) ==
  /\ to \in RemoveStage => ask.action = "member.remove"
  /\ DOMAIN new \cap DOMAIN pending[c] = {}
  /\ DOMAIN pending[c] \cup DOMAIN new = Written(to, s, ask)
  /\ \A x \in DOMAIN new : Effect(c, run[c], s, ask, x, rows[x], new[x])
  /\ LinksAreCleared(c, run[c], to, s, ask, rows)
  /\ run[c] # c /\ ask.action = "member.remove" /\ ask.target \in DOMAIN new =>
       \A m \in Members : ~HasEmail(m, s.row.email)

(* The request and the snapshot a statement after the first works with.    *)
Works(c, ask, s) ==
  /\ asked[run[c]] = {ask} /\ snapshot[run[c]] = {s} /\ Fits(s, ask)
  /\ Target(c) = ask.target /\ Snapshot(c) = s
  /\ \A action : Asks(c, action) <=> ask.action = action
  /\ ask.action = "member.change_role" =>
       AskedRole(c) \in Roles /\ ask.role = {AskedRole(c)}
  /\ DOMAIN pending[c] = Written(stage[c], s, ask)
  /\ \A x \in DOMAIN pending[c] : Effect(c, run[c], s, ask, x, rows[x], pending[c][x])
  /\ RevisionTells(c, stage[c], s, ask, rows)
  /\ LinksAreCleared(c, run[c], stage[c], s, ask, rows)
  /\ stage[c] \in RemoveStage => ask.action = "member.remove"
  /\ stage[c] = "write" => ask.action # "member.remove"

LEMMA Working ==
  ASSUME IInv, NEW c \in Calls, stage[c] \notin {"idle", "execute", "failed"}
  PROVE  \E ask \in Requests : \E s : Works(c, ask, s)
<1>1. CallInv(c) /\ TypeOK
  BY DEF IInv
<1>2. PICK ask \in asked[run[c]] : TRUE
  BY <1>1 DEF CallInv, Roled
<1>3. PICK s \in snapshot[run[c]] : TRUE
  BY <1>1 DEF CallInv, Roled
<1>4. /\ ask \in Requests /\ asked[run[c]] = {ask} /\ Target(c) = ask.target
      /\ \A action : Asks(c, action) <=> ask.action = action
      /\ ask.action = "member.change_role" =>
           AskedRole(c) \in Roles /\ ask.role = {AskedRole(c)}
  BY <1>1, <1>2, AskOf
<1>5. Snapshot(c) = s /\ snapshot[run[c]] = {s}
  BY <1>3, SnapshotOf
<1>6. /\ stage[c] \in RemoveStage => ask.action = "member.remove"
      /\ stage[c] = "write" => ask.action # "member.remove"
      /\ Fits(s, ask) /\ DOMAIN pending[c] = Written(stage[c], s, ask)
      /\ \A x \in DOMAIN pending[c] : Effect(c, run[c], s, ask, x, rows[x], pending[c][x])
      /\ RevisionTells(c, stage[c], s, ask, rows)
      /\ LinksAreCleared(c, run[c], stage[c], s, ask, rows)
  BY <1>1, <1>2, <1>3 DEF CallInv, RowsFit
<1> QED
  BY <1>4, <1>5, <1>6 DEF Works

LEMMA WriteKeeps ==
  ASSUME IInv, NEW c \in Calls, NEW new, NEW to, Write(c, new, to),
         stage[c] \in (ExecuteStage \cup UndoStage) \ {"execute"},
         to \in (IF run[c] = c THEN Executing ELSE Undoing)
                  \ ({"idle", "execute", "write"} \cup EndStage),
         \A ask \in asked[run[c]], s \in snapshot[run[c]] : WriteFits(c, new, to, s, ask)
  PROVE  IInv' /\ Moves(c)
<1>1. stage[c] \notin EndStage /\ stage[c] # "idle" /\ stage[c] # "failed" /\ to \notin EndStage
      /\ to \in Stage
  BY StagesAre
<1>2. /\ TypeOK /\ CallInv(c) /\ Roled(c) /\ run[c] \in Calls /\ Exclusive /\ EmailsDiffer
      /\ DOMAIN pending = Calls /\ DOMAIN snapshot = Calls /\ stage \in [Calls -> Stage]
      /\ Revisions
  BY DEF IInv, TypeOK, CallInv, Stage
<1>3. PICK ask \in Requests : \E s :
        /\ asked[run[c]] = {ask} /\ snapshot[run[c]] = {s} /\ Fits(s, ask)
        /\ DOMAIN pending[c] = Written(stage[c], s, ask)
        /\ \A x \in DOMAIN pending[c] : Effect(c, run[c], s, ask, x, rows[x], pending[c][x])
  BY <1>1, Working DEF Works
<1>4. PICK s :
        /\ asked[run[c]] = {ask} /\ snapshot[run[c]] = {s} /\ Fits(s, ask)
        /\ DOMAIN pending[c] = Written(stage[c], s, ask)
        /\ \A x \in DOMAIN pending[c] : Effect(c, run[c], s, ask, x, rows[x], pending[c][x])
  BY <1>3
<1>5. WriteFits(c, new, to, s, ask)
  BY <1>4
<1>6. /\ Free(c, DOMAIN new)
      /\ pending' = [pending EXCEPT ![c] = Over(new, pending[c])]
      /\ stage' = [stage EXCEPT ![c] = to]
      /\ UNCHANGED <<rows, asked, run, snapshot, conflicts, edits, standing>>
  BY DEF Write, Goto, session
<1>7. /\ pending'[c] = Over(new, pending[c]) /\ stage'[c] = to
      /\ DOMAIN pending' = Calls
      /\ \A d \in Calls \ {c} : pending'[d] = pending[d] /\ stage'[d] = stage[d]
  BY <1>2, <1>6
<1>8. /\ DOMAIN pending'[c] = Written(to, s, ask)
      /\ \A x \in DOMAIN new : pending'[c][x] = new[x]
      /\ \A x \in DOMAIN pending[c] : pending'[c][x] = pending[c][x]
      /\ \A x \in DOMAIN pending'[c] : x \in DOMAIN new \/ x \in DOMAIN pending[c]
  BY <1>5, <1>7 DEF WriteFits, Over
<1>9. \A x \in DOMAIN pending'[c] : Effect(c, run[c], s, ask, x, rows[x], pending'[c][x])
  BY <1>4, <1>5, <1>8 DEF WriteFits
<1>10. \A x \in DOMAIN pending'[c] :
         x \in RowIds /\ Made(c, run[c], s, ask, x, rows[x], pending'[c][x])
  <2>1. PICK pend : pend = pending'[c]
    OBVIOUS
  <2>2. /\ Fits(s, ask) /\ DOMAIN pend = Written(to, s, ask)
        /\ \A x \in DOMAIN pend : Effect(c, run[c], s, ask, x, rows[x], pend[x])
        /\ \A x \in RowIds : Placed(x, rows[x])
    BY <1>2, <1>4, <1>8, <1>9, <2>1, RowsArePlaced
  <2>3. \A x \in DOMAIN pend : x \in RowIds /\ Made(c, run[c], s, ask, x, rows[x], pend[x])
    BY <2>2, PendingIsMade
  <2> QED
    BY <2>1, <2>3
<1>11. Moves(c)
  BY <1>1, <1>6, <1>7, StagesAre DEF Moves
<1>12. TypeOK'
  <2>1. stage' \in [Calls -> Stage]
    BY <1>1, <1>2, <1>6
  <2> QED
    BY <1>2, <1>6, <1>7, <1>10, <1>11, <2>1, MoveIsTyped DEF TypeOK, Made
<1>13. Exclusive'
  <2>1. ASSUME NEW d \in Calls \ {c}
        PROVE  DOMAIN pending'[c] \cap DOMAIN pending'[d] = {}
    <3>1. DOMAIN new \cap DOMAIN pending[d] = {} /\ DOMAIN pending[c] \cap DOMAIN pending[d] = {}
      BY <1>2, <1>6 DEF Exclusive, Free
    <3> QED
      BY <1>7, <1>8, <3>1
  <2> QED
    BY <1>2, <1>6, <1>7, <2>1 DEF Exclusive
<1>14. EmailsDiffer'
  <2>1. ASSUME NEW m \in Members, NEW email, HasEmail(m, email)', ~HasEmail(m, email)
        PROVE  m = ask.target /\ \A n \in Members : ~HasEmail(n, email)
    <3>1. PICK d \in Calls : m \in DOMAIN pending'[d] /\ \E row \in pending'[d][m] : row.email = email
      BY <1>6, <2>1 DEF HasEmail
    <3>2. d = c
      BY <1>7, <2>1, <3>1 DEF HasEmail
    <3>3. PICK row \in pending'[c][m] : row.email = email
      BY <3>1, <3>2
    <3>4. ~\E was \in rows[m] : was.email = row.email
      BY <2>1, <3>3 DEF HasEmail
    <3>5. /\ run[c] # c /\ ask.action = "member.remove" /\ m = ask.target
          /\ email = s.row.email
      BY <1>10, <3>1, <3>2, <3>3, <3>4 DEF Made
    <3>6. m \in DOMAIN new
      BY <1>8, <2>1, <3>1, <3>2 DEF HasEmail
    <3> QED
      BY <1>5, <3>5, <3>6 DEF WriteFits
  <2> QED
    BY <1>2, <2>1 DEF EmailsDiffer
<1>15. Roled(c)'
  <2>1. stage'[run[c]] = stage[run[c]] \/ run[c] = c
    BY <1>2, <1>7
  <2> QED
    BY <1>1, <1>2, <1>4, <1>6, <1>7, <2>1, StagesAre DEF Roled
<1>16. CallInv(c)'
  <2>1. to # "write" /\ to # "completed" /\ (to \in RemoveStage => ask.action = "member.remove")
        /\ LinksAreCleared(c, run[c], to, s, ask, rows)
    BY <1>1, <1>5, StagesAre DEF WriteFits
  <2>2. RowsFit(c, run[c], to, {ask}, {s}, pending'[c], rows)
    BY <1>4, <1>8, <1>9, <2>1 DEF RowsFit, RevisionTells
  <2> QED
    BY <1>4, <1>6, <1>7, <1>15, <2>2 DEF CallInv
<1> QED
  BY <1>2, <1>6, <1>10, <1>11, <1>12, <1>13, <1>14, <1>16, MoveKeeps DEF Revisions, Made

(* A call that has written nothing changes what it knows, not what it      *)
(* holds.                                                                  *)
LEMMA QuietKeeps ==
  ASSUME IInv, NEW c \in Calls, Moves(c), pending' = pending, DOMAIN pending[c] = {},
         NEW to \in Stage, stage' = [stage EXCEPT ![c] = to],
         asked' \in [Calls -> Optional(Requests)], run' \in [Calls -> Calls],
         DOMAIN snapshot' = Calls, conflicts' = conflicts,
         \A d \in Calls \ {c} : run'[d] = run'[c] => run'[c] = c \/ run'[d] = d,
         \A s \in snapshot'[c] : s.row \in Row /\ s.owned \subseteq Things
                                 /\ s.row.revision \in Past,
         CallInv(c)'
  PROVE  IInv'
<1>1. /\ TypeOK /\ Exclusive /\ EmailsDiffer /\ Revisions /\ rows' = rows
      /\ DOMAIN pending = Calls
  BY DEF IInv, TypeOK, Moves
<1>2. stage' \in [Calls -> Stage]
  BY <1>1 DEF TypeOK, Stage
<1>3. TypeOK'
  BY <1>1, <1>2, MoveIsTyped DEF TypeOK
<1>4. Exclusive'
  BY <1>1 DEF Exclusive, Moves
<1>5. EmailsDiffer'
  <2>1. \A m, email : HasEmail(m, email)' <=> HasEmail(m, email)
    BY <1>1 DEF HasEmail
  <2> QED
    BY <1>1, <2>1 DEF EmailsDiffer
<1> QED
  BY <1>1, <1>3, <1>4, <1>5, MoveKeeps

LEMMA RequestExecuteKeeps ==
  ASSUME IInv, NEW c \in Calls, RequestExecute(c)
  PROVE  IInv' /\ Moves(c)
<1>1. PICK ask \in Requests : asked' = [asked EXCEPT ![c] = {ask}]
  BY DEF RequestExecute
<1>2. /\ stage[c] = "idle" /\ stage' = [stage EXCEPT ![c] = "execute"]
      /\ UNCHANGED <<rows, pending, run, snapshot, conflicts, edits, standing>>
  BY DEF RequestExecute, Goto
<1>3. /\ TypeOK /\ CallInv(c) /\ Roled(c) /\ asked \in [Calls -> Optional(Requests)]
      /\ stage \in [Calls -> Stage]
  BY DEF IInv, CallInv, TypeOK, Stage
<1>4. run[c] = c /\ snapshot[c] = {} /\ DOMAIN pending[c] = {}
  BY <1>2, <1>3 DEF Roled, CallInv, RowsFit, Undoing, UndoStage
<1>5. {ask} \in Optional(Requests)
  BY DEF Optional
<1>6. asked' \in [Calls -> Optional(Requests)] /\ asked'[c] = {ask} /\ stage'[c] = "execute"
      /\ \A d \in Calls \ {c} : asked'[d] = asked[d] /\ stage'[d] = stage[d]
  BY <1>1, <1>2, <1>3, <1>5
<1>7. Moves(c)
  BY <1>2, <1>6, StagesAre DEF Moves
<1>8. Roled(c)'
  BY <1>2, <1>4, <1>6 DEF Roled, Executing, ExecuteStage
<1>9. CallInv(c)'
  BY <1>2, <1>4, <1>6, <1>8 DEF CallInv, RowsFit, RemoveStage
<1>10. "execute" \in Stage
  BY DEF Stage, ExecuteStage
<1> QED
  BY <1>2, <1>3, <1>4, <1>6, <1>7, <1>9, <1>10, QuietKeeps DEF TypeOK, IInv, Exclusive

LEMMA RequestUndoKeeps ==
  ASSUME IInv, NEW c \in Calls, NEW r \in Calls, RequestUndo(c, r)
  PROVE  IInv' /\ Moves(c)
<1>1. /\ stage[c] = "idle" /\ stage[r] = "completed" /\ stage' = [stage EXCEPT ![c] = "check"]
      /\ run' = [run EXCEPT ![c] = r] /\ \A d \in Calls \ {r} : run[d] # r
      /\ UNCHANGED <<rows, pending, asked, snapshot, conflicts, edits, standing>>
  BY DEF RequestUndo, Goto
<1>2. /\ TypeOK /\ CallInv(c) /\ Roled(c) /\ CallInv(r) /\ Roled(r) /\ c # r
      /\ stage \in [Calls -> Stage] /\ run \in [Calls -> Calls]
  BY <1>1 DEF IInv, CallInv, TypeOK, Stage
<1>3. run[c] = c /\ snapshot[c] = {} /\ asked[c] = {} /\ DOMAIN pending[c] = {}
  BY <1>1, <1>2 DEF Roled, CallInv, RowsFit, Undoing, UndoStage
<1>4. run[r] = r /\ snapshot[r] # {} /\ asked[r] # {}
  BY <1>1, <1>2 DEF Roled, Undoing, UndoStage
<1>5. /\ run'[c] = r /\ run'[r] = r /\ stage'[c] = "check" /\ stage'[r] = "completed"
      /\ \A d \in Calls \ {c} : run'[d] = run[d] /\ stage'[d] = stage[d]
  BY <1>1, <1>2, <1>4
<1>6. Moves(c)
  BY <1>1, <1>5, StagesAre DEF Moves
<1>7. Roled(c)'
  BY <1>1, <1>2, <1>3, <1>4, <1>5 DEF Roled, Undoing, UndoStage
<1>8. RowsFit(r, r, "completed", asked[r], snapshot[r], pending[r], rows)
  BY <1>1, <1>2, <1>4 DEF CallInv
<1>9. RowsFit(c, r, "check", asked[r], snapshot[r], pending[c], rows)
  <2>1. "check" \notin RemoveStage /\ \A s, ask : Written("check", s, ask) = {}
    BY DEF RemoveStage, Written
  <2> QED
    BY <1>3, <1>4, <1>8, <2>1 DEF RowsFit, RevisionTells, LinksAreCleared
<1>10. CallInv(c)'
  BY <1>1, <1>5, <1>7, <1>9 DEF CallInv
<1>11. \A d \in Calls \ {c} : run'[d] = run'[c] => run'[d] = d
  BY <1>1, <1>4, <1>5
<1>12. "check" \in Stage /\ run' \in [Calls -> Calls]
  BY <1>1, <1>2 DEF Stage, UndoStage
<1> QED
  BY <1>1, <1>2, <1>3, <1>6, <1>10, <1>11, <1>12, QuietKeeps DEF TypeOK

(* A statement that leaves s as the snapshot. *)
Snap(c, s, to) ==
  /\ snapshot' = [snapshot EXCEPT ![c] = {s}]
  /\ Goto(c, to)
  /\ UNCHANGED <<rows, pending, session, conflicts, edits, standing>>

(* What a statement that reads must see to, when it goes on to "to".       *)
ReadFits(c, s, to) ==
  \A ask \in asked[c] :
    /\ Fits(s, ask)
    /\ to \in RemoveStage => ask.action = "member.remove"
    /\ to = "write" => /\ ask.action # "member.remove"
                       /\ RevisionTells(c, "write", s, ask, rows)

LEMMA SnapshotKeeps ==
  ASSUME IInv, NEW c \in Calls, NEW s,
         stage[c] \in {"execute", "read_projects", "read_documents"},
         NEW to \in {"write", "read_projects", "read_documents", "clear_projects"},
         Snap(c, s, to), s.row.revision \in Past, ReadFits(c, s, to)
  PROVE  IInv' /\ Moves(c)
<1>1. /\ TypeOK /\ CallInv(c) /\ Roled(c) /\ stage \in [Calls -> Stage]
      /\ DOMAIN snapshot = Calls
  BY DEF IInv, CallInv, TypeOK, Stage
<1>2. run[c] = c
  BY <1>1 DEF Roled, Undoing, UndoStage
<1>3. DOMAIN pending[c] = {}
  <2>1. CASE stage[c] = "execute"
    BY <1>1, <1>2, <2>1 DEF Roled, CallInv, RowsFit
  <2>2. CASE stage[c] # "execute"
    <3>1. PICK ask, u : DOMAIN pending[c] = Written(stage[c], u, ask)
      BY <2>2, Working DEF Works
    <3> QED
      BY <2>2, <3>1 DEF Written
  <2> QED
    BY <2>1, <2>2
<1>4. PICK ask \in asked[c] : asked[c] = {ask}
  <2>1. PICK ask \in asked[run[c]] : TRUE
    BY <1>1, <1>2 DEF Roled
  <2>2. asked[run[c]] = {ask}
    BY <1>1, AskOf
  <2> QED
    BY <1>2, <2>2
<1>5. /\ Fits(s, ask)
      /\ to \in RemoveStage => ask.action = "member.remove"
      /\ to = "write" => /\ ask.action # "member.remove"
                         /\ RevisionTells(c, "write", s, ask, rows)
  BY DEF ReadFits
<1>6. /\ stage' = [stage EXCEPT ![c] = to] /\ stage'[c] = to /\ snapshot'[c] = {s}
      /\ UNCHANGED <<rows, pending, asked, run, conflicts, edits, standing>>
      /\ \A d \in Calls \ {c} : snapshot'[d] = snapshot[d] /\ stage'[d] = stage[d]
  BY <1>1 DEF Snap, Goto, session
<1>7. Moves(c)
  BY <1>6, StagesAre DEF Moves, EndStage, ExecuteStage
<1>8. Roled(c)'
  BY <1>1, <1>2, <1>4, <1>6 DEF Roled, Executing, ExecuteStage
<1>9. RowsFit(c, c, to, {ask}, {s}, pending[c], rows)
  <2>1. Written(to, s, ask) = {}
    BY DEF Written
  <2>2. RevisionTells(c, to, s, ask, rows) /\ LinksAreCleared(c, c, to, s, ask, rows)
    BY <1>5 DEF RevisionTells, LinksAreCleared
  <2> QED
    BY <1>3, <1>5, <2>1, <2>2 DEF RowsFit
<1>10. CallInv(c)'
  BY <1>2, <1>4, <1>6, <1>8, <1>9 DEF CallInv
<1>11. to \in Stage /\ s.row \in Row /\ s.owned \subseteq Things
  BY <1>5 DEF Stage, ExecuteStage, Fits
<1>12. /\ DOMAIN snapshot' = Calls
       /\ asked' \in [Calls -> Optional(Requests)] /\ run' \in [Calls -> Calls]
       /\ run'[c] = c
  BY <1>1, <1>2, <1>6 DEF Snap, TypeOK
<1>13. /\ pending' = pending /\ conflicts' = conflicts /\ stage' = [stage EXCEPT ![c] = to]
       /\ \A u \in snapshot'[c] : u.row \in Row /\ u.owned \subseteq Things
                                  /\ u.row.revision \in Past
  BY <1>6, <1>11
<1> QED
  BY <1>3, <1>7, <1>10, <1>11, <1>12, <1>13, QuietKeeps

-----------------------------------------------------------------------------
(* The statements of the executes. *)

LEMMA Beginning ==
  ASSUME IInv, NEW c \in Calls, stage[c] = "execute"
  PROVE  /\ run[c] = c
         /\ \E ask \in Requests :
              /\ asked[c] = {ask} /\ Target(c) = ask.target
              /\ \A action : Asks(c, action) <=> ask.action = action
              /\ Found(c) = rows[ask.target] /\ Placed(ask.target, rows[ask.target])
              /\ \A row \in rows[ask.target] : row.revision \in Past
<1>1. TypeOK /\ CallInv(c) /\ Roled(c) /\ Revisions
  BY DEF IInv, CallInv
<1>2. run[c] = c
  BY <1>1 DEF Roled, Undoing, UndoStage
<1>3. PICK ask \in asked[c] : TRUE
  BY <1>1, <1>2 DEF Roled
<1>4. /\ ask \in Requests /\ asked[c] = {ask} /\ Target(c) = ask.target
      /\ \A action : Asks(c, action) <=> ask.action = action
  BY <1>1, <1>2, <1>3, AskOf
<1>5. ask.target \in RowIds
  BY <1>4, RequestsAre
<1>6. DOMAIN pending[c] = {}
  BY <1>1, <1>2 DEF Roled, CallInv, RowsFit
<1>7. Found(c) = rows[ask.target]
  BY <1>4, <1>5, <1>6 DEF Found, View
<1> QED
  BY <1>1, <1>2, <1>4, <1>5, <1>7, RowsArePlaced DEF Revisions

LEMMA SaveKeeps ==
  ASSUME IInv, NEW c \in Calls, stage[c] = "execute", NEW row \in Found(c),
         NEW to \in {"write", "read_projects"}, Save(c, row, to),
         Asks(c, "member.remove") <=> to = "read_projects",
         Asks(c, "project.archive") => row.status = "active"
  PROVE  IInv' /\ Moves(c)
<1>1. PICK ask \in Requests :
        /\ asked[c] = {ask} /\ Target(c) = ask.target
        /\ \A action : Asks(c, action) <=> ask.action = action
        /\ Found(c) = rows[ask.target] /\ Placed(ask.target, rows[ask.target])
        /\ \A old \in rows[ask.target] : old.revision \in Past
  BY Beginning
<1>2. PICK s : s = [row |-> row, owned |-> {}]
  OBVIOUS
<1>3. s.row = row /\ s.owned = {}
  BY <1>2
<1>4. /\ row \in Row /\ row.revision \in Past
      /\ ask.action = "project.archive" => row \in Project
      /\ ask.action # "project.archive" => row \in Member
      /\ \A old \in rows[ask.target] : old = row
  BY <1>1, RequestsAre DEF Placed, Optional
<1>5. Fits(s, ask)
  BY <1>1, <1>2, <1>3, <1>4 DEF Fits
<1>6. RevisionTells(c, "write", s, ask, rows)
  BY <1>3, <1>4 DEF RevisionTells
<1>7. /\ to \in RemoveStage => ask.action = "member.remove"
      /\ to = "write" => ask.action # "member.remove"
  BY <1>1 DEF RemoveStage
<1>8. Snap(c, s, to)
  BY <1>2 DEF Save, Snap
<1>9. s.row.revision \in Past
  BY <1>3, <1>4
<1>10. ReadFits(c, s, to)
  BY <1>1, <1>5, <1>6, <1>7 DEF ReadFits
<1>11. /\ to \in {"write", "read_projects", "read_documents", "clear_projects"}
       /\ stage[c] \in {"execute", "read_projects", "read_documents"}
  OBVIOUS
<1> QED
  BY <1>8, <1>9, <1>10, <1>11, SnapshotKeeps

LEMMA ReadKeeps ==
  ASSUME IInv, NEW c \in Calls, ReadMemberRole(c) \/ ReadProject(c) \/ ReadMember(c)
  PROVE  IInv' /\ Moves(c)
<1>1. stage[c] = "execute" /\ stage[c] \in ExecuteStage \cup UndoStage
  BY DEF ReadMemberRole, ReadProject, ReadMember, ExecuteStage
<1>2. PICK ask \in Requests : \A action : Asks(c, action) <=> ask.action = action
  BY <1>1, Beginning
<1>3. CASE \E recorded : Refuse(c, recorded)
  BY <1>1, <1>3, RefuseKeeps
<1>4. CASE \E row \in Found(c) : /\ Asks(c, "member.change_role") /\ Save(c, row, "write")
  BY <1>1, <1>2, <1>4, SaveKeeps
<1>5. CASE \E row \in Found(c) : /\ Asks(c, "project.archive") /\ Save(c, row, "write")
                                 /\ row.status = "active"
  BY <1>1, <1>2, <1>5, SaveKeeps
<1>6. CASE \E row \in Found(c) : Asks(c, "member.remove") /\ Save(c, row, "read_projects")
  BY <1>1, <1>2, <1>6, SaveKeeps
<1> QED
  BY <1>3, <1>4, <1>5, <1>6 DEF ReadMemberRole, ReadProject, ReadMember

LEMMA ReadOwnedKeeps ==
  ASSUME IInv, NEW c \in Calls, NEW from \in {"read_projects", "read_documents"},
         NEW table \in {Projects, Documents}, NEW to \in {"read_documents", "clear_projects"},
         ReadOwned(c, from, table, to)
  PROVE  IInv' /\ Moves(c)
<1>1. /\ stage[c] = from /\ Goto(c, to)
      /\ UNCHANGED <<rows, pending, session, conflicts, edits, standing>>
      /\ snapshot' = [snapshot EXCEPT ![c] =
           {[s EXCEPT !.owned = @ \cup Owned(View(c), Target(c), table)] : s \in snapshot[c]}]
  BY DEF ReadOwned
<1>2. run[c] = c /\ Revisions
  BY <1>1 DEF IInv, CallInv, Roled, Undoing, UndoStage
<1>3. PICK ask \in Requests, s \in snapshot[c] :
        /\ asked[c] = {ask} /\ snapshot[c] = {s} /\ Fits(s, ask)
        /\ stage[c] \in RemoveStage => ask.action = "member.remove"
  BY <1>1, <1>2, Working DEF Works
<1>4. PICK owned : owned = Owned(View(c), Target(c), table)
  OBVIOUS
<1>5. PICK u : u = [s EXCEPT !.owned = @ \cup owned]
  OBVIOUS
<1>6. owned \subseteq Things
  BY <1>4 DEF Owned, Things
<1>7. ask.action = "member.remove"
  BY <1>1, <1>3 DEF RemoveStage
<1>8. Fits(u, ask) /\ u.row = s.row
  BY <1>3, <1>5, <1>6, <1>7 DEF Fits
<1>9. Snap(c, u, to)
  BY <1>1, <1>3, <1>4, <1>5 DEF Snap
<1>10. u.row.revision \in Past
  BY <1>2, <1>3, <1>8 DEF Revisions
<1>11. ReadFits(c, u, to)
  BY <1>3, <1>7, <1>8 DEF ReadFits
<1> QED
  BY <1>1, <1>9, <1>10, <1>11, SnapshotKeeps

-----------------------------------------------------------------------------
(* The statements that write. *)

(* Who runs a statement: executes write and delete, undos check and restore. *)
LEMMA RoleOf ==
  ASSUME IInv, NEW c \in Calls
  PROVE  /\ run[c] \in Calls
         /\ stage[c] \in ExecuteStage => run[c] = c
         /\ stage[c] \in UndoStage => /\ run[c] # c /\ run[run[c]] = run[c]
                                      /\ stage[run[c]] = "completed"
BY DEF IInv, TypeOK, CallInv, Roled, Executing, Undoing, ExecuteStage, UndoStage, EndStage

LEMMA OneWriteKeeps ==
  ASSUME IInv, NEW c \in Calls, NEW ask \in Requests, NEW s, Works(c, ask, s),
         stage[c] \in {"write", "restore"}, ask.action # "member.remove",
         NEW set, Write(c, Only(ask.target, set), "commit"),
         Effect(c, run[c], s, ask, ask.target, rows[ask.target], set)
  PROVE  IInv' /\ Moves(c)
<1>1. PICK new : new = Only(ask.target, set)
  OBVIOUS
<1>2. DOMAIN new = {ask.target} /\ new[ask.target] = set
  BY <1>1 DEF Only
<1>3. DOMAIN pending[c] = {}
  BY DEF Works, Written
<1>4. Written("commit", s, ask) = {ask.target}
  BY DEF Works, Written, Fits
<1>5. WriteFits(c, new, "commit", s, ask)
  BY <1>2, <1>3, <1>4 DEF WriteFits, LinksAreCleared, RemoveStage
<1>6. \A a \in asked[run[c]], u \in snapshot[run[c]] : WriteFits(c, new, "commit", u, a)
  BY <1>5 DEF Works
<1>7. /\ stage[c] \in (ExecuteStage \cup UndoStage) \ {"execute"}
      /\ "commit" \in (IF run[c] = c THEN Executing ELSE Undoing)
                        \ ({"idle", "execute", "write"} \cup EndStage)
  BY DEF ExecuteStage, UndoStage, Executing, Undoing, EndStage
<1> QED
  BY <1>1, <1>6, <1>7, WriteKeeps

LEMMA ChangeMemberRoleKeeps ==
  ASSUME IInv, NEW c \in Calls, ChangeMemberRole(c) \/ RestoreMemberRole(c)
  PROVE  IInv' /\ Moves(c)
<1>1. /\ stage[c] \in {"write", "restore"} /\ Asks(c, "member.change_role")
      /\ stage[c] \in ExecuteStage \cup UndoStage /\ stage[c] \notin {"idle", "execute", "failed"}
  BY DEF ChangeMemberRole, RestoreMemberRole, ExecuteStage, UndoStage
<1>2. PICK ask \in Requests : \E s : Works(c, ask, s)
  BY <1>1, Working
<1>3. PICK s : Works(c, ask, s)
  BY <1>2
<1>4. ask.action = "member.change_role" /\ Target(c) = ask.target /\ ask.role = {AskedRole(c)}
      /\ Snapshot(c) = s
  BY <1>1, <1>3 DEF Works
<1>5. Found(c) = rows[ask.target]
  <2>1. DOMAIN pending[c] = {}
    BY <1>1, <1>3 DEF Works, Written, Fits
  <2> QED
    BY <1>4, <2>1, RequestsAre DEF Found, View
<1>6. CASE \E recorded : Refuse(c, recorded)
  BY <1>1, <1>6, RefuseKeeps
<1>7. ASSUME NEW expected, NEW role, NEW member \in Found(c), member.role = expected,
             Write(c, Only(Target(c), {[member EXCEPT !.role = role, !.revision = c]}), "commit"),
             run[c] = c => expected = s.row.role /\ role = AskedRole(c),
             run[c] # c => expected = AskedRole(c) /\ role = s.row.role
      PROVE  IInv' /\ Moves(c)
  <2>1. PICK set : set = {[member EXCEPT !.role = role, !.revision = c]}
    OBVIOUS
  <2>2. Effect(c, run[c], s, ask, ask.target, rows[ask.target], set)
    BY <1>4, <1>5, <1>7, <2>1 DEF Effect, Executed, Undid
  <2> QED
    BY <1>1, <1>3, <1>4, <1>7, <2>1, <2>2, OneWriteKeeps
<1>8. run[c] = c <=> stage[c] = "write"
  BY <1>1, RoleOf DEF ExecuteStage, UndoStage
<1>9. CASE ChangeMemberRole(c)
  BY <1>4, <1>6, <1>7, <1>8, <1>9 DEF ChangeMemberRole, ChangeDemoMemberRole
<1>10. CASE RestoreMemberRole(c)
  BY <1>4, <1>6, <1>7, <1>8, <1>10 DEF RestoreMemberRole, ChangeDemoMemberRole
<1> QED
  BY <1>9, <1>10

LEMMA SetProjectStatusKeeps ==
  ASSUME IInv, NEW c \in Calls, ArchiveProject(c) \/ RestoreProject(c)
  PROVE  IInv' /\ Moves(c)
<1>1. /\ stage[c] \in {"write", "restore"} /\ Asks(c, "project.archive")
      /\ stage[c] \in ExecuteStage \cup UndoStage /\ stage[c] \notin {"idle", "execute", "failed"}
  BY DEF ArchiveProject, RestoreProject, ExecuteStage, UndoStage
<1>2. PICK ask \in Requests : \E s : Works(c, ask, s)
  BY <1>1, Working
<1>3. PICK s : Works(c, ask, s)
  BY <1>2
<1>4. /\ ask.action = "project.archive" /\ Target(c) = ask.target /\ Snapshot(c) = s
      /\ s.row \in Project /\ s.row.status = "active" /\ RevisionTells(c, stage[c], s, ask, rows)
      /\ ask.target \in Projects /\ ask.target \in RowIds
      /\ asked[run[c]] = {ask} /\ snapshot[run[c]] = {s}
  BY <1>1, <1>3, RequestsAre DEF Works, Fits
<1>5. Found(c) = rows[ask.target] /\ Placed(ask.target, rows[ask.target])
  <2>1. DOMAIN pending[c] = {} /\ TypeOK
    BY <1>1, <1>3 DEF Works, Written, Fits, IInv
  <2> QED
    BY <1>4, <2>1, RowsArePlaced DEF Found, View
<1>6. CASE \E recorded : Refuse(c, recorded)
  BY <1>1, <1>6, RefuseKeeps
<1>7. ASSUME ArchiveProject(c), NEW project \in Found(c), project.revision = s.row.revision,
             Write(c, Only(Target(c), {[project EXCEPT !.status = "archived", !.revision = c]}),
                   "commit")
      PROVE  IInv' /\ Moves(c)
  <2>1. PICK set : set = {[project EXCEPT !.status = "archived", !.revision = c]}
    OBVIOUS
  <2>2. stage[c] = "write" /\ run[c] = c
    BY <1>7, RoleOf DEF ArchiveProject, ExecuteStage
  <2>3. project = s.row /\ rows[ask.target] = {s.row}
    BY <1>4, <1>5, <1>7, <2>2 DEF RevisionTells, Placed, Optional
  <2>4. Effect(c, run[c], s, ask, ask.target, rows[ask.target], set)
    BY <1>4, <2>1, <2>2, <2>3 DEF Effect, Executed
  <2> QED
    BY <1>1, <1>3, <1>4, <1>7, <2>1, <2>4, OneWriteKeeps
<1>8. ASSUME RestoreProject(c), NEW project \in Found(c), project.revision = run[c],
             Write(c, Only(Target(c), {[project EXCEPT !.status = s.row.status, !.revision = c]}),
                   "commit")
      PROVE  IInv' /\ Moves(c)
  <2>1. PICK set : set = {[project EXCEPT !.status = s.row.status, !.revision = c]}
    OBVIOUS
  <2>2. PICK r \in Calls : /\ r = run[c] /\ r # c /\ run[r] = r /\ stage[r] = "completed"
    BY <1>8, RoleOf DEF RestoreProject, UndoStage
  <2>3. RevisionTells(r, "completed", s, ask, rows)
    BY <1>4, <2>2 DEF IInv, CallInv, RowsFit
  <2>4. PICK old : old = [s.row EXCEPT !.status = "archived", !.revision = r]
    OBVIOUS
  <2>5. project = old /\ rows[ask.target] = {old}
    BY <1>4, <1>5, <1>8, <2>2, <2>3, <2>4 DEF RevisionTells, Placed, Optional
  <2>6. [project EXCEPT !.status = s.row.status, !.revision = c] = [s.row EXCEPT !.revision = c]
    BY <1>4, <2>4, <2>5 DEF Project
  <2>7. Effect(c, run[c], s, ask, ask.target, rows[ask.target], set)
    BY <1>4, <2>1, <2>2, <2>4, <2>5, <2>6 DEF Effect, Undid
  <2> QED
    BY <1>1, <1>3, <1>4, <1>8, <2>1, <2>7, OneWriteKeeps
<1>9. CASE ArchiveProject(c)
  BY <1>4, <1>6, <1>7, <1>9 DEF ArchiveProject, SetProjectStatus
<1>10. CASE RestoreProject(c)
  BY <1>4, <1>6, <1>8, <1>10 DEF RestoreProject, SetProjectStatus, ArchivedRevision
<1> QED
  BY <1>9, <1>10

CheckStage == {"check", "check_email", "check_projects", "check_documents"}

LEMMA ProceedKeeps ==
  ASSUME IInv, NEW c \in Calls, stage[c] \in CheckStage,
         NEW to \in CheckStage \cup {"restore"}, to # "check", Proceed(c, to),
         to \in RemoveStage => Asks(c, "member.remove")
  PROVE  IInv' /\ Moves(c)
<1>1. /\ stage[c] \in UndoStage /\ stage[c] \in (ExecuteStage \cup UndoStage) \ {"execute"}
      /\ stage[c] \notin {"idle", "execute", "failed"}
  BY DEF CheckStage, UndoStage
<1>2. to \in (IF run[c] = c THEN Executing ELSE Undoing)
               \ ({"idle", "execute", "write"} \cup EndStage)
  BY <1>1, RoleOf DEF CheckStage, Undoing, UndoStage, EndStage
<1>3. PICK ask, s : Works(c, ask, s)
  BY <1>1, Working
<1>4. WriteFits(c, NoRows, to, s, ask)
  <2>1. Written(stage[c], s, ask) = {} /\ Written(to, s, ask) = {} /\ to # "commit"
    BY DEF Written, CheckStage
  <2>2. DOMAIN NoRows = {}
    BY DEF NoRows
  <2> QED
    BY <1>3, <2>1, <2>2 DEF Works, WriteFits, LinksAreCleared
<1>5. \A a \in asked[run[c]], u \in snapshot[run[c]] : WriteFits(c, NoRows, to, u, a)
  BY <1>3, <1>4 DEF Works
<1> QED
  BY <1>1, <1>2, <1>5, WriteKeeps DEF Proceed

LEMMA CheckKeeps ==
  ASSUME IInv, NEW c \in Calls,
         \/ CheckMemberRole(c) \/ CheckProject(c) \/ CheckMemberAbsent(c) \/ CheckEmail(c)
         \/ CheckOwned(c, "check_projects", Projects, "check_documents")
         \/ CheckOwned(c, "check_documents", Documents, "restore")
  PROVE  IInv' /\ Moves(c)
<1>1. stage[c] \in CheckStage /\ stage[c] \in ExecuteStage \cup UndoStage
      /\ stage[c] \notin {"idle", "execute", "failed"}
  BY DEF CheckMemberRole, CheckProject, CheckMemberAbsent, CheckEmail, CheckOwned, CheckStage,
         UndoStage
<1>2. PICK ask, s : Works(c, ask, s)
  BY <1>1, Working
<1>3. stage[c] \in RemoveStage => Asks(c, "member.remove")
  BY <1>2 DEF Works
<1>4. CASE \E recorded : Refuse(c, recorded)
  BY <1>1, <1>4, RefuseKeeps
<1>5. CASE Proceed(c, "restore")
  BY <1>1, <1>5, ProceedKeeps DEF RemoveStage
<1>6. CASE Proceed(c, "check_email") /\ Asks(c, "member.remove")
  BY <1>1, <1>6, ProceedKeeps DEF CheckStage
<1>7. CASE Proceed(c, "check_projects") /\ stage[c] = "check_email"
  BY <1>1, <1>3, <1>7, ProceedKeeps DEF CheckStage, RemoveStage
<1>8. CASE Proceed(c, "check_documents") /\ stage[c] = "check_projects"
  BY <1>1, <1>3, <1>8, ProceedKeeps DEF CheckStage, RemoveStage
<1> QED
  BY <1>4, <1>5, <1>6, <1>7, <1>8 DEF CheckMemberRole, CheckProject, CheckMemberAbsent,
     CheckEmail, CheckOwned

LEMMA MoveLinksKeeps ==
  ASSUME IInv, NEW c \in Calls, NEW ask \in Requests, NEW s, Works(c, ask, s),
         ask.action = "member.remove",
         NEW table \in {Projects, Documents}, NEW from, NEW owner, NEW to, NEW recorded,
         MoveLinks(c, table, from, owner, to, recorded),
         stage[c] \in (ExecuteStage \cup UndoStage) \ {"execute"},
         to \in (IF run[c] = c THEN Executing ELSE Undoing)
                  \ ({"idle", "execute", "write"} \cup EndStage),
         Written(to, s, ask) = Written(stage[c], s, ask) \cup (s.owned \cap table),
         Written(stage[c], s, ask) \cap s.owned \cap table = {},
         IF run[c] = c THEN from = {ask.target} /\ owner = {}
                       ELSE from = {} /\ owner = {ask.target},
         run[c] = c => to # "commit"
  PROVE  IInv' /\ Moves(c)
<1>1. PICK ids : ids = s.owned \cap table
  OBVIOUS
<1>2. /\ Snapshot(c) = s /\ DOMAIN pending[c] = Written(stage[c], s, ask)
      /\ ask.target \in Members
  BY RequestsAre DEF Works
<1>3. \A x \in ids : x \in Things /\ x \in RowIds /\ x # ask.target /\ View(c)[x] = rows[x]
                     /\ Placed(x, rows[x])
  <2>1. ids \subseteq Things
    BY <1>1 DEF Works, Fits
  <2>2. \A x \in ids : x \in RowIds /\ x # ask.target /\ x \notin DOMAIN pending[c]
    BY <1>1, <1>2, <2>1, IdsAreApart
  <2> QED
    BY <2>1, <2>2, RowsArePlaced DEF View, IInv
<1>4. PICK hit : hit = {x \in ids : \E thing \in View(c)[x] : thing.owner = from}
  OBVIOUS
<1>5. PICK new : new = [x \in hit |-> {[thing EXCEPT !.owner = owner, !.revision = c] :
                                         thing \in View(c)[x]}]
  OBVIOUS
<1>6. CASE Refuse(c, recorded)
  BY <1>6, RefuseKeeps
<1>7. CASE hit = ids /\ Write(c, new, to)
  <2>1. DOMAIN new = s.owned \cap table
    BY <1>1, <1>5, <1>7
  <2>2. ASSUME NEW x \in ids
        PROVE  Effect(c, run[c], s, ask, x, rows[x], new[x])
    <3>1. PICK thing \in rows[x] : thing.owner = from
      BY <1>3, <1>4, <1>7
    <3>2. rows[x] = {thing}
      BY <1>3, <3>1 DEF Placed, Optional
    <3>3. new[x] = {[thing EXCEPT !.owner = owner, !.revision = c]}
      <4>1. new[x] = {[was EXCEPT !.owner = owner, !.revision = c] : was \in View(c)[x]}
        BY <1>5, <1>7, Zenon
      <4>2. View(c)[x] = {thing}
        BY <1>3, <3>2
      <4> QED
        BY <4>1, <4>2
    <3>4. x # ask.target
      BY <1>3
    <3>5. CASE run[c] = c
      BY <3>1, <3>3, <3>4, <3>5 DEF Effect, Executed
    <3>6. CASE run[c] # c
      BY <3>1, <3>3, <3>4, <3>6 DEF Effect, Undid
    <3> QED
      BY <3>5, <3>6
  <2>3. ask.target \notin DOMAIN new
    BY <1>1, <1>3, <2>1
  <2>4. WriteFits(c, new, to, s, ask)
    BY <1>1, <1>2, <2>1, <2>2, <2>3 DEF WriteFits, LinksAreCleared
  <2>5. \A a \in asked[run[c]], u \in snapshot[run[c]] : WriteFits(c, new, to, u, a)
    BY <2>4 DEF Works
  <2> QED
    BY <1>7, <2>5, WriteKeeps
<1> QED
  BY <1>1, <1>2, <1>4, <1>5, <1>6, <1>7 DEF MoveLinks

LEMMA LinksKeep ==
  ASSUME IInv, NEW c \in Calls,
         \/ ClearProjectOwnerLinks(c) \/ ClearDocumentOwnerLinks(c)
         \/ RestoreOwnerLinks(c, "restore_projects", Projects, "restore_documents")
         \/ RestoreOwnerLinks(c, "restore_documents", Documents, "commit")
  PROVE  IInv' /\ Moves(c)
<1> USE DEF ClearProjectOwnerLinks, ClearDocumentOwnerLinks, RestoreOwnerLinks
<1>1. /\ stage[c] \in {"clear_projects", "clear_documents", "restore_projects",
                       "restore_documents"}
      /\ stage[c] \in (ExecuteStage \cup UndoStage) \ {"execute"}
      /\ stage[c] \notin {"idle", "execute", "failed"} /\ stage[c] \in RemoveStage
  BY DEF ExecuteStage, UndoStage, RemoveStage
<1>2. PICK ask \in Requests : \E s : Works(c, ask, s)
  BY <1>1, Working
<1>3. PICK s : Works(c, ask, s)
  BY <1>2
<1>4. ask.action = "member.remove" /\ Target(c) = ask.target
  BY <1>1, <1>3 DEF Works
<1>5. /\ ask.target \in Members /\ s.owned \subseteq Things
  BY <1>3, <1>4, RequestsAre DEF Works, Fits
<1>6. ask.target \notin Projects /\ ask.target \notin Documents
      /\ \A x \in Projects : x \notin Documents
  BY <1>5, IdsAreApart
<1>7. CASE ClearProjectOwnerLinks(c)
  <2>1. stage[c] = "clear_projects" /\ run[c] = c
        /\ MoveLinks(c, Projects, {ask.target}, {}, "clear_documents", FALSE)
    BY <1>4, <1>7, RoleOf DEF ExecuteStage
  <2>2. /\ Written("clear_documents", s, ask) = Written("clear_projects", s, ask)
                                                  \cup (s.owned \cap Projects)
        /\ Written("clear_projects", s, ask) = {}
    BY DEF Written
  <2>3. "clear_documents" \in Executing \ ({"idle", "execute", "write"} \cup EndStage)
    BY DEF Executing, ExecuteStage, EndStage
  <2> QED
    BY <1>1, <1>3, <1>4, <2>1, <2>2, <2>3, MoveLinksKeeps
<1>8. CASE ClearDocumentOwnerLinks(c)
  <2>1. stage[c] = "clear_documents" /\ run[c] = c
        /\ MoveLinks(c, Documents, {ask.target}, {}, "delete", FALSE)
    BY <1>4, <1>8, RoleOf DEF ExecuteStage
  <2>2. /\ Written("delete", s, ask) = Written("clear_documents", s, ask)
                                         \cup (s.owned \cap Documents)
        /\ Written("clear_documents", s, ask) = s.owned \cap Projects
    BY DEF Written
  <2>3. Written("clear_documents", s, ask) \cap s.owned \cap Documents = {}
    BY <1>6, <2>2
  <2>4. "delete" \in Executing \ ({"idle", "execute", "write"} \cup EndStage)
    BY DEF Executing, ExecuteStage, EndStage
  <2> QED
    BY <1>1, <1>3, <1>4, <2>1, <2>2, <2>3, <2>4, MoveLinksKeeps
<1>9. CASE RestoreOwnerLinks(c, "restore_projects", Projects, "restore_documents")
  <2>1. stage[c] = "restore_projects" /\ run[c] # c
        /\ MoveLinks(c, Projects, {}, {ask.target}, "restore_documents", TRUE)
    BY <1>4, <1>9, RoleOf DEF UndoStage
  <2>2. /\ Written("restore_documents", s, ask) = Written("restore_projects", s, ask)
                                                    \cup (s.owned \cap Projects)
        /\ Written("restore_projects", s, ask) = {ask.target}
    BY DEF Written
  <2>3. Written("restore_projects", s, ask) \cap s.owned \cap Projects = {}
    BY <1>6, <2>2
  <2>4. "restore_documents" \in Undoing \ ({"idle", "execute", "write"} \cup EndStage)
    BY DEF Undoing, UndoStage, EndStage
  <2> QED
    BY <1>1, <1>3, <1>4, <2>1, <2>2, <2>3, <2>4, MoveLinksKeeps
<1>10. CASE RestoreOwnerLinks(c, "restore_documents", Documents, "commit")
  <2>1. stage[c] = "restore_documents" /\ run[c] # c
        /\ MoveLinks(c, Documents, {}, {ask.target}, "commit", TRUE)
    BY <1>4, <1>10, RoleOf DEF UndoStage
  <2>2. /\ Written("commit", s, ask) = Written("restore_documents", s, ask)
                                         \cup (s.owned \cap Documents)
        /\ Written("restore_documents", s, ask) = {ask.target} \cup (s.owned \cap Projects)
    BY DEF Written
  <2>3. Written("restore_documents", s, ask) \cap s.owned \cap Documents = {}
    BY <1>6, <2>2
  <2>4. "commit" \in Undoing \ ({"idle", "execute", "write"} \cup EndStage)
    BY DEF Undoing, UndoStage, EndStage
  <2> QED
    BY <1>1, <1>3, <1>4, <2>1, <2>2, <2>3, <2>4, MoveLinksKeeps
<1> QED
  BY <1>7, <1>8, <1>9, <1>10

LEMMA DeleteMemberKeeps ==
  ASSUME IInv, NEW c \in Calls, DeleteMember(c)
  PROVE  IInv' /\ Moves(c)
<1>1. /\ stage[c] = "delete" /\ stage[c] \in (ExecuteStage \cup UndoStage) \ {"execute"}
      /\ stage[c] \notin {"idle", "execute", "failed"} /\ stage[c] \in RemoveStage
  BY DEF DeleteMember, ExecuteStage, RemoveStage
<1>2. run[c] = c
  BY <1>1, RoleOf DEF ExecuteStage
<1>3. PICK ask \in Requests : \E s : Works(c, ask, s)
  BY <1>1, Working
<1>4. PICK s : Works(c, ask, s)
  BY <1>3
<1>5. /\ ask.action = "member.remove" /\ Target(c) = ask.target /\ Snapshot(c) = s
      /\ ask.target \in Members /\ s.owned \subseteq Things
      /\ DOMAIN pending[c] = Written("delete", s, ask)
  BY <1>1, <1>4, RequestsAre DEF Works, Fits
<1>6. Written("delete", s, ask) = s.owned /\ Written("commit", s, ask) = {ask.target} \cup s.owned
      /\ ask.target \notin s.owned
  BY <1>5, IdsAreApart DEF Written
<1>7. Found(c) = rows[ask.target]
  BY <1>5, <1>6, RequestsAre DEF Found, View
<1>8. CASE \E recorded : Refuse(c, recorded)
  BY <1>1, <1>8, RefuseKeeps
<1>9. CASE /\ Found(c) = {s.row} /\ Owned(View(c), Target(c), Things) = {}
           /\ Write(c, Only(Target(c), {}), "commit")
  <2>1. PICK new : new = Only(ask.target, {})
    OBVIOUS
  <2>2. DOMAIN new = {ask.target} /\ new[ask.target] = {}
    BY <2>1 DEF Only
  <2>3. Effect(c, run[c], s, ask, ask.target, rows[ask.target], {})
    BY <1>2, <1>5, <1>7, <1>9 DEF Effect, Executed
  <2>4. ASSUME NEW x \in Things, NEW row \in rows[x], row.owner = {ask.target}, x \notin s.owned
        PROVE  FALSE
    <3>1. View(c)[x] = rows[x]
      BY <1>5, <1>6, <2>4, IdsAreApart DEF View
    <3> QED
      BY <1>5, <1>9, <2>4, <3>1 DEF Owned
  <2>5. LinksAreCleared(c, run[c], "commit", s, ask, rows)
    BY <2>4 DEF LinksAreCleared
  <2>6. WriteFits(c, new, "commit", s, ask)
    BY <1>2, <1>5, <1>6, <2>2, <2>3, <2>5 DEF WriteFits
  <2>7. \A a \in asked[run[c]], u \in snapshot[run[c]] : WriteFits(c, new, "commit", u, a)
    BY <1>4, <2>6 DEF Works
  <2>8. "commit" \in Executing \ ({"idle", "execute", "write"} \cup EndStage)
    BY DEF Executing, EndStage
  <2> QED
    BY <1>1, <1>2, <1>5, <1>9, <2>1, <2>7, <2>8, WriteKeeps
<1> QED
  BY <1>5, <1>8, <1>9 DEF DeleteMember

LEMMA RestoreMemberKeeps ==
  ASSUME IInv, NEW c \in Calls, RestoreMember(c)
  PROVE  IInv' /\ Moves(c)
<1>1. /\ stage[c] = "restore" /\ stage[c] \in (ExecuteStage \cup UndoStage) \ {"execute"}
      /\ stage[c] \notin {"idle", "execute", "failed"} /\ Asks(c, "member.remove")
  BY DEF RestoreMember, UndoStage
<1>2. run[c] # c
  BY <1>1, RoleOf DEF UndoStage
<1>3. PICK ask \in Requests : \E s : Works(c, ask, s)
  BY <1>1, Working
<1>4. PICK s : Works(c, ask, s)
  BY <1>3
<1>5. /\ ask.action = "member.remove" /\ Target(c) = ask.target /\ Snapshot(c) = s
      /\ ask.target \in Members /\ s.owned \subseteq Things
      /\ DOMAIN pending[c] = Written("restore", s, ask)
  BY <1>1, <1>4, RequestsAre DEF Works, Fits
<1>6. Written("restore", s, ask) = {} /\ Written("restore_projects", s, ask) = {ask.target}
  BY DEF Written
<1>7. \A x \in RowIds : View(c)[x] = rows[x]
  BY <1>5, <1>6 DEF View
<1>8. CASE \E recorded : Refuse(c, recorded)
  BY <1>1, <1>8, RefuseKeeps
<1>9. CASE /\ ~Contended(c, s.row.email) /\ Found(c) = {}
           /\ EmailOwners(View(c), s.row.email) = {}
           /\ Write(c, Only(Target(c), {[s.row EXCEPT !.revision = c]}), "restore_projects")
  <2>1. PICK set : set = {[s.row EXCEPT !.revision = c]}
    OBVIOUS
  <2>2. PICK new : new = Only(ask.target, set)
    OBVIOUS
  <2>3. DOMAIN new = {ask.target} /\ new[ask.target] = set
    BY <2>2 DEF Only
  <2>4. rows[ask.target] = {}
    BY <1>5, <1>7, <1>9, RequestsAre DEF Found
  <2>5. Effect(c, run[c], s, ask, ask.target, rows[ask.target], set)
    BY <1>2, <1>5, <2>1, <2>4 DEF Effect, Undid
  <2>6. ASSUME NEW m \in Members, HasEmail(m, s.row.email)
        PROVE  FALSE
    <3>1. CASE \E row \in rows[m] : row.email = s.row.email
      BY <1>7, <1>9, <3>1, IdsAreApart DEF EmailOwners
    <3>2. CASE \E d \in Calls : m \in DOMAIN pending[d]
                                /\ \E row \in pending[d][m] : row.email = s.row.email
      <4>1. PICK d \in Calls : m \in DOMAIN pending[d]
                               /\ \E row \in pending[d][m] : row.email = s.row.email
        BY <3>2
      <4>2. d # c
        BY <1>5, <1>6, <4>1
      <4> QED
        BY <1>9, <4>1, <4>2 DEF Contended
    <3> QED
      BY <2>6, <3>1, <3>2 DEF HasEmail
  <2>7. WriteFits(c, new, "restore_projects", s, ask)
    BY <1>5, <1>6, <2>3, <2>5, <2>6 DEF WriteFits, LinksAreCleared
  <2>8. \A a \in asked[run[c]], u \in snapshot[run[c]] :
          WriteFits(c, new, "restore_projects", u, a)
    BY <1>4, <2>7 DEF Works
  <2>9. "restore_projects" \in Undoing \ ({"idle", "execute", "write"} \cup EndStage)
    BY DEF Undoing, UndoStage, EndStage
  <2> QED
    BY <1>1, <1>2, <1>5, <1>9, <2>1, <2>2, <2>8, <2>9, WriteKeeps
<1> QED
  BY <1>5, <1>8, <1>9 DEF RestoreMember

(* Every step of a transaction but its commit. *)
Statement(c) ==
  \/ RequestExecute(c) \/ ChangeRole(c) \/ Archive(c) \/ Remove(c)
  \/ \E r \in Calls : RequestUndo(c, r)

LEMMA WorkKeeps ==
  ASSUME IInv, NEW c \in Calls, Statement(c)
  PROVE  IInv' /\ Moves(c)
<1>1. CASE RequestExecute(c)
  BY <1>1, RequestExecuteKeeps
<1>2. CASE ChangeRole(c)
  BY <1>2, ReadKeeps, ChangeMemberRoleKeeps, CheckKeeps DEF ChangeRole
<1>3. CASE Archive(c)
  BY <1>3, ReadKeeps, SetProjectStatusKeeps, CheckKeeps DEF Archive
<1>4. CASE Remove(c)
  BY <1>4, ReadKeeps, ReadOwnedKeeps, LinksKeep, DeleteMemberKeeps, CheckKeeps,
     RestoreMemberKeeps DEF Remove
<1>5. CASE \E r \in Calls : RequestUndo(c, r)
  BY <1>5, RequestUndoKeeps
<1> QED
  BY <1>1, <1>2, <1>3, <1>4, <1>5 DEF Statement

-----------------------------------------------------------------------------
(* Commits. *)

Merged(c, new) ==
  \A x \in RowIds : new[x] = IF x \in DOMAIN pending[c] THEN pending[c][x] ELSE rows[x]

LEMMA CommitIs ==
  ASSUME IInv, NEW c \in Calls, Commit(c)
  PROVE  /\ stage[c] = "commit" /\ c \notin Past /\ Merged(c, rows')
         /\ \E ask \in Requests : \E s : Works(c, ask, s)
         /\ stage' = [stage EXCEPT ![c] = IF run[c] = c THEN "completed" ELSE "undone"]
         /\ pending' = [pending EXCEPT ![c] = NoRows]
         /\ UNCHANGED <<asked, run, snapshot, conflicts, edits>>
<1>1. stage[c] = "commit" /\ stage[c] \notin {"idle", "execute", "failed"}
  BY DEF Commit
<1>2. c \notin Past
  BY <1>1, SeedsAssumption DEF Past, IInv, TypeOK
<1>3. \E ask \in Requests : \E s : Works(c, ask, s)
  BY <1>1, Working
<1> QED
  BY <1>1, <1>2, <1>3 DEF Commit, Goto, session, Merged, View

LEMMA CommitIsTyped ==
  ASSUME IInv, NEW c \in Calls, Commit(c)
  PROVE  TypeOK'
<1>1. /\ TypeOK /\ DOMAIN pending = Calls /\ stage \in [Calls -> Stage]
  BY DEF IInv, TypeOK, Stage
<1>2. /\ pending' = [pending EXCEPT ![c] = NoRows] /\ rows' = View(c) /\ IsTables(rows')
      /\ UNCHANGED <<asked, run, snapshot, conflicts, edits>>
  BY <1>1 DEF Commit, session, TypeOK
<1>3. /\ rows' \in [RowIds -> Optional(Row)] /\ \A x \in RowIds : Placed(x, rows'[x])
  BY <1>2, TablesArePlaced
<1>4. stage' \in [Calls -> Stage]
  <2>1. (IF run[c] = c THEN "completed" ELSE "undone") \in Stage
    BY DEF Stage, EndStage
  <2> QED
    BY <1>1, <2>1 DEF Commit, Goto
<1>5. standing' \in Seq(Revision)
  <2>1. standing \in Seq(Revision) /\ c \in Revision
    BY <1>1 DEF TypeOK, Revision
  <2>2. Append(standing, c) \in Seq(Revision)
    BY <2>1
  <2>3. ASSUME standing # <<>>
        PROVE  SubSeq(standing, 1, Len(standing) - 1) \in Seq(Revision)
    <3>1. Len(standing) \in Nat \ {0}
      BY <2>1, <2>3, EmptySeq
    <3> QED
      BY <2>1, <3>1, SubSeqProperties
  <2> QED
    BY <2>2, <2>3 DEF Commit, IsLast
<1>6. ASSUME NEW d \in Calls
      PROVE  /\ DOMAIN pending'[d] \subseteq RowIds
             /\ \A x \in DOMAIN pending'[d] : Placed(x, pending'[d][x])
  <2>1. pending'[d] = pending[d] \/ DOMAIN pending'[d] = {}
    BY <1>1, <1>2 DEF NoRows
  <2> QED
    BY <1>1, <2>1, RowsArePlaced DEF TypeOK
<1>7. \A d \in Calls : IsTables(View(d)')
  BY <1>3, <1>6, ViewIsTables DEF View
<1>8. DOMAIN pending' = Calls
  BY <1>1, <1>2
<1> QED
  BY <1>1, <1>2, <1>4, <1>5, <1>6, <1>7, <1>8 DEF TypeOK, Stage

(* What another call knows of the rows is still true.                      *)
LEMMA CommitKeepsOthers ==
  ASSUME IInv, NEW c \in Calls, Commit(c), NEW d \in Calls \ {c}
  PROVE  CallInv(d)'
<1>1. /\ TypeOK /\ Exclusive /\ Revisions /\ CallInv(d) /\ Roled(d)
      /\ DOMAIN pending = Calls /\ stage \in [Calls -> Stage]
  BY DEF IInv, CallInv, TypeOK, Stage
<1>2. /\ stage[c] = "commit" /\ c \notin Past /\ Merged(c, rows')
      /\ \E ask \in Requests : \E s : Works(c, ask, s)
      /\ stage' = [stage EXCEPT ![c] = IF run[c] = c THEN "completed" ELSE "undone"]
      /\ pending' = [pending EXCEPT ![c] = NoRows]
      /\ UNCHANGED <<asked, run, snapshot, conflicts, edits>>
  BY CommitIs
<1>3. PICK r \in Calls : r = run[d] /\ r # c
  BY <1>1, <1>2, NotUndone DEF TypeOK, EndStage
<1>4. /\ pending'[d] = pending[d] /\ stage'[d] = stage[d] /\ stage'[r] = stage[r]
  BY <1>1, <1>2, <1>3
<1>5. Roled(d)'
  BY <1>1, <1>2, <1>3, <1>4 DEF Roled
<1>6. PICK ask1 \in Requests : \E s : Works(c, ask1, s)
  BY <1>2
<1>7. PICK s1 : Works(c, ask1, s1)
  BY <1>6
<1>8. PICK new : new = rows'
  OBVIOUS
<1>9. \A x \in RowIds : new[x] = IF x \in DOMAIN pending[c] THEN pending[c][x] ELSE rows[x]
  BY <1>2, <1>8 DEF Merged
<1>10. \A x \in DOMAIN pending[c] : /\ Made(c, run[c], s1, ask1, x, rows[x], pending[c][x])
                                    /\ x \notin DOMAIN pending[d]
                                    /\ \A row \in pending[c][x] : row.revision = c
  <2>1. /\ Fits(s1, ask1) /\ DOMAIN pending[c] = Written(stage[c], s1, ask1)
        /\ \A x \in DOMAIN pending[c] : Effect(c, run[c], s1, ask1, x, rows[x], pending[c][x])
        /\ \A x \in RowIds : Placed(x, rows[x])
    BY <1>1, <1>7, RowsArePlaced DEF Works
  <2>2. \A x \in DOMAIN pending[c] : Made(c, run[c], s1, ask1, x, rows[x], pending[c][x])
    BY <2>1, PendingIsMade
  <2> QED
    BY <1>1, <2>2 DEF Exclusive, Revisions
<1>11. ask1.target \in DOMAIN pending[c]
  BY <1>2, <1>7 DEF Works, Written
<1>12. ASSUME NEW ask \in asked[r], NEW s \in snapshot[r]
       PROVE  /\ DOMAIN pending[d] = Written(stage[d], s, ask)
              /\ \A x \in DOMAIN pending[d] : Effect(d, r, s, ask, x, new[x], pending[d][x])
              /\ RevisionTells(d, stage[d], s, ask, new)
              /\ LinksAreCleared(d, r, stage[d], s, ask, new)
  <2>1. /\ Fits(s, ask) /\ DOMAIN pending[d] = Written(stage[d], s, ask)
        /\ \A x \in DOMAIN pending[d] : Effect(d, r, s, ask, x, rows[x], pending[d][x])
        /\ RevisionTells(d, stage[d], s, ask, rows)
        /\ LinksAreCleared(d, r, stage[d], s, ask, rows)
    BY <1>1, <1>3, <1>12 DEF CallInv, RowsFit
  <2>2. ask \in Requests /\ ask.target \in RowIds /\ s.row.revision \in Past
    BY <1>1, <1>3, <1>12, AskOf, RequestsAre DEF Revisions
  <2>3. \A x \in DOMAIN pending[d] : new[x] = rows[x]
    BY <1>1, <1>9, <1>10 DEF TypeOK
  <2>4. RevisionTells(d, stage[d], s, ask, new)
    <3>1. CASE ask.target \in DOMAIN pending[c]
      <4>1. \A row \in new[ask.target] : row.revision = c
        BY <1>9, <1>10, <2>2, <3>1
      <4> QED
        BY <1>2, <2>2, <4>1 DEF RevisionTells
    <3>2. CASE ask.target \notin DOMAIN pending[c]
      <4>1. new[ask.target] = rows[ask.target]
        BY <1>9, <2>2, <3>2
      <4> QED
        BY <2>1, <4>1 DEF RevisionTells
    <3> QED
      BY <3>1, <3>2
  <2>5. LinksAreCleared(d, r, stage[d], s, ask, new)
    <3>1. SUFFICES ASSUME ask.action = "member.remove", stage[d] = "commit", r = d,
                          NEW x \in Things, NEW row \in new[x], row.owner = {ask.target},
                          x \notin s.owned
                   PROVE  FALSE
      BY DEF LinksAreCleared
    <3>2. \A was \in rows[x] : was.owner # {ask.target}
      BY <2>1, <3>1 DEF LinksAreCleared
    <3>3. x \in DOMAIN pending[c] /\ row \in pending[c][x]
      BY <1>9, <3>1, <3>2, IdsAreApart
    <3>4. row.owner = {ask1.target}
      BY <1>10, <3>1, <3>2, <3>3 DEF Made
    <3>5. ask.target \in DOMAIN pending[d]
      BY <2>1, <3>1 DEF Written
    <3> QED
      BY <1>10, <1>11, <3>1, <3>4, <3>5
  <2> QED
    BY <2>1, <2>3, <2>4, <2>5
<1>13. RowsFit(d, r, stage[d], asked[r], snapshot[r], pending[d], new)
  BY <1>1, <1>3, <1>12 DEF CallInv, RowsFit
<1> QED
  BY <1>2, <1>3, <1>4, <1>5, <1>8, <1>13 DEF CallInv

LEMMA CommitKeeps ==
  ASSUME IInv, NEW c \in Calls, Commit(c)
  PROVE  IInv'
<1>1. /\ TypeOK /\ Exclusive /\ Revisions /\ EmailsDiffer /\ CallInv(c) /\ Roled(c)
      /\ DOMAIN pending = Calls /\ stage \in [Calls -> Stage]
  BY DEF IInv, CallInv, TypeOK, Stage
<1>2. /\ stage[c] = "commit" /\ c \notin Past /\ Merged(c, rows')
      /\ \E ask \in Requests : \E s : Works(c, ask, s)
      /\ stage' = [stage EXCEPT ![c] = IF run[c] = c THEN "completed" ELSE "undone"]
      /\ pending' = [pending EXCEPT ![c] = NoRows]
      /\ UNCHANGED <<asked, run, snapshot, conflicts, edits>>
  BY CommitIs
<1>3. /\ pending'[c] = NoRows /\ DOMAIN pending'[c] = {}
      /\ stage'[c] = IF run[c] = c THEN "completed" ELSE "undone"
      /\ \A d \in Calls \ {c} : pending'[d] = pending[d] /\ stage'[d] = stage[d]
  BY <1>1, <1>2 DEF NoRows
<1>4. PICK ask \in Requests : \E s : Works(c, ask, s)
  BY <1>2
<1>5. PICK s : Works(c, ask, s)
  BY <1>4
<1>6. Roled(c)'
  BY <1>1, <1>2, <1>3 DEF Roled, Executing, Undoing
<1>7. CallInv(c)'
  <2>1. PICK to : to = stage'[c]
    OBVIOUS
  <2>2. PICK new : new = rows'
    OBVIOUS
  <2>3. to \in {"completed", "undone"} /\ (to = "completed" => run[c] = c)
    BY <1>3, <2>1
  <2>4. Written(to, s, ask) = {} /\ to \notin RemoveStage
    BY <2>3 DEF Written, RemoveStage
  <2>5. ASSUME to = "completed", ask.action = "project.archive", NEW row \in new[ask.target]
        PROVE  row = [s.row EXCEPT !.status = "archived", !.revision = c]
    <3>1. ask.target \in DOMAIN pending[c] /\ ask.target \in RowIds
      BY <1>2, <1>5, RequestsAre DEF Works, Written
    <3>2. Executed(c, s, ask, ask.target, rows[ask.target], pending[c][ask.target])
      BY <1>5, <2>3, <2>5, <3>1 DEF Works, Effect
    <3>3. new[ask.target] = pending[c][ask.target]
      BY <1>2, <2>2, <3>1 DEF Merged
    <3> QED
      BY <2>5, <3>2, <3>3 DEF Executed
  <2>6. RevisionTells(c, to, s, ask, new)
    BY <2>3, <2>5 DEF RevisionTells
  <2>7. RowsFit(c, run[c], to, {ask}, {s}, NoRows, new)
    BY <1>3, <1>5, <2>3, <2>4, <2>6 DEF RowsFit, LinksAreCleared, Works
  <2> QED
    BY <1>2, <1>3, <1>5, <1>6, <2>1, <2>2, <2>7 DEF CallInv, Works
<1>8. Exclusive'
  BY <1>1, <1>2, <1>3 DEF Exclusive
<1>9. Past' = Past \cup {c}
  BY <1>1, <1>2, <1>3 DEF Past
<1>10. \A x \in RowIds : \A row \in rows'[x] :
         row \in rows[x] \/ (x \in DOMAIN pending[c] /\ row \in pending[c][x])
  BY <1>2 DEF Merged
<1>11. Revisions'
  <2>1. \A d \in Calls : \A x \in DOMAIN pending'[d] : \A row \in pending'[d][x] :
          row.revision = d
    BY <1>1, <1>3 DEF Revisions
  <2>2. \A x \in RowIds : \A row \in rows'[x] : row.revision \in Past \cup {c}
    BY <1>1, <1>10 DEF Revisions
  <2> QED
    BY <1>1, <1>2, <1>9, <2>1, <2>2 DEF Revisions
<1>12. EmailsDiffer'
  <2>1. ASSUME NEW m \in Members, NEW email, HasEmail(m, email)'
        PROVE  HasEmail(m, email)
    <3>1. CASE \E row \in rows'[m] : row.email = email
      BY <1>10, <3>1, IdsAreApart DEF HasEmail
    <3>2. CASE \E d \in Calls : m \in DOMAIN pending'[d] /\ \E row \in pending'[d][m] : row.email = email
      BY <1>3, <3>2 DEF HasEmail
    <3> QED
      BY <2>1, <3>1, <3>2 DEF HasEmail
  <2> QED
    BY <1>1, <2>1 DEF EmailsDiffer
<1>13. \A d \in Calls : CallInv(d)'
  BY <1>7, CommitKeepsOthers
<1> QED
  BY <1>8, <1>11, <1>12, <1>13, CommitIsTyped DEF IInv

-----------------------------------------------------------------------------
(* Statements of other clients. *)

(* What the tables see to when they take a row from another client.        *)
EditFits(x, new) ==
  /\ x \in RowIds /\ Placed(x, new)
  /\ \A row \in new : row.revision = edits + 1
  /\ x \in Things =>
       \A row \in new : \/ \E was \in rows[x] : was.owner = row.owner
                        \/ \A m \in row.owner : Referable(m)
  /\ x \in Members =>
       \A row \in new : \/ \E was \in rows[x] : was.email = row.email
                        \/ \A m \in Members : ~HasEmail(m, row.email)

LEMMA NewEdit ==
  ASSUME IInv, edits < MaxEdits
  PROVE  /\ edits \in Nat /\ edits + 1 \in 0 .. MaxEdits /\ edits + 1 \in Revision
         /\ edits + 1 \notin Calls /\ edits + 1 \notin Past
         /\ 0 .. (edits + 1) = 0 .. edits \cup {edits + 1}
<1>1. edits \in 0 .. MaxEdits /\ MaxEdits \in Nat /\ Calls \cap 0 .. MaxEdits = {}
  BY SeedsAssumption DEF IInv, TypeOK
<1>2. edits + 1 \in 0 .. MaxEdits /\ edits \in Nat
  BY <1>1
<1> QED
  BY <1>1, <1>2 DEF Revision, Past

LEMMA EditKeeps ==
  ASSUME IInv, NEW x, NEW new, Edit(x, new), EditFits(x, new)
  PROVE  IInv'
<1>1. /\ TypeOK /\ Exclusive /\ Revisions /\ EmailsDiffer
      /\ \A c \in Calls : CallInv(c)
      /\ DOMAIN pending = Calls /\ rows \in [RowIds -> Optional(Row)]
      /\ \A y \in RowIds : Placed(y, rows[y])
  BY RowsArePlaced DEF IInv, TypeOK
<1>2. /\ rows' = [rows EXCEPT ![x] = new] /\ edits' = edits + 1 /\ edits < MaxEdits
      /\ standing' = Append(standing, edits + 1)
      /\ \A c \in Calls : x \notin DOMAIN pending[c]
      /\ UNCHANGED <<pending, stage, asked, run, snapshot, conflicts>>
  BY DEF Edit, session
<1>3. /\ x \in RowIds /\ Placed(x, new)
      /\ rows'[x] = new /\ \A y \in RowIds : y # x => rows'[y] = rows[y]
  BY <1>1, <1>2 DEF EditFits
<1>4. /\ edits + 1 \notin Calls /\ edits + 1 \notin Past
      /\ edits + 1 \in 0 .. MaxEdits /\ edits + 1 \in Revision
      /\ 0 .. (edits + 1) = 0 .. edits \cup {edits + 1}
  BY <1>2, NewEdit
<1>5. TypeOK'
  <2>1. rows' \in [RowIds -> Optional(Row)] /\ \A y \in RowIds : Placed(y, rows'[y])
    BY <1>1, <1>2, <1>3 DEF Placed
  <2>2. IsTables(rows') /\ \A c \in Calls : IsTables(View(c)')
    <3>1. \A c \in Calls : \A y \in DOMAIN pending[c] : y \in RowIds /\ Placed(y, pending[c][y])
      BY <1>1, RowsArePlaced DEF TypeOK
    <3>2. \A c \in Calls : \A y \in DOMAIN pending'[c] : Placed(y, pending'[c][y])
      BY <1>2, <3>1
    <3> QED
      BY <2>1, <3>2, TablesArePlaced, ViewIsTables DEF View
  <2>3. standing' \in Seq(Revision)
    BY <1>1, <1>2, <1>4 DEF TypeOK
  <2> QED
    BY <1>1, <1>2, <1>4, <2>2, <2>3 DEF TypeOK
<1>6. ASSUME NEW c \in Calls
      PROVE  CallInv(c)'
  <2>1. PICK r \in Calls : r = run[c]
    BY <1>1 DEF TypeOK
  <2>2. PICK now : now = rows'
    OBVIOUS
  <2>3. Roled(c)'
    BY <1>1, <1>2 DEF CallInv, Roled
  <2>4. ASSUME NEW ask \in asked[r], NEW s \in snapshot[r]
        PROVE  /\ \A y \in DOMAIN pending[c] : Effect(c, r, s, ask, y, now[y], pending[c][y])
               /\ RevisionTells(c, stage[c], s, ask, now)
               /\ LinksAreCleared(c, r, stage[c], s, ask, now)
    <3>1. /\ DOMAIN pending[c] = Written(stage[c], s, ask)
          /\ \A y \in DOMAIN pending[c] : Effect(c, r, s, ask, y, rows[y], pending[c][y])
          /\ RevisionTells(c, stage[c], s, ask, rows)
          /\ LinksAreCleared(c, r, stage[c], s, ask, rows)
      BY <1>1, <2>1, <2>4 DEF CallInv, RowsFit
    <3>2. ask \in Requests /\ ask.target \in RowIds /\ s.row.revision \in Past
      BY <1>1, <2>1, <2>4, AskOf, RequestsAre DEF Revisions
    <3>3. \A y \in DOMAIN pending[c] : now[y] = rows[y]
      BY <1>1, <1>2, <1>3, <2>2 DEF TypeOK
    <3>4. RevisionTells(c, stage[c], s, ask, now)
      <4>1. CASE ask.target = x
        <5>1. \A row \in now[ask.target] : row.revision = edits + 1
          BY <1>3, <2>2, <4>1 DEF EditFits
        <5> QED
          BY <1>4, <3>2, <5>1 DEF RevisionTells
      <4>2. CASE ask.target # x
        <5>1. now[ask.target] = rows[ask.target]
          BY <1>3, <2>2, <3>2, <4>2
        <5> QED
          BY <3>1, <5>1 DEF RevisionTells
      <4> QED
        BY <4>1, <4>2
    <3>5. LinksAreCleared(c, r, stage[c], s, ask, now)
      <4>1. SUFFICES ASSUME ask.action = "member.remove", stage[c] = "commit", r = c,
                            NEW y \in Things, NEW row \in now[y], row.owner = {ask.target},
                            y \notin s.owned
                     PROVE  FALSE
        BY DEF LinksAreCleared
      <4>2. \A was \in rows[y] : was.owner # {ask.target}
        BY <3>1, <4>1 DEF LinksAreCleared
      <4>3. y = x /\ row \in new
        BY <1>3, <2>2, <4>1, <4>2, IdsAreApart
      <4>4. Referable(ask.target)
        BY <4>1, <4>2, <4>3 DEF EditFits
      <4>5. ask.target \in DOMAIN pending[c]
        BY <3>1, <4>1 DEF Written
      <4>6. pending[c][ask.target] = {}
        BY <3>1, <4>1, <4>5 DEF Effect, Executed
      <4> QED
        BY <4>4, <4>5, <4>6 DEF Referable
    <3> QED
      BY <3>1, <3>3, <3>4, <3>5
  <2>5. RowsFit(c, r, stage[c], asked[r], snapshot[r], pending[c], now)
    BY <1>1, <2>1, <2>4 DEF CallInv, RowsFit
  <2> QED
    BY <1>2, <2>1, <2>2, <2>3, <2>5 DEF CallInv
<1>7. Exclusive'
  BY <1>1, <1>2 DEF Exclusive
<1>8. Past' = Past \cup {edits + 1}
  BY <1>2, <1>4 DEF Past
<1>9. Revisions'
  <2>1. \A y \in RowIds : \A row \in rows'[y] : row.revision \in Past \cup {edits + 1}
    BY <1>1, <1>3 DEF EditFits, Revisions
  <2> QED
    BY <1>1, <1>2, <1>8, <2>1 DEF Revisions
<1>10. EmailsDiffer'
  <2>1. ASSUME NEW m \in Members, NEW email, HasEmail(m, email)', ~HasEmail(m, email)
        PROVE  m = x /\ \A n \in Members : ~HasEmail(n, email)
    <3>1. PICK row \in rows'[m] : row.email = email
      BY <1>2, <2>1 DEF HasEmail
    <3>2. m = x /\ row \in new
      BY <1>3, <2>1, <3>1, IdsAreApart DEF HasEmail
    <3> QED
      BY <2>1, <3>1, <3>2 DEF EditFits, HasEmail
  <2> QED
    BY <1>1, <2>1 DEF EmailsDiffer
<1> QED
  BY <1>5, <1>6, <1>7, <1>9, <1>10 DEF IInv

LEMMA EditsFit ==
  ASSUME IInv,
         \/ \E m \in Members : SetRole(m)
         \/ \E x \in Things : SetOwner(x)
         \/ \E p \in Projects : DeleteProject(p)
         \/ \E m \in Members, email \in Emails, role \in Roles : InsertMember(m, email, role)
  PROVE  \E x, new : Edit(x, new) /\ EditFits(x, new)
<1>1. ASSUME NEW x, NEW new, Edit(x, new)
      PROVE  edits + 1 \in Revision
  BY <1>1, NewEdit DEF Edit
<1>2. /\ rows \in [RowIds -> Optional(Row)] /\ \A x \in RowIds : Placed(x, rows[x])
  BY RowsArePlaced DEF IInv
<1>3. ASSUME NEW m \in Members, SetRole(m)
      PROVE  \E x, new : Edit(x, new) /\ EditFits(x, new)
  <2>1. PICK member \in rows[m], role \in Roles :
          Edit(m, {[member EXCEPT !.role = role, !.revision = edits + 1]})
    BY <1>3 DEF SetRole
  <2>2. PICK row : row = [member EXCEPT !.role = role, !.revision = edits + 1]
    OBVIOUS
  <2>3. m \in RowIds /\ m \notin Things /\ m \notin Projects /\ m \notin Documents
        /\ member \in Member
    BY <1>2, IdsAreApart DEF Placed
  <2>4. row \in Member /\ row.email = member.email /\ row.revision = edits + 1
    BY <1>1, <2>1, <2>2, <2>3 DEF Member
  <2>5. EditFits(m, {row})
    BY <2>1, <2>3, <2>4 DEF EditFits, Placed, Optional, Row
  <2> QED
    BY <2>1, <2>2, <2>5
<1>4. ASSUME NEW x \in Things, SetOwner(x)
      PROVE  \E y, new : Edit(y, new) /\ EditFits(y, new)
  <2>1. PICK thing \in rows[x], owner \in Optional(Members) :
          /\ \A m \in owner : Referable(m)
          /\ Edit(x, {[thing EXCEPT !.owner = owner, !.revision = edits + 1]})
    BY <1>4 DEF SetOwner
  <2>2. PICK row : row = [thing EXCEPT !.owner = owner, !.revision = edits + 1]
    OBVIOUS
  <2>3. x \in RowIds /\ x \notin Members
    BY IdsAreApart
  <2>4. CASE x \in Projects
    <3>1. row \in Project /\ row.owner = owner /\ row.revision = edits + 1
      BY <1>1, <1>2, <2>1, <2>2, <2>3, <2>4 DEF Placed, Project
    <3>2. EditFits(x, {row})
      BY <2>1, <2>3, <2>4, <3>1, IdsAreApart DEF EditFits, Placed, Optional, Row
    <3> QED
      BY <2>1, <2>2, <3>2
  <2>5. CASE x \in Documents
    <3>1. row \in Document /\ row.owner = owner /\ row.revision = edits + 1
      BY <1>1, <1>2, <2>1, <2>2, <2>3, <2>5 DEF Placed, Document
    <3>2. EditFits(x, {row})
      BY <2>1, <2>3, <2>5, <3>1, IdsAreApart DEF EditFits, Placed, Optional, Row
    <3> QED
      BY <2>1, <2>2, <3>2
  <2> QED
    BY <2>4, <2>5, IdsAreApart
<1>5. ASSUME NEW p \in Projects, DeleteProject(p)
      PROVE  \E x, new : Edit(x, new) /\ EditFits(x, new)
  <2>1. Edit(p, {})
    BY <1>5 DEF DeleteProject
  <2>2. EditFits(p, {})
    BY IdsAreApart DEF EditFits, Placed, Optional
  <2> QED
    BY <2>1, <2>2
<1>6. ASSUME NEW m \in Members, NEW email \in Emails, NEW role \in Roles,
             InsertMember(m, email, role)
      PROVE  \E x, new : Edit(x, new) /\ EditFits(x, new)
  <2>1. PICK row : row = [role |-> role, email |-> email, revision |-> edits + 1]
    OBVIOUS
  <2>2. Edit(m, {row})
    BY <1>6, <2>1 DEF InsertMember
  <2>3. row \in Member /\ row.email = email /\ row.revision = edits + 1
    BY <1>1, <2>1, <2>2 DEF Member
  <2>4. m \in RowIds /\ m \notin Things /\ m \notin Projects /\ m \notin Documents
    BY IdsAreApart
  <2>5. \A n \in Members : ~HasEmail(n, email)
    BY <1>6 DEF InsertMember, EmailOwners, HasEmail
  <2>6. EditFits(m, {row})
    BY <2>3, <2>4, <2>5 DEF EditFits, Placed, Optional, Row
  <2> QED
    BY <2>2, <2>6
<1> QED
  BY <1>3, <1>4, <1>5, <1>6

-----------------------------------------------------------------------------
LEMMA NextIs ==
  ASSUME IInv, [Next]_vars
  PROVE  \/ \E c \in Calls : Statement(c)
         \/ \E c \in Calls : Commit(c)
         \/ \E x, new : Edit(x, new) /\ EditFits(x, new)
         \/ UNCHANGED vars
BY EditsFit DEF Next, Statement, Settled

LEMMA InitHolds ==
  ASSUME Init
  PROVE  IInv
<1>1. /\ rows \in Seeds /\ pending = [c \in Calls |-> NoRows]
      /\ stage = [c \in Calls |-> "idle"] /\ asked = [c \in Calls |-> {}]
      /\ run = [c \in Calls |-> c] /\ snapshot = [c \in Calls |-> {}]
      /\ conflicts = {} /\ edits = 0 /\ standing = <<>>
  BY DEF Init
<1>2. /\ IsTables(rows) /\ MaxEdits \in Nat
      /\ \A x \in RowIds : \A row \in rows[x] : row.revision = 0
      /\ \A email \in Emails : \A m, n \in EmailOwners(rows, email) : m = n
  BY <1>1, SeedsAssumption
<1>3. \A c \in Calls : DOMAIN pending[c] = {}
  BY <1>1 DEF NoRows
<1>4. TypeOK
  <2>1. \A c \in Calls : IsTables(View(c))
    <3>1. rows \in [RowIds -> Optional(Row)] /\ \A x \in RowIds : Placed(x, rows[x])
      BY <1>2, TablesArePlaced
    <3> QED
      BY <1>3, <3>1, ViewIsTables DEF View
  <2>2. edits \in 0 .. MaxEdits /\ standing \in Seq(Revision)
        /\ {} \in Optional(Requests)
    BY <1>1, <1>2 DEF Optional
  <2> QED
    BY <1>1, <1>2, <1>3, <2>1, <2>2 DEF TypeOK
<1>5. \A c \in Calls : CallInv(c)
  BY <1>1, <1>3 DEF CallInv, Roled, RowsFit, Executing
<1>6. Exclusive
  BY <1>1, <1>3 DEF Exclusive
<1>7. Revisions
  BY <1>1, <1>2, <1>3 DEF Revisions, Past
<1>8. EmailsDiffer
  BY <1>2, <1>3 DEF EmailsDiffer, HasEmail, EmailOwners
<1> QED
  BY <1>4, <1>5, <1>6, <1>7, <1>8 DEF IInv

LEMMA NextHolds ==
  ASSUME IInv, [Next]_vars
  PROVE  IInv'
<1>1. CASE UNCHANGED vars
  <2>1. /\ rows' = rows /\ pending' = pending /\ stage' = stage /\ asked' = asked
        /\ run' = run /\ snapshot' = snapshot /\ conflicts' = conflicts /\ edits' = edits
        /\ standing' = standing
    BY <1>1 DEF vars, session
  <2>2. TypeOK'
    BY <2>1 DEF IInv, TypeOK, View
  <2>3. \A c \in Calls : CallInv(c)'
    BY <2>1 DEF IInv, CallInv, Roled
  <2>4. Exclusive' /\ Revisions'
    BY <2>1 DEF IInv, Exclusive, Revisions, Past
  <2>5. EmailsDiffer'
    BY <2>1 DEF IInv, EmailsDiffer, HasEmail
  <2> QED
    BY <2>2, <2>3, <2>4, <2>5 DEF IInv
<1> QED
  BY <1>1, NextIs, WorkKeeps, CommitKeeps, EditKeeps

(* Calls hold the rows they wrote, know what was there, and have written   *)
(* what their statements are to write: the invariant of the tables.        *)
THEOREM InvariantHolds == Spec => []IInv
<1>1. Init => IInv
  BY InitHolds
<1>2. IInv /\ [Next]_vars => IInv'
  BY NextHolds
<1> QED
  BY <1>1, <1>2, PTL DEF Spec

(* The tables hold rows of their own kind, with or without what each call  *)
(* has written so far; a request, a run and a snapshot are what they seem. *)
THEOREM TablesAreTyped == Spec => []TypeOK
<1>1. IInv => TypeOK
  BY DEF IInv
<1> QED
  BY <1>1, InvariantHolds, PTL

(* What a commit does to each row, given what the run asked and knows.     *)
LEMMA CommitEffect ==
  ASSUME IInv, NEW c \in Calls, Commit(c), NEW s \in snapshot[run[c]], NEW ask \in asked[run[c]]
  PROVE  /\ ask \in Requests /\ Fits(s, ask) /\ DOMAIN pending[c] = {ask.target} \cup s.owned
         /\ \A x \in {ask.target} \cup s.owned :
              x \in RowIds /\ Effect(c, run[c], s, ask, x, rows[x], rows'[x])
         /\ \A x \in RowIds : x \notin {ask.target} \cup s.owned => rows'[x] = rows[x]
         /\ LinksAreCleared(c, run[c], "commit", s, ask, rows)
<1>1. /\ stage[c] = "commit" /\ Merged(c, rows')
      /\ \E a \in Requests : \E u : Works(c, a, u)
  BY CommitIs
<1>2. ask \in Requests /\ Works(c, ask, s)
  BY <1>1 DEF Works
<1>3. PICK new : new = rows'
  OBVIOUS
<1>4. /\ Fits(s, ask) /\ s.owned \subseteq Things
      /\ \A x \in DOMAIN pending[c] : Effect(c, run[c], s, ask, x, rows[x], pending[c][x])
      /\ DOMAIN pending[c] = Written("commit", s, ask)
      /\ LinksAreCleared(c, run[c], "commit", s, ask, rows)
  BY <1>1, <1>2 DEF Works, Fits
<1>5. DOMAIN pending[c] = {ask.target} \cup s.owned
  BY <1>4, IdsAreApart DEF Written
<1>6. \A x \in {ask.target} \cup s.owned : x \in RowIds
  BY <1>2, <1>4, IdsAreApart, RequestsAre
<1>7. \A x \in RowIds : new[x] = IF x \in DOMAIN pending[c] THEN pending[c][x] ELSE rows[x]
  BY <1>1, <1>3 DEF Merged
<1>8. \A x \in {ask.target} \cup s.owned : Effect(c, run[c], s, ask, x, rows[x], new[x])
  BY <1>4, <1>5, <1>6, <1>7
<1> QED
  BY <1>2, <1>3, <1>4, <1>5, <1>6, <1>7, <1>8

LEMMA EndsByCommit ==
  ASSUME IInv, [Next]_vars, NEW c \in Calls, Ends(c, "completed") \/ Ends(c, "undone")
  PROVE  Commit(c)
<1>1. stage \in [Calls -> Stage] /\ stage'[c] # stage[c] /\ stage'[c] \in {"completed", "undone"}
  BY DEF IInv, TypeOK, Stage, Ends
<1>2. ASSUME NEW d \in Calls, Statement(d)
      PROVE  FALSE
  <2>1. Moves(d)
    BY <1>2, WorkKeeps
  <2> QED
    BY <1>1, <2>1 DEF Moves
<1>3. ASSUME NEW d \in Calls, Commit(d)
      PROVE  d = c
  BY <1>1, <1>3 DEF Commit, Goto
<1>4. \A x, new : ~Edit(x, new)
  BY <1>1 DEF Edit
<1>5. ~UNCHANGED vars
  BY <1>1 DEF vars
<1> QED
  BY <1>2, <1>3, <1>4, <1>5, NextIs

(* When an execute commits, its snapshot tells the rows it replaces as     *)
(* they are committed then: whatever calls and other clients did between   *)
(* its reads and its writes made it fail.                                  *)
THEOREM SnapshotTellsTheRows == Spec => SnapshotIsTrue
<1>1. ASSUME IInv, [Next]_vars
      PROVE  [\A c \in Calls : Ends(c, "completed") =>
                \A s \in snapshot[c], ask \in asked[c] :
                  IF ask.action = "member.change_role"
                  THEN \E row \in rows[ask.target] : row.role = s.row.role
                  ELSE /\ rows[ask.target] = {s.row}
                       /\ ask.action = "member.remove" =>
                            s.owned = Owned(rows, ask.target, Things)]_vars
  <2>1. SUFFICES ASSUME NEW c \in Calls, Ends(c, "completed"),
                        NEW s \in snapshot[c], NEW ask \in asked[c]
                 PROVE  IF ask.action = "member.change_role"
                        THEN \E row \in rows[ask.target] : row.role = s.row.role
                        ELSE /\ rows[ask.target] = {s.row}
                             /\ ask.action = "member.remove" =>
                                  s.owned = Owned(rows, ask.target, Things)
    OBVIOUS
  <2>2. Commit(c)
    BY <1>1, <2>1, EndsByCommit
  <2>3. run[c] = c
    BY <1>1, <2>1, <2>2 DEF Ends, Commit, Goto, IInv, TypeOK
  <2>4. /\ ask \in Requests /\ Fits(s, ask) /\ LinksAreCleared(c, c, "commit", s, ask, rows)
        /\ \A x \in {ask.target} \cup s.owned : Effect(c, c, s, ask, x, rows[x], rows'[x])
    BY <1>1, <2>1, <2>2, <2>3, CommitEffect
  <2>5. PICK new : new = rows'
    OBVIOUS
  <2>6. \A x \in {ask.target} \cup s.owned : Executed(c, s, ask, x, rows[x], new[x])
    BY <2>4, <2>5 DEF Effect
  <2>7. CASE ask.action = "member.change_role"
    BY <2>6, <2>7 DEF Executed
  <2>8. CASE ask.action = "project.archive"
    BY <2>6, <2>8 DEF Executed
  <2>9. CASE ask.action = "member.remove"
    <3>1. rows[ask.target] = {s.row}
      BY <2>6, <2>9 DEF Executed
    <3>2. ask.target \notin s.owned /\ s.owned \subseteq Things
      BY <2>4, <2>9, RequestsAre, IdsAreApart DEF Fits
    <3>3. ASSUME NEW x \in s.owned
          PROVE  \E row \in rows[x] : row.owner = {ask.target}
      BY <2>6, <2>9, <3>2 DEF Executed
    <3>4. \A x \in Things : (\E row \in rows[x] : row.owner = {ask.target}) => x \in s.owned
      BY <2>4, <2>9 DEF LinksAreCleared
    <3>5. s.owned = Owned(rows, ask.target, Things)
      BY <3>2, <3>3, <3>4 DEF Owned
    <3> QED
      BY <2>9, <3>1, <3>5
  <2> QED
    BY <2>4, <2>7, <2>8, <2>9, RequestsAre
<1> QED
  BY <1>1, InvariantHolds, PTL DEF Spec, SnapshotIsTrue

LEMMA UndidReverts ==
  ASSUME NEW c, NEW r, NEW ask \in Requests, NEW s, Fits(s, ask), NEW x \in RowIds,
         x \in {ask.target} \cup s.owned => Undid(c, r, s, ask, x, rows[x], rows'[x]),
         x \notin {ask.target} \cup s.owned => rows'[x] = rows[x]
  PROVE  Reverted(c, r, s, ask, x)
<1>1. PICK old, new : old = rows[x] /\ new = rows'[x]
  OBVIOUS
<1>2. s.owned \subseteq Things /\ (ask.action # "member.remove" => s.owned = {})
      /\ (ask.action = "member.remove" => ask.target \notin s.owned)
  BY RequestsAre, IdsAreApart DEF Fits
<1>3. CASE x = ask.target
  <2>1. Undid(c, r, s, ask, x, old, new)
    BY <1>1, <1>3
  <2> QED
    BY <1>1, <1>2, <1>3, <2>1, RequestsAre DEF Undid, Reverted
<1>4. CASE x # ask.target /\ x \in s.owned
  <2>1. Undid(c, r, s, ask, x, old, new)
    BY <1>1, <1>4
  <2> QED
    BY <1>1, <1>2, <1>4, <2>1 DEF Undid, Reverted
<1>5. CASE x \notin {ask.target} \cup s.owned
  BY <1>5 DEF Reverted
<1> QED
  BY <1>3, <1>4, <1>5

(* An undo that commits takes back what its run did and nothing newer,     *)
(* whoever wrote the tables since.                                         *)
THEOREM UndosTakeBack == Spec => UndoTakesBack
<1>1. ASSUME IInv, [Next]_vars
      PROVE  [\A c \in Calls : Ends(c, "undone") =>
                \A s \in snapshot[run[c]], ask \in asked[run[c]], x \in RowIds :
                  Reverted(c, run[c], s, ask, x)]_vars
  <2>1. SUFFICES ASSUME NEW c \in Calls, Ends(c, "undone"), NEW s \in snapshot[run[c]],
                        NEW ask \in asked[run[c]], NEW x \in RowIds
                 PROVE  Reverted(c, run[c], s, ask, x)
    OBVIOUS
  <2>2. Commit(c)
    BY <1>1, <2>1, EndsByCommit
  <2>3. run[c] # c
    BY <1>1, <2>1, <2>2 DEF Ends, Commit, Goto, IInv, TypeOK
  <2>4. /\ ask \in Requests /\ Fits(s, ask)
        /\ x \in {ask.target} \cup s.owned => Effect(c, run[c], s, ask, x, rows[x], rows'[x])
        /\ x \notin {ask.target} \cup s.owned => rows'[x] = rows[x]
    BY <1>1, <2>1, <2>2, CommitEffect
  <2> QED
    BY <2>3, <2>4, UndidReverts DEF Effect
<1> QED
  BY <1>1, InvariantHolds, PTL DEF Spec, UndoTakesBack

-----------------------------------------------------------------------------
(* The changes that stand. *)

(* Two rows that differ in their revisions only. *)
Alike(x, was, row) ==
  /\ x \in Members => /\ was \in Member /\ row \in Member
                      /\ row.role = was.role /\ row.email = was.email
  /\ x \in Projects => /\ was \in Project /\ row \in Project
                       /\ row.status = was.status /\ row.owner = was.owner
  /\ x \in Documents => was \in Document /\ row \in Document /\ row.owner = was.owner

LEMMA LikeIsAlike ==
  ASSUME NEW x \in RowIds, NEW old, Placed(x, old), NEW new, Like(old, new)
  PROVE  /\ Placed(x, new)
         /\ \A row \in new : \E was \in old :
              /\ old = {was} /\ new = {row} /\ Alike(x, was, row)
              /\ row = was \/ row.revision \in Calls
<1>1. CASE new = old
  BY <1>1, IdsAreApart DEF Placed, Optional, Alike
<1>2. CASE \E row \in old, c \in Calls : new = {[row EXCEPT !.revision = c]}
  <2>1. PICK was \in old, c \in Calls : new = {[was EXCEPT !.revision = c]}
    BY <1>2
  <2>2. PICK now : now = [was EXCEPT !.revision = c]
    OBVIOUS
  <2>3. new = {now} /\ old = {was} /\ c \in Revision
    BY <2>1, <2>2 DEF Placed, Optional, Revision
  <2>4. CASE x \in Members
    <3>1. was \in Member /\ x \notin Projects /\ x \notin Documents
      BY <2>1, <2>4, IdsAreApart DEF Placed
    <3>2. now \in Member /\ now.role = was.role /\ now.email = was.email /\ now.revision = c
      BY <2>2, <2>3, <3>1 DEF Member
    <3> QED
      BY <2>3, <2>4, <3>1, <3>2 DEF Placed, Alike, Optional, Row
  <2>5. CASE x \in Projects
    <3>1. was \in Project /\ x \notin Members /\ x \notin Documents
      BY <2>1, <2>5, IdsAreApart DEF Placed
    <3>2. now \in Project /\ now.status = was.status /\ now.owner = was.owner /\ now.revision = c
      BY <2>2, <2>3, <3>1 DEF Project
    <3> QED
      BY <2>3, <2>5, <3>1, <3>2 DEF Placed, Alike, Optional, Row
  <2>6. CASE x \in Documents
    <3>1. was \in Document /\ x \notin Members /\ x \notin Projects
      BY <2>1, <2>6, IdsAreApart DEF Placed
    <3>2. now \in Document /\ now.owner = was.owner /\ now.revision = c
      BY <2>2, <2>3, <3>1 DEF Document
    <3> QED
      BY <2>3, <2>6, <3>1, <3>2 DEF Placed, Alike, Optional, Row
  <2> QED
    BY <2>4, <2>5, <2>6, IdsAreApart
<1> QED
  BY <1>1, <1>2 DEF Like

LEMMA TablesAre ==
  ASSUME NEW t \in Tables
  PROVE  \A x \in RowIds : Placed(x, t[x])
BY TablesArePlaced DEF Tables

(* No two members have one email in tables like the committed ones.        *)
LEMMA LikeRowsAreUnique ==
  ASSUME IInv, NEW t \in Tables, \A x \in RowIds : Like(t[x], rows[x])
  PROVE  UniqueEmails(t)
<1>1. /\ EmailsDiffer /\ \A x \in RowIds : Placed(x, rows[x])
  BY RowsArePlaced DEF IInv
<1>2. ASSUME NEW m \in Members, NEW a \in t[m]
      PROVE  HasEmail(m, a.email) /\ a.email \in Emails
  <2>1. m \in RowIds /\ Placed(m, t[m]) /\ Like(t[m], rows[m])
    BY TablesAre, IdsAreApart
  <2>2. a \in Member /\ t[m] = {a}
    BY <1>2, <2>1 DEF Placed, Optional
  <2>3. PICK row \in rows[m] : TRUE
    BY <2>1, <2>2 DEF Like
  <2>4. Alike(m, a, row)
    BY <2>1, <2>2, <2>3, LikeIsAlike
  <2> QED
    BY <1>2, <2>2, <2>3, <2>4 DEF HasEmail, Alike, Member
<1> QED
  BY <1>1, <1>2 DEF UniqueEmails, EmailsDiffer

(* An undo of the last change leads back to the tables before it.          *)
LEMMA UndidLeadsBack ==
  ASSUME NEW c \in Calls, NEW r, NEW ask \in Requests, NEW s, Fits(s, ask), NEW x \in RowIds,
         NEW before, Placed(x, before), NEW after, Placed(x, after),
         Done(r, s, ask, x, before, after),
         NEW old, Like(after, old), NEW new,
         x \in {ask.target} \cup s.owned => Undid(c, r, s, ask, x, old, new),
         x \notin {ask.target} \cup s.owned => new = old
  PROVE  Like(before, new)
<1>1. s.owned \subseteq Things /\ (ask.action # "member.remove" => s.owned = {})
      /\ (ask.action = "member.remove" => ask.target \notin s.owned)
  BY RequestsAre, IdsAreApart DEF Fits
<1>2. CASE x = ask.target /\ ask.action = "member.change_role"
  <2>1. x \in Members /\ Undid(c, r, s, ask, x, old, new)
    BY <1>2, RequestsAre
  <2>2. PICK was \in before, role \in ask.role :
          was.role = s.row.role /\ after = {[was EXCEPT !.role = role, !.revision = r]}
    BY <1>2 DEF Done
  <2>3. PICK row \in old : new = {[row EXCEPT !.role = s.row.role, !.revision = c]}
    BY <1>2, <2>1 DEF Undid
  <2>4. PICK mid : mid = [was EXCEPT !.role = role, !.revision = r]
    OBVIOUS
  <2>5. Alike(x, mid, row) /\ was \in Member
    <3>1. PICK w \in after : Alike(x, w, row)
      BY LikeIsAlike
    <3> QED
      BY <2>1, <2>2, <2>4, <3>1 DEF Placed
  <2>6. row \in Member /\ row.email = was.email
    BY <2>1, <2>4, <2>5 DEF Alike, Member
  <2>7. [row EXCEPT !.role = s.row.role, !.revision = c] = [was EXCEPT !.revision = c]
    BY <2>2, <2>5, <2>6 DEF Member
  <2> QED
    BY <2>2, <2>3, <2>7 DEF Like
<1>3. CASE x = ask.target /\ ask.action # "member.change_role"
  <2>1. Like(before, {s.row}) /\ new = {[s.row EXCEPT !.revision = c]}
    BY <1>3, RequestsAre DEF Done, Undid
  <2>2. CASE before = {s.row}
    BY <2>1, <2>2 DEF Like
  <2>3. CASE \E row \in before, d \in Calls : {s.row} = {[row EXCEPT !.revision = d]}
    <3>1. PICK was \in before, d \in Calls : s.row = [was EXCEPT !.revision = d]
      BY <2>3
    <3>2. was \in Member \/ was \in Project
      BY <1>3, RequestsAre DEF Placed
    <3>3. [s.row EXCEPT !.revision = c] = [was EXCEPT !.revision = c]
      BY <3>1, <3>2 DEF Member, Project
    <3> QED
      BY <2>1, <3>3 DEF Like
  <2> QED
    BY <2>1, <2>2, <2>3 DEF Like
<1>4. CASE x \in s.owned
  <2>1. /\ Undid(c, r, s, ask, x, old, new) /\ x \in Things /\ x # ask.target
        /\ ask.action = "member.remove" /\ (x \in Projects \/ x \in Documents)
    BY <1>1, <1>4, IdsAreApart
  <2>2. PICK was \in before :
          was.owner = {ask.target} /\ after = {[was EXCEPT !.owner = {}, !.revision = r]}
    BY <1>4 DEF Done
  <2>3. PICK row \in old : new = {[row EXCEPT !.owner = {ask.target}, !.revision = c]}
    BY <2>1 DEF Undid
  <2>4. PICK mid : mid = [was EXCEPT !.owner = {}, !.revision = r]
    OBVIOUS
  <2>5. Alike(x, mid, row)
    <3>1. PICK w \in after : Alike(x, w, row)
      BY LikeIsAlike
    <3> QED
      BY <2>2, <2>4, <3>1
  <2>6. [row EXCEPT !.owner = {ask.target}, !.revision = c] = [was EXCEPT !.revision = c]
    <3>1. CASE x \in Projects
      <4>1. was \in Project /\ row \in Project /\ row.status = mid.status
        BY <2>2, <2>5, <3>1 DEF Placed, Alike
      <4> QED
        BY <2>2, <2>4, <4>1 DEF Project
    <3>2. CASE x \in Documents
      <4>1. was \in Document /\ row \in Document
        BY <2>2, <2>5, <3>2 DEF Placed, Alike
      <4> QED
        BY <2>2, <2>4, <4>1 DEF Document
    <3> QED
      BY <2>1, <3>1, <3>2
  <2> QED
    BY <2>2, <2>3, <2>6 DEF Like
<1>5. CASE x \notin {ask.target} \cup s.owned
  BY <1>5 DEF Done
<1> QED
  BY <1>2, <1>3, <1>4, <1>5

(* An execute does to the tables what it does to the committed ones.       *)
LEMMA ExecutedIsDone ==
  ASSUME NEW c \in Calls, NEW ask \in Requests, NEW s, Fits(s, ask), NEW x \in RowIds,
         NEW before, Placed(x, before), NEW old, Like(before, old), NEW new, NEW after,
         x \in {ask.target} \cup s.owned => Executed(c, s, ask, x, old, new) /\ after = new,
         x \notin {ask.target} \cup s.owned => after = before
  PROVE  Done(c, s, ask, x, before, after)
<1>1. s.owned \subseteq Things /\ (ask.action # "member.remove" => s.owned = {})
      /\ (ask.action = "member.remove" => ask.target \notin s.owned)
  BY RequestsAre, IdsAreApart DEF Fits
<1>2. CASE x = ask.target /\ ask.action = "member.change_role"
  <2>1. x \in Members /\ Executed(c, s, ask, x, old, new) /\ after = new /\ x \notin s.owned
    BY <1>1, <1>2, RequestsAre
  <2>2. PICK row \in old, role \in ask.role :
          row.role = s.row.role /\ new = {[row EXCEPT !.role = role, !.revision = c]}
    BY <1>2, <2>1 DEF Executed
  <2>3. PICK was \in before : Alike(x, was, row)
    BY LikeIsAlike
  <2>4. [row EXCEPT !.role = role, !.revision = c] = [was EXCEPT !.role = role, !.revision = c]
        /\ was.role = row.role
    BY <2>1, <2>3 DEF Alike, Member
  <2> QED
    BY <1>2, <2>1, <2>2, <2>4 DEF Done
<1>3. CASE x = ask.target /\ ask.action # "member.change_role"
  BY <1>1, <1>3, RequestsAre DEF Done, Executed
<1>4. CASE x \in s.owned
  <2>1. /\ Executed(c, s, ask, x, old, new) /\ after = new /\ x # ask.target
        /\ ask.action = "member.remove" /\ (x \in Projects \/ x \in Documents)
    BY <1>1, <1>4, IdsAreApart
  <2>2. PICK row \in old :
          row.owner = {ask.target} /\ new = {[row EXCEPT !.owner = {}, !.revision = c]}
    BY <2>1 DEF Executed
  <2>3. PICK was \in before : Alike(x, was, row)
    BY LikeIsAlike
  <2>4. [row EXCEPT !.owner = {}, !.revision = c] = [was EXCEPT !.owner = {}, !.revision = c]
        /\ was.owner = row.owner
    <3>1. CASE x \in Projects
      BY <2>3, <3>1 DEF Alike, Project
    <3>2. CASE x \in Documents
      BY <2>3, <3>2 DEF Alike, Document
    <3> QED
      BY <2>1, <3>1, <3>2
  <2> QED
    BY <1>4, <2>1, <2>2, <2>4 DEF Done
<1>5. CASE x \notin {ask.target} \cup s.owned
  BY <1>5 DEF Done
<1> QED
  BY <1>2, <1>3, <1>4, <1>5

LEMMA StandingIs ==
  ASSUME IInv
  PROVE  /\ standing \in Seq(Revision) /\ Len(standing) \in Nat
         /\ \A i \in 1 .. Len(standing) : standing[i] \in Revision
         /\ \A e : /\ Len(Append(standing, e)) = Len(standing) + 1
                   /\ \A i \in 1 .. Len(standing) : Append(standing, e)[i] = standing[i]
                   /\ Append(standing, e)[Len(standing) + 1] = e
         /\ standing # <<>> =>
              /\ Len(standing) \in Nat \ {0}
              /\ Len(SubSeq(standing, 1, Len(standing) - 1)) = Len(standing) - 1
              /\ \A i \in 1 .. Len(standing) - 1 :
                   SubSeq(standing, 1, Len(standing) - 1)[i] = standing[i]
<1>1. standing \in Seq(Revision)
  BY DEF IInv, TypeOK
<1>2. ASSUME standing # <<>>
      PROVE  /\ Len(standing) \in Nat \ {0}
             /\ Len(SubSeq(standing, 1, Len(standing) - 1)) = Len(standing) - 1
             /\ \A i \in 1 .. Len(standing) - 1 :
                  SubSeq(standing, 1, Len(standing) - 1)[i] = standing[i]
  <2>1. Len(standing) \in Nat \ {0}
    BY <1>1, <1>2, EmptySeq
  <2>2. /\ Len(standing) - 1 \in Int
        /\ \A i \in 1 .. Len(standing) - 1 : standing[i] \in Revision
    BY <1>1, <2>1
  <2>3. PICK front : front = SubSeq(standing, 1, Len(standing) - 1)
    OBVIOUS
  <2>4. PICK n \in Int : n = Len(standing) - 1 /\ n >= 0
    BY <2>1
  <2>5. /\ Len(SubSeq(standing, 1, n)) = IF 1 <= n THEN n - 1 + 1 ELSE 0
        /\ \A i \in 1 .. n - 1 + 1 : SubSeq(standing, 1, n)[i] = standing[1 + i - 1]
    BY <2>2, <2>4, SubSeqProperties
  <2>6. Len(front) = n /\ \A i \in 1 .. n : front[i] = standing[i]
    <3>1. n - 1 + 1 = n /\ (~(1 <= n) => n = 0) /\ \A i \in 1 .. n : 1 + i - 1 = i
      BY <2>4
    <3> QED
      BY <2>3, <2>4, <2>5, <3>1
  <2> QED
    BY <2>1, <2>3, <2>4, <2>6
<1> QED
  BY <1>1, <1>2

LEMMA InitStands ==
  ASSUME Init
  PROVE  Stands
<1>1. IInv /\ Len(standing) = 0
  BY InitHolds DEF Init
<1>2. rows \in Tables
  BY <1>1, RowsArePlaced DEF Tables, IInv, TypeOK
<1>3. PICK hist : hist = [i \in 0 .. Len(standing) |-> rows]
  OBVIOUS
<1>4. hist \in [0 .. Len(standing) -> Tables] /\ hist[0] = rows
  BY <1>1, <1>2, <1>3
<1>5. UniqueEmails(rows)
  BY <1>1, <1>2, LikeRowsAreUnique DEF Like
<1>6. Leads(hist)
  BY <1>1, <1>4, <1>5 DEF Leads, Like
<1> QED
  BY <1>1, <1>4, <1>6 DEF Stands

LEMMA StatementStands ==
  ASSUME IInv, Stands, NEW c \in Calls, Moves(c)
  PROVE  Stands'
<1>1. PICK hist \in [0 .. Len(standing) -> Tables] : Leads(hist)
  BY DEF Stands
<1>2. standing' = standing /\ rows' = rows
  BY DEF Moves
<1>3. \A r \in Calls : stage'[r] = "completed" =>
        stage[r] = "completed" /\ snapshot'[r] = snapshot[r] /\ asked'[r] = asked[r]
  BY DEF Moves
<1>4. \A i \in 1 .. Len(standing) : standing[i] \in Calls =>
        stage'[standing[i]] \in {"completed", "undone"}
  BY DEF Stands, Moves, EndStage
<1>5. Leads(hist)'
  BY <1>1, <1>2, <1>3 DEF Leads
<1> QED
  BY <1>1, <1>2, <1>4, <1>5 DEF Stands

(* A change that is appended: what it makes of the last tables.            *)
LEMMA AppendStands ==
  ASSUME IInv, Stands, IInv', NEW e, standing' = Append(standing, e),
         e \notin {standing[i] : i \in 1 .. Len(standing)} \/ e \notin Calls,
         e \in Calls => stage'[e] \in {"completed", "undone"},
         \A r \in Calls : r # e =>
           stage'[r] = stage[r] /\ snapshot'[r] = snapshot[r] /\ asked'[r] = asked[r],
         \A was \in Tables : (\A x \in RowIds : Like(was[x], rows[x])) =>
           \E now \in Tables :
             /\ \A x \in RowIds : Like(now[x], rows'[x])
             /\ e \in Calls /\ stage'[e] = "completed" =>
                  \A s \in snapshot'[e], ask \in asked'[e], x \in RowIds :
                    Done(e, s, ask, x, was[x], now[x])
  PROVE  Stands'
<1>1. PICK hist \in [0 .. Len(standing) -> Tables] : Leads(hist)
  BY DEF Stands
<1>2. PICK n \in Nat : n = Len(standing)
  BY StandingIs
<1>3. /\ Len(standing') = n + 1 /\ standing'[n + 1] = e
      /\ \A i \in 1 .. n : standing'[i] = standing[i]
  BY <1>2, StandingIs
<1>4. hist[n] \in Tables /\ \A x \in RowIds : Like(hist[n][x], rows[x])
  BY <1>1, <1>2 DEF Leads
<1>5. PICK now \in Tables :
        /\ \A x \in RowIds : Like(now[x], rows'[x])
        /\ e \in Calls /\ stage'[e] = "completed" =>
             \A s \in snapshot'[e], ask \in asked'[e], x \in RowIds :
               Done(e, s, ask, x, hist[n][x], now[x])
  BY <1>4
<1>6. PICK next : next = [i \in 0 .. n + 1 |-> IF i = n + 1 THEN now ELSE hist[i]]
  OBVIOUS
<1>7. /\ next \in [0 .. n + 1 -> Tables] /\ next[n + 1] = now
      /\ \A i \in 0 .. n : next[i] = hist[i]
  BY <1>1, <1>2, <1>5, <1>6
<1>8. UniqueEmails(now)
  <2>1. EmailsDiffer'
    BY DEF IInv
  <2>2. ASSUME NEW m \in Members, NEW a \in now[m]
        PROVE  HasEmail(m, a.email)' /\ a.email \in Emails
    <3>1. m \in RowIds /\ Placed(m, now[m]) /\ Like(now[m], rows'[m])
      BY <1>5, TablesAre, IdsAreApart
    <3>2. a \in Member /\ now[m] = {a}
      BY <2>2, <3>1 DEF Placed, Optional
    <3>3. PICK row \in rows'[m] : TRUE
      BY <3>1, <3>2 DEF Like
    <3>4. Alike(m, a, row)
      BY <3>1, <3>2, <3>3, LikeIsAlike
    <3> QED
      BY <2>2, <3>2, <3>3, <3>4 DEF HasEmail, Alike, Member
  <2> QED
    BY <2>1, <2>2 DEF UniqueEmails, EmailsDiffer
<1>9. ASSUME NEW i \in 1 .. n + 1, standing'[i] \in Calls
      PROVE  stage'[standing'[i]] \in {"completed", "undone"}
  <2>1. CASE i = n + 1
    BY <1>3, <1>9, <2>1
  <2>2. CASE i # n + 1
    <3>1. i \in 1 .. n
      BY <1>2, <2>2
    <3> QED
      BY <1>2, <1>3, <1>9, <3>1 DEF Stands
  <2> QED
    BY <2>1, <2>2
<1>10. ASSUME NEW i \in 1 .. n + 1, NEW r \in Calls, r = standing'[i], stage'[r] = "completed",
              NEW s \in snapshot'[r], NEW ask \in asked'[r], NEW x \in RowIds
       PROVE  Done(r, s, ask, x, next[i - 1][x], next[i][x])
  <2>1. CASE i = n + 1
    <3>1. r = e /\ next[i] = now /\ next[i - 1] = hist[n]
      BY <1>2, <1>3, <1>7, <1>10, <2>1
    <3> QED
      BY <1>5, <1>10, <3>1
  <2>2. CASE i # n + 1
    <3>1. i \in 1 .. n /\ i - 1 \in 0 .. n /\ i \in 0 .. n
      BY <1>2, <2>2
    <3>2. r # e /\ r = standing[i]
      BY <1>2, <1>3, <1>10, <3>1
    <3>3. stage[r] = "completed" /\ s \in snapshot[r] /\ ask \in asked[r]
      BY <1>10, <3>2
    <3> QED
      BY <1>1, <1>2, <1>7, <3>1, <3>2, <3>3 DEF Leads
  <2> QED
    BY <2>1, <2>2
<1>11. \A i \in 0 .. n + 1 : UniqueEmails(next[i])
  <2>1. \A i \in 0 .. n + 1 : i = n + 1 \/ i \in 0 .. n
    BY <1>2
  <2> QED
    BY <1>1, <1>2, <1>7, <1>8, <2>1 DEF Leads
<1>12. Leads(next)'
  BY <1>3, <1>5, <1>7, <1>10, <1>11 DEF Leads
<1> QED
  BY <1>3, <1>7, <1>9, <1>12 DEF Stands

LEMMA EditStands ==
  ASSUME IInv, IInv', Stands, NEW x, NEW new, Edit(x, new), EditFits(x, new)
  PROVE  Stands'
<1>1. /\ rows \in [RowIds -> Optional(Row)] /\ rows' = [rows EXCEPT ![x] = new]
      /\ edits < MaxEdits /\ standing' = Append(standing, edits + 1) /\ x \in RowIds
      /\ UNCHANGED <<stage, asked, run, snapshot>> /\ Placed(x, new)
  BY RowsArePlaced DEF IInv, Edit, session, EditFits
<1>2. edits + 1 \notin Calls
  BY <1>1, NewEdit
<1>3. ASSUME NEW was \in Tables, \A y \in RowIds : Like(was[y], rows[y])
      PROVE  \E now \in Tables : \A y \in RowIds : Like(now[y], rows'[y])
  <2>1. PICK now : now = [was EXCEPT ![x] = new]
    OBVIOUS
  <2>2. /\ was \in [RowIds -> Optional(Row)] /\ \A y \in RowIds : Placed(y, was[y])
    BY TablesAre DEF Tables
  <2>3. /\ now[x] = new /\ \A y \in RowIds : y # x => now[y] = was[y]
        /\ now \in [RowIds -> Optional(Row)]
    BY <1>1, <2>1, <2>2 DEF Placed
  <2>4. \A y \in RowIds : Placed(y, now[y])
    BY <1>1, <2>2, <2>3
  <2>5. now \in Tables
    BY <2>3, <2>4, TablesArePlaced DEF Tables
  <2>6. \A y \in RowIds : Like(now[y], rows'[y])
    BY <1>1, <1>3, <2>3 DEF Like
  <2> QED
    BY <2>5, <2>6
<1> QED
  BY <1>1, <1>2, <1>3, AppendStands

LEMMA CommitStands ==
  ASSUME IInv, IInv', Stands, NEW c \in Calls, Commit(c)
  PROVE  Stands'
<1>1. /\ stage[c] = "commit" /\ Merged(c, rows')
      /\ \E a \in Requests : \E u : Works(c, a, u)
      /\ stage' = [stage EXCEPT ![c] = IF run[c] = c THEN "completed" ELSE "undone"]
      /\ UNCHANGED <<asked, run, snapshot>>
  BY CommitIs
<1>2. PICK ask \in Requests : \E s : Works(c, ask, s)
  BY <1>1
<1>3. PICK s : Works(c, ask, s)
  BY <1>2
<1>4. PICK new : new = rows'
  OBVIOUS
<1>5. /\ asked[run[c]] = {ask} /\ snapshot[run[c]] = {s} /\ Fits(s, ask)
      /\ \A x \in {ask.target} \cup s.owned :
           x \in RowIds /\ Effect(c, run[c], s, ask, x, rows[x], new[x])
      /\ \A x \in RowIds : x \notin {ask.target} \cup s.owned => new[x] = rows[x]
  BY <1>3, <1>4, CommitEffect DEF Works
<1>6. /\ stage \in [Calls -> Stage] /\ run[c] \in Calls
      /\ stage'[c] = (IF run[c] = c THEN "completed" ELSE "undone")
      /\ \A r \in Calls : r # c => stage'[r] = stage[r]
  BY <1>1 DEF IInv, TypeOK, Stage
<1>7. c \notin {standing[i] : i \in 1 .. Len(standing)}
  BY <1>1 DEF Stands
<1>8. CASE ~IsLast(run[c])
  <2>1. standing' = Append(standing, c)
    BY <1>8 DEF Commit
  <2>2. ASSUME NEW was \in Tables, \A x \in RowIds : Like(was[x], rows[x])
        PROVE  \E now \in Tables :
                 /\ \A x \in RowIds : Like(now[x], new[x])
                 /\ stage'[c] = "completed" =>
                      \A x \in RowIds : Done(c, s, ask, x, was[x], now[x])
    <3>1. PICK now : now = [x \in RowIds |-> IF x \in {ask.target} \cup s.owned
                                             THEN new[x] ELSE was[x]]
      OBVIOUS
    <3>2. /\ \A x \in RowIds : Placed(x, was[x])
          /\ new \in [RowIds -> Optional(Row)] /\ \A x \in RowIds : Placed(x, new[x])
      <4>1. IsTables(new)
        BY <1>4 DEF IInv, TypeOK
      <4> QED
        BY <4>1, TablesAre, TablesArePlaced
    <3>3. \A x \in RowIds : Placed(x, now[x])
      BY <3>1, <3>2
    <3>4. now \in Tables
      <4>1. now \in [RowIds -> Optional(Row)]
        BY <3>1, <3>2 DEF Placed
      <4> QED
        BY <3>3, <4>1, TablesArePlaced DEF Tables
    <3>5. \A x \in RowIds : Like(now[x], new[x])
      BY <1>5, <2>2, <3>1 DEF Like
    <3>6. ASSUME stage'[c] = "completed", NEW x \in RowIds
          PROVE  Done(c, s, ask, x, was[x], now[x])
      <4>1. run[c] = c
        BY <1>6, <3>6
      <4>2. x \in {ask.target} \cup s.owned =>
              Executed(c, s, ask, x, rows[x], new[x]) /\ now[x] = new[x]
        BY <1>5, <3>1, <4>1 DEF Effect
      <4>3. x \notin {ask.target} \cup s.owned => now[x] = was[x]
        BY <3>1
      <4>4. Like(was[x], rows[x]) /\ Placed(x, was[x])
        BY <2>2, <3>2
      <4> QED
        BY <1>5, <4>2, <4>3, <4>4, ExecutedIsDone
    <3> QED
      BY <3>4, <3>5, <3>6
  <2>3. ASSUME NEW was \in Tables, \A x \in RowIds : Like(was[x], rows[x])
        PROVE  \E now \in Tables :
                 /\ \A x \in RowIds : Like(now[x], rows'[x])
                 /\ c \in Calls /\ stage'[c] = "completed" =>
                      \A u \in snapshot'[c], a \in asked'[c], x \in RowIds :
                        Done(c, u, a, x, was[x], now[x])
    <3>1. stage'[c] = "completed" => snapshot'[c] = {s} /\ asked'[c] = {ask}
      BY <1>1, <1>5, <1>6
    <3>2. PICK now \in Tables :
            /\ \A x \in RowIds : Like(now[x], new[x])
            /\ stage'[c] = "completed" =>
                 \A x \in RowIds : Done(c, s, ask, x, was[x], now[x])
      BY <2>2, <2>3
    <3> QED
      BY <1>4, <3>1, <3>2
  <2> QED
    BY <1>1, <1>6, <1>7, <2>1, <2>3, AppendStands
<1>9. CASE IsLast(run[c])
  <2>1. PICK hist \in [0 .. Len(standing) -> Tables] : Leads(hist)
    BY DEF Stands
  <2>2. PICK n \in Nat \ {0} : n = Len(standing) /\ standing[n] = run[c]
    BY <1>9, StandingIs DEF IsLast
  <2>3. /\ standing' = SubSeq(standing, 1, n - 1) /\ standing # <<>>
        /\ Len(standing') = n - 1 /\ \A i \in 1 .. n - 1 : standing'[i] = standing[i]
    BY <1>9, <2>2, StandingIs DEF Commit, IsLast
  <2>4. run[c] # c /\ stage[run[c]] = "completed"
    <3>1. run[c] # c
      BY <1>7, <2>2
    <3> QED
      BY <3>1 DEF IInv, CallInv, Roled
  <2>5. \A i \in 1 .. n : standing[i] # c
    BY <1>7, <2>2
  <2>6. \A i \in 1 .. n - 1 : i \in 1 .. n /\ i \in 0 .. n /\ i - 1 \in 0 .. n
    BY <2>2
  <2>7. PICK back : back = [i \in 0 .. n - 1 |-> hist[i]]
    OBVIOUS
  <2>8. /\ back \in [0 .. n - 1 -> Tables]
        /\ \A i \in 0 .. n - 1 : i \in 0 .. n /\ back[i] = hist[i]
    BY <2>1, <2>2, <2>7
  <2>9. ASSUME NEW x \in RowIds
        PROVE  Like(hist[n - 1][x], new[x])
    <3>1. Done(run[c], s, ask, x, hist[n - 1][x], hist[n][x])
      <4>1. n \in 1 .. Len(standing)
        BY <2>2
      <4> QED
        BY <1>5, <1>6, <2>1, <2>2, <2>4, <4>1 DEF Leads
    <3>5. Like(hist[n][x], rows[x])
      BY <2>1, <2>2 DEF Leads
    <3>2. hist[n - 1] \in Tables /\ hist[n] \in Tables
      BY <2>1, <2>2
    <3>3. Placed(x, hist[n - 1][x]) /\ Placed(x, hist[n][x])
      BY <3>2, TablesAre
    <3>4. x \in {ask.target} \cup s.owned => Undid(c, run[c], s, ask, x, rows[x], new[x])
      <4>1. x \in {ask.target} \cup s.owned =>
              Effect(c, run[c], s, ask, x, rows[x], new[x])
        BY <1>5
      <4> QED
        BY <2>4, <4>1 DEF Effect
    <3>6. x \notin {ask.target} \cup s.owned => new[x] = rows[x]
      BY <1>5
    <3>7. Fits(s, ask)
      BY <1>5
    <3>8. PICK r, before, after, old : r = run[c] /\ before = hist[n - 1][x]
                                       /\ after = hist[n][x] /\ old = rows[x]
      OBVIOUS
    <3>9. PICK now : now = new[x]
      OBVIOUS
    <3>10. /\ Placed(x, before) /\ Placed(x, after) /\ Done(r, s, ask, x, before, after)
           /\ Like(after, old)
           /\ x \in {ask.target} \cup s.owned => Undid(c, r, s, ask, x, old, now)
           /\ x \notin {ask.target} \cup s.owned => now = old
      BY <3>1, <3>3, <3>4, <3>5, <3>6, <3>8, <3>9
    <3>11. Like(before, now)
      BY <3>7, <3>10, UndidLeadsBack
    <3> QED
      BY <3>8, <3>9, <3>11
  <2>10. ASSUME NEW i \in 1 .. n - 1, standing'[i] \in Calls
         PROVE  stage'[standing'[i]] \in {"completed", "undone"}
    BY <1>6, <2>2, <2>3, <2>5, <2>6, <2>10 DEF Stands
  <2>11. ASSUME NEW i \in 1 .. n - 1, NEW r \in Calls, r = standing'[i],
                stage'[r] = "completed", NEW u \in snapshot'[r], NEW a \in asked'[r],
                NEW x \in RowIds
         PROVE  Done(r, u, a, x, back[i - 1][x], back[i][x])
    <3>1. r # c /\ r = standing[i]
      BY <2>3, <2>5, <2>6, <2>11
    <3>2. stage[r] = "completed" /\ u \in snapshot[r] /\ a \in asked[r]
      BY <1>1, <1>6, <2>11, <3>1
    <3>3. back[i - 1] = hist[i - 1] /\ back[i] = hist[i]
      BY <2>2, <2>8
    <3> QED
      BY <2>1, <2>2, <2>6, <3>1, <3>2, <3>3 DEF Leads
  <2>12. \A i \in 0 .. n - 1 : UniqueEmails(back[i])
    BY <2>1, <2>2, <2>8 DEF Leads
  <2>13. \A x \in RowIds : Like(back[n - 1][x], rows'[x])
    BY <1>4, <2>2, <2>8, <2>9
  <2>14. Leads(back)'
    BY <2>3, <2>11, <2>12, <2>13 DEF Leads
  <2> QED
    BY <2>3, <2>8, <2>10, <2>14 DEF Stands
<1> QED
  BY <1>8, <1>9

LEMMA StandsKeeps ==
  ASSUME IInv, Stands, [Next]_vars
  PROVE  Stands'
<1>1. IInv'
  BY NextHolds
<1>2. CASE UNCHANGED vars
  <2>1. /\ rows' = rows /\ stage' = stage /\ asked' = asked /\ snapshot' = snapshot
        /\ standing' = standing
    BY <1>2 DEF vars, session
  <2> QED
    BY <2>1 DEF Stands, Leads
<1> QED
  BY <1>1, <1>2, NextIs, WorkKeeps, StatementStands, CommitStands, EditStands

(* The changes that were not undone can be laid out one after the other:   *)
(* each run among them began on the tables the change before it left, and  *)
(* the last tables are the committed ones but for the revisions undos gave.*)
THEOREM ChangesStand == Spec => []Stands
<1>1. Init => IInv /\ Stands
  BY InitHolds, InitStands
<1>2. (IInv /\ Stands) /\ [Next]_vars => (IInv /\ Stands)'
  BY NextHolds, StandsKeeps
<1> QED
  BY <1>1, <1>2, PTL DEF Spec

(* What the undo c of the last change finds.                               *)
Ready(c, s, ask) ==
  /\ ask.action = "member.change_role" =>
       \E row \in rows[ask.target] : rows[ask.target] = {row} /\ ask.role = {row.role}
  /\ ask.action = "project.archive" =>
       \E row \in rows[ask.target] :
         rows[ask.target] = {row} /\ row.status = "archived" /\ row.revision \in Calls
  /\ ask.action = "member.remove" =>
       /\ rows[ask.target] = {}
       /\ \A m \in Members : \A row \in rows[m] : row.email # s.row.email
       /\ \A x \in s.owned : \E row \in rows[x] : row.owner = {}

LEMMA LastIsReady ==
  ASSUME IInv, Stands, NEW c \in Calls, run[c] # c, IsLast(run[c]),
         NEW s \in snapshot[run[c]], NEW ask \in asked[run[c]]
  PROVE  Ready(c, s, ask)
<1>1. PICK hist \in [0 .. Len(standing) -> Tables] : Leads(hist)
  BY DEF Stands
<1>2. PICK n \in Nat \ {0} : n = Len(standing) /\ standing[n] = run[c] /\ n \in 1 .. n
  BY StandingIs DEF IsLast
<1>3. PICK r \in Calls : r = run[c] /\ stage[r] = "completed" /\ run[r] = r
  BY DEF IInv, TypeOK, CallInv, Roled
<1>4. PICK before \in Tables : before = hist[n - 1]
  BY <1>1, <1>2
<1>5. PICK after \in Tables : after = hist[n]
  BY <1>1, <1>2
<1>6. ask \in Requests /\ Fits(s, ask)
  <2>1. RowsFit(r, r, "completed", asked[r], snapshot[r], pending[r], rows)
    BY <1>3 DEF IInv, CallInv
  <2>2. ask \in Requests
    BY <1>3, AskOf DEF IInv
  <2> QED
    BY <1>3, <2>1, <2>2 DEF RowsFit
<1>7. \A x \in RowIds : Done(r, s, ask, x, before[x], after[x])
  BY <1>1, <1>2, <1>3, <1>4, <1>5 DEF Leads
<1>8. \A x \in RowIds : Like(after[x], rows[x]) /\ Placed(x, before[x]) /\ Placed(x, after[x])
  BY <1>1, <1>2, <1>4, <1>5, TablesAre DEF Leads
<1>9. UniqueEmails(before)
  BY <1>1, <1>2, <1>4 DEF Leads
<1>10. ASSUME NEW x \in RowIds, NEW mid, after[x] = {mid}
       PROVE  \E row \in rows[x] : /\ rows[x] = {row} /\ Alike(x, mid, row)
                                   /\ row = mid \/ row.revision \in Calls
  <2>1. Like(after[x], rows[x]) /\ Placed(x, after[x])
    BY <1>8
  <2>2. PICK row \in rows[x] : TRUE
    BY <1>10, <2>1 DEF Like
  <2>3. PICK was \in after[x] : /\ rows[x] = {row} /\ Alike(x, was, row)
                                /\ row = was \/ row.revision \in Calls
    BY <2>1, <2>2, LikeIsAlike
  <2> QED
    BY <1>10, <2>2, <2>3
<1>11. CASE ask.action = "member.change_role"
  <2>1. /\ ask.target \in RowIds /\ ask.target \in Members
        /\ \E role \in Roles : ask.role = {role}
    BY <1>6, <1>11, RequestsAre
  <2>2. PICK was \in before[ask.target], role \in ask.role :
          after[ask.target] = {[was EXCEPT !.role = role, !.revision = r]}
    <3>1. PICK b, a : b = before[ask.target] /\ a = after[ask.target]
      OBVIOUS
    <3>2. Done(r, s, ask, ask.target, b, a)
      BY <1>7, <2>1, <3>1
    <3>3. \E was \in b, role \in ask.role : a = {[was EXCEPT !.role = role, !.revision = r]}
      BY <1>11, <3>2 DEF Done
    <3> QED
      BY <3>1, <3>3
  <2>3. PICK mid : mid = [was EXCEPT !.role = role, !.revision = r]
    OBVIOUS
  <2>4. was \in Member
    BY <1>8, <2>1, <2>2 DEF Placed
  <2>5. mid.role = role
    BY <2>3, <2>4 DEF Member
  <2>6. PICK row \in rows[ask.target] : rows[ask.target] = {row} /\ Alike(ask.target, mid, row)
    BY <1>10, <2>1, <2>2, <2>3
  <2>7. row.role = role
    BY <2>1, <2>5, <2>6 DEF Alike
  <2> QED
    BY <1>11, <2>1, <2>2, <2>6, <2>7 DEF Ready
<1>12. CASE ask.action = "project.archive"
  <2>1. ask.target \in RowIds /\ ask.target \in Projects
    BY <1>6, <1>12, RequestsAre
  <2>2. PICK mid : mid = [s.row EXCEPT !.status = "archived", !.revision = r]
    OBVIOUS
  <2>3. after[ask.target] = {mid}
    BY <1>7, <1>12, <2>1, <2>2 DEF Done
  <2>4. mid.status = "archived" /\ mid.revision = r
    <3>1. s.row \in Project
      BY <1>6, <1>12 DEF Fits
    <3> QED
      BY <2>2, <3>1 DEF Project
  <2>5. PICK row \in rows[ask.target] :
          /\ rows[ask.target] = {row} /\ Alike(ask.target, mid, row)
          /\ row = mid \/ row.revision \in Calls
    BY <1>10, <2>1, <2>3
  <2>6. row.status = "archived" /\ row.revision \in Calls
    BY <2>1, <2>4, <2>5 DEF Alike
  <2> QED
    BY <1>12, <2>5, <2>6 DEF Ready
<1>13. CASE ask.action = "member.remove"
  <2>1. /\ ask.target \in RowIds /\ ask.target \in Members /\ s.row \in Member
        /\ s.owned \subseteq Things
    BY <1>6, <1>13, RequestsAre DEF Fits
  <2>2. Like(before[ask.target], {s.row}) /\ after[ask.target] = {}
    BY <1>7, <1>13, <2>1 DEF Done
  <2>3. rows[ask.target] = {}
    BY <1>8, <2>1, <2>2 DEF Like
  <2>4. PICK gone \in before[ask.target] : gone.email = s.row.email
    <3>1. PICK gone \in before[ask.target] : Alike(ask.target, gone, s.row)
      BY <1>8, <2>1, <2>2, LikeIsAlike
    <3> QED
      BY <2>1, <3>1 DEF Alike
  <2>5. ASSUME NEW m \in Members, NEW row \in rows[m], row.email = s.row.email
        PROVE  FALSE
    <3>1. m # ask.target /\ m \in RowIds /\ m \notin Things
      BY <2>3, <2>5, IdsAreApart
    <3>2. after[m] = before[m]
      <4>1. m \notin {ask.target} \cup s.owned
        BY <2>1, <3>1
      <4> QED
        BY <1>7, <3>1, <4>1 DEF Done
    <3>3. PICK was \in after[m] : Alike(m, was, row)
      BY <1>8, <2>5, <3>1, LikeIsAlike
    <3>4. was \in before[m] /\ was.email = gone.email
      BY <2>4, <2>5, <3>2, <3>3 DEF Alike
    <3> QED
      BY <1>9, <2>1, <2>4, <3>1, <3>4 DEF UniqueEmails
  <2>6. ASSUME NEW x \in s.owned
        PROVE  \E row \in rows[x] : row.owner = {}
    <3>1. x \in RowIds /\ (x \in Projects \/ x \in Documents)
      BY <2>1, IdsAreApart
    <3>2. PICK was \in before[x] : after[x] = {[was EXCEPT !.owner = {}, !.revision = r]}
      BY <1>7, <3>1 DEF Done
    <3>3. PICK mid : mid = [was EXCEPT !.owner = {}, !.revision = r]
      OBVIOUS
    <3>4. mid.owner = {}
      BY <1>8, <3>1, <3>2, <3>3 DEF Placed, Project, Document
    <3>5. PICK row \in rows[x] : Alike(x, mid, row)
      BY <1>10, <3>1, <3>2, <3>3
    <3> QED
      BY <3>1, <3>4, <3>5 DEF Alike
  <2> QED
    BY <1>13, <2>3, <2>5, <2>6 DEF Ready
<1> QED
  BY <1>6, <1>11, <1>12, <1>13, RequestsAre

LEMMA StatementGoes ==
  ASSUME IInv, NEW c \in Calls
  PROVE  /\ \A new, to : Write(c, new, to) => stage'[c] = to /\ run' = run
         /\ \A to : Proceed(c, to) => stage'[c] = to /\ run' = run
         /\ \A recorded : Refuse(c, recorded) => run' = run
         /\ \A row, to : Save(c, row, to) => run' = run
<1>1. stage \in [Calls -> Stage]
  BY DEF IInv, TypeOK, Stage
<1> QED
  BY <1>1 DEF Write, Proceed, Refuse, Save, Goto, session

(* Who refuses an undo: a statement of the undo.                           *)
LEMMA UndoStatement ==
  ASSUME IInv, NEW c \in Calls, Statement(c), stage'[c] = "undo_failed"
  PROVE  run[c] # c
<1>1. CASE RequestExecute(c) \/ \E r \in Calls : RequestUndo(c, r)
  <2>1. stage'[c] \in {"execute", "check"}
    BY <1>1 DEF RequestExecute, RequestUndo, Goto, IInv, TypeOK
  <2> QED
    BY <2>1
<1>2. CASE ChangeRole(c) \/ Archive(c)
  <2>1. run' = run
    BY <1>2, StatementGoes DEF ChangeRole, ReadMemberRole, ChangeMemberRole, CheckMemberRole,
       RestoreMemberRole, ChangeDemoMemberRole, Archive, ReadProject, ArchiveProject,
       CheckProject, RestoreProject, SetProjectStatus
  <2>2. Roled(c)'
    BY WorkKeeps DEF IInv, CallInv
  <2> QED
    BY <2>1, <2>2 DEF Roled, Executing, ExecuteStage
<1>3. CASE Remove(c)
  <2>1. \A from, table, to : ReadOwned(c, from, table, to) => run' = run
    BY DEF ReadOwned, session
  <2>2. \A table, from, owner, to, recorded :
          MoveLinks(c, table, from, owner, to, recorded) => run' = run
    BY StatementGoes DEF MoveLinks
  <2>3. run' = run
    BY <1>3, <2>1, <2>2, StatementGoes DEF Remove, ReadMember, ClearProjectOwnerLinks,
       ClearDocumentOwnerLinks, DeleteMember, CheckMemberAbsent, CheckEmail, CheckOwned,
       RestoreMember, RestoreOwnerLinks
  <2>4. Roled(c)'
    BY WorkKeeps DEF IInv, CallInv
  <2> QED
    BY <2>3, <2>4 DEF Roled, Executing, ExecuteStage
<1> QED
  BY <1>1, <1>2, <1>3 DEF Statement

LEMMA EndsByStatement ==
  ASSUME IInv, [Next]_vars, NEW c \in Calls, Ends(c, "undo_failed")
  PROVE  Statement(c)
<1>1. stage \in [Calls -> Stage] /\ stage'[c] = "undo_failed" /\ stage[c] # "undo_failed"
  BY DEF IInv, TypeOK, Stage, Ends
<1>2. ASSUME NEW d \in Calls, Statement(d)
      PROVE  d = c
  <2>1. Moves(d)
    BY <1>2, WorkKeeps
  <2> QED
    BY <1>1, <2>1 DEF Moves
<1>3. \A d \in Calls : ~Commit(d)
  BY <1>1 DEF Commit, Goto
<1>4. \A x, new : ~Edit(x, new)
  BY <1>1 DEF Edit
<1>5. ~UNCHANGED vars
  BY <1>1 DEF vars
<1> QED
  BY <1>2, <1>3, <1>4, <1>5, NextIs

(* No statement of the undo of the last change finds a reason to refuse.   *)
LEMMA LastIsNotRefused ==
  ASSUME IInv, Stands, NEW c \in Calls, Statement(c), stage'[c] = "undo_failed",
         IsLast(run[c])
  PROVE  \E ask \in asked[run[c]] : \E row \in rows[ask.target] :
           ask.action = "project.archive" /\ row.revision \in Calls \ {run[c]}
<1>1. run[c] # c
  BY UndoStatement
<1>2. stage[c] \notin ExecuteStage
  BY <1>1, RoleOf
<1>3. stage[c] \notin {"idle", "execute", "failed"}
  BY <1>1 DEF IInv, CallInv, Roled, Undoing, UndoStage
<1>4. PICK ask \in Requests : \E s : Works(c, ask, s)
  BY <1>3, Working
<1>5. PICK s : Works(c, ask, s)
  BY <1>4
<1>6. /\ asked[run[c]] = {ask} /\ snapshot[run[c]] = {s} /\ Target(c) = ask.target
      /\ Snapshot(c) = s /\ Fits(s, ask) /\ DOMAIN pending[c] = Written(stage[c], s, ask)
      /\ \A action : Asks(c, action) <=> ask.action = action
      /\ ask.action = "member.change_role" => ask.role = {AskedRole(c)}
      /\ stage[c] \in RemoveStage => ask.action = "member.remove"
  BY <1>5 DEF Works
<1>7. Ready(c, s, ask)
  BY <1>1, <1>6, LastIsReady
<1>8. ask.target \in RowIds
  BY RequestsAre
<1>13. /\ \A new, to : to # "undo_failed" => ~Write(c, new, to)
       /\ \A to : to # "undo_failed" => ~Proceed(c, to)
  BY StatementGoes
<1>9. CASE ChangeRole(c)
  <2>1. ask.action = "member.change_role" /\ stage[c] \in {"check", "restore"}
    BY <1>2, <1>6, <1>9 DEF ChangeRole, ReadMemberRole, ChangeMemberRole, CheckMemberRole,
       RestoreMemberRole, ExecuteStage
  <2>2. Found(c) = rows[ask.target]
    BY <1>6, <1>8, <2>1 DEF Found, View, Written, Fits
  <2>3. PICK row \in rows[ask.target] : rows[ask.target] = {row} /\ row.role = AskedRole(c)
    BY <1>6, <1>7, <2>1 DEF Ready
  <2>4. CheckMemberRole(c) \/ RestoreMemberRole(c)
    BY <1>9, <2>1 DEF ChangeRole, ReadMemberRole, ChangeMemberRole
  <2>5. Found(c) = {row} /\ row.role = AskedRole(c)
    BY <2>2, <2>3
  <2>6. CASE CheckMemberRole(c)
    BY <1>13, <2>5, <2>6 DEF CheckMemberRole
  <2>7. CASE RestoreMemberRole(c)
    BY <1>13, <2>5, <2>7 DEF RestoreMemberRole, ChangeDemoMemberRole
  <2> QED
    BY <2>4, <2>6, <2>7
<1>10. CASE Archive(c)
  <2>1. ask.action = "project.archive" /\ stage[c] \in {"check", "restore"}
    BY <1>2, <1>6, <1>10 DEF Archive, ReadProject, ArchiveProject, CheckProject,
       RestoreProject, ExecuteStage
  <2>2. Found(c) = rows[ask.target]
    BY <1>6, <1>8, <2>1 DEF Found, View, Written, Fits
  <2>3. PICK row \in rows[ask.target] :
          rows[ask.target] = {row} /\ row.status = "archived" /\ row.revision \in Calls
    BY <1>7, <2>1 DEF Ready
  <2>4. CheckProject(c) \/ RestoreProject(c)
    BY <1>10, <2>1 DEF Archive, ReadProject, ArchiveProject
  <2>5. row.revision # run[c]
    <3>1. Found(c) = {row} /\ row.status = "archived"
      BY <2>2, <2>3
    <3>2. CASE CheckProject(c)
      BY <1>13, <3>1, <3>2 DEF CheckProject
    <3>3. CASE RestoreProject(c)
      BY <1>13, <3>1, <3>3 DEF RestoreProject, SetProjectStatus, ArchivedRevision
    <3> QED
      BY <2>4, <3>2, <3>3
  <2> QED
    BY <1>6, <2>1, <2>3, <2>5
<1>11. CASE Remove(c)
  <2>1. ask.action = "member.remove"
    BY <1>2, <1>6, <1>11 DEF Remove, ReadMember, ReadOwned, ClearProjectOwnerLinks,
       ClearDocumentOwnerLinks, DeleteMember, CheckMemberAbsent, CheckEmail, CheckOwned,
       RestoreMember, RestoreOwnerLinks, ExecuteStage, RemoveStage
  <2>2. /\ rows[ask.target] = {} /\ s.owned \subseteq Things
        /\ \A m \in Members : \A row \in rows[m] : row.email # s.row.email
        /\ \A x \in s.owned : \E row \in rows[x] : row.owner = {}
    BY <1>6, <1>7, <2>1 DEF Ready, Fits
  <2>3. ask.target \notin Things
    BY <2>1, RequestsAre, IdsAreApart
  <2>4. ASSUME NEW table \in {Projects, Documents},
               \/ stage[c] \in CheckStage \cup {"restore_projects"}
               \/ stage[c] = "restore_documents" /\ table = Documents
        PROVE  {x \in s.owned \cap table : \E thing \in View(c)[x] : thing.owner = {}}
                 = s.owned \cap table
    <3>1. \A x \in s.owned \cap table : x \notin DOMAIN pending[c] /\ x \in RowIds
      BY <1>6, <2>2, <2>3, <2>4, IdsAreApart DEF Written, CheckStage
    <3> QED
      BY <2>2, <3>1 DEF View
  <2>5. ASSUME stage[c] \in CheckStage \cup {"restore"}
        PROVE  Found(c) = {} /\ EmailOwners(View(c), s.row.email) = {}
    <3>1. DOMAIN pending[c] = {}
      BY <1>6, <2>5 DEF Written, CheckStage
    <3>2. \A x \in RowIds : View(c)[x] = rows[x]
      BY <3>1 DEF View
    <3> QED
      BY <1>6, <1>8, <2>2, <3>2, IdsAreApart DEF Found, EmailOwners
  <2>6. ASSUME CheckMemberAbsent(c) \/ CheckEmail(c) \/ RestoreMember(c)
        PROVE  FALSE
    <3>1. Found(c) = {} /\ EmailOwners(View(c), s.row.email) = {}
      BY <2>5, <2>6 DEF CheckMemberAbsent, CheckEmail, RestoreMember, CheckStage
    <3>2. CASE CheckMemberAbsent(c)
      BY <1>13, <3>1, <3>2 DEF CheckMemberAbsent
    <3>3. CASE CheckEmail(c)
      BY <1>6, <1>13, <3>1, <3>3 DEF CheckEmail
    <3>4. CASE RestoreMember(c)
      BY <1>6, <1>13, <3>1, <3>4 DEF RestoreMember
    <3> QED
      BY <2>6, <3>2, <3>3, <3>4
  <2>7. ASSUME NEW at \in CheckStage, NEW table \in {Projects, Documents}, NEW to,
               to # "undo_failed", CheckOwned(c, at, table, to)
        PROVE  FALSE
    <3>1. {x \in s.owned \cap table : \E thing \in View(c)[x] : thing.owner = {}}
            = s.owned \cap table
      BY <2>4, <2>7 DEF CheckOwned
    <3> QED
      BY <1>6, <1>13, <2>7, <3>1 DEF CheckOwned
  <2>8. ASSUME RestoreOwnerLinks(c, "restore_projects", Projects, "restore_documents")
        PROVE  FALSE
    <3>1. {x \in s.owned \cap Projects : \E thing \in View(c)[x] : thing.owner = {}}
            = s.owned \cap Projects
      <4>1. stage[c] \in CheckStage \cup {"restore_projects"}
        BY <2>8 DEF RestoreOwnerLinks
      <4> QED
        BY <2>4, <4>1
    <3> QED
      BY <1>6, <1>13, <2>8, <3>1 DEF RestoreOwnerLinks, MoveLinks
  <2>9. ~CheckOwned(c, "check_projects", Projects, "check_documents")
        /\ ~CheckOwned(c, "check_documents", Documents, "restore")
    BY <2>7 DEF CheckStage
  <2>10. ASSUME RestoreOwnerLinks(c, "restore_documents", Documents, "commit")
        PROVE  FALSE
    <3>1. {x \in s.owned \cap Documents : \E thing \in View(c)[x] : thing.owner = {}}
            = s.owned \cap Documents
      BY <2>4, <2>10 DEF RestoreOwnerLinks
    <3> QED
      BY <1>6, <1>13, <2>10, <3>1 DEF RestoreOwnerLinks, MoveLinks
  <2> QED
    BY <1>2, <1>11, <2>6, <2>8, <2>9, <2>10 DEF Remove, ReadMember, ReadOwned,
       ClearProjectOwnerLinks, ClearDocumentOwnerLinks, DeleteMember, ExecuteStage
<1>12. CASE RequestExecute(c) \/ \E r \in Calls : RequestUndo(c, r)
  <2>1. stage'[c] \in {"execute", "check"}
    BY <1>12 DEF RequestExecute, RequestUndo, Goto, IInv, TypeOK
  <2> QED
    BY <2>1
<1> QED
  BY <1>9, <1>10, <1>11, <1>12 DEF Statement

(* Undone in reverse order, runs can be undone: whatever other calls do at *)
(* the same time, no statement of the undo of the last change that stands  *)
(* refuses, unless an undo wrote the archived project back in between.     *)
THEOREM ReverseOrderIsNotRefused == Spec => ReverseOrderUndoSucceeds
<1>1. ASSUME IInv, Stands, [Next]_vars
      PROVE  [\A c \in Calls : Ends(c, "undo_failed") /\ IsLast(run[c]) =>
                \E ask \in asked[run[c]] : \E row \in rows[ask.target] :
                  ask.action = "project.archive"
                    /\ row.revision \in Calls \ {run[c]}]_vars
  BY <1>1, EndsByStatement, LastIsNotRefused DEF Ends
<1> QED
  BY <1>1, InvariantHolds, ChangesStand, PTL DEF Spec, ReverseOrderUndoSucceeds
=============================================================================
