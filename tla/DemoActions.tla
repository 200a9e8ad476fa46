----------------------------- MODULE DemoActions -----------------------------
(***************************************************************************)
(* The three actions of the demo: member.change_role, project.archive and  *)
(* member.remove, with the statements they run on the product tables.      *)
(*                                                                         *)
(* A call executes an action or undoes the run of another call, each in a  *)
(* READ COMMITTED transaction of its own, one statement a step.  Other     *)
(* clients of the tables edit them at any time.  The revision of a row is  *)
(* its xmin: the transaction that wrote it.  A run is named by the call    *)
(* that executes it.  What the runtime does around the handlers (claims,   *)
(* locks of runs, lost connections, flushing of conflicts) is              *)
(* PostgresRuntime; here an undo claims a completed run in one step.  The  *)
(* workspace is the only one and is never deleted.                         *)
(*                                                                         *)
(* A statement on several rows is one step, taken when no row it matches   *)
(* is locked.                                                              *)
(***************************************************************************)
EXTENDS Naturals, Sequences, FiniteSets

CONSTANTS
  Calls,      \* executes and undos
  Members, Emails, Projects, Documents,
  Seeds,      \* contents of the product tables to begin with
  MaxEdits,   \* bound: statements of other clients
  MaxWork     \* bound: statements of other clients and calls, together

Optional(S) == {T \in SUBSET S : \A a, b \in T : a = b}

Things == Projects \cup Documents
RowIds == Members \cup Things
Revision == Calls \cup 0 .. MaxEdits

Roles == {"owner", "admin", "viewer"}
Member == [role : Roles, email : Emails, revision : Revision]
Project == [status : {"active", "archived"}, owner : Optional(Members),
            revision : Revision]
Document == [owner : Optional(Members), revision : Revision]
Row == Member \cup Project \cup Document

IsTables(t) ==
  /\ t \in [RowIds -> Optional(Row)]
  /\ \A m \in Members : t[m] \subseteq Member
  /\ \A p \in Projects : t[p] \subseteq Project
  /\ \A d \in Documents : t[d] \subseteq Document

(* The members with this email. *)
EmailOwners(tables, email) ==
  {m \in Members : \E member \in tables[m] : member.email = email}

(* A row is of one table, a call is not an edit, and the rows to begin     *)
(* with have emails of their own and are older than all calls and edits.   *)
ASSUME SeedsAssumption ==
  /\ Members \cap Things = {} /\ Projects \cap Documents = {}
  /\ MaxEdits \in Nat /\ Calls \cap 0 .. MaxEdits = {}
  /\ \A seed \in Seeds :
       /\ IsTables(seed)
       /\ \A x \in RowIds : \A row \in seed[x] : row.revision = 0
       /\ \A email \in Emails : \A m, n \in EmailOwners(seed, email) : m = n

(* A parsed request: role is the role asked for, if the action takes one. *)
Requests ==
  [action : {"member.change_role"}, target : Members,
   role : {{"admin"}, {"viewer"}}]
    \cup [action : {"project.archive"}, target : Projects, role : {{}}]
    \cup [action : {"member.remove"}, target : Members, role : {{}}]

VARIABLES
  rows,       \* the committed row of each id, if there is one
  pending,    \* what each call wrote and did not commit; it holds those rows
  stage,      \* the statement each call runs next, or how it ended
  asked,      \* the request of each run
  run,        \* the run each call works on: its own, or the one it undoes
  snapshot,   \* the snapshot of each run: the row, and what a member owned
  conflicts,  \* the runs that have a recorded conflict
  edits,      \* how many statements other clients ran
  standing    \* history: committed changes that were not undone, in order

session == <<asked, run>>
vars == <<rows, pending, stage, session, snapshot, conflicts, edits, standing>>

ExecuteStage == {"execute", "read_projects", "read_documents", "write",
                 "clear_projects", "clear_documents", "delete"}
UndoStage == {"check", "check_email", "check_projects", "check_documents",
              "restore", "restore_projects", "restore_documents"}
EndStage == {"completed", "failed", "undone", "undo_failed"}

(* What a statement of c sees: what it wrote, and what is committed.       *)
View(c) == [x \in RowIds |-> IF x \in DOMAIN pending[c] THEN pending[c][x] ELSE rows[x]]

TypeOK ==
  /\ IsTables(rows)
  /\ DOMAIN pending = Calls /\ DOMAIN snapshot = Calls
  /\ \A c \in Calls :
       /\ DOMAIN pending[c] \subseteq RowIds
       /\ IsTables(View(c))
       /\ \A s \in snapshot[c] : s.row \in Row /\ s.owned \subseteq Things
  /\ stage \in [Calls -> {"idle", "commit"} \cup ExecuteStage \cup UndoStage
                           \cup EndStage]
  /\ asked \in [Calls -> Optional(Requests)]
  /\ run \in [Calls -> Calls]
  /\ conflicts \subseteq Calls
  /\ edits \in 0 .. MaxEdits
  /\ standing \in Seq(Revision)

NoRows == [x \in {} |-> {}]

Init ==
  /\ rows \in Seeds
  /\ pending = [c \in Calls |-> NoRows]
  /\ stage = [c \in Calls |-> "idle"]
  /\ asked = [c \in Calls |-> {}]
  /\ run = [c \in Calls |-> c]
  /\ snapshot = [c \in Calls |-> {}]
  /\ conflicts = {}
  /\ edits = 0
  /\ standing = <<>>

Goto(c, to) == stage' = [stage EXCEPT ![c] = to]

WorkLeft == Cardinality({c \in Calls : stage[c] # "idle"}) + edits < MaxWork

-----------------------------------------------------------------------------
(* PostgreSQL: what a statement waits for, and what it replaces. *)

Over(new, old) ==
  [x \in DOMAIN new \cup DOMAIN old |-> IF x \in DOMAIN new THEN new[x] ELSE old[x]]

Only(x, row) == [y \in {x} |-> row]

(* No other transaction holds one of these rows. *)
Free(c, ids) == \A d \in Calls \ {c} : ids \cap DOMAIN pending[d] = {}

(* Fault: a statement does not wait for the rows it matches. *)
FaultyWrite(c, new, to) ==
  /\ pending' = [pending EXCEPT ![c] = Over(new, @)]
  /\ Goto(c, to)
  /\ UNCHANGED <<rows, session, snapshot, conflicts, edits, standing>>

(* A statement of c replaces the rows of "new", once it gets their locks. *)
Write(c, new, to) ==
  /\ Free(c, DOMAIN new)
  /\ pending' = [pending EXCEPT ![c] = Over(new, @)]
  /\ Goto(c, to)
  /\ UNCHANGED <<rows, session, snapshot, conflicts, edits, standing>>

Proceed(c, to) == Write(c, NoRows, to)

(* The handler throws, after recording a conflict or not: ROLLBACK. *)
Refuse(c, recorded) ==
  /\ pending' = [pending EXCEPT ![c] = NoRows]
  /\ snapshot' = [snapshot EXCEPT ![c] = {}]
  /\ conflicts' = conflicts \cup {r \in {run[c]} : recorded}
  /\ Goto(c, IF run[c] = c THEN "failed" ELSE "undo_failed")
  /\ UNCHANGED <<rows, session, edits, standing>>

(* The last change of the standing ones, if it is this run. *)
IsLast(r) == standing # <<>> /\ standing[Len(standing)] = r

Commit(c) ==
  /\ stage[c] = "commit"
  /\ rows' = View(c)
  /\ pending' = [pending EXCEPT ![c] = NoRows]
  /\ standing' = IF IsLast(run[c]) THEN SubSeq(standing, 1, Len(standing) - 1)
                                   ELSE Append(standing, c)
  /\ Goto(c, IF run[c] = c THEN "completed" ELSE "undone")
  /\ UNCHANGED <<session, snapshot, conflicts, edits>>

Asks(c, action) == \E ask \in asked[run[c]] : ask.action = action
Target(c) == CHOOSE x \in RowIds : \E ask \in asked[run[c]] : ask.target = x
Snapshot(c) == CHOOSE s \in snapshot[run[c]] : TRUE

(* Every row a member owns in the given tables, among these. *)
Owned(tables, m, ids) == {x \in ids : \E row \in tables[x] : row.owner = {m}}

Found(c) == View(c)[Target(c)]

-----------------------------------------------------------------------------
(* Calls. *)

(* resolveTarget finds the target; the run is claimed and marked running.  *)
RequestExecute(c) ==
  /\ stage[c] = "idle" /\ WorkLeft
  /\ \E ask \in Requests :
       /\ rows[ask.target] # {}
       /\ asked' = [asked EXCEPT ![c] = {ask}]
  /\ Goto(c, "execute")
  /\ UNCHANGED <<rows, pending, run, snapshot, conflicts, edits, standing>>

(* undo claims a completed run no other undo has claimed. *)
RequestUndo(c, r) ==
  /\ stage[c] = "idle" /\ WorkLeft
  /\ stage[r] = "completed"
  /\ \A d \in Calls \ {r} : run[d] # r
  /\ run' = [run EXCEPT ![c] = r]
  /\ Goto(c, "check")
  /\ UNCHANGED <<rows, pending, asked, snapshot, conflicts, edits, standing>>

(* context.snapshots.save, in the transaction of the handler. *)
Save(c, row, to) ==
  /\ snapshot' = [snapshot EXCEPT ![c] = {[row |-> row, owned |-> {}]}]
  /\ Goto(c, to)
  /\ UNCHANGED <<rows, pending, session, conflicts, edits, standing>>

-----------------------------------------------------------------------------
(* member.change_role *)

(* assertMemberCanChangeRole, and the member does not have the role yet. *)
MayChangeRole(c, member) ==
  member.role # "owner" /\ {member.role} \notin {ask.role : ask \in asked[c]}

ReadMemberRole(c) ==
  /\ stage[c] = "execute" /\ Asks(c, "member.change_role")
  /\ \/ \E member \in Found(c) :
          MayChangeRole(c, member) /\ Save(c, member, "write")
     \/ /\ ~\E member \in Found(c) : MayChangeRole(c, member)
        /\ Refuse(c, FALSE)

(* Fault: the role is set without a condition on the present one. *)
FaultyChangeDemoMemberRole(c, expected, role) ==
  \/ \E member \in Found(c) :
       Write(c, Only(Target(c), {[member EXCEPT !.role = role, !.revision = c]}),
             "commit")
  \/ Found(c) = {} /\ Refuse(c, FALSE)

(* UPDATE demo_members ... AND role = expected. *)
ChangeDemoMemberRole(c, expected, role) ==
  \/ \E member \in Found(c) :
       /\ member.role = expected
       /\ Write(c, Only(Target(c), {[member EXCEPT !.role = role, !.revision = c]}),
                "commit")
  \/ /\ \A member \in Found(c) : member.role # expected
     /\ Refuse(c, FALSE)

AskedRole(c) == CHOOSE role \in Roles : \E ask \in asked[run[c]] : ask.role = {role}

ChangeMemberRole(c) ==
  /\ stage[c] = "write" /\ Asks(c, "member.change_role")
  /\ ChangeDemoMemberRole(c, Snapshot(c).row.role, AskedRole(c))

(* A member that is gone refuses the undo without a conflict. *)
CheckMemberRole(c) ==
  /\ stage[c] = "check" /\ Asks(c, "member.change_role")
  /\ \/ Found(c) = {} /\ Refuse(c, FALSE)
     \/ \E member \in Found(c) :
          \/ member.role # AskedRole(c) /\ Refuse(c, TRUE)
          \/ member.role = AskedRole(c) /\ Proceed(c, "restore")

RestoreMemberRole(c) ==
  /\ stage[c] = "restore" /\ Asks(c, "member.change_role")
  /\ ChangeDemoMemberRole(c, AskedRole(c), Snapshot(c).row.role)

-----------------------------------------------------------------------------
(* project.archive *)

ReadProject(c) ==
  /\ stage[c] = "execute" /\ Asks(c, "project.archive")
  /\ \/ \E project \in Found(c) :
          project.status = "active" /\ Save(c, project, "write")
     \/ /\ \A project \in Found(c) : project.status = "archived"
        /\ Refuse(c, FALSE)

(* UPDATE demo_projects ... AND status = from AND xmin = revision. *)
SetProjectStatus(c, from, to, revision) ==
  \/ \E project \in Found(c) :
       /\ project.status = from /\ project.revision = revision
       /\ Write(c, Only(Target(c), {[project EXCEPT !.status = to, !.revision = c]}),
                "commit")
  \/ /\ \A project \in Found(c) :
          <<project.status, project.revision>> # <<from, revision>>
     /\ Refuse(c, FALSE)

(* Fault: the revision of the project is not compared. *)
FaultyArchiveProject(c) ==
  /\ stage[c] = "write" /\ Asks(c, "project.archive")
  /\ \/ \E project \in Found(c) :
          SetProjectStatus(c, "active", "archived", project.revision)
     \/ Found(c) = {} /\ Refuse(c, FALSE)

ArchiveProject(c) ==
  /\ stage[c] = "write" /\ Asks(c, "project.archive")
  /\ SetProjectStatus(c, "active", "archived", Snapshot(c).row.revision)

CheckProject(c) ==
  /\ stage[c] = "check" /\ Asks(c, "project.archive")
  /\ \/ \E project \in Found(c) :
          project.status = "archived" /\ Proceed(c, "restore")
     \/ /\ \A project \in Found(c) : project.status # "archived"
        /\ Refuse(c, TRUE)

(* Fault: the revision expected is that of the snapshot. *)
FaultyArchivedRevision(c) == Snapshot(c).row.revision

(* readExpectedArchivedProjectRevision: xmin in the result of the run is   *)
(* the transaction that archived the project.                              *)
ArchivedRevision(c) == run[c]

RestoreProject(c) ==
  /\ stage[c] = "restore" /\ Asks(c, "project.archive")
  /\ SetProjectStatus(c, "archived", Snapshot(c).row.status, ArchivedRevision(c))

-----------------------------------------------------------------------------
(* member.remove *)

ReadMember(c) ==
  /\ stage[c] = "execute" /\ Asks(c, "member.remove")
  /\ \/ \E member \in Found(c) :
          member.role # "owner" /\ Save(c, member, "read_projects")
     \/ /\ \A member \in Found(c) : member.role = "owner"
        /\ Refuse(c, FALSE)

(* readDemoOwnershipImpact: one query per table. *)
ReadOwned(c, from, table, to) ==
  /\ stage[c] = from
  /\ snapshot' = [snapshot EXCEPT ![c] =
       {[s EXCEPT !.owned = @ \cup Owned(View(c), Target(c), table)] : s \in @}]
  /\ Goto(c, to)
  /\ UNCHANGED <<rows, pending, session, conflicts, edits, standing>>

(* Fault: an owner found in place of the expected one is overwritten. *)
FaultyMoveLinks(c, table, from, owner, to, recorded) ==
  LET ids == {x \in Snapshot(c).owned \cap table : View(c)[x] # {}}
  IN  Write(c, [x \in ids |-> {[thing EXCEPT !.owner = owner, !.revision = c] :
                                thing \in View(c)[x]}], to)

(* UPDATE ... SET owner_member_id = owner of the rows of the table among   *)
(* the owned ones whose owner was "from": all of them, or the handler      *)
(* throws.                                                                 *)
MoveLinks(c, table, from, owner, to, recorded) ==
  LET ids == Snapshot(c).owned \cap table
      hit == {x \in ids : \E thing \in View(c)[x] : thing.owner = from}
  IN  /\ Free(c, hit)
      /\ \/ /\ hit = ids
            /\ Write(c, [x \in hit |-> {[thing EXCEPT !.owner = owner, !.revision = c] :
                                         thing \in View(c)[x]}], to)
         \/ hit # ids /\ Refuse(c, recorded)

ClearProjectOwnerLinks(c) ==
  /\ stage[c] = "clear_projects"
  /\ MoveLinks(c, Projects, {Target(c)}, {}, "clear_documents", FALSE)

ClearDocumentOwnerLinks(c) ==
  /\ stage[c] = "clear_documents"
  /\ MoveLinks(c, Documents, {Target(c)}, {}, "delete", FALSE)

(* Fault: the member may have changed since it was read. *)
FaultyDeleteMember(c) ==
  /\ stage[c] = "delete"
  /\ \/ Found(c) # {} /\ Owned(View(c), Target(c), Things) = {}
          /\ Write(c, Only(Target(c), {}), "commit")
     \/ (Found(c) = {} \/ Owned(View(c), Target(c), Things) # {})
          /\ Refuse(c, FALSE)

(* DELETE of the member as it was read; the foreign keys refuse it while   *)
(* something refers to it.                                                 *)
DeleteMember(c) ==
  /\ stage[c] = "delete"
  /\ \/ /\ Found(c) = {Snapshot(c).row}
        /\ Free(c, {Target(c)})
        /\ \/ Owned(View(c), Target(c), Things) = {}
                /\ Write(c, Only(Target(c), {}), "commit")
           \/ Owned(View(c), Target(c), Things) # {} /\ Refuse(c, FALSE)
     \/ Found(c) # {Snapshot(c).row} /\ Refuse(c, FALSE)

CheckMemberAbsent(c) ==
  /\ stage[c] = "check" /\ Asks(c, "member.remove")
  /\ \/ Found(c) # {} /\ Refuse(c, TRUE)
     \/ Found(c) = {} /\ Proceed(c, "check_email")

CheckEmail(c) ==
  /\ stage[c] = "check_email"
  /\ \/ EmailOwners(View(c), Snapshot(c).row.email) # {} /\ Refuse(c, TRUE)
     \/ EmailOwners(View(c), Snapshot(c).row.email) = {}
          /\ Proceed(c, "check_projects")

(* What the member owned still exists, and nobody owns it. *)
CheckOwned(c, from, table, to) ==
  /\ stage[c] = from
  /\ LET ids == Snapshot(c).owned \cap table
         free == {x \in ids : \E thing \in View(c)[x] : thing.owner = {}}
     IN  \/ free # ids /\ Refuse(c, TRUE)
         \/ free = ids /\ Proceed(c, to)

(* A member another transaction inserts or deletes with this id or email. *)
Contended(c, email) ==
  \E d \in Calls \ {c} :
    \/ Target(c) \in DOMAIN pending[d]
    \/ \E m \in DOMAIN pending[d] \cap Members :
         \E member \in pending[d][m] \cup rows[m] : member.email = email

(* Fault: the values of two columns are swapped. *)
FaultyRestoreMember(c) ==
  LET member == Snapshot(c).row
  IN  /\ stage[c] = "restore" /\ Asks(c, "member.remove")
      /\ Found(c) = {}
      /\ Write(c, Only(Target(c), {[role |-> member.email, email |-> member.role,
                                    revision |-> c]}), "restore_projects")

(* INSERT ... ON CONFLICT DO NOTHING. *)
RestoreMember(c) ==
  LET member == Snapshot(c).row
      taken == Found(c) # {} \/ EmailOwners(View(c), member.email) # {}
  IN  /\ stage[c] = "restore" /\ Asks(c, "member.remove")
      /\ ~Contended(c, member.email)
      /\ \/ taken /\ Refuse(c, TRUE)
         \/ ~taken /\ Write(c, Only(Target(c), {[member EXCEPT !.revision = c]}),
                            "restore_projects")

RestoreOwnerLinks(c, from, table, to) ==
  /\ stage[c] = from
  /\ MoveLinks(c, table, {}, {Target(c)}, to, TRUE)

-----------------------------------------------------------------------------
(* Other clients: a statement that commits at once. *)

(* A foreign key to a member waits for a call that is deleting it. *)
Referable(m) ==
  /\ rows[m] # {}
  /\ \A c \in Calls : m \in DOMAIN pending[c] => pending[c][m] # {}

Edit(x, new) ==
  /\ edits < MaxEdits /\ WorkLeft
  /\ \A c \in Calls : x \notin DOMAIN pending[c]
  /\ rows' = [rows EXCEPT ![x] = new]
  /\ edits' = edits + 1
  /\ standing' = Append(standing, edits + 1)
  /\ UNCHANGED <<pending, stage, session, snapshot, conflicts>>

SetRole(m) ==
  \E member \in rows[m], role \in Roles :
    Edit(m, {[member EXCEPT !.role = role, !.revision = edits + 1]})

SetOwner(x) ==
  \E thing \in rows[x], owner \in Optional(Members) :
    /\ \A m \in owner : Referable(m)
    /\ Edit(x, {[thing EXCEPT !.owner = owner, !.revision = edits + 1]})

DeleteProject(p) == rows[p] # {} /\ Edit(p, {})

InsertMember(m, email, role) ==
  /\ rows[m] = {} /\ EmailOwners(rows, email) = {}
  /\ \A c \in Calls, other \in Members :
       other \in DOMAIN pending[c] =>
         \A member \in pending[c][other] : member.email # email
  /\ Edit(m, {[role |-> role, email |-> email, revision |-> edits + 1]})

-----------------------------------------------------------------------------
ChangeRole(c) ==
  ReadMemberRole(c) \/ ChangeMemberRole(c) \/ CheckMemberRole(c) \/ RestoreMemberRole(c)

Archive(c) == ReadProject(c) \/ ArchiveProject(c) \/ CheckProject(c) \/ RestoreProject(c)

Remove(c) ==
  \/ ReadMember(c)
  \/ ReadOwned(c, "read_projects", Projects, "read_documents")
  \/ ReadOwned(c, "read_documents", Documents, "clear_projects")
  \/ ClearProjectOwnerLinks(c)
  \/ ClearDocumentOwnerLinks(c)
  \/ DeleteMember(c)
  \/ CheckMemberAbsent(c)
  \/ CheckEmail(c)
  \/ CheckOwned(c, "check_projects", Projects, "check_documents")
  \/ CheckOwned(c, "check_documents", Documents, "restore")
  \/ RestoreMember(c)
  \/ RestoreOwnerLinks(c, "restore_projects", Projects, "restore_documents")
  \/ RestoreOwnerLinks(c, "restore_documents", Documents, "commit")

Settled ==
  /\ \A c \in Calls : stage[c] \in EndStage \cup {"idle"}
  /\ UNCHANGED vars

Next ==
  \/ \E c \in Calls : RequestExecute(c) \/ ChangeRole(c) \/ Archive(c) \/ Remove(c) \/ Commit(c)
  \/ \E c, r \in Calls : RequestUndo(c, r)
  \/ \E m \in Members : SetRole(m)
  \/ \E x \in Things : SetOwner(x)
  \/ \E p \in Projects : DeleteProject(p)
  \/ \E m \in Members, email \in Emails, role \in Roles : InsertMember(m, email, role)
  \/ Settled

Spec == Init /\ [][Next]_vars

-----------------------------------------------------------------------------
Ends(c, how) == stage[c] # how /\ stage'[c] = how

(* When an execute commits, its snapshot describes the rows it replaces as *)
(* they are committed at that moment, though it read them before its own   *)
(* writes, in up to three statements: the role that is replaced, the       *)
(* project, the member and exactly the things that refer to the member.    *)
SnapshotIsTrue ==
  [][\A c \in Calls : Ends(c, "completed") =>
       \A s \in snapshot[c], ask \in asked[c] :
         IF ask.action = "member.change_role"
         THEN \E row \in rows[ask.target] : row.role = s.row.role
         ELSE /\ rows[ask.target] = {s.row}
              /\ ask.action = "member.remove" => s.owned = Owned(rows, ask.target, Things)]_vars

(* What the commit of an undo c does to the row x, given the run r it      *)
(* undoes, with its snapshot and its request.                              *)
Reverted(c, r, s, ask, x) ==
  CASE x = ask.target /\ ask.action = "member.change_role" ->
         \E row \in rows[x] : /\ {row.role} = ask.role
                              /\ rows'[x] = {[row EXCEPT !.role = s.row.role, !.revision = c]}
    [] x = ask.target /\ ask.action = "project.archive" ->
         /\ rows[x] = {[s.row EXCEPT !.status = "archived", !.revision = r]}
         /\ rows'[x] = {[s.row EXCEPT !.revision = c]}
    [] x = ask.target /\ ask.action = "member.remove" ->
         rows[x] = {} /\ rows'[x] = {[s.row EXCEPT !.revision = c]}
    [] x \in s.owned ->
         \E row \in rows[x] :
           /\ row.owner = {}
           /\ rows'[x] = {[row EXCEPT !.owner = {ask.target}, !.revision = c]}
    [] OTHER -> rows'[x] = rows[x]

(* An undo that commits takes back what its run did and nothing newer: the *)
(* role only if it is the one the run gave, the project only if nobody     *)
(* wrote it since, the member only if nobody took the place, and the       *)
(* owner links only where nobody became owner.                             *)
UndoTakesBack ==
  [][\A c \in Calls : Ends(c, "undone") =>
       \A s \in snapshot[run[c]], ask \in asked[run[c]], x \in RowIds :
         Reverted(c, run[c], s, ask, x)]_vars

(* Undone in reverse order, runs can be undone: an undo of the last change *)
(* that stands is not refused, whatever other calls do at the same time.   *)
(* The exception is a project that was written and written back since it   *)
(* was archived: its revision is that of the undo.                         *)
ReverseOrderUndoSucceeds ==
  [][\A c \in Calls : Ends(c, "undo_failed") /\ IsLast(run[c]) =>
       \E ask \in asked[run[c]] : \E row \in rows[ask.target] :
         ask.action = "project.archive" /\ row.revision \in Calls \ {run[c]}]_vars

(* SECURITY.md: the demo "records conflicts when undo would be unsafe".    *)
(* The undo of project.archive throws without recording one when the       *)
(* revision changed.                                                       *)
RefusalsAreRecorded ==
  \A c \in Calls : stage[c] = "undo_failed" => run[c] \in conflicts
=============================================================================
