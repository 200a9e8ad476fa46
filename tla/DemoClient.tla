----------------------------- MODULE DemoClient -----------------------------
(***************************************************************************)
(* The pages of the demo: a table whose rows have controls, each with a    *)
(* dialog that previews an action and lets the user confirm it, and a      *)
(* history with an undo button for every run.  The pages, open in several  *)
(* tabs, call server functions; the server claims, executes and undoes     *)
(* runs as ActionLifecycle says, each named by the idempotency key of the  *)
(* dialog that asked for it.                                               *)
(*                                                                         *)
(* A page shows what was true when it was rendered, and is rendered again  *)
(* with the answer of a call that changed something.  A dialog keeps its   *)
(* key and its preview while the page under it may be rendered again.      *)
(*                                                                         *)
(* The calls of a tab are independent of each other here: the queue that   *)
(* Next.js puts them in is one of their orders.                            *)
(***************************************************************************)
EXTENDS Naturals, FiniteSets

CONSTANTS Tabs,
          Rows,         \* members and projects
          Controls,     \* what a row offers: change role, remove, archive
          RowOf,        \* the row of a control
          Values,       \* the roles of a member, the statuses of a project
          Gone,         \* the row is not there
          Asks,         \* what a control asks for when the page shows a value
          Initially,    \* the rows when the pages are opened
          Keys          \* the idempotency keys that are drawn

Optional(S) == {{}} \cup {{x} : x \in S}
State == Values \cup {Gone}

ASSUME ClientAssumption ==
  /\ Gone \notin Values
  /\ RowOf \in [Controls -> Rows]
  /\ Asks \in [Controls -> [Values -> State]]
  /\ Initially \in [Rows -> State]

VARIABLES runs,         \* the audit trail, by idempotency key
          request,      \* what each run was claimed for: its row, the value
                        \* to write, the value it replaced, and history: the
                        \* dialog that asked for it
          product,      \* the rows of the demo's tables
          page,         \* what each tab shows: rows, and runs to undo
          dialog,       \* the open dialog of each control of each tab
          calls,        \* previews and executions that were asked for
          undos,        \* undos that were asked for
          drawn         \* the keys drawn so far

vars == <<runs, request, product, page, dialog, calls, undos, drawn>>

Audit == INSTANCE ActionLifecycle WITH Identifiers <- Keys, Claims <- Keys

(* opening is history in each of these: the key that the dialog which      *)
(* asked for it was opened with.                                           *)
Request == [row : Rows, to : State, before : Optional(Values), opening : Keys]

Page == [rows : [Rows -> State], undo : SUBSET Keys]

(* warned is history: whether the dialog showed that an execution failed.  *)
Dialog == [key : Keys, preview : Optional(State), error : BOOLEAN,
           opening : Keys, warned : BOOLEAN]

(* A call that is not heard was made by a page or a row that is no longer  *)
(* there.                                                                  *)
Call == [tab : Tabs, control : Controls, kind : {"preview", "execute"},
         key : Keys, opening : Keys, to : State,
         at : {"sent", "working", "ok", "error"}, heard : BOOLEAN]

UndoCall == [tab : Tabs, key : Keys,
             at : {"sent", "working", "ok", "conflict", "error"},
             heard : BOOLEAN]

TypeOK ==
  /\ Audit!TypeOK
  /\ request \in [DOMAIN runs -> Request]
  /\ product \in [Rows -> State]
  /\ page \in [Tabs -> Page]
  /\ dialog \in [Tabs -> [Controls -> Optional(Dialog)]]
  /\ calls \subseteq Call
  /\ undos \subseteq UndoCall
  /\ drawn \subseteq Keys

Undoable == {k \in DOMAIN runs : runs[k].phase = "completed"}

Fresh == [rows |-> product, undo |-> Undoable]

Init ==
  /\ Audit!Init
  /\ request = [k \in {} |-> k]
  /\ product = Initially
  /\ page = [t \in Tabs |-> [rows |-> Initially, undo |-> {}]]
  /\ dialog = [t \in Tabs |-> [c \in Controls |-> {}]]
  /\ calls = {}
  /\ undos = {}
  /\ drawn = {}

-----------------------------------------------------------------------------
(* The page of a tab.                                                      *)

Shown(t, c) == page[t].rows[RowOf[c]]

(* useTransition: isPending from the click to the answer. *)
Busy(t, c) ==
  \E call \in calls : call.tab = t /\ call.control = c /\ call.heard

(* A row that a page does not show takes its controls, and these their     *)
(* dialogs, with it.                                                       *)
Mounted(p, c) == p.rows[RowOf[c]] # Gone

(* Fault: a key for every attempt. *)
FaultyKept(d) == IF d.error THEN Keys \ drawn ELSE {d.key}

(* idempotencyKey ?? createIdempotencyKey(): an open dialog has its key. *)
Kept(d) == {d.key}

(* A dialog opens with a new key and asks for its preview. *)
OpenPreview(t, c, key) ==
  /\ Mounted(page[t], c)
  /\ Asks[c][Shown(t, c)] # Shown(t, c)
  /\ ~Busy(t, c)
  /\ key \notin drawn
  /\ drawn' = drawn \cup {key}
  /\ dialog' = [dialog EXCEPT ![t][c] =
       {[key |-> key, preview |-> {}, error |-> FALSE, opening |-> key,
         warned |-> FALSE]}]
  /\ calls' = calls \cup
       {[tab |-> t, control |-> c, kind |-> "preview", key |-> key,
         opening |-> key, to |-> Asks[c][Shown(t, c)],
         at |-> "sent", heard |-> TRUE]}
  /\ UNCHANGED <<runs, request, product, page, undos>>

(* Fault: a dialog closes while it waits for an answer. *)
FaultyCloseDialog(t, c) ==
  /\ dialog[t][c] # {}
  /\ dialog' = [dialog EXCEPT ![t][c] = {}]
  /\ UNCHANGED <<runs, request, product, page, calls, undos, drawn>>

CloseDialog(t, c) ==
  /\ dialog[t][c] # {}
  /\ ~Busy(t, c)
  /\ dialog' = [dialog EXCEPT ![t][c] = {}]
  /\ UNCHANGED <<runs, request, product, page, calls, undos, drawn>>

(* Fault: the button stays enabled while a call is pending. *)
FaultyMayConfirm(t, c, d) == d.preview # {}

MayConfirm(t, c, d) == d.preview # {} /\ ~Busy(t, c)

(* What is confirmed is what the control asks for now. *)
Confirm(t, c) ==
  \E d \in dialog[t][c] : \E key \in Kept(d) :
    /\ MayConfirm(t, c, d)
    /\ drawn' = drawn \cup {key}
    /\ dialog' = [dialog EXCEPT ![t][c] =
         {[d EXCEPT !.key = key, !.error = FALSE]}]
    /\ calls' = calls \cup
         {[tab |-> t, control |-> c, kind |-> "execute", key |-> key,
           opening |-> d.opening, to |-> Asks[c][Shown(t, c)],
           at |-> "sent", heard |-> TRUE]}
    /\ UNCHANGED <<runs, request, product, page, undos>>

(* All undo buttons of a page wait for the one that was clicked. *)
ClickUndo(t, key) ==
  /\ key \in page[t].undo
  /\ \A undo \in undos : undo.tab = t => ~undo.heard
  /\ undos' = undos \cup
       {[tab |-> t, key |-> key, at |-> "sent", heard |-> TRUE]}
  /\ UNCHANGED <<runs, request, product, page, dialog, calls, drawn>>

(* The user loads the page again, or its error page does after a call      *)
(* whose answer is lost.                                                   *)
Reload(t) ==
  /\ page' = [page EXCEPT ![t] = Fresh]
  /\ dialog' = [dialog EXCEPT ![t] = [c \in Controls |-> {}]]
  /\ calls' = {[call EXCEPT !.heard = @ /\ call.tab # t] : call \in calls}
  /\ undos' = {[undo EXCEPT !.heard = @ /\ undo.tab # t] : undo \in undos}
  /\ UNCHANGED <<runs, request, product, drawn>>

-----------------------------------------------------------------------------
(* The server functions.                                                   *)

At(call, where) == (calls \ {call}) \cup {[call EXCEPT !.at = where]}

(* Every error is an answer: no connection, a mutation that is not allowed *)
(* here, a row that is not there.                                          *)
Refuse(call) ==
  /\ call.at = "sent"
  /\ calls' = At(call, "error")
  /\ UNCHANGED <<runs, request, product, page, dialog, undos, drawn>>

(* A preview of what is already so warns, and is an answer all the same.   *)
ServePreview(call) ==
  /\ call.kind = "preview" /\ call.at = "sent"
  /\ product[RowOf[call.control]] # Gone
  /\ calls' = At(call, "ok")
  /\ UNCHANGED <<runs, request, product, page, dialog, undos, drawn>>

(* resolveTarget reads the row before the key is looked at. *)
Claim(call) ==
  /\ call.kind = "execute" /\ call.at = "sent"
  /\ product[RowOf[call.control]] # Gone
  /\ Audit!Claim(call.key, {call.key}, TRUE)
  /\ request' = [k \in DOMAIN runs' |->
       IF k = call.key
       THEN [row |-> RowOf[call.control], to |-> call.to, before |-> {},
             opening |-> call.opening]
       ELSE request[k]]
  /\ calls' = At(call, "working")
  /\ UNCHANGED <<product, page, dialog, undos, drawn>>

(* A run that is there is the answer whatever became of it, unless it was  *)
(* claimed for another input.                                              *)
ReturnExistingRun(call) ==
  /\ call.kind = "execute" /\ call.at = "sent"
  /\ product[RowOf[call.control]] # Gone
  /\ call.key \in DOMAIN runs
  /\ calls' = At(call, IF request[call.key].to = call.to THEN "ok" ELSE "error")
  /\ UNCHANGED <<runs, request, product, page, dialog, undos, drawn>>

(* The action writes the row and the run together. The answer may get lost *)
(* between PostgreSQL and the server.                                      *)
Complete(call) ==
  LET row == RowOf[call.control] IN
  /\ call.at = "working"
  /\ product[row] \notin {call.to, Gone}
  /\ Audit!Complete(call.key, FALSE)
  /\ request' = [request EXCEPT ![call.key].before = {product[row]}]
  /\ product' = [product EXCEPT ![row] = call.to]
  /\ \E answer \in {"ok", "error"} : calls' = At(call, answer)
  /\ UNCHANGED <<page, dialog, undos, drawn>>

Fail(call) ==
  /\ call.at = "working"
  /\ Audit!Fail(call.key)
  /\ calls' = At(call, "error")
  /\ UNCHANGED <<request, product, page, dialog, undos, drawn>>

(* The connection is lost before the run could be marked. *)
Strand(call) ==
  /\ call.at = "working"
  /\ runs[call.key].phase = "pending"
  /\ calls' = At(call, "error")
  /\ UNCHANGED <<runs, request, product, page, dialog, undos, drawn>>

UndoAt(undo, where) == (undos \ {undo}) \cup {[undo EXCEPT !.at = where]}

(* Expired, claimed by another undo, or no connection. An error carries    *)
(* the last conflict that is stored for the run.                           *)
RefuseUndo(undo) ==
  /\ undo.at = "sent"
  /\ \/ undos' = UndoAt(undo, "error")
     \/ runs[undo.key].phase = "undo_failed" /\ undos' = UndoAt(undo, "conflict")
  /\ UNCHANGED <<runs, request, product, page, dialog, calls, drawn>>

ClaimUndo(undo) ==
  /\ undo.at = "sent"
  /\ Audit!StartUndo(undo.key)
  /\ undos' = UndoAt(undo, "working")
  /\ UNCHANGED <<request, product, page, dialog, calls, drawn>>

(* The row still is what the run made of it, and becomes what it was. *)
Undo(undo) ==
  LET asked == request[undo.key] IN
  /\ undo.at = "working"
  /\ product[asked.row] = asked.to
  /\ Audit!Undo(undo.key)
  /\ \E value \in asked.before :
       product' = [product EXCEPT ![asked.row] = value]
  /\ \E answer \in {"ok", "error"} : undos' = UndoAt(undo, answer)
  /\ UNCHANGED <<request, page, dialog, calls, drawn>>

FailUndo(undo) ==
  /\ undo.at = "working"
  /\ Audit!RefuseUndo(undo.key)
  /\ \E answer \in {"conflict", "error"} : undos' = UndoAt(undo, answer)
  /\ UNCHANGED <<request, product, page, dialog, calls, drawn>>

StrandUndo(undo) ==
  /\ undo.at = "working"
  /\ undos' = UndoAt(undo, "error")
  /\ UNCHANGED <<runs, request, product, page, dialog, calls, drawn>>

-----------------------------------------------------------------------------
(* The answers.                                                            *)

(* The page of a tab is rendered again, and the dialog of the control that *)
(* asked for it, if one did, is reset.                                     *)
Refresh(t, reset) ==
  /\ page' = [page EXCEPT ![t] = Fresh]
  /\ dialog' = [dialog EXCEPT ![t] = [c \in Controls |->
       {d \in dialog[t][c] : Mounted(Fresh, c) /\ c \notin reset}]]

(* The calls of the controls that the new page still has are heard.        *)
StillHeard(t, set) ==
  {[call EXCEPT !.heard = @ /\ (call.tab = t => Mounted(Fresh, call.control))] :
     call \in set}

ShowPreview(call) ==
  /\ call.kind = "preview" /\ call.at = "ok" /\ call.heard
  /\ dialog' = [dialog EXCEPT ![call.tab][call.control] =
       {[d EXCEPT !.preview = {call.to}] : d \in @}]
  /\ calls' = calls \ {call}
  /\ UNCHANGED <<runs, request, product, page, undos, drawn>>

ShowError(call) ==
  /\ call.at = "error" /\ call.heard
  /\ dialog' = [dialog EXCEPT ![call.tab][call.control] =
       {[d EXCEPT !.error = TRUE,
                  !.warned = @ \/ call.kind = "execute"] : d \in @}]
  /\ calls' = calls \ {call}
  /\ UNCHANGED <<runs, request, product, page, undos, drawn>>

FinishDialog(call) ==
  /\ call.kind = "execute" /\ call.at = "ok" /\ call.heard
  /\ Refresh(call.tab, {call.control})
  /\ calls' = StillHeard(call.tab, calls \ {call})
  /\ UNCHANGED <<runs, request, product, undos, drawn>>

FinishUndo(undo) ==
  /\ undo.at \in {"ok", "conflict"} /\ undo.heard
  /\ Refresh(undo.tab, {})
  /\ calls' = StillHeard(undo.tab, calls)
  /\ undos' = undos \ {undo}
  /\ UNCHANGED <<runs, request, product, drawn>>

ShowUndoError(undo) ==
  /\ undo.at = "error" /\ undo.heard
  /\ undos' = undos \ {undo}
  /\ UNCHANGED <<runs, request, product, page, dialog, calls, drawn>>

Serve(call) ==
  Refuse(call) \/ ServePreview(call) \/ Claim(call) \/ ReturnExistingRun(call)
  \/ Complete(call) \/ Fail(call) \/ Strand(call)

Answer(call) == ShowPreview(call) \/ ShowError(call) \/ FinishDialog(call)

ServeUndo(undo) ==
  RefuseUndo(undo) \/ ClaimUndo(undo) \/ Undo(undo) \/ FailUndo(undo)
  \/ StrandUndo(undo)

AnswerUndo(undo) == FinishUndo(undo) \/ ShowUndoError(undo)

Next ==
  \/ \E t \in Tabs, c \in Controls :
       \/ \E key \in Keys : OpenPreview(t, c, key)
       \/ CloseDialog(t, c)
       \/ Confirm(t, c)
  \/ \E t \in Tabs : Reload(t) \/ \E key \in Keys : ClickUndo(t, key)
  \/ \E call \in calls : Serve(call) \/ Answer(call)
  \/ \E undo \in undos : ServeUndo(undo) \/ AnswerUndo(undo)

Spec == Init /\ [][Next]_vars

-----------------------------------------------------------------------------
(* However often a confirmation is sent again, after errors and lost       *)
(* answers, one opening of a dialog makes one run at most.                 *)
OneRunPerOpening ==
  \A k, l \in DOMAIN runs : request[k].opening = request[l].opening => k = l

(* A call is answered to the dialog that made it: the dialog is still open *)
(* with the same key, and a confirmation follows its own preview.          *)
AnswersMeetTheirDialog ==
  \A call \in calls : call.heard =>
    \E d \in dialog[call.tab][call.control] :
      d.key = call.key /\ (call.kind = "execute" => d.preview # {})

(* What is executed is what the dialog explained before it was confirmed.  *)
(* It is not: a control that turns a role to and fro asks for the other    *)
(* role once the page was rendered again under its open dialog.            *)
ConfirmedWasPreviewed ==
  \A call \in calls : call.heard /\ call.kind = "execute" =>
    \E d \in dialog[call.tab][call.control] : d.preview = {call.to}

(* A retry with the same key, input and target can return the existing     *)
(* run.  It can not once the run has removed the row: the target is looked *)
(* for first, and is not found.                                            *)
RetriesFindTheRun ==
  \A call \in calls :
    /\ call.kind = "execute" /\ call.at = "sent"
    /\ call.key \in DOMAIN runs /\ request[call.key].to = call.to
    => product[RowOf[call.control]] # Gone

(* A dialog that finishes as if all went well has taken effect, or had     *)
(* shown an error before: only then may its key name a run that failed or  *)
(* that nobody works on.                                                   *)
FinishedHasTakenEffect ==
  \A call \in calls :
    call.heard /\ call.kind = "execute" /\ call.at = "ok" =>
      \/ runs[call.key].phase \notin {"pending", "failed"}
      \/ \E d \in dialog[call.tab][call.control] : d.warned
=============================================================================
